--------------------------- MODULE BuildHpkProofs ---------------------------
(***************************************************************************)
(* Theorems about BuildHpk, for every catalogue of packages, every command *)
(* line and every csv.                                                     *)
(***************************************************************************)
EXTENDS BuildHpk, FiniteSetTheorems, TLAPS

(* While a child runs there is a current package.                          *)
InRound == pc \in {"depends", "result"} => i <= Len(notdonelist)

TypeInv == TypeOK /\ InRound
-----------------------------------------------------------------------------
(* Sequences                                                               *)

\* The set of the entries of a sequence that got one more.
LEMMA RangeAppend ==
  ASSUME NEW S, NEW s \in Seq(S), NEW y
  PROVE  Range(Append(s, y)) = Range(s) \cup {y}
<1>1. DOMAIN Append(s, y) = DOMAIN s \cup {Len(s) + 1}
  OBVIOUS
<1>2. /\ \A k \in DOMAIN s : Append(s, y)[k] = s[k]
      /\ Append(s, y)[Len(s) + 1] = y
  OBVIOUS
<1> QED BY <1>1, <1>2 DEF Range

\* The empty sequence has no entries, and only it.
LEMMA RangeEmpty ==
  ASSUME NEW S, NEW s \in Seq(S)
  PROVE  Range(s) = {} <=> s = <<>>
BY DEF Range

\* The entries of a sequence over S are in S.
LEMMA RangeSeq ==
  ASSUME NEW S, NEW s \in Seq(S)
  PROVE  Range(s) \subseteq S
BY DEF Range

LEMMA AppendType ==
  ASSUME NEW S, NEW s \in Seq(S), NEW y \in S
  PROVE  Append(s, y) \in Seq(S)
OBVIOUS

LEMMA AppendNewType ==
  ASSUME NEW S, NEW s \in Seq(S), NEW y \in S
  PROVE  AppendNew(s, y) \in Seq(S)
BY DEF AppendNew

LEMMA JobType ==
  ASSUME TypeOK, InRound, pc \in {"depends", "result"}
  PROVE  /\ Job \in HpkDirs /\ Job \in Pkg
         /\ depends[Job] \in Seq(Pkg)
BY PkgAssumption, CatalogsAssumption DEF TypeOK, InRound, Job

LEMMA InputType ==
  ASSUME TypeOK
  PROVE  /\ depends \in [Pkg -> Seq(Pkg)] /\ jobs \in Seq(Pkg) /\ csv \in Seq(Pkg)
BY CatalogsAssumption, JobListsAssumption, CsvFilesAssumption DEF TypeOK
-----------------------------------------------------------------------------
LEMMA TypeInit == Init => TypeInv
BY DEF Init, TypeInv, TypeOK, InRound

LEMMA TypeNext == TypeInv /\ [Next]_vars => TypeInv'
<1> SUFFICES ASSUME TypeInv, [Next]_vars PROVE TypeInv'
  OBVIOUS
<1> USE DEF TypeInv, TypeOK, InRound, input, lists, child
<1>0. CASE UNCHANGED vars
  BY <1>0 DEF vars
<1>1. CASE ReadDoneLine
  <2>1. csv[n] \in Pkg
    BY <1>1, InputType DEF ReadDoneLine
  <2>2. donelibs' \in Seq(Pkg)
    BY <1>1, <2>1, AppendNewType DEF ReadDoneLine
  <2> QED BY <1>1, <2>2 DEF ReadDoneLine
<1>2. CASE ReadDoneEnd
  BY <1>2 DEF ReadDoneEnd
<1>3. CASE MakeLibsDir
  BY <1>3 DEF MakeLibsDir, IsHpk
<1>4. CASE PrepareShell
  BY <1>4, RangeSeq DEF PrepareShell
<1>5. CASE RunMissing
  BY <1>5 DEF RunMissing
<1>6. CASE RunHpk
  BY <1>6 DEF RunHpk
<1>7. CASE CheckDepend
  <2> DEFINE hits == {k \in DOMAIN donelist : donelist[k] = depends[Job][n]}
  <2>1. IsFiniteSet(hits)
    <3>1. hits \subseteq 1 .. Len(donelist)
      OBVIOUS
    <3>2. IsFiniteSet(1 .. Len(donelist))
      BY FS_Interval
    <3> HIDE DEF hits
    <3> QED BY <3>1, <3>2, FS_Subset
  <2>2. Cardinality(hits) \in Nat
    BY <2>1, FS_CardinalityType
  <2>3. depends[Job][n] \in Pkg
    BY <1>7, JobType DEF CheckDepend
  <2>4. newdeps' \in Seq(Pkg)
    BY <1>7, <2>3 DEF CheckDepend
  <2>5. count' \in Nat
    BY <1>7, <2>2 DEF CheckDepend
  <2> QED BY <1>7, <2>4, <2>5 DEF CheckDepend
<1>8. CASE NotReady
  BY <1>8 DEF NotReady, Report
<1>9. CASE Compile
  BY <1>9 DEF Compile
<1>10. CASE JobDone
  <2>1. Job \in Pkg
    BY <1>10, JobType DEF JobDone
  <2>2. donelist' \in Seq(Pkg)
    <3>1. donelist' \in {donelist, Append(donelist, Job)}
      BY <1>10 DEF JobDone
    <3>2. donelist \in Seq(Pkg)
      OBVIOUS
    <3> QED BY ONLY <2>1, <3>1, <3>2, AppendType
  <2>3. linked' \subseteq HpkDirs
    BY <1>10 DEF JobDone
  <2> QED BY <1>10, <2>2, <2>3 DEF JobDone
<1>11. CASE AddDepend
  <2>1. Head(depfile) \in Pkg /\ Tail(depfile) \in Seq(Pkg)
    BY <1>11 DEF AddDepend
  <2>2. nextroundlist' \in Seq(HpkDirs)
    <3>1. \/ nextroundlist' = nextroundlist
          \/ /\ Head(depfile) \in HpkDirs
             /\ nextroundlist' = Append(nextroundlist, Head(depfile))
      BY <1>11 DEF AddDepend, IsHpk
    <3>2. nextroundlist \in Seq(HpkDirs)
      OBVIOUS
    <3> QED BY ONLY <3>1, <3>2, AppendType
  <2>4. hpkPaths' \in Seq(HpkDirs)
    <3>1. \/ hpkPaths' = hpkPaths
          \/ /\ Head(depfile) \in HpkDirs
             /\ hpkPaths' = Append(hpkPaths, Head(depfile))
      BY <1>11 DEF AddDepend, IsHpk, TakeOn
    <3>2. hpkPaths \in Seq(HpkDirs)
      OBVIOUS
    <3> QED BY ONLY <3>1, <3>2, AppendType
  <2>3. linked' \subseteq HpkDirs
    BY <1>11, <2>1 DEF AddDepend, IsHpk, LinkDepend
  <2> QED BY <1>11, <2>1, <2>2, <2>3, <2>4 DEF AddDepend
<1>12. CASE Requeue
  <2>1. nextroundlist' \in Seq(HpkDirs)
    <3>1. Job \in HpkDirs
      BY <1>12, JobType DEF Requeue
    <3> QED BY <1>12, <3>1, AppendNewType DEF Requeue, Wait
  <2> QED BY <1>12, <2>1 DEF Requeue
<1>13. CASE JobFailed
  BY <1>13, JobType DEF JobFailed
<1>14. CASE AllDone
  BY <1>14 DEF AllDone
<1>15. CASE Stuck
  BY <1>15 DEF Stuck
<1>16. CASE NextRound
  BY <1>16 DEF NextRound
<1>17. CASE CleanHpkDir
  BY <1>17 DEF CleanHpkDir
<1>18. CASE Exited
  BY <1>18 DEF Exited, vars
<1> QED
  BY <1>0, <1>1, <1>2, <1>3, <1>4, <1>5, <1>6, <1>7, <1>8, <1>9, <1>10,
     <1>11, <1>12, <1>13, <1>14, <1>15, <1>16, <1>17, <1>18 DEF Next
-----------------------------------------------------------------------------
(* builddepends compares the number of pairs of a dependency and an equal  *)
(* entry of donelist with the number of dependencies.  The two are equal   *)
(* exactly when everything is there only because donelist has no entry     *)
(* twice, so that no dependency counts for more than one.                  *)

\* So far no dependency counted twice, and none that is missing counted.
Counting ==
  pc = "depends" =>
    /\ n <= Len(depends[Job]) + 1
    /\ count <= n - 1
    /\ count = n - 1 => \A k \in 1 .. n - 1 : depends[Job][k] \in Done

\* A child that answers 0 found everything it depends on.
ReadyIfBuilt == pc = "result" /\ res = 0 => Range(depends[Job]) \subseteq Done

DoneLists ==
  /\ IsInjective(donelibs) /\ IsInjective(donelist)
  /\ IF pc = "read" THEN donelist = <<>> ELSE Len(donelibs) <= Len(donelist)

OrderInv == DoneLists /\ Counting /\ ReadyIfBuilt /\ DepsBuiltFirst

\* A sequence without repetitions stays one when it gets a new entry.
LEMMA InjectiveAppend ==
  ASSUME NEW S, NEW s \in Seq(S), NEW y \in S, IsInjective(s), y \notin Range(s)
  PROVE  IsInjective(Append(s, y))
<1>1. DOMAIN Append(s, y) = 1 .. Len(s) + 1 /\ DOMAIN s = 1 .. Len(s)
  OBVIOUS
<1>2. \A k \in 1 .. Len(s) : Append(s, y)[k] = s[k]
  OBVIOUS
<1>3. Append(s, y)[Len(s) + 1] = y
  OBVIOUS
<1> QED BY <1>1, <1>2, <1>3 DEF IsInjective, Range

\* In a sequence without repetitions a value is at one place or at none.
LEMMA Hits ==
  ASSUME NEW S, NEW s \in Seq(S), IsInjective(s), NEW y
  PROVE  LET hits == {k \in DOMAIN s : s[k] = y}
         IN  IF y \in Range(s) THEN Cardinality(hits) = 1 ELSE hits = {} /\ Cardinality(hits) = 0
<1> DEFINE hits == {k \in DOMAIN s : s[k] = y}
<1>1. CASE y \in Range(s)
  <2>1. PICK k \in DOMAIN s : s[k] = y
    BY <1>1 DEF Range
  <2>2. hits = {k}
    BY <2>1 DEF IsInjective
  <2> QED BY <1>1, <2>2, FS_Singleton
<1>2. CASE y \notin Range(s)
  <2>1. hits = {}
    BY <1>2 DEF Range
  <2> QED BY <1>2, <2>1, FS_EmptySet
<1> QED BY <1>1, <1>2

LEMMA OrderInit == Init => OrderInv
BY DEF Init, OrderInv, DoneLists, Counting, ReadyIfBuilt, DepsBuiltFirst,
       IsInjective

LEMMA DoneUnchanged ==
  ASSUME DoneLists, DepsBuiltFirst,
         UNCHANGED <<depends, donelibs, donelist>>, pc # "read", pc' # "read"
  PROVE  DoneLists' /\ DepsBuiltFirst'
<1>1. DoneLists'
  BY DEF DoneLists
<1>2. DepsBuiltFirst'
  <2>1. donelibs' = donelibs /\ donelist' = donelist /\ depends' = depends
    OBVIOUS
  <2> SUFFICES ASSUME NEW k \in Len(donelibs) + 1 .. Len(donelist),
                      NEW q \in Range(depends[donelist[k]])
               PROVE  \E m \in 1 .. k - 1 : donelist'[m] = q
    BY <2>1 DEF DepsBuiltFirst
  <2>2. q \in {donelist[m] : m \in 1 .. k - 1}
    BY DEF DepsBuiltFirst
  <2> QED BY <2>1, <2>2
<1> QED BY <1>1, <1>2

\* The steps that touch neither donelibs nor donelist nor the child.
LEMMA OrderUnchanged ==
  ASSUME OrderInv,
         UNCHANGED <<depends, donelibs, donelist>>,
         pc # "read", pc' \in {"select", "job", "clean", "exit"}
  PROVE  OrderInv'
<1>1. DoneLists' /\ DepsBuiltFirst'
  BY DoneUnchanged DEF OrderInv
<1>2. Counting' /\ ReadyIfBuilt'
  BY DEF Counting, ReadyIfBuilt
<1> QED BY <1>1, <1>2 DEF OrderInv

LEMMA OrderNext == TypeInv /\ OrderInv /\ [Next]_vars => OrderInv'
<1> SUFFICES ASSUME TypeInv, OrderInv, [Next]_vars PROVE OrderInv'
  OBVIOUS
<1> USE DEF input, lists, child
<1>t. /\ donelist \in Seq(Pkg) /\ donelibs \in Seq(Pkg) /\ count \in Nat
      /\ n \in Nat \ {0} /\ depends \in [Pkg -> Seq(Pkg)] /\ csv \in Seq(Pkg)
  BY InputType DEF TypeInv, TypeOK
<1>j. pc \in {"depends", "result"} =>
        Job \in Pkg /\ Job \in HpkDirs /\ depends[Job] \in Seq(Pkg)
  BY JobType DEF TypeInv
<1>0. CASE UNCHANGED vars
  <2>1. CASE pc = "read"
    BY <1>0, <2>1 DEF vars, OrderInv, DoneLists, Counting, ReadyIfBuilt,
                      DepsBuiltFirst
  <2>2. CASE pc # "read"
    <3>1. DoneLists' /\ DepsBuiltFirst'
      BY <1>0, <2>2, DoneUnchanged DEF vars, OrderInv
    <3>2. Counting' /\ ReadyIfBuilt'
      BY <1>0 DEF vars, OrderInv, Counting, ReadyIfBuilt, Job, Done
    <3> QED BY <3>1, <3>2 DEF OrderInv
  <2> QED BY <2>1, <2>2
<1>1. CASE ReadDoneLine
  <2>1. csv[n] \in Pkg
    BY <1>1, <1>t DEF ReadDoneLine
  <2>2. IsInjective(donelibs')
    BY <1>1, <1>t, <2>1, InjectiveAppend
       DEF ReadDoneLine, AppendNew, OrderInv, DoneLists
  <2> QED BY <1>1, <2>2 DEF ReadDoneLine, OrderInv, DoneLists, Counting,
                            ReadyIfBuilt, DepsBuiltFirst
<1>2. CASE ReadDoneEnd
  BY <1>2, <1>t DEF ReadDoneEnd, OrderInv, DoneLists, Counting, ReadyIfBuilt,
                    DepsBuiltFirst
<1>3. CASE MakeLibsDir
  BY <1>3, OrderUnchanged DEF MakeLibsDir
<1>4. CASE PrepareShell
  BY <1>4, OrderUnchanged DEF PrepareShell
<1>5. CASE RunMissing
  <2>1. DoneLists' /\ DepsBuiltFirst'
    BY <1>5, DoneUnchanged DEF RunMissing, OrderInv
  <2> QED BY <1>5, <2>1 DEF RunMissing, OrderInv, Counting, ReadyIfBuilt
<1>6. CASE RunHpk
  <2>1. Counting'
    <3> SUFFICES ASSUME pc' = "depends" PROVE Counting'
      BY DEF Counting
    <3>1. n' = 1 /\ count' = 0 /\ Job' = Job /\ depends' = depends
      BY <1>6 DEF RunHpk, Job
    <3>2. Len(depends[Job]) \in Nat
      BY <1>6, <1>t, PkgAssumption DEF TypeInv, TypeOK, RunHpk, Job
    <3> QED BY <3>1, <3>2 DEF Counting
  <2> QED BY <1>6, <2>1 DEF RunHpk, OrderInv, DoneLists, ReadyIfBuilt,
                            DepsBuiltFirst
<1>7. CASE CheckDepend
  <2> DEFINE hits == {k \in DOMAIN donelist : donelist[k] = depends[Job][n]}
  <2>1. /\ pc = "depends" /\ n <= Len(depends[Job])
        /\ count' = count + Cardinality(hits) /\ n' = n + 1
        /\ pc' = "depends" /\ Job' = Job
        /\ UNCHANGED <<depends, donelist, donelibs>>
    BY <1>7 DEF CheckDepend, Job
  <2>2. IF depends[Job][n] \in Done THEN Cardinality(hits) = 1
        ELSE Cardinality(hits) = 0
    BY <1>t, Hits DEF OrderInv, DoneLists, Done
  <2>3. Counting'
    <3> HIDE DEF hits
    <3>1. /\ count <= n - 1
          /\ count = n - 1 => \A k \in 1 .. n - 1 : depends[Job][k] \in Done
      BY <2>1 DEF OrderInv, Counting
    <3>2. count' <= n' - 1
      BY <2>1, <2>2, <3>1, <1>t
    <3>3. ASSUME count' = n' - 1
          PROVE  \A k \in 1 .. n' - 1 : depends[Job][k] \in Done
      BY <2>1, <2>2, <3>1, <3>3, <1>t
    <3>4. Len(depends[Job]) \in Nat
      BY <2>1, <1>j
    <3>5. Done' = Done
      BY <2>1 DEF Done
    <3> QED BY <2>1, <3>2, <3>3, <3>4, <3>5, <1>t DEF Counting
  <2> QED BY <2>1, <2>3 DEF OrderInv, DoneLists, ReadyIfBuilt, DepsBuiltFirst
<1>8. CASE NotReady
  <2>1. DoneLists' /\ DepsBuiltFirst'
    BY <1>8, DoneUnchanged DEF NotReady, OrderInv
  <2> QED BY <1>8, <2>1 DEF NotReady, OrderInv, Counting, ReadyIfBuilt
<1>9. CASE Compile
  <2>1. /\ pc = "depends" /\ n > Len(depends[Job]) /\ count = Len(depends[Job])
        /\ pc' = "result" /\ UNCHANGED <<depends, donelist, donelibs>>
        /\ Job' = Job
    BY <1>9 DEF Compile, Job
  <2>2. Len(depends[Job]) \in Nat
    BY <2>1, <1>j
  <2>3. n <= Len(depends[Job]) + 1 /\ count <= n - 1
    BY <2>1 DEF OrderInv, Counting
  <2>4. n - 1 = Len(depends[Job]) /\ count = n - 1
    BY <2>1, <2>2, <2>3, <1>t
  <2>5. \A k \in 1 .. Len(depends[Job]) : depends[Job][k] \in Done
    BY <2>1, <2>4 DEF OrderInv, Counting
  <2>6. Range(depends[Job]) \subseteq Done
    BY <2>1, <2>5, <1>j DEF Range
  <2>7. ReadyIfBuilt'
    BY <2>1, <2>6 DEF ReadyIfBuilt, Done
  <2>8. DoneLists' /\ DepsBuiltFirst'
    BY <2>1, DoneUnchanged DEF OrderInv
  <2> QED BY <2>1, <2>7, <2>8 DEF OrderInv, Counting
<1>10. CASE JobDone
  <2>1. CASE Job \in Done
    BY <1>10, <2>1, OrderUnchanged DEF JobDone
  <2>2. CASE Job \notin Done
    <3>1. /\ donelist' = Append(donelist, Job) /\ pc' = "job"
          /\ pc = "result" /\ res = 0 /\ UNCHANGED <<depends, donelibs>>
      BY <1>10, <2>2 DEF JobDone
    <3>2. IsInjective(donelist')
      BY <3>1, <2>2, <1>t, <1>j, InjectiveAppend DEF OrderInv, DoneLists, Done
    <3>3. /\ Len(donelist') = Len(donelist) + 1
          /\ donelist'[Len(donelist) + 1] = Job
          /\ \A m \in 1 .. Len(donelist) : donelist'[m] = donelist[m]
      BY <3>1, <1>t, <1>j
    <3>4. Range(depends[Job]) \subseteq {donelist'[m] : m \in 1 .. Len(donelist)}
      <4>1. Range(depends[Job]) \subseteq Done
        BY <3>1 DEF OrderInv, ReadyIfBuilt
      <4>2. Done = {donelist[m] : m \in 1 .. Len(donelist)}
        <5>1. DOMAIN donelist = 1 .. Len(donelist)
          BY <1>t
        <5> QED BY <5>1 DEF Done, Range
      <4> QED BY <4>1, <4>2, <3>3
    <3>5. DepsBuiltFirst'
      <4> SUFFICES ASSUME NEW k \in Len(donelibs) + 1 .. Len(donelist) + 1
                   PROVE  Range(depends[donelist'[k]])
                            \subseteq {donelist'[m] : m \in 1 .. k - 1}
        BY <3>1, <3>3 DEF DepsBuiltFirst
      <4>1. CASE k = Len(donelist) + 1
        BY <4>1, <3>3, <3>4, <1>t
      <4>2. CASE k # Len(donelist) + 1
        <5>1. k \in Len(donelibs) + 1 .. Len(donelist) /\ k \in 1 .. Len(donelist)
          BY <4>2, <1>t
        <5>2. Range(depends[donelist[k]]) \subseteq {donelist[m] : m \in 1 .. k - 1}
          BY <5>1, <3>1 DEF OrderInv, DepsBuiltFirst
        <5>3. donelist'[k] = donelist[k]
          BY <5>1, <3>3
        <5>4. {donelist[m] : m \in 1 .. k - 1} = {donelist'[m] : m \in 1 .. k - 1}
          <6>1. \A m \in 1 .. k - 1 : m \in 1 .. Len(donelist)
            BY <5>1, <1>t
          <6>2. \A m \in 1 .. k - 1 : donelist'[m] = donelist[m]
            BY <6>1, <3>3
          <6> QED BY <6>2
        <5> QED BY <5>2, <5>3, <5>4
      <4> QED BY <4>1, <4>2
    <3> QED BY <3>1, <3>2, <3>3, <3>5, <1>t
            DEF OrderInv, DoneLists, Counting, ReadyIfBuilt
  <2> QED BY <2>1, <2>2
<1>11. CASE AddDepend
  <2>1. DoneLists' /\ DepsBuiltFirst'
    BY <1>11, DoneUnchanged DEF AddDepend, OrderInv
  <2> QED BY <1>11, <2>1 DEF AddDepend, OrderInv, Counting, ReadyIfBuilt
<1>12. CASE Requeue
  BY <1>12, OrderUnchanged DEF Requeue
<1>13. CASE JobFailed
  BY <1>13, OrderUnchanged DEF JobFailed
<1>14. CASE AllDone
  BY <1>14, OrderUnchanged DEF AllDone, RoundOver
<1>15. CASE Stuck
  BY <1>15, OrderUnchanged DEF Stuck, RoundOver
<1>16. CASE NextRound
  BY <1>16, OrderUnchanged DEF NextRound, RoundOver
<1>17. CASE CleanHpkDir
  BY <1>17, OrderUnchanged DEF CleanHpkDir
<1>18. CASE Exited
  BY <1>18, <1>0 DEF Exited
<1> QED
  BY <1>0, <1>1, <1>2, <1>3, <1>4, <1>5, <1>6, <1>7, <1>8, <1>9, <1>10,
     <1>11, <1>12, <1>13, <1>14, <1>15, <1>16, <1>17, <1>18 DEF Next
-----------------------------------------------------------------------------
(* No package and no dependency gets lost between the lists.               *)

\* Everything that is somewhere in the lists.
Kept == Done \cup Failed \cup Range(nextroundlist) \cup Pending

\* The packages of this round that were run.
Ran == {notdonelist[k] : k \in 1 .. i - 1}

Selected == pc \notin {"read", "select"}

\* The packages of this round are somewhere.
RoundKept == Selected => Range(notdonelist) \subseteq Kept

\* A package of this round is in the next one only after it was run.
NextRan == Range(nextroundlist) \cap Range(notdonelist) \subseteq Ran

\* The child names every dependency that is not built.
Named ==
  pc = "depends" =>
    \A k \in 1 .. n - 1 : depends[Job][k] \in Done \cup Range(newdeps)

\* A dependency build.sh was told of is in a list or still in the file.
Told ==
  pc = "result" /\ res = 101 =>
    Range(depends[Job]) \cap HpkDirs \subseteq
      Done \cup Failed \cup Range(nextroundlist) \cup Range(notdonelist)
           \cup Range(depfile)

\* Before the first round no list has anything.
Fresh == ~ Selected => nextroundlist = <<>> /\ i = 1

KeptInv ==
  Fresh /\ NoJobLost /\ RoundKept /\ NextRan /\ Named /\ Told /\ NoDependencyForgotten

LEMMA RangeConcat ==
  ASSUME NEW S, NEW s \in Seq(S), NEW t \in Seq(S)
  PROVE  Range(s \o t) = Range(s) \cup Range(t)
<1>1. DOMAIN (s \o t) = 1 .. Len(s) + Len(t) /\ DOMAIN s = 1 .. Len(s)
        /\ DOMAIN t = 1 .. Len(t)
  OBVIOUS
<1>2. \A k \in 1 .. Len(s) : (s \o t)[k] = s[k]
  OBVIOUS
<1>3. \A k \in 1 .. Len(t) : Len(s) + k \in DOMAIN (s \o t)
                               /\ (s \o t)[Len(s) + k] = t[k]
  OBVIOUS
<1>4. \A k \in DOMAIN (s \o t) :
        k \in 1 .. Len(s) \/ (k - Len(s) \in 1 .. Len(t) /\ (s \o t)[k] = t[k - Len(s)])
  OBVIOUS
<1>5. Range(s \o t) \subseteq Range(s) \cup Range(t)
  BY <1>1, <1>2, <1>4 DEF Range
<1>6. Range(s) \subseteq Range(s \o t)
  BY <1>1, <1>2 DEF Range
<1>7. Range(t) \subseteq Range(s \o t)
  BY <1>1, <1>3 DEF Range
<1> QED BY <1>5, <1>6, <1>7

LEMMA RangeHead ==
  ASSUME NEW S, NEW s \in Seq(S), s # <<>>
  PROVE  Range(s) = {Head(s)} \cup Range(Tail(s))
<1>1. /\ Len(Tail(s)) = Len(s) - 1 /\ Len(s) \in Nat \ {0}
      /\ DOMAIN s = 1 .. Len(s) /\ DOMAIN Tail(s) = 1 .. Len(s) - 1
      /\ \A k \in 1 .. Len(s) - 1 : Tail(s)[k] = s[k + 1]
      /\ Head(s) = s[1]
  OBVIOUS
<1>2. Range(s) \subseteq {Head(s)} \cup Range(Tail(s))
  <2> SUFFICES ASSUME NEW k \in 1 .. Len(s), k # 1
               PROVE  s[k] \in Range(Tail(s))
    BY <1>1 DEF Range
  <2>1. k - 1 \in 1 .. Len(s) - 1 /\ Tail(s)[k - 1] = s[k]
    BY <1>1
  <2> QED BY <1>1, <2>1 DEF Range
<1>3. Range(Tail(s)) \subseteq Range(s)
  BY <1>1 DEF Range
<1>4. Head(s) \in Range(s)
  BY <1>1 DEF Range
<1> QED BY <1>2, <1>3, <1>4

LEMMA RangeAppendNew ==
  ASSUME NEW S, NEW s \in Seq(S), NEW y
  PROVE  Range(AppendNew(s, y)) = Range(s) \cup {y}
BY RangeAppend DEF AppendNew

\* At the head of a round everything is pending, at its end nothing.
LEMMA RangeAll ==
  ASSUME NEW S, NEW s \in Seq(S)
  PROVE  {s[k] : k \in 1 .. Len(s)} = Range(s)
BY DEF Range

LEMMA PendingOver ==
  ASSUME TypeOK, i > Len(notdonelist)
  PROVE  Pending = {} /\ Ran = Range(notdonelist) \cup Ran
<1>1. Pending = {}
  BY DEF TypeOK, Pending
<1>2. Range(notdonelist) \subseteq Ran
  BY DEF TypeOK, Range, Ran
<1> QED BY <1>1, <1>2

\* The step to the next package moves the current one from Pending to Ran.
LEMMA PendingStep ==
  ASSUME TypeOK, i <= Len(notdonelist), i' = i + 1, notdonelist' = notdonelist
  PROVE  /\ Pending = Pending' \cup {Job}
         /\ Ran' = Ran \cup {Job}
<1>1. /\ i \in Nat \ {0} /\ Len(notdonelist) \in Nat
  BY DEF TypeOK
<1>2. i .. Len(notdonelist) = (i + 1 .. Len(notdonelist)) \cup {i}
  BY <1>1
<1>3. 1 .. (i + 1) - 1 = (1 .. i - 1) \cup {i}
  BY <1>1
<1> QED BY <1>2, <1>3 DEF Pending, Ran, Job
-----------------------------------------------------------------------------
LEMMA KeptInit == Init => KeptInv
BY DEF Init, KeptInv, Fresh, NoJobLost, RoundKept, NextRan, Named, Told, Selected,
       NoDependencyForgotten, Range

\* A step that leaves the lists alone, in a round or after it.
LEMMA KeptUnchanged ==
  ASSUME KeptInv, Selected, Selected',
         UNCHANGED <<depends, donelist, lists, notdonelist, i>>
  PROVE  /\ NoJobLost' /\ RoundKept' /\ NextRan' /\ NoDependencyForgotten'
         /\ Fresh'
         /\ Kept' = Kept /\ Ran' = Ran /\ Job' = Job
<1> USE DEF lists
<1>1. Kept' = Kept /\ Ran' = Ran /\ Pending' = Pending /\ Done' = Done
        /\ Failed' = Failed /\ Job' = Job
  BY DEF Kept, Ran, Pending, Done, Failed, Job
<1>2. NoJobLost' /\ RoundKept' /\ NextRan'
  BY <1>1 DEF KeptInv, NoJobLost, RoundKept, NextRan, Selected
<1>3. NoDependencyForgotten'
  BY <1>1 DEF KeptInv, NoDependencyForgotten
<1>4. Fresh'
  BY DEF Fresh
<1> QED BY <1>1, <1>2, <1>3, <1>4

\* The step from one package to the next, when the package was settled or
\* queued: nothing but the current package leaves a list, and it joins one.
LEMMA KeptJob ==
  ASSUME TypeInv, KeptInv, pc = "result", pc' = "job",
         i' = i + 1, UNCHANGED <<depends, notdonelist, hpkPaths>>,
         Done \subseteq Done', Failed \subseteq Failed',
         Range(nextroundlist) \subseteq Range(nextroundlist)',
         Range(nextroundlist)' \subseteq Range(nextroundlist) \cup {Job},
         Job \in Done' \cup Failed' \cup Range(nextroundlist)',
         Job \in Range(nextroundlist)' =>
           \/ Job \in Range(nextroundlist)
           \/ Range(depends[Job]) \cap HpkDirs \subseteq Kept
  PROVE  KeptInv'
<1>1. Pending = Pending' \cup {Job} /\ Ran' = Ran \cup {Job}
  BY PendingStep DEF TypeInv, InRound
<1>2. Kept \subseteq Kept'
  BY <1>1 DEF Kept
<1>3. NoJobLost' /\ RoundKept'
  BY <1>2 DEF KeptInv, NoJobLost, RoundKept, Selected, Kept
<1>4. NextRan'
  BY <1>1 DEF KeptInv, NextRan
<1>5. Named' /\ Told'
  BY DEF Named, Told
<1>6. Job \in Range(notdonelist)
  BY DEF TypeInv, TypeOK, InRound, Job, Range
<1>7. NoDependencyForgotten'
  <2> SUFFICES ASSUME NEW p \in Range(nextroundlist)' \cap Ran'
               PROVE  Range(depends[p]) \cap HpkDirs \subseteq Kept'
    BY DEF NoDependencyForgotten, Kept, Ran
  <2>1. CASE p \in Range(nextroundlist)
    <3>1. p \in Ran
      BY <2>1, <1>1, <1>6 DEF KeptInv, NextRan
    <3> QED BY <2>1, <3>1, <1>2 DEF KeptInv, NoDependencyForgotten, Kept, Ran
  <2>2. CASE p \notin Range(nextroundlist)
    BY <2>2, <1>2
  <2> QED BY <2>1, <2>2
<1>8. Fresh'
  BY DEF Fresh, Selected
<1> QED BY <1>3, <1>4, <1>5, <1>7, <1>8 DEF KeptInv

LEMMA KeptNext == TypeInv /\ OrderInv /\ KeptInv /\ [Next]_vars => KeptInv'
<1> SUFFICES ASSUME TypeInv, OrderInv, KeptInv, [Next]_vars PROVE KeptInv'
  OBVIOUS
<1> USE DEF input, lists, child
<1>t. /\ donelist \in Seq(Pkg) /\ hpkPaths \in Seq(HpkDirs)
      /\ notdonelist \in Seq(HpkDirs) /\ nextroundlist \in Seq(HpkDirs)
      /\ buildfalselist \in Seq(HpkDirs) /\ depfile \in Seq(Pkg)
      /\ newdeps \in Seq(Pkg) /\ n \in Nat \ {0} /\ i \in Nat \ {0}
  BY DEF TypeInv, TypeOK
<1>j. pc \in {"depends", "result"} =>
        Job \in Pkg /\ Job \in HpkDirs /\ depends[Job] \in Seq(Pkg)
  BY JobType DEF TypeInv
<1>0. CASE UNCHANGED vars
  <2>1. CASE Selected
    <3>1. Named' /\ Told'
      BY <1>0 DEF vars, KeptInv, Named, Told, Job, Done, Failed
    <3> QED BY <1>0, <2>1, <3>1, KeptUnchanged DEF vars, KeptInv, Selected
  <2>2. CASE ~ Selected
    BY <1>0, <2>2 DEF vars, KeptInv, Fresh, NoJobLost, RoundKept, NextRan, Named,
                      Told, NoDependencyForgotten, Selected, Ran, Kept,
                      Pending, Done, Failed
  <2> QED BY <2>1, <2>2
<1>1. CASE ReadDoneLine \/ ReadDoneEnd \/ MakeLibsDir
  <2>1. ~ Selected /\ ~ Selected' /\ UNCHANGED <<nextroundlist, notdonelist, i>>
    BY <1>1 DEF ReadDoneLine, ReadDoneEnd, MakeLibsDir, Selected
  <2>2. Ran' = Ran
    BY <2>1 DEF Ran
  <2>3. NextRan' /\ NoJobLost' /\ RoundKept'
    BY <2>1, <2>2 DEF KeptInv, NextRan, NoJobLost, RoundKept, Selected
  <2>4. Named' /\ Told'
    BY <2>1 DEF Named, Told, Selected
  <2>5. Fresh'
    BY <2>1 DEF KeptInv, Fresh
  <2>6. NoDependencyForgotten'
    BY <2>1 DEF KeptInv, Fresh, NoDependencyForgotten, Range
  <2> QED BY <2>3, <2>4, <2>5, <2>6 DEF KeptInv
<1>4. CASE PrepareShell
  <2>1. /\ pc' = "job" /\ i' = 1 /\ notdonelist' = hpkPaths
        /\ UNCHANGED lists
    BY <1>4 DEF PrepareShell
  <2>2. Pending' = Range(notdonelist)'
    BY <2>1, <1>t, RangeAll DEF Pending
  <2>3. Ran' = {} /\ Range(nextroundlist)' = {}
    BY <2>1, <1>4 DEF Ran, PrepareShell, KeptInv, Fresh, Selected, Range
  <2>4. NoJobLost' /\ RoundKept' /\ Fresh'
    BY <2>1, <2>2 DEF NoJobLost, RoundKept, Kept, Fresh, Selected
  <2>5. NextRan' /\ Named' /\ Told' /\ NoDependencyForgotten'
    BY <2>1, <2>3 DEF NextRan, Named, Told, NoDependencyForgotten
  <2> QED BY <2>4, <2>5 DEF KeptInv
<1>5. CASE RunMissing
  <2>1. Named' /\ Told'
    BY <1>5 DEF RunMissing, Named, Told
  <2> QED BY <1>5, <2>1, KeptUnchanged DEF RunMissing, KeptInv, Selected
<1>6. CASE RunHpk
  <2>1. Named' /\ Told'
    BY <1>6 DEF RunHpk, Named, Told
  <2> QED BY <1>6, <2>1, KeptUnchanged DEF RunHpk, KeptInv, Selected
<1>7. CASE CheckDepend
  <2>1. Job' = Job /\ pc = "depends" /\ pc' = "depends" /\ n' = n + 1
          /\ n <= Len(depends[Job]) /\ depends' = depends /\ Done' = Done
    BY <1>7 DEF CheckDepend, Job, Done
  <2>2. depends[Job][n] \in Done \cup Range(newdeps')
    <3>1. CASE depends[Job][n] \in Done
      BY <3>1
    <3>2. CASE depends[Job][n] \notin Done
      <4>1. {k \in DOMAIN donelist : donelist[k] = depends[Job][n]} = {}
        BY <3>2 DEF Done, Range
      <4>2. newdeps' = Append(newdeps, depends[Job][n])
        BY <4>1, <1>7 DEF CheckDepend
      <4> QED BY <4>2, <1>t, RangeAppend
    <3> QED BY <3>1, <3>2
  <2>3. Range(newdeps) \subseteq Range(newdeps')
    <3>1. newdeps' \in {newdeps, Append(newdeps, depends[Job][n])}
      BY <1>7 DEF CheckDepend
    <3> QED BY <3>1, <1>t, RangeAppend
  <2>4. Named'
    <3> SUFFICES ASSUME NEW k \in 1 .. n
                 PROVE  depends[Job][k] \in Done \cup Range(newdeps')
      BY <2>1, <1>t DEF Named
    <3>1. CASE k = n
      BY <3>1, <2>2
    <3>2. CASE k # n
      BY <3>2, <2>1, <2>3, <1>t DEF KeptInv, Named
    <3> QED BY <3>1, <3>2
  <2>5. Told'
    BY <2>1 DEF Told
  <2> QED BY <1>7, <2>1, <2>4, <2>5, KeptUnchanged
          DEF CheckDepend, KeptInv, Selected
<1>8. CASE NotReady
  <2>1. /\ pc = "depends" /\ pc' = "result" /\ n > Len(depends[Job])
        /\ depfile' = depfile \o newdeps
        /\ UNCHANGED <<depends, donelist, lists, notdonelist, i>>
    BY <1>8 DEF NotReady, Report
  <2>2. n - 1 = Len(depends[Job])
    BY <2>1, <1>t, <1>j DEF OrderInv, Counting
  <2>3. Range(depends[Job]) \subseteq Done \cup Range(newdeps)
    BY <2>1, <2>2, <1>j DEF KeptInv, Named, Range
  <2>4. Range(depfile)' = Range(depfile) \cup Range(newdeps)
    BY <2>1, <1>t, RangeConcat
  <2>5. Told'
    BY <2>1, <2>3, <2>4 DEF Told, Job, Done, Failed
  <2>6. Named'
    BY <2>1 DEF Named
  <2> QED BY <2>1, <2>5, <2>6, KeptUnchanged DEF KeptInv, Selected
<1>9. CASE Compile
  <2>1. Named' /\ Told'
    BY <1>9 DEF Compile, Named, Told
  <2> QED BY <1>9, <2>1, KeptUnchanged DEF Compile, KeptInv, Selected
<1>10. CASE JobDone
  <2>1. Done' = Done \cup {Job}
    <3>1. \/ Job \in Done /\ donelist' = donelist
          \/ donelist' = Append(donelist, Job)
      BY <1>10 DEF JobDone
    <3> QED BY <3>1, <1>t, RangeAppend DEF Done
  <2>2. Range(depends[Job]) \subseteq Done
    BY <1>10 DEF JobDone, OrderInv, ReadyIfBuilt
  <2> QED BY <1>10, <2>1, <2>2, KeptJob DEF JobDone, Failed, Kept
<1>11. CASE AddDepend
  <2> DEFINE d == Head(depfile)
  <2>1. /\ pc = "result" /\ pc' = "result" /\ depfile # <<>>
        /\ depfile' = Tail(depfile)
        /\ UNCHANGED <<depends, donelist, buildfalselist, notdonelist, i, res>>
        /\ Done' = Done /\ Failed' = Failed /\ Pending' = Pending
        /\ Ran' = Ran /\ Job' = Job
    BY <1>11 DEF AddDepend, Done, Failed, Pending, Ran, Job
  <2>2. Range(depfile) = {d} \cup Range(depfile)'
    BY <2>1, <1>t, RangeHead
  <2>3. CASE IsHpk(d) /\ IsNew(d)
    <3>1. /\ nextroundlist' = Append(nextroundlist, d)
          /\ hpkPaths' = Append(hpkPaths, d)
      BY <1>11, <2>3 DEF AddDepend, TakeOn
    <3>2. /\ Range(nextroundlist)' = Range(nextroundlist) \cup {d}
          /\ Range(hpkPaths)' = Range(hpkPaths) \cup {d}
      BY <3>1, <1>t, RangeAppend
    <3>3. d \notin Range(notdonelist)
      BY <2>3 DEF IsNew
    <3>4. Kept' = Kept \cup {d}
      BY <2>1, <3>2 DEF Kept
    <3>5. NoJobLost' /\ RoundKept'
      BY <2>1, <3>2, <3>4 DEF KeptInv, NoJobLost, RoundKept, Selected, Kept
    <3>6. NextRan'
      BY <2>1, <3>2, <3>3 DEF KeptInv, NextRan
    <3>7. Told'
      BY <2>1, <2>2, <3>2 DEF KeptInv, Told
    <3>8. Range(nextroundlist)' \cap Ran' = Range(nextroundlist) \cap Ran
      <4>1. Ran \subseteq Range(notdonelist)
        BY <2>1, <1>t DEF Ran, Range, TypeInv, InRound
      <4> QED BY <4>1, <2>1, <3>2, <3>3
    <3>9. NoDependencyForgotten'
      BY <2>1, <3>4, <3>8 DEF KeptInv, NoDependencyForgotten, Kept, Ran
    <3> QED BY <2>1, <3>5, <3>6, <3>7, <3>9 DEF KeptInv, Named, Fresh, Selected
  <2>4. CASE ~ (IsHpk(d) /\ IsNew(d))
    <3>1. UNCHANGED lists
      BY <1>11, <2>4 DEF AddDepend
    <3>2. Told'
      BY <2>1, <2>2, <2>4, <3>1 DEF KeptInv, Told, IsHpk, IsNew
    <3> QED BY <2>1, <3>1, <3>2, KeptUnchanged DEF KeptInv, Named, Selected
  <2> QED BY <2>3, <2>4
<1>12. CASE Requeue
  <2>1. Range(nextroundlist)' = Range(nextroundlist) \cup {Job}
    BY <1>12, <1>t, RangeAppendNew DEF Requeue, Wait
  <2>2. Range(depends[Job]) \cap HpkDirs \subseteq Kept
    BY <1>12 DEF Requeue, KeptInv, Told, RoundKept, Selected, Kept, Range
  <2> QED BY <1>12, <2>1, <2>2, KeptJob DEF Requeue, Done, Failed
<1>13. CASE JobFailed
  <2>1. Failed' = Failed \cup {Job}
    BY <1>13, <1>t, RangeAppend DEF JobFailed, Failed
  <2> QED BY <1>13, <2>1, KeptJob DEF JobFailed, Done
<1>14. CASE AllDone
  <2>1. Named' /\ Told'
    BY <1>14 DEF AllDone, Named, Told
  <2> QED BY <1>14, <2>1, KeptUnchanged DEF AllDone, RoundOver, KeptInv, Selected
<1>15. CASE Stuck
  <2>1. Named' /\ Told'
    BY <1>15 DEF Stuck, Named, Told
  <2> QED BY <1>15, <2>1, KeptUnchanged DEF Stuck, RoundOver, KeptInv, Selected
<1>16. CASE NextRound
  <2>1. /\ pc = "job" /\ pc' = "job" /\ i > Len(notdonelist) /\ i' = 1
        /\ notdonelist' = nextroundlist /\ nextroundlist' = <<>>
        /\ UNCHANGED <<depends, donelist, hpkPaths, buildfalselist>>
        /\ Done' = Done /\ Failed' = Failed
    BY <1>16 DEF NextRound, RoundOver, Done, Failed
  <2>2. Pending = {}
    BY <2>1, PendingOver DEF TypeInv
  <2>3. Pending' = Range(notdonelist)' /\ Range(nextroundlist)' = {}
    <3>1. Pending' = Range(notdonelist)'
      BY <2>1, <1>t, RangeAll DEF Pending
    <3>2. Range(nextroundlist)' = {}
      BY <2>1 DEF Range
    <3> QED BY <3>1, <3>2
  <2>4. Kept' = Kept
    BY <2>1, <2>2, <2>3 DEF Kept
  <2>5. NoJobLost' /\ RoundKept'
    BY <2>1, <2>3, <2>4 DEF KeptInv, NoJobLost, RoundKept, Selected, Kept
  <2> QED BY <2>1, <2>3, <2>5
          DEF KeptInv, Fresh, Selected, NextRan, Named, Told,
              NoDependencyForgotten
<1>17. CASE CleanHpkDir
  <2>1. Named' /\ Told'
    BY <1>17 DEF CleanHpkDir, Named, Told
  <2> QED BY <1>17, <2>1, KeptUnchanged DEF CleanHpkDir, KeptInv, Selected
<1>18. CASE Exited
  BY <1>18, <1>0 DEF Exited
<1> QED
  BY <1>0, <1>1, <1>4, <1>5, <1>6, <1>7, <1>8, <1>9, <1>10, <1>11, <1>12,
     <1>13, <1>14, <1>15, <1>16, <1>17, <1>18 DEF Next
-----------------------------------------------------------------------------
LEMMA Invariance == Spec => [](TypeInv /\ OrderInv /\ KeptInv)
<1>1. Init => TypeInv /\ OrderInv /\ KeptInv
  BY TypeInit, OrderInit, KeptInit
<1>2. TypeInv /\ OrderInv /\ KeptInv /\ [Next]_vars
        => (TypeInv /\ OrderInv /\ KeptInv)'
  BY TypeNext, OrderNext, KeptNext
<1> QED BY <1>1, <1>2, PTL DEF Spec

\* Every variable of build.sh keeps its type in every session.
THEOREM TypeCorrect == Spec => []TypeOK
<1>1. TypeInv => TypeOK
  BY DEF TypeInv
<1> QED BY <1>1, Invariance, PTL

\* For every catalogue, command line and csv, however often a row recurs in
\* it: a package is compiled by this session only after all its dependencies.
THEOREM BuiltInOrder == Spec => []DepsBuiltFirst
<1>1. OrderInv => DepsBuiltFirst
  BY DEF OrderInv
<1> QED BY <1>1, Invariance, PTL

\* No package of any session is ever dropped without being built, reported as
\* failed, or left queued.
THEOREM NothingLost == Spec => []NoJobLost
<1>1. KeptInv => NoJobLost
  BY DEF KeptInv
<1> QED BY <1>1, Invariance, PTL

\* Nor is a dependency that a package waits for.
THEOREM NothingForgotten == Spec => []NoDependencyForgotten
<1>1. KeptInv => NoDependencyForgotten
  BY DEF KeptInv
<1> QED BY <1>1, Invariance, PTL
-----------------------------------------------------------------------------
(* A package is settled once, its script is there when it is run, the exit *)
(* code tells the outcome, and the links are removed.                      *)

(* Before the first round: what was selected so far, and empty lists.      *)
Choosing ==
  /\ pc = "read" => hpkPaths = <<>>
  /\ pc = "select" =>
       /\ donelist = donelibs
       /\ DistinctJobs => IsInjective(hpkPaths)
       /\ \A p \in Range(hpkPaths) :
            p \notin Done /\ \E m \in 1 .. n - 1 : jobs[m] = p
  /\ ~ Selected =>
       buildfalselist = <<>> /\ notdonelist = <<>> /\ linked = {} /\ res = 0

(* In the rounds: no package is in a list twice, or in two lists.          *)
Settled ==
  Selected /\ DistinctJobs =>
    /\ IsInjective(buildfalselist) /\ IsInjective(notdonelist)
    /\ IsInjective(nextroundlist)
    /\ Done \cap Failed = {}
    /\ (Done \cup Failed) \cap (Range(nextroundlist) \cup Pending) = {}
    /\ Range(nextroundlist) \cap Pending = {}

SettledInv == Choosing /\ Settled

LEMMA SettledInit == Init => SettledInv
<1>1. \A S : Range(<<>>) \cap S = {}
  BY DEF Range
<1> QED BY <1>1 DEF Init, SettledInv, Choosing, Settled, Selected, IsInjective, Range

\* The current package is not among those still to come.
LEMMA PendingLess ==
  ASSUME TypeOK, i <= Len(notdonelist), i' = i + 1, notdonelist' = notdonelist,
         IsInjective(notdonelist)
  PROVE  Pending = Pending' \cup {Job} /\ Job \notin Pending'
<1>1. Pending = Pending' \cup {Job}
  BY PendingStep
<1>2. Job \notin Pending'
  <2> SUFFICES ASSUME NEW k \in i + 1 .. Len(notdonelist), notdonelist[k] = Job
               PROVE  FALSE
    BY DEF Pending
  <2>1. i \in DOMAIN notdonelist /\ k \in DOMAIN notdonelist /\ i # k
    BY DEF TypeOK
  <2> QED BY <2>1 DEF IsInjective, Job
<1> QED BY <1>1, <1>2

\* A step in the rounds or after them that leaves the lists alone.
LEMMA SettledUnchanged ==
  ASSUME SettledInv, Selected, Selected',
         UNCHANGED <<jobs, donelist, nextroundlist, buildfalselist, notdonelist, i>>
  PROVE  SettledInv'
<1>1. Done' = Done /\ Failed' = Failed /\ Pending' = Pending
  BY DEF Done, Failed, Pending
<1>2. Settled'
  BY <1>1 DEF SettledInv, Settled, DistinctJobs
<1>3. Choosing'
  BY DEF Choosing, Selected
<1> QED BY <1>2, <1>3 DEF SettledInv

LEMMA SettledNext ==
  TypeInv /\ OrderInv /\ KeptInv /\ SettledInv /\ [Next]_vars => SettledInv'
<1> SUFFICES ASSUME TypeInv, OrderInv, KeptInv, SettledInv, [Next]_vars
             PROVE  SettledInv'
  OBVIOUS
<1> USE DEF input, lists, child
<1>t. /\ donelist \in Seq(Pkg) /\ hpkPaths \in Seq(HpkDirs)
      /\ notdonelist \in Seq(HpkDirs) /\ nextroundlist \in Seq(HpkDirs)
      /\ buildfalselist \in Seq(HpkDirs) /\ depfile \in Seq(Pkg)
      /\ n \in Nat \ {0} /\ i \in Nat \ {0} /\ jobs \in Seq(Pkg)
  BY InputType DEF TypeInv, TypeOK
<1>j. pc \in {"depends", "result"} => Job \in HpkDirs /\ i <= Len(notdonelist)
  BY JobType DEF TypeInv, InRound
<1>0. CASE UNCHANGED vars
  <2>1. CASE Selected
    BY <1>0, <2>1, SettledUnchanged DEF vars, Selected
  <2>2. CASE ~ Selected
    BY <1>0, <2>2 DEF vars, SettledInv, Choosing, Settled, Selected, DistinctJobs, Done
  <2> QED BY <2>1, <2>2
<1>1. CASE ReadDoneLine
  BY <1>1 DEF ReadDoneLine, SettledInv, Choosing, Settled, Selected
<1>2. CASE ReadDoneEnd
  <2>1. /\ pc = "read" /\ pc' = "select" /\ donelist' = donelibs
        /\ hpkPaths' = <<>> /\ donelibs' = donelibs
        /\ UNCHANGED <<buildfalselist, notdonelist, linked, res>>
    BY <1>2 DEF ReadDoneEnd, SettledInv, Choosing
  <2>2. IsInjective(hpkPaths') /\ Range(hpkPaths)' = {}
    BY <2>1 DEF IsInjective, Range
  <2> QED BY <2>1, <2>2 DEF SettledInv, Choosing, Settled, Selected
<1>3. CASE MakeLibsDir
  <2>1. /\ pc = "select" /\ pc' = "select" /\ n <= Len(jobs) /\ n' = n + 1
        /\ UNCHANGED <<jobs, donelibs, donelist, buildfalselist, notdonelist,
                       linked, res>>
        /\ Done' = Done
    BY <1>3 DEF MakeLibsDir, Done
  <2>2. \/ hpkPaths' = hpkPaths
        \/ /\ hpkPaths' = Append(hpkPaths, jobs[n])
           /\ jobs[n] \in HpkDirs /\ jobs[n] \notin Range(donelibs)
    BY <1>3 DEF MakeLibsDir, IsHpk
  <2>3. CASE hpkPaths' = hpkPaths
    BY <2>1, <2>3, <1>t DEF SettledInv, Choosing, Settled, Selected, DistinctJobs
  <2>4. CASE /\ hpkPaths' = Append(hpkPaths, jobs[n])
             /\ jobs[n] \in HpkDirs /\ jobs[n] \notin Range(donelibs)
    <3>1. Range(hpkPaths)' = Range(hpkPaths) \cup {jobs[n]}
      BY <2>4, <1>t, RangeAppend
    <3>2. jobs[n] \notin Done
      BY <2>1, <2>4 DEF SettledInv, Choosing, Done
    <3>3. ASSUME NEW p \in Range(hpkPaths)'
          PROVE  p \notin Done /\ \E m \in 1 .. n : jobs[m] = p
      <4>1. CASE p = jobs[n]
        BY <4>1, <3>2, <1>t
      <4>2. CASE p \in Range(hpkPaths)
        BY <4>2, <2>1, <1>t DEF SettledInv, Choosing
      <4> QED BY <4>1, <4>2, <3>1
    <3>4. ASSUME DistinctJobs PROVE IsInjective(hpkPaths')
      <4>1. jobs[n] \notin Range(hpkPaths)
        <5> SUFFICES ASSUME NEW m \in 1 .. n - 1, jobs[m] = jobs[n] PROVE FALSE
          BY <2>1 DEF SettledInv, Choosing
        <5>1. m \in DOMAIN jobs /\ n \in DOMAIN jobs /\ m # n
          BY <2>1, <1>t
        <5> QED BY <5>1, <3>4 DEF DistinctJobs, IsInjective
      <4> QED BY <4>1, <3>4, <2>1, <2>4, <1>t, InjectiveAppend
                 DEF SettledInv, Choosing
    <3>5. n' - 1 = n
      BY <2>1, <1>t
    <3>6. Choosing'
      BY <2>1, <3>3, <3>4, <3>5 DEF SettledInv, Choosing, Selected, DistinctJobs
    <3> QED BY <3>6, <2>1 DEF SettledInv, Settled, Selected
  <2> QED BY <2>2, <2>3, <2>4
<1>4. CASE PrepareShell
  <2>1. /\ pc = "select" /\ pc' = "job" /\ notdonelist' = hpkPaths /\ i' = 1
        /\ UNCHANGED <<jobs, donelist, nextroundlist, buildfalselist>>
        /\ buildfalselist = <<>> /\ nextroundlist = <<>>
    BY <1>4 DEF PrepareShell, SettledInv, Choosing, KeptInv, Fresh, Selected
  <2>2. Pending' = Range(hpkPaths) /\ Done' = Done
    BY <2>1, <1>t, RangeAll DEF Pending, Done
  <2>3. Done \cap Range(hpkPaths) = {}
    BY <2>1 DEF SettledInv, Choosing
  <2>4. /\ Failed' = {} /\ Range(nextroundlist)' = {}
        /\ IsInjective(buildfalselist') /\ IsInjective(nextroundlist')
    BY <2>1 DEF Failed, Range, IsInjective
  <2>5. Settled'
    BY <2>1, <2>2, <2>3, <2>4 DEF SettledInv, Choosing, Settled, DistinctJobs
  <2> QED BY <2>1, <2>5 DEF SettledInv, Choosing, Selected
<1>5. CASE RunMissing \/ RunHpk
  BY <1>5, SettledUnchanged DEF RunMissing, RunHpk, Selected
<1>6. CASE CheckDepend \/ NotReady \/ Compile
  BY <1>6, SettledUnchanged DEF CheckDepend, NotReady, Compile, Selected
<1>7. CASE JobDone
  <2>1. /\ pc = "result" /\ pc' = "job" /\ i' = i + 1
        /\ UNCHANGED <<jobs, nextroundlist, buildfalselist, notdonelist>>
        /\ Failed' = Failed /\ Selected
    BY <1>7 DEF JobDone, Failed, Selected
  <2>2. Done' = Done \cup {Job}
    <3>1. \/ Job \in Done /\ donelist' = donelist
          \/ donelist' = Append(donelist, Job)
      BY <1>7 DEF JobDone
    <3> QED BY <3>1, <1>t, RangeAppend DEF Done
  <2>3. ASSUME DistinctJobs PROVE Pending = Pending' \cup {Job} /\ Job \notin Pending'
    BY <2>1, <2>3, <1>j, PendingLess DEF SettledInv, Settled, TypeInv
  <2>4. Settled'
    BY <2>1, <2>2, <2>3 DEF SettledInv, Settled, DistinctJobs
  <2> QED BY <2>1, <2>4 DEF SettledInv, Choosing, Selected
<1>8. CASE AddDepend
  <2> DEFINE dep == Head(depfile)
  <2>1. /\ pc = "result" /\ pc' = "result"
        /\ UNCHANGED <<jobs, donelist, buildfalselist, notdonelist, i>>
        /\ Done' = Done /\ Failed' = Failed /\ Pending' = Pending
    BY <1>8 DEF AddDepend, Done, Failed, Pending
  <2>2. CASE IsHpk(dep) /\ IsNew(dep)
    <3>1. nextroundlist' = Append(nextroundlist, dep) /\ dep \in HpkDirs
      BY <1>8, <2>2 DEF AddDepend, IsHpk
    <3>2. Range(nextroundlist)' = Range(nextroundlist) \cup {dep}
      BY <3>1, <1>t, RangeAppend
    <3>3. dep \notin Done \cup Failed \cup Range(nextroundlist) \cup Pending
      BY <2>2, <1>t DEF IsNew, Pending, Range
    <3>4. DistinctJobs => IsInjective(nextroundlist')
      BY <2>1, <3>1, <3>3, <1>t, InjectiveAppend DEF SettledInv, Settled, Selected
    <3>5. Settled'
      BY <2>1, <3>2, <3>3, <3>4 DEF SettledInv, Settled, Selected, DistinctJobs
    <3> QED BY <2>1, <3>5 DEF SettledInv, Choosing, Selected
  <2>3. CASE ~ (IsHpk(dep) /\ IsNew(dep))
    <3>1. UNCHANGED nextroundlist
      BY <1>8, <2>3 DEF AddDepend
    <3> QED BY <2>1, <3>1, SettledUnchanged DEF Selected
  <2> QED BY <2>2, <2>3
<1>9. CASE Requeue
  <2>1. /\ pc = "result" /\ pc' = "job" /\ i' = i + 1
        /\ UNCHANGED <<jobs, donelist, buildfalselist, notdonelist>>
        /\ nextroundlist' = AppendNew(nextroundlist, Job)
        /\ Done' = Done /\ Failed' = Failed /\ Selected
    BY <1>9 DEF Requeue, Wait, Done, Failed, Selected
  <2>2. Range(nextroundlist)' = Range(nextroundlist) \cup {Job}
    BY <2>1, <1>t, RangeAppendNew
  <2>3. DistinctJobs => IsInjective(nextroundlist')
    BY <2>1, <1>t, <1>j, InjectiveAppend DEF AppendNew, SettledInv, Settled
  <2>4. ASSUME DistinctJobs PROVE Pending = Pending' \cup {Job} /\ Job \notin Pending'
    BY <2>1, <2>4, <1>j, PendingLess DEF SettledInv, Settled, TypeInv
  <2>5. Settled'
    BY <2>1, <2>2, <2>3, <2>4 DEF SettledInv, Settled, DistinctJobs
  <2> QED BY <2>1, <2>5 DEF SettledInv, Choosing, Selected
<1>10. CASE JobFailed
  <2>1. /\ pc = "result" /\ pc' = "job" /\ i' = i + 1
        /\ UNCHANGED <<jobs, donelist, nextroundlist, notdonelist>>
        /\ buildfalselist' = Append(buildfalselist, Job)
        /\ Done' = Done /\ Selected
    BY <1>10 DEF JobFailed, Done, Selected
  <2>2. Failed' = Failed \cup {Job}
    BY <2>1, <1>t, RangeAppend DEF Failed
  <2>3. ASSUME DistinctJobs PROVE Pending = Pending' \cup {Job} /\ Job \notin Pending'
    BY <2>1, <2>3, <1>j, PendingLess DEF SettledInv, Settled, TypeInv
  <2>4. DistinctJobs => IsInjective(buildfalselist')
    <3>1. DistinctJobs => Job \notin Failed
      BY <2>1, <2>3 DEF SettledInv, Settled
    <3> QED BY <2>1, <3>1, <1>t, <1>j, InjectiveAppend DEF SettledInv, Settled, Failed
  <2>5. Settled'
    BY <2>1, <2>2, <2>3, <2>4 DEF SettledInv, Settled, DistinctJobs
  <2> QED BY <2>1, <2>5 DEF SettledInv, Choosing, Selected
<1>11. CASE AllDone \/ Stuck \/ CleanHpkDir
  BY <1>11, SettledUnchanged DEF AllDone, Stuck, CleanHpkDir, RoundOver, Selected
<1>12. CASE NextRound
  <2>1. /\ pc = "job" /\ pc' = "job" /\ i' = 1
        /\ notdonelist' = nextroundlist /\ nextroundlist' = <<>>
        /\ UNCHANGED <<jobs, donelist, buildfalselist>>
        /\ Done' = Done /\ Failed' = Failed
    BY <1>12 DEF NextRound, RoundOver, Done, Failed
  <2>2. Pending' = Range(nextroundlist)
    BY <2>1, <1>t, RangeAll DEF Pending
  <2>3. Range(nextroundlist)' = {} /\ IsInjective(nextroundlist')
    BY <2>1 DEF Range, IsInjective
  <2>4. Settled'
    BY <2>1, <2>2, <2>3 DEF SettledInv, Settled, Selected, DistinctJobs
  <2> QED BY <2>1, <2>4 DEF SettledInv, Choosing, Selected
<1>13. CASE Exited
  BY <1>13, <1>0 DEF Exited
<1> QED
  BY <1>0, <1>1, <1>2, <1>3, <1>4, <1>5, <1>6, <1>7, <1>8, <1>9, <1>10, <1>11,
     <1>12, <1>13 DEF Next
-----------------------------------------------------------------------------
(* The links.                                                              *)

LinksInv ==
  /\ linked \subseteq Range(hpkPaths)
  /\ LinksRemoved /\ ScriptPresent
  /\ pc \in {"job", "depends", "result"} /\ DistinctJobs =>
       Pending \cup Range(nextroundlist) \subseteq linked

LEMMA LinksInit == Init => LinksInv
BY DEF Init, LinksInv, LinksRemoved, ScriptPresent

LEMMA LinksNext ==
  TypeInv /\ KeptInv /\ SettledInv /\ LinksInv /\ [Next]_vars => LinksInv'
<1> SUFFICES ASSUME TypeInv, KeptInv, SettledInv, LinksInv, [Next]_vars
             PROVE  LinksInv'
  OBVIOUS
<1> USE DEF input, lists, child, LinksRemoved, ScriptPresent
<1>t. /\ hpkPaths \in Seq(HpkDirs) /\ notdonelist \in Seq(HpkDirs)
      /\ nextroundlist \in Seq(HpkDirs) /\ n \in Nat \ {0} /\ i \in Nat \ {0}
  BY DEF TypeInv, TypeOK
<1>j. pc \in {"depends", "result"} => Job \in HpkDirs /\ i <= Len(notdonelist)
  BY JobType DEF TypeInv, InRound
<1>0. CASE UNCHANGED vars
  BY <1>0 DEF vars, LinksInv, DistinctJobs, Pending
<1>1. CASE ReadDoneLine \/ ReadDoneEnd \/ MakeLibsDir
  <2>1. ~ Selected /\ ~ Selected' /\ UNCHANGED <<jobs, linked, res>>
    BY <1>1 DEF ReadDoneLine, ReadDoneEnd, MakeLibsDir, Selected
  <2> QED BY <2>1 DEF SettledInv, Choosing, Selected, LinksInv
<1>2. CASE PrepareShell
  <2>1. /\ pc = "select" /\ pc' = "job" /\ i' = 1 /\ notdonelist' = hpkPaths
        /\ linked' = linked \cup Range(hpkPaths)
        /\ UNCHANGED <<jobs, hpkPaths, nextroundlist, res>>
        /\ linked = {} /\ nextroundlist = <<>>
    BY <1>2 DEF PrepareShell, SettledInv, Choosing, KeptInv, Fresh, Selected
  <2>2. Pending' = Range(hpkPaths) /\ Range(nextroundlist)' = {}
    <3>1. Pending' = Range(hpkPaths)
      BY <2>1, <1>t, RangeAll DEF Pending
    <3> QED BY <3>1, <2>1 DEF Range
  <2> QED BY <2>1, <2>2 DEF LinksInv, DistinctJobs
<1>3. CASE RunMissing
  <2>1. Job \in Pending
    BY <1>3, <1>t DEF RunMissing, Pending, Job
  <2>2. ~ DistinctJobs
    BY <1>3, <2>1 DEF RunMissing, LinksInv
  <2> QED BY <1>3, <2>2 DEF RunMissing, LinksInv, DistinctJobs
<1>4. CASE RunHpk \/ CheckDepend \/ NotReady \/ Compile
  <2>1. /\ pc \in {"job", "depends"} /\ pc' \in {"depends", "result"}
        /\ res' = 127 => res = 127
        /\ UNCHANGED <<jobs, hpkPaths, nextroundlist, notdonelist, i, linked>>
    BY <1>4 DEF RunHpk, CheckDepend, NotReady, Compile
  <2> QED BY <2>1 DEF LinksInv, DistinctJobs, Pending
<1>5. CASE JobDone \/ JobFailed
  <2>1. /\ pc = "result" /\ pc' = "job" /\ i' = i + 1
        /\ UNCHANGED <<jobs, hpkPaths, nextroundlist, notdonelist, res>>
        /\ linked' \in {linked, linked \ {Job}}
    BY <1>5 DEF JobDone, JobFailed
  <2>2. ASSUME DistinctJobs PROVE Pending' \cup Range(nextroundlist) \subseteq linked'
    <3>1. Pending = Pending' \cup {Job} /\ Job \notin Pending'
      BY <2>1, <2>2, <1>j, PendingLess DEF SettledInv, Settled, Selected, TypeInv
    <3>2. Job \notin Range(nextroundlist)
      BY <2>1, <2>2, <3>1 DEF SettledInv, Settled, Selected
    <3> QED BY <2>1, <2>2, <3>1, <3>2 DEF LinksInv
  <2> QED BY <2>1, <2>2 DEF LinksInv, DistinctJobs
<1>6. CASE AddDepend
  <2> DEFINE dep == Head(depfile)
  <2>1. /\ pc = "result" /\ pc' = "result" /\ Pending' = Pending
        /\ UNCHANGED <<jobs, res>>
    BY <1>6 DEF AddDepend, Pending
  <2>2. CASE IsHpk(dep) /\ IsNew(dep)
    <3>1. /\ nextroundlist' = Append(nextroundlist, dep)
          /\ hpkPaths' = Append(hpkPaths, dep) /\ linked' = linked \cup {dep}
      BY <1>6, <2>2 DEF AddDepend, TakeOn, LinkDepend
    <3>2. /\ Range(nextroundlist)' = Range(nextroundlist) \cup {dep}
          /\ Range(hpkPaths)' = Range(hpkPaths) \cup {dep}
      BY <3>1, <2>2, <1>t, RangeAppend DEF IsHpk
    <3> QED BY <2>1, <3>1, <3>2 DEF LinksInv, DistinctJobs
  <2>3. CASE ~ (IsHpk(dep) /\ IsNew(dep))
    <3>1. UNCHANGED <<hpkPaths, nextroundlist, linked>>
      BY <1>6, <2>3 DEF AddDepend
    <3> QED BY <2>1, <3>1 DEF LinksInv, DistinctJobs
  <2> QED BY <2>2, <2>3
<1>7. CASE Requeue
  <2>1. /\ pc = "result" /\ pc' = "job" /\ i' = i + 1
        /\ nextroundlist' = AppendNew(nextroundlist, Job)
        /\ UNCHANGED <<jobs, hpkPaths, notdonelist, linked, res>>
    BY <1>7 DEF Requeue, Wait
  <2>2. Range(nextroundlist)' = Range(nextroundlist) \cup {Job}
    BY <2>1, <1>t, RangeAppendNew
  <2>3. Pending = Pending' \cup {Job}
    BY <2>1, <1>j, PendingStep DEF TypeInv
  <2> QED BY <2>1, <2>2, <2>3 DEF LinksInv, DistinctJobs
<1>8. CASE AllDone \/ Stuck
  BY <1>8 DEF AllDone, Stuck, RoundOver, LinksInv, DistinctJobs
<1>9. CASE NextRound
  <2>1. /\ pc = "job" /\ pc' = "job" /\ i' = 1
        /\ notdonelist' = nextroundlist /\ nextroundlist' = <<>>
        /\ UNCHANGED <<jobs, hpkPaths, linked, res>>
    BY <1>9 DEF NextRound, RoundOver
  <2>2. Pending' = Range(nextroundlist) /\ Range(nextroundlist)' = {}
    <3>1. Pending' = Range(nextroundlist)
      BY <2>1, <1>t, RangeAll DEF Pending
    <3> QED BY <3>1, <2>1 DEF Range
  <2> QED BY <2>1, <2>2 DEF LinksInv, DistinctJobs
<1>10. CASE CleanHpkDir
  BY <1>10 DEF CleanHpkDir, LinksInv, DistinctJobs
<1>11. CASE Exited
  BY <1>11, <1>0 DEF Exited
<1> QED
  BY <1>0, <1>1, <1>2, <1>3, <1>4, <1>5, <1>6, <1>7, <1>8, <1>9, <1>10, <1>11
  DEF Next
-----------------------------------------------------------------------------
(* The verdict.                                                            *)

VerdictInv ==
  /\ Selected =>
       Failed \cup Range(nextroundlist) \cup Range(notdonelist) \subseteq Range(hpkPaths)
  /\ pc \in {"clean", "exit"} => Pending = {}
  /\ pc = "exit" => exitcode = IF NotSuccessful THEN 255 ELSE 0

LEMMA VerdictInit == Init => VerdictInv
BY DEF Init, VerdictInv, Selected

LEMMA VerdictNext ==
  TypeInv /\ KeptInv /\ SettledInv /\ VerdictInv /\ [Next]_vars => VerdictInv'
<1> SUFFICES ASSUME TypeInv, KeptInv, SettledInv, VerdictInv, [Next]_vars
             PROVE  VerdictInv'
  OBVIOUS
<1> USE DEF input, lists, child
<1>t. /\ hpkPaths \in Seq(HpkDirs) /\ notdonelist \in Seq(HpkDirs)
      /\ nextroundlist \in Seq(HpkDirs) /\ buildfalselist \in Seq(HpkDirs)
      /\ n \in Nat \ {0} /\ i \in Nat \ {0}
  BY DEF TypeInv, TypeOK
<1>j. pc = "result" => Job \in HpkDirs /\ Job \in Range(notdonelist)
  BY JobType, <1>t DEF TypeInv, InRound, Job, Range
<1>0. CASE UNCHANGED vars
  BY <1>0 DEF vars, VerdictInv, Selected, Failed, Pending, NotSuccessful
<1>1. CASE ReadDoneLine \/ ReadDoneEnd \/ MakeLibsDir
  BY <1>1 DEF ReadDoneLine, ReadDoneEnd, MakeLibsDir, VerdictInv, Selected
<1>2. CASE PrepareShell
  <2>1. /\ pc = "select" /\ pc' = "job" /\ notdonelist' = hpkPaths
        /\ UNCHANGED <<hpkPaths, nextroundlist, buildfalselist>>
        /\ nextroundlist = <<>> /\ buildfalselist = <<>>
    BY <1>2 DEF PrepareShell, SettledInv, Choosing, KeptInv, Fresh, Selected
  <2>2. Failed' = {} /\ Range(nextroundlist)' = {}
    BY <2>1 DEF Failed, Range
  <2> QED BY <2>1, <2>2 DEF VerdictInv
<1>3. CASE RunMissing \/ RunHpk \/ CheckDepend \/ NotReady \/ Compile \/ JobDone
  <2>1. /\ Selected /\ pc' \in {"job", "depends", "result"}
        /\ UNCHANGED <<hpkPaths, nextroundlist, buildfalselist, notdonelist>>
    BY <1>3 DEF RunMissing, RunHpk, CheckDepend, NotReady, Compile, JobDone, Selected
  <2> QED BY <2>1 DEF VerdictInv, Failed
<1>4. CASE AddDepend
  <2> DEFINE dep == Head(depfile)
  <2>1. pc = "result" /\ pc' = "result" /\ UNCHANGED <<buildfalselist, notdonelist>>
    BY <1>4 DEF AddDepend
  <2>2. CASE IsHpk(dep) /\ IsNew(dep)
    <3>1. /\ nextroundlist' = Append(nextroundlist, dep)
          /\ hpkPaths' = Append(hpkPaths, dep)
      BY <1>4, <2>2 DEF AddDepend, TakeOn
    <3>2. /\ Range(nextroundlist)' = Range(nextroundlist) \cup {dep}
          /\ Range(hpkPaths)' = Range(hpkPaths) \cup {dep}
      BY <3>1, <2>2, <1>t, RangeAppend DEF IsHpk
    <3> QED BY <2>1, <3>2 DEF VerdictInv, Selected, Failed
  <2>3. CASE ~ (IsHpk(dep) /\ IsNew(dep))
    <3>1. UNCHANGED <<hpkPaths, nextroundlist>>
      BY <1>4, <2>3 DEF AddDepend
    <3> QED BY <2>1, <3>1 DEF VerdictInv, Selected, Failed
  <2> QED BY <2>2, <2>3
<1>5. CASE Requeue
  <2>1. /\ pc = "result" /\ pc' = "job"
        /\ nextroundlist' = AppendNew(nextroundlist, Job)
        /\ UNCHANGED <<hpkPaths, buildfalselist, notdonelist>>
    BY <1>5 DEF Requeue, Wait
  <2>2. Range(nextroundlist)' = Range(nextroundlist) \cup {Job}
    BY <2>1, <1>t, RangeAppendNew
  <2> QED BY <2>1, <2>2, <1>j DEF VerdictInv, Selected, Failed
<1>6. CASE JobFailed
  <2>1. /\ pc = "result" /\ pc' = "job"
        /\ buildfalselist' = Append(buildfalselist, Job)
        /\ UNCHANGED <<hpkPaths, nextroundlist, notdonelist>>
    BY <1>6 DEF JobFailed
  <2>2. Failed' = Failed \cup {Job}
    BY <2>1, <1>t, <1>j, RangeAppend DEF Failed
  <2> QED BY <2>1, <2>2, <1>j DEF VerdictInv, Selected
<1>7. CASE AllDone \/ Stuck
  <2>1. /\ pc = "job" /\ pc' = "clean" /\ i > Len(notdonelist)
        /\ UNCHANGED <<hpkPaths, nextroundlist, buildfalselist, notdonelist, i>>
    BY <1>7 DEF AllDone, Stuck, RoundOver
  <2>2. Pending' = {}
    BY <2>1, PendingOver DEF TypeInv, Pending
  <2> QED BY <2>1, <2>2 DEF VerdictInv, Selected, Failed
<1>8. CASE NextRound
  <2>1. /\ pc = "job" /\ pc' = "job"
        /\ notdonelist' = nextroundlist /\ nextroundlist' = <<>>
        /\ UNCHANGED <<hpkPaths, buildfalselist>>
    BY <1>8 DEF NextRound, RoundOver
  <2>2. Range(nextroundlist)' = {}
    BY <2>1 DEF Range
  <2> QED BY <2>1, <2>2 DEF VerdictInv, Selected, Failed
<1>9. CASE CleanHpkDir
  BY <1>9 DEF CleanHpkDir, VerdictInv, Selected, Failed, Pending, NotSuccessful
<1>10. CASE Exited
  BY <1>10, <1>0 DEF Exited
<1> QED
  BY <1>0, <1>1, <1>2, <1>3, <1>4, <1>5, <1>6, <1>7, <1>8, <1>9, <1>10 DEF Next
-----------------------------------------------------------------------------
LEMMA OutcomeInvariance ==
  Spec => [](TypeInv /\ OrderInv /\ KeptInv /\ SettledInv /\ LinksInv /\ VerdictInv)
<1>1. Init => SettledInv /\ LinksInv /\ VerdictInv
  BY SettledInit, LinksInit, VerdictInit
<1>2. TypeInv /\ OrderInv /\ KeptInv /\ SettledInv /\ LinksInv /\ VerdictInv /\ [Next]_vars
        => (SettledInv /\ LinksInv /\ VerdictInv)'
  BY SettledNext, LinksNext, VerdictNext
<1> QED BY <1>1, <1>2, Invariance, PTL DEF Spec

\* When no name is given twice, a package is settled once: no list has a
\* package twice, and no settled package is queued.
THEOREM SettledOnce == Spec => []BuiltAtMostOnce
<1>1. OrderInv /\ KeptInv /\ SettledInv => BuiltAtMostOnce
  <2> SUFFICES ASSUME OrderInv, KeptInv, SettledInv, DistinctJobs
               PROVE  BuiltAtMostOnce
    BY DEF BuiltAtMostOnce
  <2>1. IsInjective(donelist)
    BY DEF OrderInv, DoneLists
  <2>2. CASE Selected
    BY <2>1, <2>2 DEF SettledInv, Settled, BuiltAtMostOnce
  <2>3. CASE ~ Selected
    <3>1. buildfalselist = <<>> /\ notdonelist = <<>> /\ nextroundlist = <<>> /\ i = 1
      BY <2>3 DEF SettledInv, Choosing, KeptInv, Fresh
    <3>2. Failed = {} /\ Range(nextroundlist) = {} /\ Pending = {}
      BY <3>1 DEF Failed, Pending, Range
    <3>3. IsInjective(<<>>)
      BY DEF IsInjective
    <3> QED BY <2>1, <3>1, <3>2, <3>3 DEF BuiltAtMostOnce
  <2> QED BY <2>2, <2>3
<1> QED BY <1>1, OutcomeInvariance, PTL

\* Then build_hpk.sh is also there whenever it is run.
THEOREM ScriptIsThere == Spec => []ScriptPresent
<1>1. LinksInv => ScriptPresent
  BY DEF LinksInv
<1> QED BY <1>1, OutcomeInvariance, PTL

\* And the exit code is 0 exactly when all the session took on is built.
THEOREM VerdictIsRight == Spec => []ExitMatchesOutcome
<1>1. TypeInv /\ KeptInv /\ SettledInv /\ VerdictInv => ExitMatchesOutcome
  <2> SUFFICES ASSUME TypeInv, KeptInv, SettledInv, VerdictInv,
                      pc = "exit", DistinctJobs
               PROVE  exitcode = 0 <=> Range(hpkPaths) \subseteq Done
    BY DEF ExitMatchesOutcome
  <2>1. Failed \cup Range(nextroundlist) \subseteq Range(hpkPaths)
    BY DEF VerdictInv, Selected
  <2>2. Range(hpkPaths) \subseteq Done \cup Failed \cup Range(nextroundlist)
    BY DEF KeptInv, NoJobLost, VerdictInv
  <2>3. Done \cap (Failed \cup Range(nextroundlist)) = {}
    BY DEF SettledInv, Settled, Selected
  <2>4. exitcode = 0 <=> Failed = {} /\ Range(nextroundlist) = {}
    <3>1. exitcode = 0 <=> buildfalselist = <<>> /\ nextroundlist = <<>>
      BY DEF VerdictInv, NotSuccessful
    <3> QED BY <3>1, RangeEmpty DEF TypeInv, TypeOK, Failed
  <2> QED BY <2>1, <2>2, <2>3, <2>4
<1> QED BY <1>1, OutcomeInvariance, PTL

\* Whatever happens in a session that ends, no link stays in the source tree.
THEOREM NoLinkStays == Spec => []LinksRemoved
<1>1. LinksInv => LinksRemoved
  BY DEF LinksInv
<1> QED BY <1>1, OutcomeInvariance, PTL

-----------------------------------------------------------------------------
(***************************************************************************)
(* When build.sh is asked for every dependency of what it is asked for, it *)
(* gives up only what cannot be built.  The argument: no dependency is     *)
(* discovered, so a round queues at most what it ran; a round that queues  *)
(* as many packages as it ran has built nothing, and each package it ran   *)
(* was found to wait for something that is still not built.  Then a session *)
(* implements BuildOrder.                                                  *)
(***************************************************************************)
Blocked(p) == ~ (Range(depends[p]) \subseteq Done)

(* Up to the first round: what was read, and what was selected.            *)
Reading ==
  /\ pc = "read" =>
       n <= Len(csv) + 1 /\ {csv[m] : m \in 1 .. n - 1} = Range(donelibs)
  /\ pc # "read" => Range(csv) \subseteq Done
  /\ pc = "select" =>
       /\ n <= Len(jobs) + 1
       /\ \A m \in 1 .. n - 1 :
            jobs[m] \in HpkDirs => jobs[m] \in Done \cup Range(hpkPaths)
  /\ Selected => Requested \subseteq Done \cup Range(hpkPaths)

(* What a child counts, and what it reports.                               *)
Reporting ==
  /\ pc = "depends" =>
       /\ Range(newdeps) \subseteq Range(depends[Job])
       /\ (\A k \in 1 .. n - 1 : depends[Job][k] \in Done) => count = n - 1
  /\ IF pc = "result" /\ res = 101
     THEN Range(depfile) \subseteq Range(depends[Job]) /\ Blocked(Job)
     ELSE depfile = <<>>

(* A closed request is never extended, and a round that settles nothing    *)
(* leaves only packages that are blocked.                                  *)
Stopping ==
  Selected =>
    /\ i <= Len(notdonelist) + 1
    /\ Closed =>
         /\ Range(hpkPaths) \subseteq Requested
         /\ Len(nextroundlist) <= i - 1
         /\ Len(nextroundlist) = i - 1 =>
              \A p \in Range(nextroundlist) : Blocked(p)
         /\ pc \in {"clean", "exit"} =>
              \A p \in Range(nextroundlist) : Blocked(p)

LEMMA ReadingInit == Init => Reading /\ Reporting /\ Stopping
<1>1. Init => {csv[m] : m \in 1 .. 1 - 1} = Range(donelibs) /\ Len(csv) \in Nat
  BY CsvFilesAssumption DEF Init, Range
<1> QED BY <1>1 DEF Init, Reading, Reporting, Stopping, Selected

LEMMA ReadingNext ==
  TypeInv /\ SettledInv /\ Reading /\ [Next]_vars => Reading'
<1> SUFFICES ASSUME TypeInv, SettledInv, Reading, [Next]_vars PROVE Reading'
  OBVIOUS
<1> USE DEF input, lists, child
<1>t. /\ donelibs \in Seq(Pkg) /\ donelist \in Seq(Pkg) /\ csv \in Seq(Pkg)
      /\ jobs \in Seq(Pkg) /\ hpkPaths \in Seq(HpkDirs)
      /\ n \in Nat \ {0} /\ i \in Nat \ {0}
  BY InputType DEF TypeInv, TypeOK
<1>0. CASE UNCHANGED vars
  BY <1>0 DEF vars, Reading, Selected, Done, Requested
<1>1. CASE ReadDoneLine
  <2>1. /\ pc = "read" /\ pc' = "read" /\ n <= Len(csv) /\ n' = n + 1
        /\ csv' = csv /\ donelibs' = AppendNew(donelibs, csv[n])
    BY <1>1 DEF ReadDoneLine
  <2>2. Range(donelibs)' = Range(donelibs) \cup {csv[n]}
    BY <2>1, <1>t, RangeAppendNew
  <2>3. {csv[m] : m \in 1 .. (n + 1) - 1} = {csv[m] : m \in 1 .. n - 1} \cup {csv[n]}
    BY <1>t
  <2> QED BY <2>1, <2>2, <2>3, <1>t DEF Reading, Selected
<1>2. CASE ReadDoneEnd
  <2>1. /\ pc = "read" /\ n > Len(csv) /\ pc' = "select" /\ n' = 1
        /\ donelist' = donelibs /\ csv' = csv /\ jobs' = jobs
    BY <1>2 DEF ReadDoneEnd
  <2>2. n - 1 = Len(csv)
    <3>1. n <= Len(csv) + 1
      BY <2>1 DEF Reading
    <3> QED BY <2>1, <3>1, <1>t
  <2>3. Range(csv) \subseteq Range(donelibs)
    BY <2>1, <2>2, <1>t, RangeAll DEF Reading
  <2> QED BY <2>1, <2>3, <1>t DEF Reading, Selected, Done
<1>3. CASE MakeLibsDir
  <2>1. /\ pc = "select" /\ pc' = "select" /\ n <= Len(jobs) /\ n' = n + 1
        /\ UNCHANGED <<jobs, csv, donelibs, donelist>> /\ Done' = Done
    BY <1>3 DEF MakeLibsDir, Done
  <2>2. /\ Range(hpkPaths) \subseteq Range(hpkPaths)'
        /\ jobs[n] \in HpkDirs => jobs[n] \in Range(donelibs) \cup Range(hpkPaths)'
    BY <1>3, <1>t, RangeAppend DEF MakeLibsDir, IsHpk
  <2>3. Range(donelibs) = Done
    BY <2>1 DEF SettledInv, Choosing, Done
  <2> QED BY <2>1, <2>2, <2>3, <1>t DEF Reading, Selected
<1>4. CASE PrepareShell
  <2>1. /\ pc = "select" /\ pc' = "job" /\ n > Len(jobs)
        /\ UNCHANGED <<csv, jobs, hpkPaths, donelist>>
    BY <1>4 DEF PrepareShell
  <2>2. Requested \subseteq Done \cup Range(hpkPaths)
    <3> SUFFICES ASSUME NEW p \in Requested PROVE p \in Done \cup Range(hpkPaths)
      OBVIOUS
    <3>1. PICK m \in DOMAIN jobs : jobs[m] = p
      BY DEF Requested, Range
    <3>2. m \in 1 .. n - 1
      BY <2>1, <3>1, <1>t
    <3> QED BY <2>1, <3>1, <3>2 DEF Reading, Requested
  <2> QED BY <2>1, <2>2 DEF Reading, Selected, Done, Requested
<1>5. CASE JobDone
  <2>1. /\ pc = "result" /\ pc' = "job" /\ UNCHANGED <<csv, jobs, hpkPaths>>
        /\ \/ donelist' = donelist \/ donelist' = Append(donelist, Job)
    BY <1>5 DEF JobDone
  <2>2. Done \subseteq Done'
    BY <2>1, <1>t, RangeAppend, JobType DEF Done, TypeInv
  <2> QED BY <2>1, <2>2 DEF Reading, Selected, Requested
<1>6. CASE AddDepend
  <2>1. /\ pc = "result" /\ pc' = "result" /\ UNCHANGED <<csv, jobs>> /\ Done' = Done
        /\ \/ hpkPaths' = hpkPaths
           \/ IsHpk(Head(depfile)) /\ hpkPaths' = Append(hpkPaths, Head(depfile))
    BY <1>6 DEF AddDepend, Done, TakeOn
  <2>2. Range(hpkPaths) \subseteq Range(hpkPaths)'
    BY <2>1, <1>t, RangeAppend DEF IsHpk
  <2> QED BY <2>1, <2>2 DEF Reading, Selected, Requested
<1>7. CASE \/ RunMissing \/ RunHpk \/ CheckDepend \/ NotReady \/ Compile
           \/ Requeue \/ JobFailed \/ AllDone \/ Stuck \/ NextRound
           \/ CleanHpkDir
  <2>1. /\ Selected /\ Selected' /\ pc # "read" /\ pc' # "read"
        /\ pc' # "select"
        /\ UNCHANGED <<csv, jobs, hpkPaths, donelist>>
    BY <1>7 DEF RunMissing, RunHpk, CheckDepend, NotReady, Compile, Requeue, JobFailed,
                AllDone, Stuck, NextRound, CleanHpkDir, RoundOver, Selected
  <2> QED BY <2>1 DEF Reading, Done, Requested
<1>8. CASE Exited
  BY <1>8, <1>0 DEF Exited
<1> QED BY <1>0, <1>1, <1>2, <1>3, <1>4, <1>5, <1>6, <1>7, <1>8 DEF Next
LEMMA ReportingNext ==
  TypeInv /\ OrderInv /\ Reporting /\ [Next]_vars => Reporting'
<1> SUFFICES ASSUME TypeInv, OrderInv, Reporting, [Next]_vars PROVE Reporting'
  OBVIOUS
<1> USE DEF input, lists, child
<1>t. /\ donelist \in Seq(Pkg) /\ depfile \in Seq(Pkg) /\ newdeps \in Seq(Pkg)
      /\ n \in Nat \ {0} /\ count \in Nat
  BY DEF TypeInv, TypeOK
<1>j. pc \in {"depends", "result"} => Job \in Pkg /\ depends[Job] \in Seq(Pkg)
  BY JobType DEF TypeInv
<1>0. CASE UNCHANGED vars
  BY <1>0 DEF vars, Reporting, Job, Done, Blocked
<1>1. CASE RunHpk
  <2>1. pc = "job" /\ pc' \in {"depends", "result"} /\ (pc' = "result" => res' = 1)
          /\ n' = 1 /\ count' = 0 /\ newdeps' = <<>> /\ depfile' = depfile
    BY <1>1 DEF RunHpk
  <2>2. Range(newdeps)' = {}
    BY <2>1 DEF Range
  <2> QED BY <2>1, <2>2 DEF Reporting
<1>2. CASE CheckDepend
  <2> DEFINE hits == {k \in DOMAIN donelist : donelist[k] = depends[Job][n]}
  <2>1. /\ pc = "depends" /\ pc' = "depends" /\ n <= Len(depends[Job]) /\ n' = n + 1
        /\ count' = count + Cardinality(hits)
        /\ \/ newdeps' = newdeps
           \/ newdeps' = Append(newdeps, depends[Job][n])
        /\ UNCHANGED <<depends, notdonelist, i, donelist, depfile>>
    BY <1>2 DEF CheckDepend
  <2>2. depends[Job][n] \in Range(depends[Job]) /\ depends[Job][n] \in Pkg
    BY <2>1, <1>t, <1>j DEF Range
  <2>3. Range(newdeps)' \subseteq Range(depends[Job])
    BY <2>1, <2>2, <1>t, RangeAppend DEF Reporting
  <2>4. depends[Job][n] \in Done => Cardinality(hits) = 1
    BY <1>t, Hits DEF OrderInv, DoneLists, Done
  <2>5. ASSUME \A k \in 1 .. n : depends[Job][k] \in Done PROVE count' = n
    <3>1. count = n - 1
      BY <2>1, <2>5, <1>t DEF Reporting
    <3> QED BY <2>1, <2>4, <2>5, <3>1, <1>t
  <2>6. Job' = Job /\ Done' = Done /\ n' - 1 = n
    BY <2>1, <1>t DEF Job, Done
  <2> QED BY <2>1, <2>3, <2>5, <2>6 DEF Reporting
<1>3. CASE NotReady
  <2>1. /\ pc = "depends" /\ pc' = "result" /\ res' = 101 /\ n > Len(depends[Job])
        /\ count # Len(depends[Job]) /\ depfile' = depfile \o newdeps
        /\ UNCHANGED <<depends, notdonelist, i, donelist>>
    BY <1>3 DEF NotReady, Report
  <2>2. Range(depfile)' \subseteq Range(depends[Job])
    <3>1. Range(depfile) = {}
      BY <2>1 DEF Reporting, Range
    <3> QED BY <2>1, <3>1, <1>t, RangeConcat DEF Reporting
  <2>3. n - 1 = Len(depends[Job])
    BY <2>1, <1>t, <1>j DEF OrderInv, Counting
  <2>4. Blocked(Job)
    <3>1. PICK k \in 1 .. n - 1 : depends[Job][k] \notin Done
      BY <2>1, <2>3 DEF Reporting
    <3> QED BY <3>1, <2>3, <1>j DEF Blocked, Range
  <2> QED BY <2>1, <2>2, <2>4 DEF Reporting, Blocked, Job, Done
<1>4. CASE AddDepend
  <2>1. /\ pc = "result" /\ pc' = "result" /\ res = 101 /\ res' = 101
        /\ depfile # <<>> /\ depfile' = Tail(depfile)
        /\ UNCHANGED <<depends, notdonelist, i, donelist>>
    BY <1>4 DEF AddDepend
  <2>2. Range(depfile)' \subseteq Range(depfile)
    BY <2>1, <1>t, RangeHead
  <2> QED BY <2>1, <2>2 DEF Reporting, Blocked, Job, Done
<1>5. CASE \/ ReadDoneLine \/ ReadDoneEnd \/ MakeLibsDir \/ PrepareShell
           \/ RunMissing \/ Compile \/ JobDone \/ Requeue \/ JobFailed
           \/ AllDone \/ Stuck \/ NextRound \/ CleanHpkDir
  <2>1. /\ pc' # "depends" /\ (pc' = "result" => res' # 101)
        /\ depfile' = depfile /\ depfile = <<>>
    BY <1>5 DEF ReadDoneLine, ReadDoneEnd, MakeLibsDir, PrepareShell,
                RunMissing, Compile, JobDone, Requeue, JobFailed, AllDone,
                Stuck, NextRound, CleanHpkDir, RoundOver, Reporting
  <2> QED BY <2>1 DEF Reporting
<1>6. CASE Exited
  BY <1>6, <1>0 DEF Exited
<1> QED BY <1>0, <1>1, <1>2, <1>3, <1>4, <1>5, <1>6 DEF Next
-----------------------------------------------------------------------------
\* A closed request is complete: what a child reports is in some list.
LEMMA NothingNew ==
  ASSUME TypeInv, KeptInv, Reading, Reporting, Stopping, VerdictInv, Closed,
         pc = "result", res = 101, depfile # <<>>, IsHpk(Head(depfile))
  PROVE  ~ IsNew(Head(depfile))
<1> DEFINE dep == Head(depfile)
<1>1. dep \in Range(depends[Job])
  BY RangeHead DEF Reporting, TypeInv, TypeOK
<1>2. Job \in Range(hpkPaths)
  <2>1. Job \in Range(notdonelist)
    BY DEF TypeInv, TypeOK, InRound, Job, Range
  <2> QED BY <2>1 DEF VerdictInv, Selected
<1>3. Job \in Requested
  BY <1>2 DEF Stopping, Selected
<1>4. dep \in Requested \cup Range(csv)
  BY <1>1, <1>3 DEF Closed, IsHpk
<1>5. dep \in Done \cup Range(hpkPaths)
  BY <1>4 DEF Reading, Selected
<1>6. dep \in Done \cup Failed \cup Range(nextroundlist) \cup Pending
  BY <1>5 DEF KeptInv, NoJobLost
<1>7. Pending \subseteq Range(notdonelist)
  BY DEF Pending, Range, TypeInv, TypeOK
<1> QED BY <1>6, <1>7 DEF IsNew
\* A step that touches no list, in the rounds or after them.
LEMMA StoppingUnchanged ==
  ASSUME Stopping, Selected, pc' \notin {"clean", "exit"},
         UNCHANGED <<depends, jobs, csv, donelist, hpkPaths, nextroundlist,
                     notdonelist, i>>
  PROVE  Stopping'
BY DEF Stopping, Selected, Closed, Requested, Blocked, Done

\* The step past a package that was settled, not queued.
LEMMA StoppingSettled ==
  ASSUME TypeInv, Stopping, pc = "result", pc' = "job", i' = i + 1,
         UNCHANGED <<depends, jobs, csv, hpkPaths, nextroundlist, notdonelist>>
  PROVE  Stopping'
<1>1. i <= Len(notdonelist) /\ i \in Nat /\ Len(notdonelist) \in Nat
        /\ Len(nextroundlist) \in Nat
  BY DEF TypeInv, TypeOK, InRound
<1> QED BY <1>1 DEF Stopping, Selected, Closed, Requested

LEMMA StoppingNext ==
  /\ TypeInv /\ KeptInv /\ SettledInv /\ VerdictInv
  /\ Reading /\ Reporting /\ Stopping
  /\ [Next]_vars
  => Stopping'
<1> SUFFICES ASSUME TypeInv, KeptInv, SettledInv, VerdictInv,
                    Reading, Reporting, Stopping, [Next]_vars
             PROVE  Stopping'
  OBVIOUS
<1> USE DEF input, lists, child
<1>t. /\ hpkPaths \in Seq(HpkDirs) /\ notdonelist \in Seq(HpkDirs)
      /\ nextroundlist \in Seq(HpkDirs) /\ i \in Nat \ {0}
  BY DEF TypeInv, TypeOK
<1>j. pc \in {"depends", "result"} => Job \in HpkDirs /\ i <= Len(notdonelist)
  BY JobType DEF TypeInv, InRound
<1>0. CASE UNCHANGED vars
  BY <1>0 DEF vars, Stopping, Selected, Closed, Requested, Blocked, Done
<1>1. CASE ReadDoneLine \/ ReadDoneEnd \/ MakeLibsDir
  BY <1>1 DEF ReadDoneLine, ReadDoneEnd, MakeLibsDir, Stopping, Selected
<1>2. CASE PrepareShell
  <2>1. /\ pc = "select" /\ pc' = "job" /\ i' = 1 /\ notdonelist' = hpkPaths
        /\ UNCHANGED <<depends, jobs, csv, hpkPaths, nextroundlist>>
        /\ nextroundlist = <<>>
    BY <1>2 DEF PrepareShell, KeptInv, Fresh, Selected
  <2>2. Range(hpkPaths) \subseteq Requested
    <3> SUFFICES ASSUME NEW p \in Range(hpkPaths) PROVE p \in Requested
      OBVIOUS
    <3>1. p \in HpkDirs
      BY <1>t, RangeSeq
    <3>2. PICK m \in 1 .. n - 1 : jobs[m] = p
      BY <2>1 DEF SettledInv, Choosing
    <3>3. p \in Range(jobs)
      BY <2>1, <3>2, InputType DEF Reading, Range, TypeInv, TypeOK
    <3>4. p \notin Range(csv)
      BY <2>1 DEF SettledInv, Choosing, Reading
    <3> QED BY <3>1, <3>3, <3>4 DEF Requested
  <2>3. Range(nextroundlist)' = {} /\ Len(nextroundlist') = 0
    BY <2>1 DEF Range
  <2>4. Requested' = Requested
    BY <2>1 DEF Requested
  <2> QED BY <2>1, <2>2, <2>3, <2>4, <1>t DEF Stopping
<1>3. CASE RunMissing \/ RunHpk \/ CheckDepend \/ NotReady \/ Compile
  <2>1. /\ Selected /\ pc' \notin {"clean", "exit"}
        /\ UNCHANGED <<depends, jobs, csv, donelist, hpkPaths, nextroundlist,
                       notdonelist, i>>
    BY <1>3 DEF RunMissing, RunHpk, CheckDepend, NotReady, Compile, Selected
  <2> QED BY <2>1, StoppingUnchanged
<1>4. CASE JobDone \/ JobFailed
  BY <1>4, StoppingSettled DEF JobDone, JobFailed
<1>5. CASE AddDepend
  <2>1. /\ pc = "result" /\ pc' = "result" /\ res = 101 /\ depfile # <<>>
        /\ UNCHANGED <<depends, jobs, csv, donelist, notdonelist, i>>
    BY <1>5 DEF AddDepend
  <2>2. CASE Closed
    <3>1. ~ (IsHpk(Head(depfile)) /\ IsNew(Head(depfile)))
      BY <2>1, <2>2, NothingNew
    <3>2. UNCHANGED <<hpkPaths, nextroundlist>>
      BY <1>5, <3>1 DEF AddDepend
    <3> QED BY <2>1, <3>2, StoppingUnchanged DEF Selected
  <2>3. CASE ~ Closed
    BY <2>1, <2>3 DEF Stopping, Selected, Closed, Requested
  <2> QED BY <2>2, <2>3
<1>6. CASE Requeue
  <2>1. /\ pc = "result" /\ pc' = "job" /\ res = 101 /\ i' = i + 1
        /\ nextroundlist' = AppendNew(nextroundlist, Job)
        /\ UNCHANGED <<depends, jobs, csv, donelist, hpkPaths, notdonelist>>
    BY <1>6 DEF Requeue, Wait
  <2>2. /\ Range(nextroundlist)' = Range(nextroundlist) \cup {Job}
        /\ Len(nextroundlist') <= Len(nextroundlist) + 1
        /\ Len(nextroundlist) \in Nat
    BY <2>1, <1>t, <1>j, RangeAppendNew DEF AppendNew
  <2>3. Blocked(Job)
    BY <2>1 DEF Reporting
  <2>4. \A p : Blocked(p)' <=> Blocked(p)
    BY <2>1 DEF Blocked, Done
  <2>5. Requested' = Requested /\ (Closed' <=> Closed)
    BY <2>1 DEF Requested, Closed
  <2>6. ASSUME Closed
        PROVE  /\ Len(nextroundlist') <= i
               /\ Len(nextroundlist') = i => \A p \in Range(nextroundlist)' : Blocked(p)
    <3>1. Len(nextroundlist) <= i - 1
      BY <2>1, <2>6 DEF Stopping, Selected
    <3>2. Len(nextroundlist') = i => Len(nextroundlist) = i - 1
      BY <2>2, <3>1, <1>t, <2>1
    <3> QED BY <2>1, <2>2, <2>3, <2>6, <3>1, <3>2, <1>t DEF Stopping, Selected
  <2> QED BY <2>1, <2>4, <2>5, <2>6, <1>t, <1>j DEF Stopping, Selected
<1>7. CASE AllDone \/ Stuck
  <2>1. /\ pc = "job" /\ pc' = "clean" /\ i > Len(notdonelist)
        /\ UNCHANGED <<depends, jobs, csv, donelist, hpkPaths, nextroundlist,
                       notdonelist, i>>
        /\ nextroundlist = <<>> \/ Len(nextroundlist) = Len(notdonelist)
    BY <1>7 DEF AllDone, Stuck, RoundOver, LooksStuck, lastroundlen
  <2>2. ASSUME Closed PROVE \A p \in Range(nextroundlist) : Blocked(p)
    <3>1. CASE nextroundlist = <<>>
      BY <3>1 DEF Range
    <3>2. CASE Len(nextroundlist) = Len(notdonelist)
      <4>1. Len(nextroundlist) = i - 1
        BY <2>1, <3>2, <1>t DEF Stopping, Selected
      <4> QED BY <2>1, <2>2, <4>1 DEF Stopping, Selected
    <3> QED BY <2>1, <3>1, <3>2
  <2> QED BY <2>1, <2>2 DEF Stopping, Selected, Closed, Requested, Blocked, Done
<1>8. CASE NextRound
  <2>1. /\ pc = "job" /\ pc' = "job" /\ i' = 1 /\ notdonelist' = nextroundlist
        /\ nextroundlist' = <<>>
        /\ UNCHANGED <<depends, jobs, csv, donelist, hpkPaths>>
    BY <1>8 DEF NextRound, RoundOver
  <2>2. Range(nextroundlist)' = {} /\ Len(nextroundlist') = 0
    BY <2>1 DEF Range
  <2> QED BY <2>1, <2>2, <1>t DEF Stopping, Selected, Closed, Requested
<1>9. CASE CleanHpkDir
  BY <1>9 DEF CleanHpkDir, Stopping, Selected, Closed, Requested, Blocked, Done
<1>10. CASE Exited
  BY <1>10, <1>0 DEF Exited
<1> QED
  BY <1>0, <1>1, <1>2, <1>3, <1>4, <1>5, <1>6, <1>7, <1>8, <1>9, <1>10 DEF Next
-----------------------------------------------------------------------------
LEMMA StopInvariance == Spec => [](Reading /\ Reporting /\ Stopping)
<1>1. /\ TypeInv /\ OrderInv /\ KeptInv /\ SettledInv /\ VerdictInv
      /\ Reading /\ Reporting /\ Stopping /\ [Next]_vars
      => (Reading /\ Reporting /\ Stopping)'
  BY ReadingNext, ReportingNext, StoppingNext
<1> QED BY <1>1, ReadingInit, OutcomeInvariance, PTL DEF Spec

\* A session that is asked for everything its packages need gives up only
\* packages that wait for one that is not built.
THEOREM StopsOnlyWhenBlocked == Spec => []StopOnlyWhenBlocked
<1>1. Stopping => StopOnlyWhenBlocked
  BY DEF Stopping, StopOnlyWhenBlocked, Selected, Blocked
<1> QED BY <1>1, StopInvariance, PTL

-----------------------------------------------------------------------------
(* The refinement.                                                         *)

\* What the abstract state of a session needs to be what it should.
Inv ==
  /\ TypeInv /\ OrderInv /\ KeptInv /\ SettledInv /\ LinksInv /\ VerdictInv
  /\ Reading /\ Reporting /\ Stopping

Asked == Closed /\ DistinctJobs

LEMMA OrderVars ==
  ASSUME UNCHANGED <<input, donelist, hpkPaths, buildfalselist, exitcode>>,
         pc = "read" <=> pc' = "read", pc = "exit" <=> pc' = "exit"
  PROVE  UNCHANGED Order!vars
BY DEF Order!vars, input, Done, Failed

LEMMA OrderInitially == Init => Order!Init
<1> SUFFICES ASSUME Init PROVE Order!Init
  OBVIOUS
<1>1. depends \in [Pkg -> Seq(Pkg)] /\ jobs \in Seq(Pkg) /\ csv \in Seq(Pkg)
  BY CatalogsAssumption, JobListsAssumption, CsvFilesAssumption DEF Init
<1>2. [p \in Pkg |-> Range(depends[p])] \in [Pkg -> SUBSET Pkg]
  BY <1>1, RangeSeq
<1>3. Range(jobs) \in SUBSET Pkg /\ Range(csv) \in SUBSET Pkg
  BY <1>1, RangeSeq
<1>4. Range(hpkPaths) = {} /\ Failed = {} /\ pc = "read"
  BY DEF Init, Range, Failed
<1> QED BY <1>2, <1>3, <1>4 DEF Order!Init

LEMMA OrderStep ==
  ASSUME Inv, DistinctJobs, pc = "clean" => Closed, [Next]_vars
  PROVE  [Order!Next]_(Order!vars)
<1> USE DEF lists, child
<1>t. /\ depends \in [Pkg -> Seq(Pkg)] /\ jobs \in Seq(Pkg) /\ csv \in Seq(Pkg)
      /\ donelist \in Seq(Pkg) /\ hpkPaths \in Seq(HpkDirs)
      /\ notdonelist \in Seq(HpkDirs) /\ nextroundlist \in Seq(HpkDirs)
      /\ buildfalselist \in Seq(HpkDirs) /\ depfile \in Seq(Pkg)
      /\ n \in Nat \ {0} /\ i \in Nat \ {0} /\ HpkDirs \subseteq Pkg
  BY InputType, PkgAssumption DEF Inv, TypeInv, TypeOK
\* The package a child runs for is wanted, and neither built nor broken.
<1>j. ASSUME pc = "result"
      PROVE  /\ Job \in HpkDirs /\ Job \in Range(hpkPaths) \ (Done \cup Failed)
  <2>1. Job \in HpkDirs /\ Job \in Range(notdonelist) /\ Job \in Pending
    BY <1>j, <1>t, JobType DEF Inv, TypeInv, InRound, Job, Range, Pending
  <2> QED BY <1>j, <2>1 DEF Inv, VerdictInv, SettledInv, Settled, Selected
<1>0. CASE UNCHANGED vars
  BY <1>0, OrderVars DEF vars
<1>1. CASE ReadDoneEnd
  <2>1. /\ pc = "read" /\ n > Len(csv) /\ pc' = "select" /\ donelist' = donelibs
        /\ UNCHANGED <<input, hpkPaths, buildfalselist, exitcode>>
    BY <1>1 DEF ReadDoneEnd
  <2>2. n - 1 = Len(csv)
    <3>1. n <= Len(csv) + 1
      BY <2>1 DEF Inv, Reading
    <3> QED BY <2>1, <3>1, <1>t
  <2>3. Done' = Range(csv)
    BY <2>1, <2>2, <1>t, RangeAll DEF Inv, Reading, Done
  <2> QED BY <2>1, <2>3 DEF Order!vars, input, Failed
<1>2. CASE MakeLibsDir
  <2>1. /\ pc = "select" /\ pc' = "select" /\ n <= Len(jobs)
        /\ UNCHANGED <<input, donelist, buildfalselist, exitcode>>
        /\ \/ hpkPaths' = hpkPaths
           \/ /\ hpkPaths' = Append(hpkPaths, jobs[n])
              /\ jobs[n] \in HpkDirs /\ jobs[n] \notin Range(donelibs)
    BY <1>2 DEF MakeLibsDir, IsHpk
  <2>2. CASE hpkPaths' = hpkPaths
    BY <2>1, <2>2, OrderVars
  <2>3. CASE /\ hpkPaths' = Append(hpkPaths, jobs[n])
             /\ jobs[n] \in HpkDirs /\ jobs[n] \notin Range(donelibs)
    <3>1. Range(hpkPaths)' = Range(hpkPaths) \cup {jobs[n]}
      BY <2>3, <1>t, RangeAppend
    <3>2. jobs[n] \notin Done
      BY <2>1, <2>3 DEF Inv, SettledInv, Choosing, Done
    <3>3. jobs[n] \in Range(jobs) /\ jobs[n] \in Pkg
      BY <2>1, <1>t DEF Range
    <3>4. CASE jobs[n] \in Range(hpkPaths)
      BY <2>1, <3>1, <3>4 DEF Order!vars, input, Done, Failed
    <3>5. CASE jobs[n] \notin Range(hpkPaths)
      <4>1. Order!Want(jobs[n])
        BY <2>1, <3>1, <3>2, <3>3, <3>5 DEF Order!Want, input, Done, Failed
      <4> QED BY <4>1, <3>3 DEF Order!Next
    <3> QED BY <3>4, <3>5
  <2> QED BY <2>1, <2>2, <2>3
<1>3. CASE JobDone
  <2>1. /\ pc = "result" /\ res = 0 /\ pc' = "job" /\ Job \notin Done
        /\ donelist' = Append(donelist, Job)
        /\ UNCHANGED <<input, hpkPaths, buildfalselist, exitcode>>
    BY <1>3, <1>j DEF JobDone
  <2>2. Done' = Done \cup {Job}
    BY <2>1, <1>t, <1>j, RangeAppend DEF Done
  <2>3. Range(depends[Job]) \subseteq Done
    BY <2>1 DEF Inv, OrderInv, ReadyIfBuilt
  <2>4. Job \in Pkg
    BY <2>1, <1>j, <1>t
  <2>5. Order!Build(Job)
    BY <2>1, <2>2, <2>3, <2>4, <1>j DEF Order!Build, Order!Outstanding, input, Failed
  <2> QED BY <2>4, <2>5 DEF Order!Next
<1>4. CASE JobFailed
  <2>1. /\ pc = "result" /\ pc' = "job"
        /\ buildfalselist' = Append(buildfalselist, Job)
        /\ UNCHANGED <<input, hpkPaths, donelist, exitcode>>
    BY <1>4 DEF JobFailed
  <2>2. Failed' = Failed \cup {Job}
    BY <2>1, <1>t, <1>j, RangeAppend DEF Failed
  <2>3. Order!Break(Job)
    BY <2>1, <2>2, <1>j DEF Order!Break, Order!Outstanding, input, Done
  <2> QED BY <2>1, <2>3, <1>j, <1>t DEF Order!Next
<1>5. CASE AddDepend
  <2> DEFINE dep == Head(depfile)
  <2>1. /\ pc = "result" /\ pc' = "result" /\ res = 101 /\ depfile # <<>>
        /\ UNCHANGED <<input, donelist, buildfalselist, exitcode>>
    BY <1>5 DEF AddDepend
  <2>2. CASE IsHpk(dep) /\ IsNew(dep)
    <3>1. hpkPaths' = Append(hpkPaths, dep) /\ dep \in HpkDirs /\ dep \in Pkg
      BY <1>5, <2>2, <1>t DEF AddDepend, TakeOn, IsHpk
    <3>2. Range(hpkPaths)' = Range(hpkPaths) \cup {dep}
      BY <3>1, <1>t, RangeAppend
    <3>3. dep \in Range(depends[Job])
      BY <2>1, <1>t, RangeHead DEF Inv, Reporting
    <3>4. dep \notin Range(hpkPaths) \cup Done
      <4>1. Pending \subseteq Range(notdonelist)
        BY <1>t DEF Pending, Range
      <4> QED BY <2>1, <2>2, <4>1 DEF IsNew, Inv, KeptInv, NoJobLost
    <3>5. Order!Want(dep)
      BY <2>1, <3>1, <3>2, <3>3, <3>4, <1>j, <1>t
         DEF Order!Want, Order!Outstanding, input, Done, Failed
    <3> QED BY <3>1, <3>5 DEF Order!Next
  <2>3. CASE ~ (IsHpk(dep) /\ IsNew(dep))
    <3>1. hpkPaths' = hpkPaths
      BY <1>5, <2>3 DEF AddDepend
    <3> QED BY <2>1, <3>1, OrderVars
  <2> QED BY <2>2, <2>3
<1>6. CASE CleanHpkDir
  <2>1. /\ pc = "clean" /\ pc' = "exit"
        /\ exitcode' = IF NotSuccessful THEN 255 ELSE 0
        /\ UNCHANGED <<input, lists, donelist>>
    BY <1>6 DEF CleanHpkDir
  <2>2. Range(hpkPaths) \subseteq Done \cup Failed \cup Range(nextroundlist)
    BY <2>1 DEF Inv, KeptInv, NoJobLost, VerdictInv
  <2>3. \A p \in Range(nextroundlist) : ~ (Range(depends[p]) \subseteq Done)
    BY <2>1 DEF Inv, Stopping, Selected, Blocked
  <2>4. exitcode' = 0 <=> Range(hpkPaths) \subseteq Done
    <3>1. /\ Failed \cup Range(nextroundlist) \subseteq Range(hpkPaths)
          /\ Done \cap (Failed \cup Range(nextroundlist)) = {}
      BY <2>1 DEF Inv, VerdictInv, SettledInv, Settled, Selected
    <3>2. NotSuccessful <=> Failed \cup Range(nextroundlist) # {}
      BY <1>t, RangeEmpty DEF NotSuccessful, Failed
    <3> QED BY <2>1, <2>2, <3>1, <3>2
  <2>5. Range(hpkPaths) \subseteq Pkg
    BY <1>t, RangeSeq
  <2>6. Order!Finish
    BY <2>1, <2>2, <2>3, <2>4, <2>5 DEF Order!Finish, Order!Outstanding, input, Done, Failed
  <2> QED BY <2>6 DEF Order!Next
<1>7. CASE \/ ReadDoneLine \/ PrepareShell \/ RunMissing \/ RunHpk
           \/ CheckDepend \/ NotReady \/ Compile \/ Requeue \/ AllDone
           \/ Stuck \/ NextRound
  <2>1. /\ UNCHANGED <<input, donelist, hpkPaths, buildfalselist, exitcode>>
        /\ pc = "read" <=> pc' = "read"
        /\ pc = "exit" <=> pc' = "exit"
    BY <1>7 DEF ReadDoneLine, PrepareShell, RunMissing, RunHpk, CheckDepend,
                NotReady, Compile, Requeue, AllDone, Stuck, NextRound, RoundOver
  <2> QED BY <2>1, OrderVars
<1>8. CASE Exited
  BY <1>8, <1>0 DEF Exited
<1> QED BY <1>0, <1>1, <1>2, <1>3, <1>4, <1>5, <1>6, <1>7, <1>8 DEF Next

LEMMA AskedNext == Asked /\ [Next]_vars => Asked'
<1>1. [Next]_vars => UNCHANGED input
  BY DEF Next, vars, ReadDoneLine, ReadDoneEnd, MakeLibsDir, PrepareShell,
         RunMissing, RunHpk, CheckDepend, NotReady, Compile, JobDone, AddDepend,
         Requeue, JobFailed, AllDone, Stuck, NextRound, CleanHpkDir, Exited
<1>2. Asked /\ UNCHANGED input => Asked'
  BY DEF Asked, Closed, Requested, DistinctJobs, input
<1> QED BY <1>1, <1>2

LEMMA InvInvariance == Spec => []Inv
BY Invariance, OutcomeInvariance, StopInvariance, PTL DEF Inv

\* Asked for everything that is needed, and for nothing twice, as it is without
\* arguments, a session is a behaviour of the abstract specification.
THEOREM Refinement == Spec /\ Asked => ImplementsBuildOrder
<1>1. Inv /\ Asked /\ [Next]_vars => [Order!Next]_(Order!vars)
  BY OrderStep DEF Asked
<1> QED BY <1>1, InvInvariance, OrderInitially, AskedNext, PTL
        DEF Spec, ImplementsBuildOrder, Order!Spec

\* For every dependency graph and every command line that names nothing twice:
\* the steps of a session are those of BuildOrder, but for a verdict that comes
\* too early when dependencies were left out of the command line.
THEOREM StepsAreInOrder == Spec => BuildsInOrder
<1>1. Inv /\ [Next]_vars
        => [DistinctJobs /\ (pc = "clean" => Closed) => Order!Next]_(Order!vars)
  BY OrderStep
<1> QED BY <1>1, InvInvariance, PTL DEF Spec, BuildsInOrder
-----------------------------------------------------------------------------
(* From the second round on, the next one runs other packages.             *)

\* A round that has so far settled nothing and discovered nothing has queued
\* what it ran, in the order it ran it.
InStep ==
  /\ IsInjective(nextroundlist)
  /\ ~ Selected => lastroundfirstjob = NoPkg
  /\ lastroundfirstjob # NoPkg =>
       /\ IsInjective(notdonelist) /\ notdonelist # <<>>
       /\ notdonelist[1] = lastroundfirstjob
  /\ /\ Selected /\ IsInjective(notdonelist)
     /\ Ran \subseteq Range(nextroundlist) /\ Range(nextroundlist) \subseteq Range(notdonelist)
     => /\ Len(nextroundlist) = i - 1
        /\ \A m \in 1 .. i - 1 : nextroundlist[m] = notdonelist[m]

LEMMA InStepInit == Init => InStep
BY DEF Init, InStep, Selected, IsInjective

\* When no package is in this round twice, the current one was not run yet.
LEMMA JobNotRan ==
  ASSUME TypeInv, pc = "result", IsInjective(notdonelist)
  PROVE  Job \notin Ran /\ Job \in Range(notdonelist)
<1>1. i \in DOMAIN notdonelist /\ \A k \in 1 .. i - 1 : k \in DOMAIN notdonelist /\ k # i
  BY DEF TypeInv, TypeOK, InRound
<1> QED BY <1>1 DEF IsInjective, Ran, Job, Range

LEMMA InStepUnchanged ==
  ASSUME InStep, Selected <=> Selected',
         UNCHANGED <<nextroundlist, notdonelist, i, lastroundfirstjob>>
  PROVE  InStep'
BY DEF InStep, Ran

LEMMA InStepNext ==
  TypeInv /\ KeptInv /\ SettledInv /\ InStep /\ [Next]_vars => InStep'
<1> SUFFICES ASSUME TypeInv, KeptInv, SettledInv, InStep, [Next]_vars PROVE InStep'
  OBVIOUS
<1> USE DEF input, lists, child
<1>t. /\ notdonelist \in Seq(HpkDirs) /\ nextroundlist \in Seq(HpkDirs)
      /\ hpkPaths \in Seq(HpkDirs) /\ i \in Nat \ {0}
  BY DEF TypeInv, TypeOK
<1>e. /\ IsInjective(<<>>) /\ Range(<<>>) = {} /\ Len(<<>>) = 0
  BY DEF IsInjective, Range
<1>0. CASE UNCHANGED vars \/ Exited
  BY <1>0, InStepUnchanged DEF vars, Selected, Exited
<1>1. CASE \/ ReadDoneLine \/ ReadDoneEnd \/ MakeLibsDir \/ RunMissing \/ RunHpk
           \/ CheckDepend \/ NotReady \/ Compile \/ AllDone \/ Stuck \/ CleanHpkDir
  <2>1. /\ Selected <=> Selected'
        /\ UNCHANGED <<nextroundlist, notdonelist, i, lastroundfirstjob>>
    BY <1>1 DEF ReadDoneLine, ReadDoneEnd, MakeLibsDir, RunMissing, RunHpk,
                CheckDepend, NotReady, Compile, AllDone, Stuck, CleanHpkDir,
                RoundOver, Selected
  <2> QED BY <2>1, InStepUnchanged
<1>2. CASE PrepareShell
  <2>1. /\ ~ Selected /\ Selected' /\ i' = 1
        /\ UNCHANGED <<nextroundlist, lastroundfirstjob>>
    BY <1>2 DEF PrepareShell, Selected
  <2>2. nextroundlist' = <<>> /\ lastroundfirstjob' = NoPkg
    BY <2>1 DEF KeptInv, Fresh, InStep
  <2> QED BY <1>e, <2>1, <2>2 DEF InStep
<1>3. CASE JobDone \/ JobFailed
  <2>1. /\ pc = "result" /\ Selected /\ Selected' /\ i' = i + 1
        /\ UNCHANGED <<nextroundlist, notdonelist, lastroundfirstjob>>
    BY <1>3 DEF JobDone, JobFailed, Selected
  <2>2. Ran' = Ran \cup {Job}
    BY <2>1, PendingStep DEF TypeInv, InRound
  <2>3. ASSUME IsInjective(notdonelist) PROVE Job \notin Range(nextroundlist)
    BY <2>1, <2>3, JobNotRan DEF KeptInv, NextRan
  <2> QED BY <2>1, <2>2, <2>3 DEF InStep
<1>4. CASE AddDepend
  <2> DEFINE dep == Head(depfile)
  <2>1. /\ pc = "result" /\ Selected /\ Selected'
        /\ UNCHANGED <<notdonelist, i, lastroundfirstjob>>
    BY <1>4 DEF AddDepend, Selected
  <2>2. CASE IsHpk(dep) /\ IsNew(dep)
    <3>1. nextroundlist' = Append(nextroundlist, dep) /\ dep \in HpkDirs
      BY <1>4, <2>2 DEF AddDepend, IsHpk
    <3>2. Range(nextroundlist)' = Range(nextroundlist) \cup {dep}
      BY <3>1, <1>t, RangeAppend
    <3>3. dep \notin Range(nextroundlist) /\ dep \notin Range(notdonelist)
      BY <2>2 DEF IsNew
    <3>4. IsInjective(nextroundlist')
      BY <3>1, <3>3, <1>t, InjectiveAppend DEF InStep
    <3> QED BY <2>1, <3>2, <3>3, <3>4 DEF InStep
  <2>3. CASE ~ (IsHpk(dep) /\ IsNew(dep))
    <3>1. UNCHANGED nextroundlist
      BY <1>4, <2>3 DEF AddDepend
    <3> QED BY <2>1, <3>1, InStepUnchanged
  <2> QED BY <2>2, <2>3
<1>5. CASE Requeue
  <2>1. /\ pc = "result" /\ Selected /\ Selected' /\ i' = i + 1
        /\ UNCHANGED <<notdonelist, lastroundfirstjob>>
        /\ nextroundlist' = AppendNew(nextroundlist, Job)
    BY <1>5 DEF Requeue, Wait, Selected
  <2>2. Ran' = Ran \cup {Job} /\ Range(nextroundlist)' = Range(nextroundlist) \cup {Job}
    BY <2>1, <1>t, PendingStep, RangeAppendNew DEF TypeInv, InRound
  <2>3. Job \in HpkDirs
    BY <2>1, JobType DEF TypeInv
  <2>4. IsInjective(nextroundlist')
    BY <2>1, <2>3, <1>t, InjectiveAppend DEF AppendNew, InStep
  <2>5. ASSUME IsInjective(notdonelist), Ran' \subseteq Range(nextroundlist)',
               Range(nextroundlist)' \subseteq Range(notdonelist)
        PROVE  /\ Len(nextroundlist') = i
               /\ \A m \in 1 .. i : nextroundlist'[m] = notdonelist[m]
    <3>1. Job \notin Ran
      BY <2>1, <2>5, JobNotRan
    <3>2. Job \notin Range(nextroundlist)
      BY <2>1, <2>5, <3>1, JobNotRan DEF KeptInv, NextRan
    <3>3. Ran \subseteq Range(nextroundlist) /\ Range(nextroundlist) \subseteq Range(notdonelist)
      BY <2>2, <2>5, <3>1
    <3>4. /\ Len(nextroundlist) = i - 1
          /\ \A m \in 1 .. i - 1 : nextroundlist[m] = notdonelist[m]
      BY <2>1, <2>5, <3>3 DEF InStep
    <3>5. nextroundlist' = Append(nextroundlist, Job)
      BY <2>1, <3>2 DEF AppendNew
    <3>6. /\ Len(nextroundlist') = i /\ nextroundlist'[i] = Job
          /\ \A m \in 1 .. i - 1 : nextroundlist'[m] = nextroundlist[m]
      BY <3>4, <3>5, <1>t
    <3>7. \A m \in 1 .. i : m = i \/ m \in 1 .. i - 1
      BY <1>t
    <3> QED BY <3>4, <3>6, <3>7 DEF Job
  <2>6. i' - 1 = i
    BY <2>1, <1>t
  <2> QED BY <2>1, <2>4, <2>5, <2>6 DEF InStep
<1>6. CASE NextRound
  <2>1. /\ Selected /\ Selected' /\ i' = 1 /\ nextroundlist # <<>>
        /\ lastroundfirstjob' = nextroundlist[1]
        /\ notdonelist' = nextroundlist /\ nextroundlist' = <<>>
    BY <1>6 DEF NextRound, RoundOver, Selected
  <2> QED BY <1>e, <2>1 DEF InStep
<1> QED BY <1>0, <1>1, <1>2, <1>3, <1>4, <1>5, <1>6 DEF Next

LEMMA InStepInvariance == Spec => []InStep
<1>1. TypeInv /\ KeptInv /\ SettledInv /\ InStep /\ [Next]_vars => InStep'
  BY InStepNext
<1> QED BY <1>1, InStepInit, Invariance, OutcomeInvariance, PTL DEF Spec

\* A round with the same packages as this one is the last: with the entries in
\* step, its length and its first entry are those that buildhpk compares.
LEMMA SamePackagesLookStuck ==
  ASSUME TypeInv, Stopping, InStep, RoundOver, lastroundfirstjob # NoPkg,
         Range(nextroundlist) = Range(notdonelist)
  PROVE  LooksStuck
<1>1. i = Len(notdonelist) + 1 /\ Selected
  BY DEF Stopping, RoundOver, Selected, TypeInv, TypeOK
<1>2. Ran \subseteq Range(notdonelist)
  BY <1>1 DEF Ran, Range, TypeInv, TypeOK
<1>3. IsInjective(notdonelist) /\ notdonelist # <<>> /\ notdonelist[1] = lastroundfirstjob
  BY DEF InStep
<1>4. /\ Len(nextroundlist) = i - 1
      /\ \A m \in 1 .. i - 1 : nextroundlist[m] = notdonelist[m]
  BY <1>1, <1>2, <1>3 DEF InStep
<1>5. 1 \in 1 .. i - 1 /\ i - 1 = Len(notdonelist)
  BY <1>1, <1>3 DEF TypeInv, TypeOK
<1> QED BY <1>3, <1>4, <1>5 DEF LooksStuck, lastroundlen

\* However packages depend on each other, and whatever is named, also twice: each
\* round that follows the second or a later one runs other packages (buildhpk).
THEOREM RoundsDiffer == Spec => LaterRoundsDiffer
<1>1. /\ TypeInv /\ Stopping /\ InStep /\ NextRound /\ lastroundfirstjob # NoPkg
      => Range(nextroundlist) # Range(notdonelist)
  BY SamePackagesLookStuck DEF NextRound
<1>2. TypeInv /\ Stopping /\ InStep /\ [Next]_vars =>
        [NextRound /\ lastroundfirstjob # NoPkg =>
           Range(nextroundlist) # Range(notdonelist)]_vars
  BY <1>1
<1> QED BY <1>2, Invariance, StopInvariance, InStepInvariance, PTL
        DEF Spec, LaterRoundsDiffer
=============================================================================
