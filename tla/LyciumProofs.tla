---------------------------- MODULE LyciumProofs ----------------------------
(***************************************************************************)
(* Theorems about Lycium, for any number of sessions, packages and         *)
(* architectures, and of sessions that are killed.                         *)
(***************************************************************************)
EXTENDS Lycium, FiniteSetTheorems, TLAPS

Busy == {"clean", "unpack", "build", "package", "record"}

\* A session at work on a package has one.
BusyInv == \A s \in Session : pc[s] \in Busy => current[s] \in Pkg

(* The rows, whatever sessions run at the same time                        *)

\* What a session takes for built has a row, and so has whatever the package
\* it is past builddepends with depends on.
ClosedInv ==
  /\ RegistryClosed
  /\ \A s \in Session :
       /\ \A p \in donelist[s] : Recorded(p)
       /\ pc[s] \in Busy \ {"clean"} => \A q \in depends[current[s]] : Recorded(q)
(* Sessions that run in turn                                               *)

OneAtATime == \A s, t \in Session : pc[s] # "over" /\ pc[t] # "over" => s = t

\* What session s, while it runs, relies on: what it has still to build has no
\* rows, or only those of the architectures before ARCH; it has its links, and
\* from build on its tree.
RunInv(s) ==
  pc[s] # "over" =>
    /\ pc[s] = "choose" => current[s] = NoPkg
    /\ pc[s] \in Busy => current[s] \in Waiting(s)
    /\ pc[s] \in {"clean", "unpack"} => k[s] = 1
    /\ pc[s] \in Busy /\ current[s] \notin Renamed =>
         \A m \in DOMAIN archs[current[s]] :
           m >= k[s] => <<current[s], archs[current[s]][m]>> \notin csv
    /\ pc[s] = "record" => usr[current[s]][ARCH(s)] = "full"
    /\ pc[s] \in {"build", "package", "record"} => tree[current[s]] = "full"
    /\ \A p \in Waiting(s) \ Renamed : p = current[s] \/ ~ Recorded(p)
    /\ Waiting(s) \subseteq linked

InTurnInv ==
  OneAtATime /\ RecordedStays /\ NoFalseErrors /\ \A s \in Session : RunInv(s)
-----------------------------------------------------------------------------
LEMMA ArchsType ==
  ASSUME NEW p \in Pkg
  PROVE  /\ archs[p] \in Seq(Archs(p)) /\ Len(archs[p]) \in Nat \ {0}
         /\ DOMAIN archs[p] = 1 .. Len(archs[p]) /\ 1 \in DOMAIN archs[p]
         /\ \A m \in DOMAIN archs[p] : archs[p][m] \in Archs(p)
<1>1. archs[p] \in Seq(Archs(p)) /\ archs[p] # <<>>
  BY ArchsAssumption
<1>2. Len(archs[p]) \in Nat \ {0} /\ DOMAIN archs[p] = 1 .. Len(archs[p])
  BY <1>1
<1> QED BY <1>1, <1>2

\* The current architecture is one of the current package's.
LEMMA ArchType ==
  ASSUME TypeOK, BusyInv, NEW s \in Session, pc[s] \in Busy
  PROVE  current[s] \in Pkg /\ k[s] \in DOMAIN archs[current[s]] /\ ARCH(s) \in Archs(current[s])
<1>1. current[s] \in Pkg /\ current[s] # NoPkg
  BY PkgAssumption DEF BusyInv
<1>2. k[s] \in DOMAIN archs[current[s]]
  BY <1>1 DEF TypeOK
<1> QED BY <1>1, <1>2, ArchsType DEF ARCH

\* What is installed, after a step that changed one architecture of a package.
LEMMA UsrUpdate ==
  ASSUME TypeOK, NEW p \in Pkg, NEW a \in Archs(p), NEW c \in Contents,
         usr' = [usr EXCEPT ![p][a] = c]
  PROVE  /\ usr' = [q \in Pkg |-> [b \in Archs(q) |-> usr'[q][b]]]
         /\ usr'[p][a] = c
         /\ \A q \in Pkg : \A b \in Archs(q) : q # p \/ b # a => usr'[q][b] = usr[q][b]
         /\ \A q \in Pkg : \A b \in Archs(q) : usr'[q][b] \in Contents
<1>1. usr = [q \in Pkg |-> [b \in Archs(q) |-> usr[q][b]]]
  BY DEF TypeOK
<1>2. \A q \in Pkg : \A b \in Archs(q) : usr[q][b] \in Contents
  BY DEF TypeOK
<1>3. usr' = [usr EXCEPT ![p] = [usr[p] EXCEPT ![a] = c]]
  OBVIOUS
<1>4. usr[p] = [b \in Archs(p) |-> usr[p][b]]
  BY <1>1
<1>5. [usr[p] EXCEPT ![a] = c] = [b \in Archs(p) |-> IF b = a THEN c ELSE usr[p][b]]
  BY <1>4
<1>6. usr'[p] = [b \in Archs(p) |-> IF b = a THEN c ELSE usr[p][b]]
  BY <1>1, <1>3, <1>5
<1>7. \A q \in Pkg : q # p => usr'[q] = usr[q]
  BY <1>1, <1>3
<1>8. /\ usr'[p][a] = c
      /\ \A q \in Pkg : \A b \in Archs(q) : q # p \/ b # a => usr'[q][b] = usr[q][b]
  BY <1>6, <1>7
<1>9. \A q \in Pkg : usr'[q] = [b \in Archs(q) |-> usr'[q][b]]
  <2> TAKE q \in Pkg
  <2>1. CASE q = p
    BY <2>1, <1>6
  <2>2. CASE q # p
    BY <2>2, <1>1, <1>7
  <2> QED BY <2>1, <2>2
<1>10. usr' = [q \in Pkg |-> usr'[q]]
  BY <1>1, <1>3
<1>11. \A q \in Pkg : \A b \in Archs(q) : usr'[q][b] \in Contents
  BY <1>2, <1>8
<1> QED BY <1>8, <1>9, <1>10, <1>11

LEMMA BrokenType ==
  ASSUME TypeOK, BusyInv, NEW s \in Session, pc[s] # "over", Broken(s)
  PROVE  /\ tree' \in [Pkg -> Contents]
         /\ usr' = [q \in Pkg |-> [b \in Archs(q) |-> usr'[q][b]]]
         /\ \A q \in Pkg : \A b \in Archs(q) : usr'[q][b] \in Contents
<1>1. tree' \in [Pkg -> Contents]
  BY DEF Broken, TypeOK, Contents
<1>2. CASE usr' = usr
  BY <1>1, <1>2 DEF TypeOK
<1>3. CASE pc[s] = "package" /\ usr' = [usr EXCEPT ![current[s]][ARCH(s)] = "partial"]
  <2>1. current[s] \in Pkg /\ ARCH(s) \in Archs(current[s]) /\ "partial" \in Contents
    BY <1>3, ArchType DEF Busy, Contents
  <2> QED BY <1>1, <1>3, <2>1, UsrUpdate
<1> QED BY <1>2, <1>3 DEF Broken
-----------------------------------------------------------------------------
LEMMA TypeInit == Init => TypeOK /\ BusyInv
<1> SUFFICES ASSUME Init PROVE TypeOK /\ BusyInv
  OBVIOUS
<1> QED BY FaultsAssumption, ArchsType DEF Init, TypeOK, BusyInv, Busy, Contents

LEMMA TypeNext == TypeOK /\ BusyInv /\ [Next]_vars => TypeOK' /\ BusyInv'
<1> SUFFICES ASSUME TypeOK, BusyInv, [Next]_vars PROVE TypeOK' /\ BusyInv'
  OBVIOUS
<1>1. CASE UNCHANGED vars
  BY <1>1 DEF vars, shared, session, TypeOK, BusyInv
<1>2. ASSUME NEW s \in Session, Begin(s)
      PROVE  TypeOK' /\ BusyInv'
  <2>1. DoneLibs \in SUBSET Pkg
    BY DEF DoneLibs
  <2>2. PICK R \in SUBSET Pkg : jobs' = [jobs EXCEPT ![s] = MakeLibsDir(R, DoneLibs)]
    BY <1>2 DEF Begin
  <2>3. jobs' \in [Session -> SUBSET Pkg]
    BY <2>2 DEF TypeOK, MakeLibsDir
  <2> QED BY <1>2, <2>1, <2>3 DEF Begin, Goto, TypeOK, BusyInv, Busy
<1>3. ASSUME NEW s \in Session, NEW p \in Pkg, RunHpk(s, p) \/ RunMissing(s, p)
      PROVE  TypeOK' /\ BusyInv'
  <2>1. 1 \in DOMAIN archs[p]
    BY ArchsType
  <2> QED BY <1>3, <2>1 DEF RunHpk, RunMissing, Goto, shared, TypeOK, BusyInv, Busy
<1>4. ASSUME NEW s \in Session, CleanAndCheck(s)
      PROVE  TypeOK' /\ BusyInv'
  BY <1>4 DEF CleanAndCheck, StayLinked, Goto, TypeOK, BusyInv, Busy, Contents
<1>5. ASSUME NEW s \in Session, Unpack(s) \/ Build(s)
      PROVE  TypeOK' /\ BusyInv'
  BY <1>5 DEF Unpack, Build, shared, Goto, TypeOK, BusyInv, Busy, Contents
<1>6. ASSUME NEW s \in Session, Package(s)
      PROVE  TypeOK' /\ BusyInv'
  <2>1. /\ current[s] \in Pkg /\ ARCH(s) \in Archs(current[s]) /\ "full" \in Contents
        /\ pc[s] = "package" /\ pc' = [pc EXCEPT ![s] = "record"]
        /\ usr' = [usr EXCEPT ![current[s]][ARCH(s)] = "full"]
        /\ UNCHANGED <<linked, tree, csv, jobs, donelist, buildfalselist, failed, current, k, kills>>
    BY <1>6, ArchType DEF Package, Goto, Busy, Contents
  <2>2. /\ usr' = [q \in Pkg |-> [b \in Archs(q) |-> usr'[q][b]]]
        /\ \A q \in Pkg : \A b \in Archs(q) : usr'[q][b] \in Contents
    BY <2>1, UsrUpdate
  <2> QED BY <2>1, <2>2 DEF TypeOK, BusyInv, Busy
<1>7. ASSUME NEW s \in Session, Record(s)
      PROVE  TypeOK' /\ BusyInv'
  <2>1. /\ current[s] \in Pkg /\ ARCH(s) \in Archs(current[s])
        /\ k[s] \in 1 .. Len(archs[current[s]]) /\ DOMAIN archs[current[s]] = 1 .. Len(archs[current[s]])
        /\ Len(archs[current[s]]) \in Nat
    BY <1>7, ArchType, ArchsType DEF Record, Busy
  <2>2. csv' = csv \cup {<<current[s], ARCH(s)>>}
    BY <1>7 DEF Record
  <2>3. \A row \in csv' : row[1] \in Pkg /\ row[2] \in Archs(row[1])
    BY <2>1, <2>2 DEF TypeOK
  <2>4. CASE MoreArchs(s)
    <3>1. /\ k' = [k EXCEPT ![s] = @ + 1] /\ pc' = [pc EXCEPT ![s] = "build"]
          /\ UNCHANGED <<donelist, current, linked, tree, usr, jobs, buildfalselist, failed, kills>>
      BY <1>7, <2>4 DEF Record, Goto
    <3>2. k[s] + 1 \in 1 .. Len(archs[current[s]])
      BY <2>1, <2>4 DEF MoreArchs
    <3> QED BY <2>1, <2>3, <3>1, <3>2 DEF TypeOK, BusyInv, Busy
  <2>5. CASE ~ MoreArchs(s)
    <3>1. /\ k' = [k EXCEPT ![s] = 1] /\ pc' = [pc EXCEPT ![s] = "choose"]
          /\ donelist' = [donelist EXCEPT ![s] = @ \cup {current[s]}]
          /\ current' = [current EXCEPT ![s] = NoPkg] /\ linked' = linked \ {current[s]}
          /\ UNCHANGED <<tree, usr, jobs, buildfalselist, failed, kills>>
      BY <1>7, <2>5 DEF Record, Goto
    <3>2. donelist' \in [Session -> SUBSET Pkg]
      BY <2>1, <3>1 DEF TypeOK
    <3>3. \A t \in Session : current'[t] # NoPkg => k'[t] \in DOMAIN archs[current'[t]]
      BY <3>1 DEF TypeOK
    <3> QED BY <2>3, <3>1, <3>2, <3>3 DEF TypeOK, BusyInv, Busy
  <2> QED BY <2>4, <2>5
<1>8. ASSUME NEW s \in Session, StepFails(s) \/ TreeGone(s)
      PROVE  TypeOK' /\ BusyInv'
  <2>1. pc[s] \in Busy /\ Broken(s) /\ Failure(s) /\ current[s] \in Pkg
    BY <1>8 DEF StepFails, TreeGone, Busy, BusyInv
  <2>2. /\ tree' \in [Pkg -> Contents]
        /\ usr' = [q \in Pkg |-> [b \in Archs(q) |-> usr'[q][b]]]
        /\ \A q \in Pkg : \A b \in Archs(q) : usr'[q][b] \in Contents
    BY <2>1, BrokenType DEF Busy
  <2>3. failed' \in [Session -> SUBSET Pkg]
    BY <1>8, <2>1 DEF StepFails, TreeGone, TypeOK
  <2> QED BY <2>1, <2>2, <2>3 DEF Failure, Goto, TypeOK, BusyInv, Busy
<1>9. ASSUME NEW s \in Session, End(s)
      PROVE  TypeOK' /\ BusyInv'
  BY <1>9 DEF End, Goto, TypeOK, BusyInv, Busy
<1>10. ASSUME NEW s \in Session, Kill(s)
       PROVE  TypeOK' /\ BusyInv'
  <2>1. /\ tree' \in [Pkg -> Contents]
        /\ usr' = [q \in Pkg |-> [b \in Archs(q) |-> usr'[q][b]]]
        /\ \A q \in Pkg : \A b \in Archs(q) : usr'[q][b] \in Contents
    BY <1>10, BrokenType DEF Kill
  <2>2. kills' \in 0 .. MaxKills
    BY <1>10, FaultsAssumption DEF Kill, TypeOK
  <2> QED BY <1>10, <2>1, <2>2 DEF Kill, Goto, TypeOK, BusyInv, Busy
<1> QED
  BY <1>1, <1>2, <1>3, <1>4, <1>5, <1>6, <1>7, <1>8, <1>9, <1>10 DEF Next, SessionStep
-----------------------------------------------------------------------------
LEMMA ClosedInit == Init => ClosedInv
BY DEF Init, ClosedInv, RegistryClosed, Recorded, Busy

LEMMA ClosedNext == TypeOK /\ BusyInv /\ ClosedInv /\ [Next]_vars => ClosedInv'
<1> SUFFICES ASSUME TypeOK, BusyInv, ClosedInv, [Next]_vars PROVE ClosedInv'
  OBVIOUS
<1> USE DEF ClosedInv
<1>0. ASSUME csv' = csv PROVE RegistryClosed' /\ \A p : Recorded(p)' <=> Recorded(p)
  BY <1>0 DEF RegistryClosed, Recorded
<1>1. CASE UNCHANGED vars
  BY <1>0, <1>1 DEF vars, shared, session
<1>2. ASSUME NEW s \in Session, Begin(s)
      PROVE  ClosedInv'
  <2>1. \A p \in DoneLibs : Recorded(p)
    BY DEF DoneLibs, Recorded
  <2>2. /\ csv' = csv /\ donelist' = [donelist EXCEPT ![s] = DoneLibs]
        /\ current' = [current EXCEPT ![s] = NoPkg] /\ pc' = [pc EXCEPT ![s] = "choose"]
    BY <1>2 DEF Begin, Goto
  <2> QED BY <1>0, <2>1, <2>2 DEF TypeOK, Busy
<1>3. ASSUME NEW s \in Session, NEW p \in Pkg, RunHpk(s, p) \/ RunMissing(s, p)
      PROVE  ClosedInv'
  BY <1>0, <1>3 DEF RunHpk, RunMissing, Goto, shared, TypeOK, Busy
<1>4. ASSUME NEW s \in Session, CleanAndCheck(s)
      PROVE  ClosedInv'
  <2>1. csv' = csv /\ donelist' = donelist
    BY <1>4 DEF CleanAndCheck
  <2>2. \/ /\ depends[current[s]] \subseteq donelist[s]
           /\ pc' = [pc EXCEPT ![s] = "unpack"] /\ current' = current
        \/ pc' = [pc EXCEPT ![s] = "choose"] /\ current' = [current EXCEPT ![s] = NoPkg]
    BY <1>4 DEF CleanAndCheck, Satisfied, Goto
  <2> QED BY <1>0, <2>1, <2>2 DEF TypeOK, Busy
<1>5. ASSUME NEW s \in Session, Unpack(s) \/ Build(s) \/ Package(s)
      PROVE  ClosedInv'
  BY <1>0, <1>5 DEF Unpack, Build, Package, shared, Goto, TypeOK, Busy
<1>6. ASSUME NEW s \in Session, Record(s)
      PROVE  ClosedInv'
  <2>1. /\ pc[s] = "record" /\ current[s] \in Pkg /\ ARCH(s) \in Archs(current[s])
        /\ csv' = csv \cup {<<current[s], ARCH(s)>>}
    BY <1>6, ArchType DEF Record, Busy
  <2>2. \A p \in Pkg : Recorded(p)' <=> Recorded(p) \/ p = current[s]
    BY <2>1 DEF Recorded
  <2>3. \A q \in depends[current[s]] : Recorded(q)
    BY <2>1 DEF Busy
  <2>4. \A p \in Pkg : depends[p] \subseteq Pkg
    BY DependsAssumption
  <2>5. RegistryClosed'
    BY <2>2, <2>3, <2>4 DEF RegistryClosed
  <2>6. \/ pc' = [pc EXCEPT ![s] = "build"] /\ UNCHANGED <<donelist, current>>
        \/ /\ pc' = [pc EXCEPT ![s] = "choose"]
           /\ donelist' = [donelist EXCEPT ![s] = @ \cup {current[s]}]
           /\ current' = [current EXCEPT ![s] = NoPkg]
    BY <1>6 DEF Record, Goto
  <2>7. \A t \in Session : donelist[t] \subseteq Pkg
    BY DEF TypeOK
  <2>8. \A t \in Session : \A p \in donelist'[t] : Recorded(p)'
    BY <2>1, <2>2, <2>6, <2>7 DEF TypeOK
  <2>9. \A t \in Session : pc'[t] \in Busy \ {"clean"} => \A q \in depends[current'[t]] : Recorded(q)'
    <3> SUFFICES ASSUME NEW t \in Session, pc'[t] \in Busy \ {"clean"}
                 PROVE  \A q \in depends[current'[t]] : Recorded(q)'
      OBVIOUS
    <3>1. pc[t] \in Busy \ {"clean"} /\ current'[t] = current[t] /\ current[t] \in Pkg
      BY <2>1, <2>6 DEF TypeOK, Busy, BusyInv
    <3> QED BY <2>2, <2>4, <3>1
  <2> QED BY <2>5, <2>8, <2>9
<1>7. ASSUME NEW s \in Session, StepFails(s) \/ TreeGone(s)
      PROVE  ClosedInv'
  BY <1>0, <1>7 DEF StepFails, TreeGone, Failure, Goto, TypeOK, Busy
<1>8. ASSUME NEW s \in Session, End(s) \/ Kill(s)
      PROVE  ClosedInv'
  BY <1>0, <1>8 DEF End, Kill, Goto, TypeOK, Busy
<1> QED
  BY <1>1, <1>2, <1>3, <1>4, <1>5, <1>6, <1>7, <1>8 DEF Next, SessionStep

LEMMA Invariance == Spec => [](TypeOK /\ BusyInv /\ ClosedInv)
<1>1. Init => TypeOK /\ BusyInv /\ ClosedInv
  BY TypeInit, ClosedInit
<1>2. TypeOK /\ BusyInv /\ ClosedInv /\ [Next]_vars => (TypeOK /\ BusyInv /\ ClosedInv)'
  BY TypeNext, ClosedNext
<1> QED BY <1>1, <1>2, PTL DEF Spec

\* What the sessions share and what they remember keeps its type.
THEOREM TypeCorrect == Spec => []TypeOK
BY Invariance, PTL

\* For any number of sessions at the same time, whichever fail or are killed:
\* a package has a row only when everything it depends on has one.
THEOREM RegistryIsClosed == Spec => []RegistryClosed
<1>1. ClosedInv => RegistryClosed
  BY DEF ClosedInv
<1> QED BY <1>1, Invariance, PTL
-----------------------------------------------------------------------------
(* The abstract specification of a session                                 *)

\* What a session builds is still to be built, and once it is past builddepends
\* so far that all it depends on is done.
OrderInv ==
  \A s \in Session :
    /\ pc[s] \in Busy => current[s] \in Waiting(s)
    /\ pc[s] \in Busy \ {"clean"} => depends[current[s]] \subseteq donelist[s]

\* A step of one session leaves what the others remember alone.
OnlyOwn(s) ==
  \A t \in Session \ {s} :
    /\ pc'[t] = pc[t] /\ jobs'[t] = jobs[t] /\ donelist'[t] = donelist[t]
    /\ buildfalselist'[t] = buildfalselist[t] /\ current'[t] = current[t]

LEMMA StepIsOwn ==
  ASSUME TypeOK, NEW s \in Session, Begin(s) \/ SessionStep(s) \/ Kill(s)
  PROVE  OnlyOwn(s)
<1> USE DEF OnlyOwn, TypeOK, Goto
<1>1. CASE Begin(s)
  BY <1>1 DEF Begin
<1>2. ASSUME NEW p \in Pkg, RunHpk(s, p) \/ RunMissing(s, p)
      PROVE  OnlyOwn(s)
  BY <1>2 DEF RunHpk, RunMissing
<1>3. CASE CleanAndCheck(s) \/ Unpack(s) \/ Build(s) \/ Package(s)
  BY <1>3 DEF CleanAndCheck, Unpack, Build, Package
<1>4. CASE Record(s)
  BY <1>4 DEF Record
<1>5. CASE StepFails(s) \/ TreeGone(s)
  BY <1>5 DEF StepFails, TreeGone, Failure
<1>6. CASE End(s) \/ Kill(s)
  BY <1>6 DEF End, Kill
<1> QED BY <1>1, <1>2, <1>3, <1>4, <1>5, <1>6 DEF SessionStep

LEMMA OrderInit == Init => OrderInv
BY DEF Init, OrderInv, Busy

\* The invariant of the session that takes the step, and what the step is.
LEMMA OwnStep ==
  ASSUME TypeOK, BusyInv, OrderInv, NEW s \in Session,
         pc[s] # "over", SessionStep(s)
  PROVE  /\ pc'[s] \in Busy => current'[s] \in Waiting(s)'
         /\ pc'[s] \in Busy \ {"clean"} => depends[current'[s]] \subseteq donelist'[s]
         /\ [Order(s)!Next]_(Order(s)!vars)
<1> DEFINE Kept == /\ pc'[s] \in Busy => current'[s] \in Waiting(s)'
                   /\ pc'[s] \in Busy \ {"clean"} => depends[current'[s]] \subseteq donelist'[s]
<1>t. /\ pc \in [Session -> {"over", "choose", "clean", "unpack", "build", "package", "record"}]
      /\ donelist \in [Session -> SUBSET Pkg] /\ jobs \in [Session -> SUBSET Pkg]
      /\ buildfalselist \in [Session -> SUBSET Pkg]
      /\ current \in [Session -> Pkg \cup {NoPkg}]
  BY DEF TypeOK
<1>1. ASSUME UNCHANGED <<jobs, donelist, buildfalselist>>, pc'[s] # "over"
      PROVE  UNCHANGED Order(s)!vars
  BY <1>1 DEF Order!vars
<1>2. ASSUME NEW p \in Waiting(s), pc'[s] # "over", UNCHANGED <<jobs, donelist>>,
             buildfalselist' = [buildfalselist EXCEPT ![s] = @ \cup {p}]
      PROVE  Order(s)!Next
  <2>1. p \in Pkg
    BY <1>t DEF Waiting
  <2>2. Order(s)!Break(p)
    BY <1>2, <1>t DEF Order!Break, Order!Outstanding, Waiting
  <2> QED BY <2>1, <2>2 DEF Order!Next
<1>3. ASSUME NEW p \in Pkg, RunHpk(s, p)
      PROVE  Kept /\ UNCHANGED Order(s)!vars
  <2>1. /\ p \in Waiting(s) /\ pc' = [pc EXCEPT ![s] = "clean"]
        /\ current' = [current EXCEPT ![s] = p]
        /\ UNCHANGED <<jobs, donelist, buildfalselist>>
    BY <1>3 DEF RunHpk, Goto
  <2> QED BY <1>1, <2>1, <1>t DEF Waiting, Busy
<1>4. ASSUME NEW p \in Pkg, RunMissing(s, p)
      PROVE  Kept /\ Order(s)!Next
  <2>1. pc[s] = "choose" /\ p \in Waiting(s) /\ UNCHANGED <<pc, jobs, donelist>>
    BY <1>4 DEF RunMissing
  <2> QED BY <1>2, <1>4, <2>1 DEF RunMissing, Busy
<1>5. CASE CleanAndCheck(s)
  <2>1. /\ pc[s] = "clean" /\ UNCHANGED <<jobs, donelist, buildfalselist>>
        /\ \/ /\ depends[current[s]] \subseteq donelist[s]
              /\ pc' = [pc EXCEPT ![s] = "unpack"] /\ current' = current
           \/ pc' = [pc EXCEPT ![s] = "choose"]
    BY <1>5 DEF CleanAndCheck, Satisfied, Goto
  <2> QED BY <1>1, <2>1, <1>t DEF OrderInv, Waiting, Busy
<1>6. CASE Unpack(s) \/ Build(s) \/ Package(s)
  <2>1. /\ pc[s] \in {"unpack", "build", "package"}
        /\ \E next \in {"build", "package", "record"} : pc' = [pc EXCEPT ![s] = next]
        /\ UNCHANGED <<jobs, donelist, buildfalselist, current>>
    BY <1>6 DEF Unpack, Build, Package, Goto
  <2> QED BY <1>1, <2>1, <1>t DEF OrderInv, Waiting, Busy
<1>7. CASE Record(s)
  <2>1. PICK p \in Pkg : p = current[s]
    BY <1>7 DEF Record, BusyInv, Busy
  <2>2. p \in Waiting(s) /\ depends[p] \subseteq donelist[s]
    BY <1>7, <2>1 DEF Record, OrderInv, Busy
  <2>3. CASE MoreArchs(s)
    <3>1. /\ pc[s] = "record" /\ pc' = [pc EXCEPT ![s] = "build"]
          /\ UNCHANGED <<jobs, donelist, buildfalselist, current>>
      BY <1>7, <2>3 DEF Record, Goto
    <3> QED BY <1>1, <3>1, <1>t DEF OrderInv, Waiting, Busy
  <2>4. CASE ~ MoreArchs(s)
    <3>1. /\ pc' = [pc EXCEPT ![s] = "choose"] /\ UNCHANGED <<jobs, buildfalselist>>
          /\ donelist' = [donelist EXCEPT ![s] = @ \cup {p}]
      BY <1>7, <2>1, <2>4 DEF Record, Goto
    <3>2. Order(s)!Build(p)
      BY <2>2, <3>1, <1>t DEF Order!Build, Order!Outstanding, Waiting
    <3> QED BY <3>1, <3>2, <1>t DEF Order!Next, Busy
  <2> QED BY <2>3, <2>4
<1>8. CASE StepFails(s) \/ TreeGone(s)
  <2>1. /\ pc' = [pc EXCEPT ![s] = "choose"] /\ UNCHANGED <<jobs, donelist>>
        /\ buildfalselist' = [buildfalselist EXCEPT ![s] = @ \cup {current[s]}]
    BY <1>8 DEF StepFails, TreeGone, Failure, Goto
  <2>2. PICK p \in Waiting(s) : p = current[s]
    BY <1>8 DEF StepFails, TreeGone, OrderInv, Busy
  <2> QED BY <1>2, <2>1, <2>2, <1>t DEF Busy
<1>9. CASE End(s)
  <2>1. /\ pc' = [pc EXCEPT ![s] = "over"] /\ UNCHANGED <<jobs, donelist, buildfalselist>>
        /\ \A p \in Waiting(s) : ~ (depends[p] \subseteq donelist[s])
    BY <1>9 DEF End, Satisfied, Goto
  <2>2. Order(s)!Finish
    BY <2>1, <1>t DEF Order!Finish, Order!Outstanding, Waiting
  <2> QED BY <2>1, <2>2, <1>t DEF Order!Next, Busy
<1> QED BY <1>3, <1>4, <1>5, <1>6, <1>7, <1>8, <1>9 DEF SessionStep

\* Any step: the session that takes it, and the others.
LEMMA OrderNext ==
  ASSUME TypeOK, BusyInv, OrderInv, [Next]_vars
  PROVE  /\ OrderInv'
         /\ \A t \in Session :
              pc[t] # "over" /\ ~ Kill(t) => [Order(t)!Next]_(Order(t)!vars)
<1>1. CASE UNCHANGED vars
  BY <1>1 DEF vars, session, OrderInv, Waiting, Order!vars
<1>2. ASSUME NEW s \in Session, Begin(s) \/ SessionStep(s) \/ Kill(s)
      PROVE  /\ OrderInv'
             /\ \A t \in Session :
                  pc[t] # "over" /\ ~ Kill(t) => [Order(t)!Next]_(Order(t)!vars)
  <2>1. OnlyOwn(s)
    BY <1>2, StepIsOwn
  <2>2. \A t \in Session \ {s} :
          /\ pc'[t] \in Busy => current'[t] \in Waiting(t)'
          /\ pc'[t] \in Busy \ {"clean"} => depends[current'[t]] \subseteq donelist'[t]
    BY <2>1 DEF OnlyOwn, OrderInv, Waiting
  <2>3. \A t \in Session \ {s} : UNCHANGED Order(t)!vars
    BY <2>1 DEF OnlyOwn, Order!vars
  <2>4. CASE pc[s] # "over" /\ SessionStep(s)
    BY <2>2, <2>3, <2>4, OwnStep DEF OrderInv
  <2>5. CASE Begin(s) \/ Kill(s)
    <3>1. pc'[s] \notin Busy /\ (Begin(s) => pc[s] = "over")
      BY <2>5 DEF Begin, Kill, Goto, TypeOK, Busy
    <3> QED BY <2>2, <2>3, <2>5, <3>1 DEF OrderInv
  <2>6. SessionStep(s) => pc[s] # "over"
    BY DEF SessionStep, RunHpk, RunMissing, CleanAndCheck, Unpack, Build, Package, Record,
           StepFails, TreeGone, End
  <2> QED BY <1>2, <2>4, <2>5, <2>6
<1> QED BY <1>1, <1>2 DEF Next

\* For every dependency graph, any number of sessions at the same time and any
\* that are killed: each step of a session is one of BuildOrder, or a stutter.
THEOREM SessionsAreInOrder == Spec => SessionsKeepOrder
<1>1. TypeOK /\ BusyInv /\ OrderInv /\ [Next]_vars => OrderInv'
  BY OrderNext
<1>2. TypeOK /\ BusyInv /\ OrderInv /\ [Next]_vars
        => InOrder
  BY OrderNext DEF InOrder
<1> QED BY <1>1, <1>2, OrderInit, Invariance, PTL DEF Spec, SessionsKeepOrder
-----------------------------------------------------------------------------
LEMMA InTurnInit == Init => InTurnInv
BY DEF Init, InTurnInv, OneAtATime, RecordedStays, NoFalseErrors, RunInv

\* With one session at a time a step of one leaves the others over.
LEMMA OthersOver ==
  ASSUME TypeOK, OneAtATime, NEW s \in Session, pc[s] # "over", NEW step,
         pc' = [pc EXCEPT ![s] = step], RunInv(s)'
  PROVE  OneAtATime' /\ \A t \in Session : RunInv(t)'
<1>1. \A t \in Session : t # s => pc'[t] = "over"
  BY DEF OneAtATime, TypeOK
<1>2. OneAtATime'
  BY <1>1 DEF OneAtATime
<1>3. \A t \in Session : t # s => RunInv(t)'
  BY <1>1 DEF RunInv
<1> QED BY <1>2, <1>3

\* Before a session begins, none runs.
LEMMA NoneRuns ==
  ASSUME Concurrent = 1, NEW s \in Session, Begin(s)
  PROVE  \A t \in Session : pc[t] = "over"
<1>1. Running \subseteq Session /\ IsFiniteSet(Running)
  BY SessionAssumption, FS_Subset DEF Running
<1>2. Cardinality(Running) \in Nat /\ Cardinality(Running) < 1
  BY <1>1, FS_CardinalityType DEF Begin
<1>3. Running = {}
  BY <1>1, <1>2, FS_EmptySet
<1> QED BY <1>3 DEF Running

LEMMA BeginInTurn ==
  ASSUME Concurrent = 1, TypeOK, InTurnInv, NEW s \in Session, Begin(s)
  PROVE  InTurnInv'
<1>1. \A t \in Session : pc[t] = "over"
  BY NoneRuns
<1>2. PICK R \in SUBSET Pkg : jobs' = [jobs EXCEPT ![s] = R \ DoneLibs]
  BY DEF Begin, MakeLibsDir
<1>3. /\ pc' = [pc EXCEPT ![s] = "choose"] /\ donelist' = [donelist EXCEPT ![s] = DoneLibs]
      /\ buildfalselist' = [buildfalselist EXCEPT ![s] = {}]
      /\ failed' = [failed EXCEPT ![s] = {}]
      /\ current' = [current EXCEPT ![s] = NoPkg]
      /\ linked' = linked \cup jobs'[s] /\ UNCHANGED <<tree, usr, csv>>
  BY DEF Begin, Goto
<1>4. OneAtATime' /\ \A t \in Session : t # s => pc'[t] = "over"
  BY <1>1, <1>3 DEF OneAtATime, TypeOK
<1>5. RecordedStays' /\ NoFalseErrors'
  BY <1>3 DEF InTurnInv, RecordedStays, NoFalseErrors, TypeOK
<1>6. RunInv(s)'
  <2>1. pc'[s] = "choose" /\ current'[s] = NoPkg /\ jobs'[s] = R \ DoneLibs
    BY <1>2, <1>3 DEF TypeOK
  <2>2. Waiting(s)' \subseteq jobs'[s]
    BY DEF Waiting
  <2>3. \A p \in Waiting(s)' \ Renamed : ~ Recorded(p)'
    BY <1>2, <1>3, <2>1, <2>2 DEF DoneLibs, Recorded
  <2> QED BY <1>3, <2>1, <2>2, <2>3 DEF RunInv, Busy
<1>7. \A t \in Session : RunInv(t)'
  BY <1>4, <1>6 DEF RunInv
<1> QED BY <1>4, <1>5, <1>7 DEF InTurnInv

LEMMA RecordInTurn ==
  ASSUME TypeOK, BusyInv, InTurnInv, NEW s \in Session, Record(s)
  PROVE  InTurnInv'
<1> DEFINE p == current[s]
           a == ARCH(s)
<1>1. /\ pc[s] = "record" /\ p \in Pkg /\ a \in Archs(p)
      /\ k[s] \in 1 .. Len(archs[p]) /\ DOMAIN archs[p] = 1 .. Len(archs[p])
      /\ Len(archs[p]) \in Nat /\ IsInjective(archs[p])
      /\ csv' = csv \cup {<<p, a>>} /\ UNCHANGED <<tree, usr, jobs, buildfalselist, failed>>
  BY ArchType, ArchsType, ArchsAssumption DEF Record, Busy
<1>2. RunInv(s) /\ RecordedStays /\ NoFalseErrors /\ OneAtATime
  BY DEF InTurnInv
<1>3. RecordedStays'
  BY <1>1, <1>2 DEF RecordedStays, RunInv
<1>4. NoFalseErrors'
  BY <1>1, <1>2 DEF NoFalseErrors
<1>5. \A q \in Pkg : q # p => (Recorded(q)' <=> Recorded(q))
  BY <1>1 DEF Recorded
<1>6. Waiting(s) \subseteq Pkg
  BY DEF Waiting, TypeOK
<1>7. CASE MoreArchs(s)
  <2>1. /\ k' = [k EXCEPT ![s] = @ + 1] /\ pc' = [pc EXCEPT ![s] = "build"]
        /\ UNCHANGED <<donelist, current, linked>>
    BY <1>7 DEF Record, Goto
  <2>2. /\ pc'[s] = "build" /\ k'[s] = k[s] + 1 /\ Waiting(s)' = Waiting(s)
        /\ current'[s] = p
    BY <1>1, <2>1 DEF TypeOK, Waiting
  <2>3. \A m \in DOMAIN archs[p] : m >= k[s] + 1 => archs[p][m] # a /\ m >= k[s]
    BY <1>1 DEF IsInjective, ARCH
  <2>4. p \notin Renamed => \A m \in DOMAIN archs[p] : m >= k[s] + 1 => <<p, archs[p][m]>> \notin csv'
    BY <1>1, <1>2, <2>3 DEF RunInv, Busy
  <2>5. RunInv(s)'
    BY <1>1, <1>2, <1>5, <1>6, <2>1, <2>2, <2>4 DEF RunInv, Busy
  <2> QED BY <1>1, <1>2, <1>3, <1>4, <2>1, <2>5, OthersOver DEF InTurnInv
<1>8. CASE ~ MoreArchs(s)
  <2>1. /\ pc' = [pc EXCEPT ![s] = "choose"]
        /\ donelist' = [donelist EXCEPT ![s] = @ \cup {p}]
        /\ current' = [current EXCEPT ![s] = NoPkg] /\ linked' = linked \ {p}
    BY <1>8 DEF Record, Goto
  <2>2. /\ pc'[s] = "choose" /\ current'[s] = NoPkg /\ Waiting(s)' = Waiting(s) \ {p}
    BY <1>1, <2>1 DEF TypeOK, Waiting
  <2>3. RunInv(s)'
    BY <1>1, <1>2, <1>5, <1>6, <2>1, <2>2 DEF RunInv, Busy
  <2> QED BY <1>1, <1>2, <1>3, <1>4, <2>1, <2>3, OthersOver DEF InTurnInv
<1> QED BY <1>7, <1>8

\* A step of a build that fails or is cut off changes what has no row yet.
LEMMA BrokenKeepsRows ==
  ASSUME TypeOK, BusyInv, RecordedStays, NEW s \in Session, pc[s] # "over",
         RunInv(s), Broken(s), csv' = csv
  PROVE  RecordedStays'
<1>1. CASE usr' = usr
  BY <1>1 DEF RecordedStays
<1>2. CASE pc[s] = "package" /\ usr' = [usr EXCEPT ![current[s]][ARCH(s)] = "partial"]
  <2>1. /\ current[s] \in Pkg /\ ARCH(s) \in Archs(current[s]) /\ "partial" \in Contents
        /\ k[s] \in DOMAIN archs[current[s]]
    BY <1>2, ArchType DEF Busy, Contents
  <2>2. \A q \in Pkg : \A b \in Archs(q) :
          q # current[s] \/ b # ARCH(s) => usr'[q][b] = usr[q][b]
    BY <1>2, <2>1, UsrUpdate
  <2>3. current[s] \notin Renamed => <<current[s], ARCH(s)>> \notin csv
    <3>1. k[s] >= k[s]
      BY <2>1, ArchsType
    <3> QED BY <1>2, <2>1, <3>1 DEF RunInv, Busy, ARCH
  <2> QED BY <2>2, <2>3 DEF RecordedStays
<1> QED BY <1>1, <1>2 DEF Broken

LEMMA FailInTurn ==
  ASSUME TypeOK, BusyInv, InTurnInv, NEW s \in Session, StepFails(s)
  PROVE  InTurnInv'
<1> DEFINE p == current[s]
<1>1. /\ pc[s] \in Busy \ {"record"} /\ p \in Pkg /\ Broken(s) /\ csv' = csv /\ jobs' = jobs
      /\ donelist' = donelist /\ buildfalselist' = [buildfalselist EXCEPT ![s] = @ \cup {p}]
      /\ failed' = [failed EXCEPT ![s] = @ \cup {p}]
      /\ current' = [current EXCEPT ![s] = NoPkg] /\ linked' = linked \ {p}
      /\ pc' = [pc EXCEPT ![s] = "choose"]
  BY DEF StepFails, Failure, Goto, Busy, BusyInv
<1>2. RunInv(s) /\ RecordedStays /\ NoFalseErrors /\ OneAtATime
  BY DEF InTurnInv
<1>3. NoFalseErrors'
  BY <1>1, <1>2 DEF NoFalseErrors, TypeOK
<1>4. RecordedStays'
  BY <1>1, <1>2, BrokenKeepsRows DEF Busy
<1>5. /\ pc'[s] = "choose" /\ current'[s] = NoPkg /\ Waiting(s)' = Waiting(s) \ {p}
  BY <1>1 DEF TypeOK, Waiting
<1>6. \A q : Recorded(q)' <=> Recorded(q)
  BY <1>1 DEF Recorded
<1>7. RunInv(s)'
  BY <1>1, <1>2, <1>5, <1>6 DEF RunInv, Busy
<1> QED BY <1>1, <1>2, <1>3, <1>4, <1>7, OthersOver DEF InTurnInv, Busy

LEMMA InTurnNext ==
  ASSUME Concurrent = 1, TypeOK, BusyInv, InTurnInv, [Next]_vars
  PROVE  InTurnInv'
<1>1. CASE UNCHANGED vars
  BY <1>1 DEF vars, shared, session, InTurnInv, OneAtATime, RecordedStays, NoFalseErrors,
              RunInv, Waiting, Recorded, ARCH
<1>2. ASSUME NEW s \in Session, Begin(s)
      PROVE  InTurnInv'
  BY <1>2, BeginInTurn
<1>3. ASSUME NEW s \in Session, NEW p \in Pkg, RunHpk(s, p)
      PROVE  InTurnInv'
  <2>1. /\ pc[s] = "choose" /\ p \in Waiting(s) /\ pc' = [pc EXCEPT ![s] = "clean"]
        /\ current' = [current EXCEPT ![s] = p] /\ k' = [k EXCEPT ![s] = 1]
        /\ UNCHANGED <<linked, tree, usr, csv, jobs, donelist, buildfalselist, failed>>
    BY <1>3 DEF RunHpk, Goto, shared
  <2>2. RunInv(s) /\ OneAtATime /\ RecordedStays' /\ NoFalseErrors'
    BY <2>1 DEF InTurnInv, RecordedStays, NoFalseErrors
  <2>3. /\ pc'[s] = "clean" /\ current'[s] = p /\ k'[s] = 1 /\ Waiting(s)' = Waiting(s)
        /\ \A q : Recorded(q)' <=> Recorded(q)
    BY <2>1 DEF TypeOK, Waiting, Recorded
  <2>4. current[s] = NoPkg /\ p # NoPkg
    BY <2>1, <2>2, PkgAssumption DEF RunInv
  <2>5. p \notin Renamed => \A m \in DOMAIN archs[p] : <<p, archs[p][m]>> \notin csv
    BY <2>1, <2>2, <2>4, ArchsType DEF RunInv, Recorded
  <2>6. p \notin Renamed => \A m \in DOMAIN archs[p] : <<p, archs[p][m]>> \notin csv'
    BY <2>1, <2>5
  <2>7. /\ \A q \in Waiting(s)' \ Renamed : q = current'[s] \/ ~ Recorded(q)'
        /\ Waiting(s)' \subseteq linked' /\ current'[s] \in Waiting(s)'
    <3>1. /\ \A q \in Waiting(s) \ Renamed : ~ Recorded(q)
          /\ Waiting(s) \subseteq linked
      <4>1. Waiting(s) \subseteq Pkg
        BY DEF Waiting, TypeOK
      <4> QED BY <2>1, <2>2, <2>4, <4>1, PkgAssumption DEF RunInv
    <3> QED BY <2>1, <2>3, <3>1
  <2>8. RunInv(s)'
    BY <2>3, <2>6, <2>7 DEF RunInv, Busy
  <2> QED BY <2>1, <2>2, <2>8, OthersOver DEF InTurnInv
<1>4. ASSUME NEW s \in Session, NEW p \in Pkg, RunMissing(s, p)
      PROVE  FALSE
  BY <1>4 DEF RunMissing, InTurnInv, RunInv
<1>5. ASSUME NEW s \in Session, CleanAndCheck(s)
      PROVE  InTurnInv'
  <2>1. /\ pc[s] = "clean" /\ UNCHANGED <<usr, csv, jobs, donelist, buildfalselist, failed, k, linked>>
        /\ \/ pc' = [pc EXCEPT ![s] = "unpack"] /\ current' = current
           \/ pc' = [pc EXCEPT ![s] = "choose"] /\ current' = [current EXCEPT ![s] = NoPkg]
    BY <1>5 DEF CleanAndCheck, StayLinked, Goto
  <2>2. RunInv(s) /\ OneAtATime /\ RecordedStays' /\ NoFalseErrors'
    BY <2>1 DEF InTurnInv, RecordedStays, NoFalseErrors
  <2>3. Waiting(s)' = Waiting(s) /\ \A q : Recorded(q)' <=> Recorded(q)
    BY <2>1 DEF Waiting, Recorded
  <2>4. current[s] \in Pkg \ Renamed => ~ Recorded(current[s])
    <3> SUFFICES ASSUME current[s] \in Pkg \ Renamed PROVE ~ Recorded(current[s])
      OBVIOUS
    <3>1. k[s] = 1 /\ \A m \in DOMAIN archs[current[s]] :
            m >= 1 => <<current[s], archs[current[s]][m]>> \notin csv
      BY <2>1, <2>2 DEF RunInv, Busy
    <3>2. Archs(current[s]) = {archs[current[s]][m] : m \in DOMAIN archs[current[s]]}
      BY DEF Archs, Range
    <3>3. \A m \in DOMAIN archs[current[s]] : m >= 1
      BY ArchsType
    <3> QED BY <3>1, <3>2, <3>3 DEF Recorded
  <2>5. Waiting(s) \subseteq Pkg
    BY DEF Waiting, TypeOK
  <2>6. CASE pc' = [pc EXCEPT ![s] = "unpack"] /\ current' = current
    <3>1. pc'[s] = "unpack"
      BY <2>6 DEF TypeOK
    <3>2. RunInv(s)'
      BY <2>1, <2>2, <2>3, <2>6, <3>1 DEF RunInv, Busy
    <3> QED BY <2>1, <2>2, <2>6, <3>2, OthersOver DEF InTurnInv
  <2>7. CASE pc' = [pc EXCEPT ![s] = "choose"] /\ current' = [current EXCEPT ![s] = NoPkg]
    <3>1. pc'[s] = "choose" /\ current'[s] = NoPkg
      BY <2>7 DEF TypeOK
    <3>2. RunInv(s)'
      BY <2>1, <2>2, <2>3, <2>4, <2>5, <2>7, <3>1 DEF RunInv, Busy
    <3> QED BY <2>1, <2>2, <2>7, <3>2, OthersOver DEF InTurnInv
  <2> QED BY <2>1, <2>6, <2>7
<1>6. ASSUME NEW s \in Session, NEW next, pc[s] \in {"unpack", "build"},
             pc' = [pc EXCEPT ![s] = next], next \in {"build", "package"},
             tree' = tree \/ tree' = [tree EXCEPT ![current[s]] = "full"],
             tree'[current[s]] = "full",
             UNCHANGED <<linked, usr, csv, jobs, donelist, buildfalselist, failed, current, k>>
      PROVE  InTurnInv'
  <2>1. RunInv(s) /\ OneAtATime /\ RecordedStays' /\ NoFalseErrors'
    BY <1>6 DEF InTurnInv, RecordedStays, NoFalseErrors
  <2>2. /\ pc'[s] = next /\ Waiting(s)' = Waiting(s) /\ \A q : Recorded(q)' <=> Recorded(q)
    BY <1>6 DEF TypeOK, Waiting, Recorded
  <2>3. RunInv(s)'
    BY <1>6, <2>1, <2>2 DEF RunInv, Busy
  <2> QED BY <1>6, <2>1, <2>3, OthersOver DEF InTurnInv
<1>7. ASSUME NEW s \in Session, Unpack(s) \/ Build(s)
      PROVE  InTurnInv'
  <2>1. current[s] \in Pkg
    BY <1>7 DEF Unpack, Build, BusyInv, Busy
  <2> QED BY <1>6, <1>7, <2>1 DEF Unpack, Build, Goto, shared, TypeOK
<1>8. ASSUME NEW s \in Session, Package(s)
      PROVE  InTurnInv'
  <2>1. /\ pc[s] = "package" /\ pc' = [pc EXCEPT ![s] = "record"]
        /\ tree[current[s]] = "full" /\ usr' = [usr EXCEPT ![current[s]][ARCH(s)] = "full"]
        /\ UNCHANGED <<linked, tree, csv, jobs, donelist, buildfalselist, failed, current, k>>
        /\ current[s] \in Pkg /\ ARCH(s) \in Archs(current[s]) /\ "full" \in Contents
    BY <1>8, ArchType DEF Package, Goto, Busy, Contents
  <2>2. /\ usr'[current[s]][ARCH(s)] = "full"
        /\ \A q \in Pkg : \A b \in Archs(q) :
             q # current[s] \/ b # ARCH(s) => usr'[q][b] = usr[q][b]
    <3>1. \A q \in Pkg : \A b \in Archs(q) :
            q # current[s] \/ b # ARCH(s) => usr'[q][b] = usr[q][b]
      BY <2>1, UsrUpdate
    <3>2. usr'[current[s]][ARCH(s)] = "full"
      <4> DEFINE p == current[s]
                 a == ARCH(s)
      <4>1. p \in Pkg /\ a \in Archs(p) /\ usr' = [usr EXCEPT ![p][a] = "full"]
        BY <2>1
      <4>2. usr[p] = [b \in Archs(p) |-> usr[p][b]] /\ usr = [q \in Pkg |-> usr[q]]
        BY <4>1 DEF TypeOK
      <4> HIDE DEF p, a
      <4>3. usr'[p][a] = "full"
        BY <4>1, <4>2
      <4> QED BY <4>3 DEF p, a
    <3> QED BY <3>1, <3>2
  <2>3. RunInv(s) /\ OneAtATime /\ RecordedStays' /\ NoFalseErrors'
    BY <2>1, <2>2 DEF InTurnInv, RecordedStays, NoFalseErrors
  <2>4. /\ pc'[s] = "record" /\ Waiting(s)' = Waiting(s) /\ ARCH(s)' = ARCH(s)
        /\ \A q : Recorded(q)' <=> Recorded(q)
    BY <2>1 DEF TypeOK, Waiting, Recorded, ARCH
  <2>5. usr'[current[s]][ARCH(s)] = "full"
    BY <2>1, <2>2
  <2>6. RunInv(s)'
    BY <2>1, <2>3, <2>4, <2>5 DEF RunInv, Busy
  <2> QED BY <2>1, <2>3, <2>6, OthersOver DEF InTurnInv
<1>9. ASSUME NEW s \in Session, Record(s)
      PROVE  InTurnInv'
  BY <1>9, RecordInTurn
<1>10. ASSUME NEW s \in Session, StepFails(s)
       PROVE  InTurnInv'
  BY <1>10, FailInTurn
<1>11. ASSUME NEW s \in Session, TreeGone(s)
       PROVE  FALSE
  BY <1>11 DEF TreeGone, InTurnInv, RunInv
<1>12. ASSUME NEW s \in Session, End(s) \/ Kill(s)
       PROVE  InTurnInv'
  <2>1. /\ pc[s] # "over" /\ pc' = [pc EXCEPT ![s] = "over"] /\ csv' = csv
        /\ UNCHANGED <<buildfalselist, failed>>
    BY <1>12 DEF End, Kill, Goto
  <2>2. RunInv(s) /\ OneAtATime /\ RecordedStays /\ NoFalseErrors'
    BY <2>1 DEF InTurnInv, NoFalseErrors
  <2>3. RecordedStays'
    <3>1. CASE usr' = usr
      BY <2>1, <2>2, <3>1 DEF RecordedStays
    <3>2. CASE Broken(s)
      BY <2>1, <2>2, <3>2, BrokenKeepsRows
    <3> QED BY <1>12, <3>1, <3>2 DEF End, Kill
  <2>4. RunInv(s)'
    BY <2>1 DEF RunInv, TypeOK
  <2> QED BY <2>1, <2>2, <2>3, <2>4, OthersOver DEF InTurnInv
<1> QED
  BY <1>1, <1>2, <1>3, <1>4, <1>5, <1>7, <1>8, <1>9, <1>10, <1>11, <1>12
  DEF Next, SessionStep

LEMMA InTurn == ASSUME Concurrent = 1 PROVE Spec => []InTurnInv
<1>1. TypeOK /\ BusyInv /\ InTurnInv /\ [Next]_vars => InTurnInv'
  BY InTurnNext
<1> QED BY <1>1, InTurnInit, Invariance, PTL DEF Spec

\* Sessions that run in turn, however many, whichever fail or are killed: what
\* has a row stays installed in full for its architecture.
THEOREM RowsStayInstalled == ASSUME Concurrent = 1 PROVE Spec => []RecordedStays
<1>1. InTurnInv => RecordedStays
  BY DEF InTurnInv
<1> QED BY <1>1, InTurn, PTL

\* Sessions that run in turn: the packages reported as failed are those of
\* which a step failed.
THEOREM FailuresAreReal == ASSUME Concurrent = 1 PROVE Spec => []NoFalseErrors
<1>1. InTurnInv => NoFalseErrors
  BY DEF InTurnInv
<1> QED BY <1>1, InTurn, PTL
-----------------------------------------------------------------------------
(* The abstract specification of a package                                 *)

\* The architectures before the one a session is at have their rows.
EarlierInv ==
  \A s \in Session : pc[s] \in Busy =>
    \A m \in DOMAIN archs[current[s]] :
      m < k[s] => <<current[s], archs[current[s]][m]>> \in csv

LEMMA EarlierInit == Init => EarlierInv
BY DEF Init, EarlierInv, Busy

LEMMA EarlierNext == TypeOK /\ BusyInv /\ EarlierInv /\ [Next]_vars => EarlierInv'
<1> SUFFICES ASSUME TypeOK, BusyInv, EarlierInv, [Next]_vars PROVE EarlierInv'
  OBVIOUS
<1> USE DEF EarlierInv
<1>1. CASE UNCHANGED vars
  BY <1>1 DEF vars, shared, session
<1>2. ASSUME NEW s \in Session, pc'[s] \notin Busy, csv' = csv,
             \A t \in Session \ {s} :
               pc'[t] = pc[t] /\ current'[t] = current[t] /\ k'[t] = k[t]
      PROVE  EarlierInv'
  BY <1>2
<1>3. ASSUME NEW s \in Session, Begin(s) \/ StepFails(s) \/ TreeGone(s) \/ End(s) \/ Kill(s)
      PROVE  EarlierInv'
  BY <1>2, <1>3 DEF Begin, StepFails, TreeGone, Failure, End, Kill, Goto, TypeOK, Busy
<1>4. ASSUME NEW s \in Session, NEW p \in Pkg, RunMissing(s, p)
      PROVE  EarlierInv'
  BY <1>4 DEF RunMissing, shared
<1>5. ASSUME NEW s \in Session, NEW p \in Pkg, RunHpk(s, p)
      PROVE  EarlierInv'
  <2>1. \A m \in DOMAIN archs[p] : ~ (m < 1)
    BY ArchsType
  <2> QED BY <1>5, <2>1 DEF RunHpk, Goto, shared, TypeOK, Busy
<1>6. ASSUME NEW s \in Session, CleanAndCheck(s) \/ Unpack(s) \/ Build(s) \/ Package(s)
      PROVE  EarlierInv'
  BY <1>6 DEF CleanAndCheck, Unpack, Build, Package, Goto, shared, TypeOK, Busy
<1>7. ASSUME NEW s \in Session, Record(s)
      PROVE  EarlierInv'
  <2>1. /\ pc[s] = "record" /\ csv' = csv \cup {<<current[s], archs[current[s]][k[s]]>>}
        /\ \/ /\ pc' = [pc EXCEPT ![s] = "build"] /\ current' = current
              /\ k' = [k EXCEPT ![s] = @ + 1]
           \/ /\ pc' = [pc EXCEPT ![s] = "choose"] /\ k' = [k EXCEPT ![s] = 1]
              /\ current' = [current EXCEPT ![s] = NoPkg]
    BY <1>7 DEF Record, Goto, ARCH
  <2>2. \A m \in DOMAIN archs[current[s]] : m < k[s] + 1 => m < k[s] \/ m = k[s]
    BY <2>1, ArchsType DEF BusyInv, Busy, TypeOK
  <2> QED BY <2>1, <2>2 DEF TypeOK, Busy
<1> QED BY <1>1, <1>3, <1>4, <1>5, <1>6, <1>7 DEF Next, SessionStep

\* The two names of Range.
LEMMA InstRange == \A p, f : Inst(p)!Range(f) = Range(f)
BY DEF Inst!Range, Range

\* The architecture a session is at is the one whose turn it is.
LEMMA ArchIsDue ==
  ASSUME TypeOK, BusyInv, EarlierInv, NEW s \in Session, RunInv(s), pc[s] \in Busy,
         NEW p \in Pkg \ Renamed, p = current[s], NEW a, a = ARCH(s)
  PROVE  a \in Archs(p) /\ Inst(p)!Due(a)
<1>1. /\ k[s] \in DOMAIN archs[p] /\ a \in Archs(p) /\ a = archs[p][k[s]]
      /\ DOMAIN archs[p] = 1 .. Len(archs[p]) /\ Len(archs[p]) \in Nat
      /\ IsInjective(archs[p])
  BY ArchType, ArchsType, ArchsAssumption DEF ARCH
<1>2. a \in Range(archs[p]) \ RowsOf(p)
  BY <1>1 DEF RunInv, RowsOf, Archs, Busy
<1>3. ASSUME NEW m \in DOMAIN archs[p], NEW n \in DOMAIN archs[p], m < n, archs[p][n] = a
      PROVE  archs[p][m] \in RowsOf(p)
  <2>1. n = k[s]
    BY <1>1, <1>3 DEF IsInjective
  <2> QED BY <1>3, <2>1, ArchsType DEF EarlierInv, RowsOf
<1> QED BY <1>1, <1>2, <1>3, InstRange DEF Inst!Due

\* What is installed of each package, after a step on one architecture of one.
LEMMA UsrOfOthers ==
  ASSUME TypeOK, NEW p \in Pkg, NEW a, NEW c, usr' = [usr EXCEPT ![p][a] = c]
  PROVE  /\ usr'[p] = [usr[p] EXCEPT ![a] = c]
         /\ \A q \in Pkg \ {p} : usr'[q] = usr[q]
<1>1. usr = [q \in Pkg |-> usr[q]]
  BY DEF TypeOK
<1>2. usr' = [usr EXCEPT ![p] = [usr[p] EXCEPT ![a] = c]]
  OBVIOUS
<1> QED BY <1>1, <1>2

\* While a session runs, the package it is at is the one that is built.
LEMMA BuildingIsCurrent ==
  ASSUME OneAtATime, NEW s \in Session, pc[s] # "over"
  PROVE  \A p \in Pkg : Building(p) <=> current[s] = p
BY DEF OneAtATime, Building, Running

\* A step that leaves the files, the rows and the package of the running
\* session alone.
LEMMA InstallsNothing ==
  ASSUME OneAtATime, OneAtATime', NEW s \in Session, pc[s] # "over",
         usr' = usr, csv' = csv,
         pc'[s] # "over" => current'[s] = current[s],
         pc'[s] = "over" => current[s] \notin Pkg /\ \A t \in Session \ {s} : pc'[t] = pc[t]
  PROVE  Installs
<1>1. \A p \in Pkg : Building(p)' <=> Building(p)
  <2>1. \A p \in Pkg : Building(p) <=> current[s] = p
    BY BuildingIsCurrent
  <2>2. CASE pc'[s] # "over"
    <3>1. \A p \in Pkg : Building(p)' <=> current'[s] = p
      BY <2>2 DEF OneAtATime, Building, Running
    <3> QED BY <2>1, <2>2, <3>1
  <2>3. CASE pc'[s] = "over"
    <3>1. \A t \in Session : pc'[t] = "over"
      BY <2>3 DEF OneAtATime
    <3> QED BY <2>1, <2>3, <3>1 DEF Building, Running
  <2> QED BY <2>2, <2>3
<1>2. \A p \in Pkg : UNCHANGED Inst(p)!vars
  <2> TAKE p \in Pkg
  <2>1. RowsOf(p)' = RowsOf(p) /\ Building(p)' = Building(p)
    <3>1. Building(p) \in BOOLEAN /\ Building(p)' \in BOOLEAN
      BY DEF Building
    <3> QED BY <1>1, <3>1 DEF RowsOf
  <2> QED BY <2>1 DEF Inst!vars
<1> QED BY <1>2 DEF Installs

\* Afterwards nothing is built, and at most the architecture the session was at
\* is damaged.
LEMMA InstallsStop ==
  ASSUME TypeOK, BusyInv, InTurnInv, EarlierInv, NEW s \in Session, pc[s] \in Busy,
         usr' = usr \/ Broken(s), csv' = csv, \A p \in Pkg : ~ Building(p)'
  PROVE  Installs
<1> SUFFICES ASSUME NEW p \in Pkg \ Renamed
             PROVE  [Inst(p)!Next]_(Inst(p)!vars)
  BY DEF Installs
<1>1. /\ RunInv(s) /\ Building(p) \in BOOLEAN /\ Building(p)' \in BOOLEAN
      /\ Building(p) <=> current[s] = p
      /\ RowsOf(p)' = RowsOf(p) /\ ~ Building(p)'
  BY BuildingIsCurrent DEF InTurnInv, Busy, Building, RowsOf
<1>2. PICK q \in Pkg : q = current[s]
  BY DEF BusyInv
<1>3. PICK a : a = ARCH(s)
  OBVIOUS
<1>4. \/ usr' = usr
      \/ usr' = [usr EXCEPT ![q][a] = "partial"]
  BY <1>2, <1>3 DEF Broken
<1>5. CASE p # q
  <2>1. usr'[p] = usr[p]
    <3>1. usr' = [usr EXCEPT ![q][a] = "partial"] => \A r \in Pkg \ {q} : usr'[r] = usr[r]
      BY UsrOfOthers
    <3> QED BY <1>4, <1>5, <3>1
  <2>2. UNCHANGED Inst(p)!vars
    BY <1>1, <1>2, <1>5, <2>1 DEF Inst!vars
  <2> QED BY <2>2
<1>6. CASE p = q
  <2>1. Inst(p)!Due(a) /\ a \in Archs(p)
    BY <1>1, <1>2, <1>3, <1>6, ArchIsDue
  <2>2. \/ usr'[p] = usr[p]
        \/ usr'[p] = [usr[p] EXCEPT ![a] = "partial"]
    BY <1>4, <1>6, UsrOfOthers
  <2>3. Inst(p)!Stop
    BY <1>1, <1>2, <1>6, <2>1, <2>2, InstRange DEF Inst!Stop, Archs
  <2> QED BY <2>3 DEF Inst!Next
<1> QED BY <1>5, <1>6

LEMMA InstallsPackage ==
  ASSUME TypeOK, BusyInv, InTurnInv, EarlierInv, OneAtATime', NEW s \in Session, Package(s)
  PROVE  Installs
<1> SUFFICES ASSUME NEW p \in Pkg \ Renamed
             PROVE  [Inst(p)!Next]_(Inst(p)!vars)
  BY DEF Installs
<1>1. PICK q \in Pkg : q = current[s]
  BY DEF Package, BusyInv, Busy
<1>2. PICK a : a = ARCH(s)
  OBVIOUS
<1>3. /\ pc[s] = "package" /\ pc'[s] = "record" /\ current' = current /\ csv' = csv
      /\ usr' = [usr EXCEPT ![q][a] = "full"]
  BY <1>1, <1>2 DEF Package, Goto, TypeOK
<1>4. /\ Building(p) \in BOOLEAN /\ Building(p)' \in BOOLEAN
      /\ RowsOf(p)' = RowsOf(p) /\ RunInv(s)
  BY <1>3 DEF Building, RowsOf, InTurnInv
<1>5. (Building(p) <=> current[s] = p) /\ (Building(p)' <=> current[s] = p)
  BY <1>3 DEF InTurnInv, OneAtATime, Building, Running
<1>6. CASE p # q
  <2>1. usr'[p] = usr[p]
    BY <1>3, <1>6, UsrOfOthers
  <2>2. UNCHANGED Inst(p)!vars
    BY <1>4, <1>5, <2>1 DEF Inst!vars
  <2> QED BY <2>2
<1>7. CASE p = q
  <2>1. Inst(p)!Due(a) /\ a \in Archs(p)
    BY <1>1, <1>2, <1>3, <1>4, <1>7, ArchIsDue DEF Busy
  <2>2. usr'[p] = [usr[p] EXCEPT ![a] = "full"]
    <3>1. usr = [r \in Pkg |-> usr[r]] /\ usr' = [usr EXCEPT ![p] = [usr[p] EXCEPT ![a] = "full"]]
      BY <1>3, <1>7 DEF TypeOK
    <3> QED BY <3>1
  <2>3. Inst(p)!Install(a)
    BY <1>1, <1>4, <1>5, <1>7, <2>1, <2>2 DEF Inst!Install
  <2> QED BY <2>1, <2>3, InstRange DEF Inst!Next, Archs
<1> QED BY <1>6, <1>7

LEMMA InstallsRecord ==
  ASSUME TypeOK, BusyInv, InTurnInv, EarlierInv, OneAtATime', NEW s \in Session, Record(s)
  PROVE  Installs
<1> SUFFICES ASSUME NEW p \in Pkg \ Renamed
             PROVE  [Inst(p)!Next]_(Inst(p)!vars)
  BY DEF Installs
<1>1. PICK q \in Pkg : q = current[s]
  BY DEF Record, BusyInv, Busy
<1>2. PICK a : a = ARCH(s)
  OBVIOUS
<1>3. /\ pc[s] = "record" /\ pc'[s] \in {"build", "choose"} /\ usr' = usr
      /\ csv' = csv \cup {<<q, a>>}
      /\ MoreArchs(s) => current' = current
      /\ ~ MoreArchs(s) => current'[s] = NoPkg
  BY <1>1, <1>2 DEF Record, Goto, TypeOK
<1>4. /\ Building(p) \in BOOLEAN /\ Building(p)' \in BOOLEAN /\ RunInv(s)
  BY DEF Building, InTurnInv
<1>5. (Building(p) <=> current[s] = p) /\ (Building(p)' <=> current'[s] = p)
  BY <1>3 DEF InTurnInv, OneAtATime, Building, Running
<1>6. CASE p # q
  <2>1. RowsOf(p)' = RowsOf(p)
    BY <1>3, <1>6 DEF RowsOf
  <2>2. current[s] # p /\ current'[s] # p
    BY <1>1, <1>3, <1>6, PkgAssumption
  <2>3. UNCHANGED Inst(p)!vars
    BY <1>3, <1>4, <1>5, <2>1, <2>2 DEF Inst!vars
  <2> QED BY <2>3
<1>7. CASE p = q
  <2>1. /\ k[s] \in DOMAIN archs[p] /\ a \in Archs(p) /\ a = archs[p][k[s]]
        /\ DOMAIN archs[p] = 1 .. Len(archs[p]) /\ Len(archs[p]) \in Nat
        /\ IsInjective(archs[p])
    BY <1>1, <1>2, <1>3, <1>7, ArchType, ArchsType, ArchsAssumption DEF ARCH, Busy
  <2>2. Inst(p)!Due(a) /\ usr[p][a] = "full"
    BY <1>1, <1>2, <1>3, <1>4, <1>7, ArchIsDue DEF RunInv, Busy
  <2>3. RowsOf(p)' = RowsOf(p) \cup {a}
    BY <1>3, <1>7, <2>1 DEF RowsOf
  <2>4. Building(p)' <=> RowsOf(p)' # Archs(p)
    <3>1. CASE MoreArchs(s)
      <4>1. k[s] + 1 \in DOMAIN archs[p] /\ k[s] + 1 >= k[s] /\ k[s] + 1 # k[s]
        BY <1>1, <1>7, <2>1, <3>1 DEF MoreArchs
      <4>2. <<p, archs[p][k[s] + 1]>> \notin csv /\ archs[p][k[s] + 1] # a
        BY <1>1, <1>3, <1>4, <1>7, <2>1, <4>1 DEF RunInv, Busy, IsInjective
      <4>3. archs[p][k[s] + 1] \in Archs(p) \ RowsOf(p)'
        BY <2>3, <4>1, <4>2 DEF RowsOf, Archs, Range
      <4> QED BY <1>1, <1>3, <1>5, <1>7, <3>1, <4>3
    <3>2. CASE ~ MoreArchs(s)
      <4>1. ASSUME NEW m \in DOMAIN archs[p]
            PROVE  archs[p][m] \in RowsOf(p)'
        <5>1. m < k[s] \/ m = k[s]
          BY <1>1, <1>7, <2>1, <3>2 DEF MoreArchs
        <5> QED BY <1>1, <1>3, <1>7, <2>1, <2>3, <5>1, ArchsType DEF EarlierInv, RowsOf, Busy
      <4>2. RowsOf(p)' = Archs(p)
        BY <4>1 DEF RowsOf, Archs, Range
      <4> QED BY <1>3, <1>5, <3>2, <4>2, PkgAssumption
    <3> QED BY <3>1, <3>2
  <2>5. Inst(p)!Record(a)
    BY <1>1, <1>3, <1>4, <1>5, <1>7, <2>2, <2>3, <2>4, InstRange DEF Inst!Record, Archs
  <2> QED BY <2>1, <2>5, InstRange DEF Inst!Next, Archs
<1> QED BY <1>6, <1>7

LEMMA InstallsNext ==
  ASSUME Concurrent = 1, TypeOK, BusyInv, InTurnInv, EarlierInv, [Next]_vars
  PROVE  Installs
<1>0. InTurnInv' /\ OneAtATime /\ OneAtATime' /\ \A s \in Session : RunInv(s)
  BY InTurnNext DEF InTurnInv
<1>1. CASE UNCHANGED vars
  BY <1>1 DEF vars, shared, session, Installs, Inst!vars, RowsOf, Building, Running
<1>2. ASSUME NEW s \in Session, Begin(s)
      PROVE  Installs
  <2>1. \A t \in Session : pc[t] = "over"
    BY <1>2, NoneRuns
  <2>2. /\ pc'[s] = "choose" /\ current'[s] = NoPkg /\ UNCHANGED <<usr, csv>>
        /\ \A t \in Session \ {s} : pc'[t] = "over"
    BY <1>2, <2>1 DEF Begin, Goto, TypeOK
  <2>3. \A p \in Pkg : Building(p) = FALSE /\ Building(p)' = FALSE
    BY <2>1, <2>2, PkgAssumption DEF Building, Running
  <2>4. \A p \in Pkg : UNCHANGED Inst(p)!vars
    BY <2>2, <2>3 DEF Inst!vars, RowsOf
  <2> QED BY <2>4 DEF Installs
<1>3. ASSUME NEW s \in Session, NEW q \in Pkg, RunHpk(s, q)
      PROVE  Installs
  <2>1. /\ pc[s] = "choose" /\ pc'[s] = "clean" /\ current'[s] = q /\ q \in Waiting(s)
        /\ UNCHANGED <<usr, csv>> /\ current[s] = NoPkg /\ q # NoPkg
    BY <1>0, <1>3, PkgAssumption DEF RunHpk, Goto, shared, TypeOK, RunInv
  <2>2. \A p \in Pkg : Building(p) = FALSE /\ Building(p)' = (p = q)
    <3>1. \A p \in Pkg : (Building(p) <=> current[s] = p) /\ (Building(p)' <=> current'[s] = p)
      BY <1>0, <2>1 DEF OneAtATime, Building, Running
    <3>2. \A p \in Pkg : Building(p) \in BOOLEAN /\ Building(p)' \in BOOLEAN
      BY DEF Building
    <3> QED BY <2>1, <3>1, <3>2, PkgAssumption
  <2>3. \A p \in Pkg : RowsOf(p)' = RowsOf(p)
    BY <2>1 DEF RowsOf
  <2>4. q \notin Renamed => RowsOf(q) = {}
    BY <1>0, <2>1 DEF RunInv, Recorded, RowsOf
  <2> SUFFICES ASSUME NEW p \in Pkg \ Renamed
               PROVE  [Inst(p)!Next]_(Inst(p)!vars)
    BY DEF Installs
  <2>5. CASE p # q
    BY <2>1, <2>2, <2>3, <2>5 DEF Inst!vars
  <2>6. CASE p = q
    <3>1. Inst(p)!Begin
      BY <2>1, <2>2, <2>3, <2>4, <2>6 DEF Inst!Begin
    <3> QED BY <3>1 DEF Inst!Next
  <2> QED BY <2>5, <2>6
<1>4. ASSUME NEW s \in Session, NEW q \in Pkg, RunMissing(s, q)
      PROVE  Installs
  <2>1. /\ pc[s] # "over" /\ pc'[s] # "over" /\ current'[s] = current[s]
        /\ UNCHANGED <<usr, csv>>
    BY <1>4 DEF RunMissing, shared
  <2> QED BY <1>0, <2>1, InstallsNothing
<1>5. ASSUME NEW s \in Session, pc[s] \in Busy, pc'[s] = "over" \/ current'[s] = NoPkg,
             csv' = csv, usr' = usr \/ Broken(s),
             \A t \in Session \ {s} : pc'[t] = pc[t]
      PROVE  Installs
  <2>1. \A p \in Pkg : ~ Building(p)'
    BY <1>0, <1>5, PkgAssumption DEF OneAtATime, Building, Running, Busy
  <2> QED BY <1>5, <2>1, InstallsStop
<1>6. ASSUME NEW s \in Session, CleanAndCheck(s)
      PROVE  Installs
  <2>1. /\ pc[s] = "clean" /\ UNCHANGED <<usr, csv>>
        /\ \/ pc'[s] = "unpack" /\ current' = current
           \/ current'[s] = NoPkg /\ \A t \in Session \ {s} : pc'[t] = pc[t]
    BY <1>6 DEF CleanAndCheck, Goto, TypeOK
  <2>2. CASE pc'[s] = "unpack" /\ current' = current
    <3>1. pc[s] # "over" /\ pc'[s] # "over" /\ current'[s] = current[s]
      BY <2>1, <2>2
    <3> QED BY <1>0, <2>1, <3>1, InstallsNothing
  <2>3. CASE current'[s] = NoPkg /\ \A t \in Session \ {s} : pc'[t] = pc[t]
    BY <1>5, <2>1, <2>3 DEF Busy
  <2> QED BY <2>1, <2>2, <2>3
<1>7. ASSUME NEW s \in Session, Unpack(s) \/ Build(s)
      PROVE  Installs
  <2>1. /\ pc[s] # "over" /\ pc'[s] # "over" /\ current'[s] = current[s]
        /\ UNCHANGED <<usr, csv>>
    BY <1>7 DEF Unpack, Build, Goto, shared, TypeOK
  <2> QED BY <1>0, <2>1, InstallsNothing
<1>8. ASSUME NEW s \in Session, Package(s) \/ Record(s)
      PROVE  Installs
  BY <1>0, <1>8, InstallsPackage, InstallsRecord
<1>9. ASSUME NEW s \in Session, StepFails(s)
      PROVE  Installs
  <2>1. /\ pc[s] \in Busy /\ current'[s] = NoPkg /\ csv' = csv /\ Broken(s)
        /\ \A t \in Session \ {s} : pc'[t] = pc[t]
    BY <1>9 DEF StepFails, Failure, Goto, TypeOK, Busy
  <2> QED BY <1>5, <2>1
<1>10. ASSUME NEW s \in Session, TreeGone(s)
       PROVE  FALSE
  BY <1>0, <1>10 DEF TreeGone, RunInv
<1>11. ASSUME NEW s \in Session, End(s) \/ Kill(s)
       PROVE  Installs
  <2>1. /\ pc[s] # "over" /\ pc'[s] = "over" /\ csv' = csv /\ (usr' = usr \/ Broken(s))
        /\ \A t \in Session \ {s} : pc'[t] = pc[t]
        /\ pc[s] \notin Busy => pc[s] = "choose"
    BY <1>11 DEF End, Kill, Goto, TypeOK, Busy
  <2>2. CASE pc[s] \in Busy
    BY <1>5, <2>1, <2>2
  <2>3. CASE pc[s] = "choose"
    <3>1. usr' = usr /\ current[s] \notin Pkg
      BY <1>0, <1>11, <2>3, PkgAssumption DEF End, Kill, Broken, RunInv
    <3> QED BY <1>0, <2>1, <3>1, InstallsNothing
  <2> QED BY <2>1, <2>2, <2>3
<1> QED
  BY <1>1, <1>2, <1>3, <1>4, <1>6, <1>7, <1>8, <1>9, <1>10, <1>11 DEF Next, SessionStep

\* Sessions that run in turn, for any packages and architectures, whichever
\* fail or are killed: each package is installed as Installation says.
THEOREM PackagesAreInstalled == ASSUME Concurrent = 1 PROVE Spec => ImplementsInstallation
<1>1. Init => \A p \in Pkg : Inst(p)!Init
  BY InstRange DEF Init, Inst!Init, Archs, RowsOf, Building, Running
<1>2. TypeOK /\ BusyInv /\ EarlierInv /\ [Next]_vars => EarlierInv'
  BY EarlierNext
<1>3. TypeOK /\ BusyInv /\ InTurnInv /\ EarlierInv /\ [Next]_vars => Installs
  BY InstallsNext
<1> QED
  BY <1>1, <1>2, <1>3, EarlierInit, InTurn, Invariance, PTL DEF Spec, ImplementsInstallation
=============================================================================
