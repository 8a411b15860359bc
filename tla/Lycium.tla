------------------------------- MODULE Lycium -------------------------------
(***************************************************************************)
(* Several sessions of lycium/build.sh on one checkout, one after another  *)
(* or at the same time, and what they share: the links in the packages'    *)
(* directories, the source trees, what is installed under usr/, and the    *)
(* rows of usr/hpk_build.csv.                                              *)
(*                                                                         *)
(* A session is reduced to what it does to these.  It takes its packages   *)
(* in any order and tries each one as often as it likes (BuildHpk has the  *)
(* rounds), and is asked for packages with all their dependencies, for     *)
(* which the rounds were shown to end only when nothing can be built.  A   *)
(* run of build_hpk.sh is reduced to the steps that one session can        *)
(* disturb in another (HpkPackage has them all, ArchLoop the environment). *)
(***************************************************************************)
EXTENDS Integers, Sequences, FiniteSets, Functions

CONSTANTS
  Session,    \* names of sessions, each of which may run again and again
  Concurrent, \* how many may run at the same time
  Pkg, NoPkg, \* the directories of packages; no package
  depends,    \* depends[p]: the directories p depends on
  archs,      \* archs[p]: the array of p's HPKBUILD
  Renamed,    \* the packages whose pkgname is not their directory
  StepsFail,  \* steps of a build may fail
  MaxKills    \* bound on the sessions that are killed

Archs(p) == Range(archs[p])

ASSUME SessionAssumption == Concurrent \in Nat \ {0} /\ IsFiniteSet(Session)
ASSUME PkgAssumption == NoPkg \notin Pkg /\ Renamed \subseteq Pkg
ASSUME DependsAssumption == depends \in [Pkg -> SUBSET (Pkg \ Renamed)]
ASSUME ArchsAssumption ==
  /\ DOMAIN archs = Pkg
  /\ \A p \in Pkg : /\ archs[p] \in Seq(Archs(p)) /\ archs[p] # <<>> /\ IsInjective(archs[p])
                    /\ \A q \in depends[p] : Archs(p) \subseteq Archs(q)
ASSUME FaultsAssumption == StepsFail \in BOOLEAN /\ MaxKills \in Nat

VARIABLES
  linked,       \* the packages whose directory has the link to build_hpk.sh
  tree,         \* tree[p]: the source tree, "none", "partial" or "full"
  usr,          \* usr[p][a]: what is installed, by the same scale
  csv,          \* the rows, <<p, a>>
  pc,           \* pc[s]: "over", "choose", or the step of the build it runs
  jobs,         \* jobs[s]: the packages it took on, its hpkPaths
  donelist,     \* donelist[s]: what it takes for built
  buildfalselist, \* buildfalselist[s]: what it reports as failed
  failed,       \* failed[s]: the packages of which a step failed
  current, k,   \* current[s], k[s]: what it builds, the position of ARCH
  kills         \* how many sessions were killed

shared == <<linked, tree, usr, csv>>
session == <<pc, jobs, donelist, buildfalselist, failed, current, k>>
vars == <<shared, session, kills>>

Contents == {"none", "partial", "full"}

Init ==
  /\ linked = {} /\ csv = {}
  /\ tree = [p \in Pkg |-> "none"]
  /\ usr = [p \in Pkg |-> [a \in Archs(p) |-> "none"]]
  /\ pc = [s \in Session |-> "over"]
  /\ jobs = [s \in Session |-> {}]
  /\ donelist = [s \in Session |-> {}]
  /\ buildfalselist = [s \in Session |-> {}]
  /\ failed = [s \in Session |-> {}]
  /\ current = [s \in Session |-> NoPkg]
  /\ k = [s \in Session |-> 1]
  /\ kills = 0

(***************************************************************************)
(* Mutated forms of the definitions that follow: each breaks the property  *)
(* its comment names, and no specification uses it.                        *)
(***************************************************************************)
\* RegistryClosed: a dependency that failed does not hold a package up.
DoneOrFailed(s) == donelist[s] \cup buildfalselist[s]
\* RecordedStays: a package counts as built only when all its rows are there.
WithAllRows == {p \in Pkg \ Renamed : \A a \in Archs(p) : <<p, a>> \in csv}
\* NoFalseErrors: rmovelinkfiles for a package that has to wait, as for one
\* that is settled.
UnlinkWaiting(p) == linked \ {p}
\* EventuallyRecorded: what has a directory under usr/ counts as built.
Installed == {p \in Pkg \ Renamed : \E a \in Archs(p) : usr[p][a] # "none"}
\* TypeOK: the loop runs one round too many.
OneMoreArch(s) == k[s] <= Len(archs[current[s]])
-----------------------------------------------------------------------------
Goto(s, step) == pc' = [pc EXCEPT ![s] = step]

ARCH(s) == archs[current[s]][k[s]]

MoreArchs(s) == k[s] < Len(archs[current[s]])

Running == {s \in Session : pc[s] # "over"}

\* readdonelibs: the names in the csv, each of which may be a directory.
DoneLibs == {p \in Pkg \ Renamed : \E a \in Archs(p) : <<p, a>> \in csv}

\* makelibsdir: those of R that are not in donelibs.
MakeLibsDir(R, done) == R \ done

Waiting(s) == jobs[s] \ (donelist[s] \cup buildfalselist[s])

\* What builddepends compares with: the dependencies that are done.
Satisfied(s) == donelist[s]

\* The session starts with a set of packages and all their dependencies.
Begin(s) ==
  /\ pc[s] = "over" /\ Cardinality(Running) < Concurrent
  /\ \E R \in (SUBSET Pkg) \ {{}} :
       /\ \A p \in R : depends[p] \subseteq R
       /\ jobs' = [jobs EXCEPT ![s] = MakeLibsDir(R, DoneLibs)]
  /\ donelist' = [donelist EXCEPT ![s] = DoneLibs]
  /\ buildfalselist' = [buildfalselist EXCEPT ![s] = {}]
  /\ failed' = [failed EXCEPT ![s] = {}]
  /\ current' = [current EXCEPT ![s] = NoPkg]
  /\ k' = [k EXCEPT ![s] = 1]
  /\ linked' = linked \cup jobs'[s]
  /\ Goto(s, "choose")
  /\ UNCHANGED <<tree, usr, csv, kills>>

\* bash ${PWD}/build_hpk.sh, which sources the HPKBUILD and envset.sh.
RunHpk(s, p) ==
  /\ pc[s] = "choose" /\ p \in Waiting(s) /\ p \in linked
  /\ current' = [current EXCEPT ![s] = p]
  /\ k' = [k EXCEPT ![s] = 1]
  /\ Goto(s, "clean")
  /\ UNCHANGED <<shared, jobs, donelist, buildfalselist, failed, kills>>

\* There is nothing to run: 127, and the package counts as failed.
RunMissing(s, p) ==
  /\ pc[s] = "choose" /\ p \in Waiting(s) /\ p \notin linked
  /\ buildfalselist' = [buildfalselist EXCEPT ![s] = @ \cup {p}]
  /\ UNCHANGED <<shared, pc, jobs, donelist, failed, current, k, kills>>

\* What a package that has to wait keeps.
StayLinked(p) == linked

\* cleanbuild, and then builddepends: 101 when a dependency is missing.
CleanAndCheck(s) ==
  /\ pc[s] = "clean"
  /\ tree' = [tree EXCEPT ![current[s]] = "none"]
  /\ IF depends[current[s]] \subseteq Satisfied(s)
     THEN Goto(s, "unpack") /\ UNCHANGED <<current, linked>>
     ELSE /\ Goto(s, "choose")
          /\ current' = [current EXCEPT ![s] = NoPkg]
          /\ linked' = StayLinked(current[s])
  /\ UNCHANGED <<usr, csv, jobs, donelist, buildfalselist, failed, k, kills>>

\* unpack, over what is there.
Unpack(s) ==
  /\ pc[s] = "unpack" /\ Goto(s, "build")
  /\ tree' = [tree EXCEPT ![current[s]] = "full"]
  /\ UNCHANGED <<linked, usr, csv, jobs, donelist, buildfalselist, failed, current, k, kills>>

\* prepare and build, for which the tree has to be there.
Build(s) ==
  /\ pc[s] = "build" /\ tree[current[s]] = "full" /\ Goto(s, "package")
  /\ UNCHANGED <<shared, jobs, donelist, buildfalselist, failed, current, k, kills>>

Package(s) ==
  /\ pc[s] = "package" /\ tree[current[s]] = "full" /\ Goto(s, "record")
  /\ usr' = [usr EXCEPT ![current[s]][ARCH(s)] = "full"]
  /\ UNCHANGED <<linked, tree, csv, jobs, donelist, buildfalselist, failed, current, k, kills>>

\* recordbuildlibs; after the last architecture the package is done, and its
\* links are removed.
Record(s) ==
  /\ pc[s] = "record"
  /\ csv' = csv \cup {<<current[s], ARCH(s)>>}
  /\ IF MoreArchs(s)
     THEN /\ k' = [k EXCEPT ![s] = @ + 1] /\ Goto(s, "build")
          /\ UNCHANGED <<donelist, current, linked>>
     ELSE /\ k' = [k EXCEPT ![s] = 1] /\ Goto(s, "choose")
          /\ donelist' = [donelist EXCEPT ![s] = @ \cup {current[s]}]
          /\ current' = [current EXCEPT ![s] = NoPkg]
          /\ linked' = linked \ {current[s]}
  /\ UNCHANGED <<tree, usr, jobs, buildfalselist, failed, kills>>

\* What a step that fails or is cut off leaves behind.
Broken(s) ==
  /\ tree' \in {tree} \cup
       (IF pc[s] = "unpack" \/ (pc[s] = "clean" /\ tree[current[s]] # "none")
        THEN {[tree EXCEPT ![current[s]] = "partial"]} ELSE {})
  /\ usr' \in {usr} \cup
       (IF pc[s] = "package" THEN {[usr EXCEPT ![current[s]][ARCH(s)] = "partial"]} ELSE {})

Failure(s) ==
  /\ buildfalselist' = [buildfalselist EXCEPT ![s] = @ \cup {current[s]}]
  /\ current' = [current EXCEPT ![s] = NoPkg]
  /\ linked' = linked \ {current[s]}
  /\ k' = [k EXCEPT ![s] = 1] /\ Goto(s, "choose")
  /\ UNCHANGED <<csv, jobs, donelist, kills>>

StepFails(s) ==
  /\ StepsFail /\ pc[s] \in {"clean", "unpack", "build", "package"}
  /\ Broken(s) /\ Failure(s)
  /\ failed' = [failed EXCEPT ![s] = @ \cup {current[s]}]

\* The tree is not there any more.
TreeGone(s) ==
  /\ pc[s] \in {"build", "package"} /\ tree[current[s]] # "full"
  /\ Broken(s) /\ Failure(s) /\ UNCHANGED failed

\* The rounds are over; cleanhpkdir.  There are no rounds here to compare: the
\* guard is what the comparison of BuildHpk comes to (StopOnlyWhenBlocked), that
\* nothing that is left can be built.
End(s) ==
  /\ pc[s] = "choose"
  /\ \A p \in Waiting(s) : p \in linked /\ ~ (depends[p] \subseteq Satisfied(s))
  /\ linked' = linked \ jobs[s]
  /\ Goto(s, "over")
  /\ UNCHANGED <<tree, usr, csv, jobs, donelist, buildfalselist, failed, current, k, kills>>

\* The session is killed, and its child with it.
Kill(s) ==
  /\ pc[s] # "over" /\ kills < MaxKills
  /\ kills' = kills + 1
  /\ Broken(s) /\ Goto(s, "over")
  /\ UNCHANGED <<linked, csv, jobs, donelist, buildfalselist, failed, current, k>>

SessionStep(s) ==
  \/ \E p \in Pkg : RunHpk(s, p) \/ RunMissing(s, p)
  \/ CleanAndCheck(s) \/ Unpack(s) \/ Build(s) \/ Package(s) \/ Record(s)
  \/ StepFails(s) \/ TreeGone(s) \/ End(s)

Next == \E s \in Session : Begin(s) \/ SessionStep(s) \/ Kill(s)

Spec == Init /\ [][Next]_vars

\* Sessions are started for everything again and again and run on to their
\* end, which two rounds without a change bring (BuildHpk); a step of a
\* package's build that is tried again and again succeeds again and again.
BeginAll(s) == Begin(s) /\ jobs'[s] = MakeLibsDir(Pkg, DoneLibs)

Succeed(s, p) ==
  \/ RunHpk(s, p)
  \/ current[s] = p /\ (CleanAndCheck(s) \/ Unpack(s) \/ Build(s) \/ Package(s) \/ Record(s))

FairSpec ==
  /\ Spec
  /\ \A s \in Session :
       /\ WF_vars(SessionStep(s)) /\ SF_vars(End(s)) /\ SF_vars(BeginAll(s))
       /\ \A p \in Pkg, step \in {"choose", "clean", "unpack", "build", "package", "record"} :
            SF_vars(pc[s] = step /\ Succeed(s, p))
-----------------------------------------------------------------------------
TypeOK ==
  /\ linked \subseteq Pkg /\ tree \in [Pkg -> Contents]
  /\ usr = [p \in Pkg |-> [a \in Archs(p) |-> usr[p][a]]]
  /\ \A p \in Pkg : \A a \in Archs(p) : usr[p][a] \in Contents
  /\ \A row \in csv : row[1] \in Pkg /\ row[2] \in Archs(row[1])
  /\ pc \in [Session -> {"over", "choose", "clean", "unpack", "build", "package", "record"}]
  /\ jobs \in [Session -> SUBSET Pkg]
  /\ donelist \in [Session -> SUBSET Pkg]
  /\ buildfalselist \in [Session -> SUBSET Pkg]
  /\ failed \in [Session -> SUBSET Pkg]
  /\ current \in [Session -> Pkg \cup {NoPkg}] /\ k \in [Session -> Nat]
  /\ \A s \in Session : current[s] # NoPkg => k[s] \in DOMAIN archs[current[s]]
  /\ kills \in 0 .. MaxKills

Recorded(p) == \E a \in Archs(p) : <<p, a>> \in csv

\* Whatever sessions run at the same time and whichever are killed: a package
\* gets a row only when everything it depends on has one.
RegistryClosed ==
  \A p \in Pkg : Recorded(p) => \A q \in depends[p] : Recorded(q)

\* While sessions run in turn: what has a row is installed in full for the
\* architecture of the row, whatever later sessions build, fail at or leave
\* behind when they are killed.  (Not for a package whose pkgname is not its
\* directory: readdonelibs does not find its rows, and it is built again.)
RecordedStays ==
  \A p \in Pkg \ Renamed : \A a \in Archs(p) : <<p, a>> \in csv => usr[p][a] = "full"

\* A session reports as failed only packages of which a step really failed:
\* a script that is not there or a tree that is gone are errors of lycium's.
NoFalseErrors == \A s \in Session : buildfalselist[s] \subseteq failed[s]

\* What a session is to BuildOrder.
Order(s) == INSTANCE BuildOrder WITH
  deps <- depends,
  requested <- jobs[s],
  wanted <- jobs[s],
  built <- donelist[s],
  broken <- buildfalselist[s],
  verdict <- IF pc[s] # "over" THEN "none"
             ELSE IF jobs[s] \subseteq donelist[s] THEN "success" ELSE "failure"

InOrder == \A s \in Session : pc[s] # "over" /\ ~ Kill(s) => [Order(s)!Next]_(Order(s)!vars)

\* Each session, whatever the others do to what they share, keeps to the
\* specification BuildHpk implements: it builds a package after all its
\* dependencies, once, and ends only when nothing it still wants can be built,
\* unless it is killed.
SessionsKeepOrder == [][InOrder]_vars

\* What a package is to Installation.
RowsOf(p) == {a \in Archs(p) : <<p, a>> \in csv}
Building(p) == \E s \in Running : current[s] = p

Inst(p) == INSTANCE Installation WITH
  archs <- archs[p], usr <- usr[p], rows <- RowsOf(p), building <- Building(p)

Installs == \A p \in Pkg \ Renamed : [Inst(p)!Next]_(Inst(p)!vars)

\* While sessions run in turn, and whichever of them fail or are killed, each
\* package is installed as Installation says: in the order of its archs,
\* recorded when it is complete and left alone from then on, and not built
\* again once it has a row.
ImplementsInstallation == (\A p \in Pkg : Inst(p)!Init) /\ [][Installs]_vars

\* However often builds fail and sessions are killed, every package is
\* recorded in the end: nothing a failed session leaves behind keeps the next
\* from building it.
EventuallyRecorded == \A p \in Pkg : <>[]Recorded(p)
=============================================================================
