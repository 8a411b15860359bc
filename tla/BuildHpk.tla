------------------------------ MODULE BuildHpk ------------------------------
(***************************************************************************)
(* One session of lycium/build.sh: it reads the csv of what earlier        *)
(* sessions built, selects the packages to build from its arguments, and   *)
(* runs lycium/script/build_hpk.sh on them, one at a time, in rounds.  A   *)
(* package whose dependencies are not all built answers 101 and leaves the *)
(* names of the missing ones in a temporary file; build.sh queues those    *)
(* and the package itself for the next round.  A session ends when a round *)
(* leaves nothing to do or when two rounds look alike.                     *)
(*                                                                         *)
(* A package is both its directory under thirdparty/ and the name the      *)
(* directory ends with.  Every loop of the scripts is one action per       *)
(* iteration.  Of build_hpk.sh this module keeps what build.sh sees of it: *)
(* the clean-up, builddepends and the exit code (HpkPackage has the rest). *)
(* Sequences are 1-based, the arrays of the script 0-based.                *)
(***************************************************************************)
EXTENDS Integers, Sequences, FiniteSets, Functions

CONSTANTS
  Pkg,        \* names that may occur as argument, as dependency or in the csv
  HpkDirs,    \* those that are a directory of thirdparty/ with an HPKBUILD
  NoPkg,      \* the empty string
  Catalogs,   \* the possible "depends" arrays of all the HPKBUILD files
  JobLists,   \* the possible command lines; with none, findmainhpkdir lists
              \* every directory, which is one of these lists
  CsvFiles    \* the possible first columns of usr/hpk_build.csv

ASSUME PkgAssumption == HpkDirs \subseteq Pkg /\ NoPkg \notin Pkg
ASSUME CatalogsAssumption == Catalogs \subseteq [Pkg -> Seq(Pkg)]
ASSUME JobListsAssumption == JobLists \subseteq Seq(Pkg)
ASSUME CsvFilesAssumption == CsvFiles \subseteq Seq(Pkg)

VARIABLES
  depends, jobs, csv,   \* the input of the session, which it never changes
  pc,                   \* the loop, or the wait for the child, it is in
  n,                    \* the position in the list the loop runs through
  donelibs, donelist,   \* built before this session; built by now, in order
  hpkPaths,             \* every package the session has taken on
  notdonelist, i,       \* the packages of this round, and the current one
  nextroundlist,        \* those of the next round
  buildfalselist,       \* those whose build failed
  lastroundfirstjob,
  linked,               \* the packages whose directory has the links to
                        \* build_hpk.sh and envset.sh
  depfile,              \* the file LYCIUM_DEPEND_PKGNAMES
  count, newdeps,       \* of the child, in builddepends
  res, exitcode

input == <<depends, jobs, csv>>
child == <<count, newdeps>>
lists == <<hpkPaths, nextroundlist, buildfalselist>>
vars == <<input, pc, n, donelibs, donelist, lists, notdonelist, i,
          lastroundfirstjob, linked, depfile, child, res, exitcode>>

Job == notdonelist[i]                   \* meaningful while a child runs
lastroundlen == Len(notdonelist)
Pending == {notdonelist[k] : k \in i .. Len(notdonelist)}
Done == Range(donelist)
Failed == Range(buildfalselist)

(***************************************************************************)
(* Mutated forms of the definitions that follow: each breaks the property  *)
(* its comment names, and no specification uses it.                        *)
(***************************************************************************)
\* TypeOK: any name of the command line is taken for a package.
AnyNameIsHpk(p) == p \in Pkg
\* DepsBuiltFirst: the rows of the csv are not merged.
AppendAlways(list, p) == Append(list, p)
\* NoJobLost: a package waits only if nothing else does.
WaitIfFirst(list, p) == IF list = <<>> THEN Append(list, p) ELSE list
\* NoDependencyForgotten: ">" for ">>", the last missing name remains.
LastMissing(file, deps) == IF deps = <<>> THEN file ELSE <<deps[Len(deps)]>>
\* BuiltAtMostOnce: the packages of this round are not looked at.
NewUnlessNext(p) == p \notin Done \cup Range(nextroundlist) \cup Failed
\* ImplementsBuildOrder: the packages that failed are not looked at.
NewUnlessQueued(p) ==
  p \notin Done \cup Range(nextroundlist) \cup Range(notdonelist)
\* ScriptPresent: no prepareshell for a dependency.
LinkNothing(p) == linked
\* LinksRemoved: a dependency is not added to hpkPaths.
NotTakenOn(p) == hpkPaths
\* ExitMatchesOutcome: the packages that were given up are not looked at.
FailedOnly == buildfalselist # <<>>
\* StopOnlyWhenBlocked: only the first package is compared.
SameFirst == lastroundfirstjob = nextroundlist[1]
\* LaterRoundsDiffer: a package that waits is put before those that wait already.
WaitInFront(list, p) == IF p \in Range(list) THEN list ELSE <<p>> \o list
\* Termination: the rounds are compared in the wrong order.
NeverStuck == lastroundlen < Len(nextroundlist)
-----------------------------------------------------------------------------
(* The tests and updates the loops below repeat                            *)

\* There is a directory with an HPKBUILD.
IsHpk(p) == p \in HpkDirs

\* Add p to the list unless it is there.
AppendNew(list, p) == IF p \in Range(list) THEN list ELSE Append(list, p)

\* The same, for a package that must wait.
Wait(list, p) == AppendNew(list, p)

\* builpackage appends the names of the missing dependencies to the file.
Report(file, deps) == file \o deps

\* A dependency that is in none of the four lists.
IsNew(p) ==
  p \notin Done \cup Range(nextroundlist) \cup Range(notdonelist) \cup Failed

\* prepareshell for one dependency, which also joins hpkPaths.
LinkDepend(p) == linked \cup {p}
TakeOn(p) == Append(hpkPaths, p)

\* The round left as many packages as it had, and the same one first as the
\* round before: "Please check the dependencies of these items".
LooksStuck ==
  /\ lastroundlen = Len(nextroundlist)
  /\ lastroundfirstjob = nextroundlist[1]

\* The condition of exit -1.
NotSuccessful == buildfalselist # <<>> \/ nextroundlist # <<>>
-----------------------------------------------------------------------------
Init ==
  /\ depends \in Catalogs /\ jobs \in JobLists /\ csv \in CsvFiles
  /\ pc = "read" /\ n = 1
  /\ donelibs = <<>> /\ donelist = <<>>
  /\ hpkPaths = <<>> /\ nextroundlist = <<>> /\ buildfalselist = <<>>
  /\ notdonelist = <<>> /\ i = 1
  /\ lastroundfirstjob = NoPkg
  /\ linked = {} /\ depfile = <<>>
  /\ count = 0 /\ newdeps = <<>>
  /\ res = 0 /\ exitcode = 0
-----------------------------------------------------------------------------
(* Before the rounds                                                       *)

\* A package has one row per architecture and version, so a name recurs.
ReadDoneLine ==
  /\ pc = "read" /\ n <= Len(csv)
  /\ donelibs' = AppendNew(donelibs, csv[n])
  /\ n' = n + 1
  /\ UNCHANGED <<input, pc, donelist, lists, notdonelist, i,
                 lastroundfirstjob, linked, depfile, child, res, exitcode>>

ReadDoneEnd ==
  /\ pc = "read" /\ n > Len(csv)
  /\ donelist' = donelibs
  /\ pc' = "select" /\ n' = 1
  /\ UNCHANGED <<input, donelibs, lists, notdonelist, i, lastroundfirstjob,
                 linked, depfile, child, res, exitcode>>

\* A name that is no directory with an HPKBUILD is dropped without a word.
MakeLibsDir ==
  /\ pc = "select" /\ n <= Len(jobs)
  /\ hpkPaths' = IF IsHpk(jobs[n]) /\ jobs[n] \notin Range(donelibs)
                 THEN Append(hpkPaths, jobs[n]) ELSE hpkPaths
  /\ n' = n + 1
  /\ UNCHANGED <<input, pc, donelibs, donelist, nextroundlist, buildfalselist,
                 notdonelist, i, lastroundfirstjob, linked, depfile, child,
                 res, exitcode>>

\* prepareshell, and buildhpk down to the head of its for loop.
PrepareShell ==
  /\ pc = "select" /\ n > Len(jobs)
  /\ linked' = linked \cup Range(hpkPaths)
  /\ notdonelist' = hpkPaths /\ i' = 1
  /\ pc' = "job"
  /\ UNCHANGED <<input, n, donelibs, donelist, lists, lastroundfirstjob,
                 depfile, child, res, exitcode>>
-----------------------------------------------------------------------------
(* The child: bash ${PWD}/build_hpk.sh "${donelist[*]}"                    *)

\* There is no link to the script: bash answers 127.
RunMissing ==
  /\ pc = "job" /\ i <= Len(notdonelist)
  /\ Job \notin linked
  /\ res' = 127 /\ pc' = "result"
  /\ UNCHANGED <<input, n, donelibs, donelist, lists, notdonelist, i,
                 lastroundfirstjob, linked, depfile, child, exitcode>>

\* cleanhpk comes before the look at the dependencies, and may fail.
RunHpk ==
  /\ pc = "job" /\ i <= Len(notdonelist)
  /\ Job \in linked
  /\ \/ pc' = "depends" /\ res' = res
     \/ pc' = "result" /\ res' = 1
  /\ n' = 1 /\ count' = 0 /\ newdeps' = <<>>
  /\ UNCHANGED <<input, donelibs, donelist, lists, notdonelist, i,
                 lastroundfirstjob, linked, depfile, exitcode>>

\* One dependency: every entry of donelist equal to it counts.
CheckDepend ==
  /\ pc = "depends" /\ n <= Len(depends[Job])
  /\ LET hits == {k \in DOMAIN donelist : donelist[k] = depends[Job][n]}
     IN /\ count' = count + Cardinality(hits)
        /\ newdeps' = IF hits = {} THEN Append(newdeps, depends[Job][n])
                      ELSE newdeps
  /\ n' = n + 1
  /\ UNCHANGED <<input, pc, donelibs, donelist, lists, notdonelist, i,
                 lastroundfirstjob, linked, depfile, res, exitcode>>

NotReady ==
  /\ pc = "depends" /\ n > Len(depends[Job])
  /\ count # Len(depends[Job])
  /\ depfile' = Report(depfile, newdeps)
  /\ res' = 101 /\ pc' = "result"
  /\ UNCHANGED <<input, n, donelibs, donelist, lists, notdonelist, i,
                 lastroundfirstjob, linked, child, exitcode>>

\* Download, checksum, unpack, and prepare to check for every architecture:
\* each step is "sure", so the answer is 0 or, at the first failure, not 0.
Compile ==
  /\ pc = "depends" /\ n > Len(depends[Job])
  /\ count = Len(depends[Job])
  /\ res' \in {0, 1} /\ pc' = "result"
  /\ UNCHANGED <<input, n, donelibs, donelist, lists, notdonelist, i,
                 lastroundfirstjob, linked, depfile, child, exitcode>>
-----------------------------------------------------------------------------
(* What build.sh does with the answer                                      *)

JobDone ==
  /\ pc = "result" /\ res = 0
  /\ IF Job \in Done
     THEN UNCHANGED <<donelist, linked>>
     ELSE /\ donelist' = Append(donelist, Job)
          /\ linked' = linked \ {Job}
  /\ i' = i + 1 /\ pc' = "job"
  /\ UNCHANGED <<input, n, donelibs, lists, notdonelist, lastroundfirstjob,
                 depfile, child, res, exitcode>>

\* One name of the file: unless it is in one of the four lists, it joins the
\* next round, gets its links, and will be cleaned up at the end.
AddDepend ==
  /\ pc = "result" /\ res = 101 /\ depfile # <<>>
  /\ LET dep == Head(depfile)
     IN IF IsHpk(dep) /\ IsNew(dep)
        THEN /\ nextroundlist' = Append(nextroundlist, dep)
             /\ hpkPaths' = TakeOn(dep)
             /\ linked' = LinkDepend(dep)
        ELSE UNCHANGED <<nextroundlist, hpkPaths, linked>>
  /\ depfile' = Tail(depfile)
  /\ UNCHANGED <<input, pc, n, donelibs, donelist, buildfalselist, notdonelist,
                 i, lastroundfirstjob, child, res, exitcode>>

\* The file is read to its end and truncated; the package waits for the
\* next round.
Requeue ==
  /\ pc = "result" /\ res = 101 /\ depfile = <<>>
  /\ nextroundlist' = Wait(nextroundlist, Job)
  /\ i' = i + 1 /\ pc' = "job"
  /\ UNCHANGED <<input, n, donelibs, donelist, hpkPaths, buildfalselist,
                 notdonelist, lastroundfirstjob, linked, depfile, child, res,
                 exitcode>>

JobFailed ==
  /\ pc = "result" /\ res \notin {0, 101}
  /\ linked' = linked \ {Job}
  /\ buildfalselist' = Append(buildfalselist, Job)
  /\ i' = i + 1 /\ pc' = "job"
  /\ UNCHANGED <<input, n, donelibs, donelist, hpkPaths, nextroundlist,
                 notdonelist, lastroundfirstjob, depfile, child, res, exitcode>>
-----------------------------------------------------------------------------
(* The end of a round and of the session                                   *)

RoundOver == pc = "job" /\ i > Len(notdonelist)

AllDone ==
  /\ RoundOver /\ nextroundlist = <<>>
  /\ pc' = "clean"
  /\ UNCHANGED <<input, n, donelibs, donelist, lists, notdonelist, i,
                 lastroundfirstjob, linked, depfile, child, res, exitcode>>

Stuck ==
  /\ RoundOver /\ nextroundlist # <<>> /\ LooksStuck
  /\ pc' = "clean"
  /\ UNCHANGED <<input, n, donelibs, donelist, lists, notdonelist, i,
                 lastroundfirstjob, linked, depfile, child, res, exitcode>>

NextRound ==
  /\ RoundOver /\ nextroundlist # <<>> /\ ~ LooksStuck
  /\ lastroundfirstjob' = nextroundlist[1]
  /\ notdonelist' = nextroundlist /\ nextroundlist' = <<>>
  /\ i' = 1
  /\ UNCHANGED <<input, pc, n, donelibs, donelist, hpkPaths, buildfalselist,
                 linked, depfile, child, res, exitcode>>

\* exit -1 is seen as 255.
CleanHpkDir ==
  /\ pc = "clean"
  /\ linked' = linked \ Range(hpkPaths)
  /\ exitcode' = IF NotSuccessful THEN 255 ELSE 0
  /\ pc' = "exit"
  /\ UNCHANGED <<input, n, donelibs, donelist, lists, notdonelist, i,
                 lastroundfirstjob, depfile, child, res>>

\* The session is over.
Exited == pc = "exit" /\ UNCHANGED vars

Next ==
  \/ ReadDoneLine \/ ReadDoneEnd \/ MakeLibsDir \/ PrepareShell
  \/ RunMissing \/ RunHpk \/ CheckDepend \/ NotReady \/ Compile
  \/ JobDone \/ AddDepend \/ Requeue \/ JobFailed
  \/ AllDone \/ Stuck \/ NextRound \/ CleanHpkDir
  \/ Exited

Spec == Init /\ [][Next]_vars

\* The script is sequential: it goes on as long as its children return.
FairSpec == Spec /\ WF_vars(Next)
-----------------------------------------------------------------------------
(* Properties                                                              *)

TypeOK ==
  /\ depends \in Catalogs /\ jobs \in JobLists /\ csv \in CsvFiles
  /\ pc \in {"read", "select", "job", "depends", "result", "clean", "exit"}
  /\ n \in Nat \ {0} /\ i \in Nat \ {0}
  /\ donelibs \in Seq(Pkg) /\ donelist \in Seq(Pkg)
  /\ hpkPaths \in Seq(HpkDirs) /\ notdonelist \in Seq(HpkDirs)
  /\ nextroundlist \in Seq(HpkDirs) /\ buildfalselist \in Seq(HpkDirs)
  /\ lastroundfirstjob \in HpkDirs \cup {NoPkg}
  /\ linked \subseteq HpkDirs
  /\ depfile \in Seq(Pkg) /\ newdeps \in Seq(Pkg)
  /\ count \in Nat
  /\ res \in {0, 1, 101, 127} /\ exitcode \in {0, 255}

\* The command line names no package twice.
DistinctJobs == IsInjective(jobs)

\* Every package the session asks for has all its dependencies that have a
\* directory asked for too, or built before: so it is when build.sh is run
\* without arguments.
Requested == (Range(jobs) \cap HpkDirs) \ Range(csv)
Closed ==
  \A p \in Requested :
    Range(depends[p]) \cap HpkDirs \subseteq Requested \cup Range(csv)

\* What this session built, it built after everything it depends on was
\* there: build.sh never passes a package on to compile against a library
\* that is still missing, though builddepends only compares two counts.
DepsBuiltFirst ==
  \A k \in Len(donelibs) + 1 .. Len(donelist) :
    pc # "read" =>
      Range(depends[donelist[k]]) \subseteq {donelist[m] : m \in 1 .. k - 1}

\* No package that was taken on, from the command line or as a dependency,
\* drops out of all the lists: it is built, failed, or still queued.
NoJobLost ==
  pc \notin {"read", "select"} =>
    Range(hpkPaths) \subseteq
      Done \cup Failed \cup Range(nextroundlist) \cup Pending

\* A dependency that a waiting package named is never forgotten: once the
\* package is queued again, each of its dependencies that has a directory is
\* built, failed, or queued as well.
NoDependencyForgotten ==
  \A p \in Range(nextroundlist) \cap {notdonelist[k] : k \in 1 .. i - 1} :
    Range(depends[p]) \cap HpkDirs \subseteq
      Done \cup Failed \cup Range(nextroundlist) \cup Pending

\* A settled package is not queued again and a queued one is queued once, so
\* no package is compiled twice in a session, failed and built at once, or
\* built although an earlier session had built it.
BuiltAtMostOnce ==
  DistinctJobs =>
    /\ IsInjective(donelist) /\ IsInjective(buildfalselist)
    /\ IsInjective(notdonelist) /\ IsInjective(nextroundlist)
    /\ Done \cap Failed = {}
    /\ (Done \cup Failed) \cap (Range(nextroundlist) \cup Pending) = {}

\* build_hpk.sh is there whenever build.sh runs it: the links a package lost
\* when it was settled are never needed again.
ScriptPresent == DistinctJobs => res # 127

\* "编译任务不成功, 返回-1" (build.sh:351): the exit code is 0 exactly when
\* everything the session took on is built.
ExitMatchesOutcome ==
  pc = "exit" /\ DistinctJobs =>
    (exitcode = 0 <=> Range(hpkPaths) \subseteq Done)

\* When the request is closed, build.sh gives up only packages that cannot be
\* built: each one waits for a dependency that is not there.
StopOnlyWhenBlocked ==
  pc \in {"clean", "exit"} /\ Closed =>
    \A p \in Range(nextroundlist) : ~ (Range(depends[p]) \subseteq Done)

\* The links build.sh put into the source tree are gone when it exits.
LinksRemoved == pc = "exit" => linked = {}

\* Whatever the dependencies are, cyclic, failed or without a directory, the
\* rounds come to an end.
Termination == <>(pc = "exit")

\* From the second round on, the next one runs other packages than the one that
\* is over: some were settled, or some dependencies discovered.  The second may
\* run those of the first (two that need each other, say), because then there is
\* no round to compare with and lastroundfirstjob is still empty.  Packages are
\* settled for good and there are only so many, so this is what ends the rounds;
\* it rests on the order in which packages are queued again, because LooksStuck
\* (build.sh:301) looks at nothing but a length and the first entry.
LaterRoundsDiffer ==
  [][NextRound /\ lastroundfirstjob # NoPkg =>
       Range(nextroundlist) # Range(notdonelist)]_vars

\* What a session is to BuildOrder.
Order == INSTANCE BuildOrder WITH
  deps <- [p \in Pkg |-> Range(depends[p])],
  requested <- Range(jobs),
  wanted <- Range(hpkPaths),
  built <- IF pc = "read" THEN Range(csv) ELSE Done,
  broken <- Failed,
  verdict <- IF pc # "exit" THEN "none"
             ELSE IF exitcode = 0 THEN "success" ELSE "failure"

\* Asked for everything its packages need, as it is when it runs without
\* arguments, a session is a behaviour of the abstract specification.
ImplementsBuildOrder == Order!Spec

\* Whatever is on the command line, as long as it names nothing twice: each step
\* of a session is one of the abstract specification or a stutter, for graphs
\* with cycles and dependencies discovered on the way.  Only the last step, to
\* the verdict, may come too early, and does not when everything was asked for.
BuildsInOrder ==
  [][DistinctJobs /\ (pc = "clean" => Closed) => Order!Next]_(Order!vars)
-----------------------------------------------------------------------------
(* What messages, comments and the README say, and the script does not do  *)

\* "Please check the dependencies of these items" (build.sh:303): a session
\* ends with such items only if each has a dependency that is not built.
GivesUpOnlyBlocked ==
  pc = "exit" =>
    \A p \in Range(nextroundlist) : ~ (Range(depends[p]) \subseteq Done)

\* "当 aaa 库存在依赖时，必须保证入参中包含依赖，否则 aaa 库不会编译"
\* (lycium/README.md:47): a package is not built when the command line leaves
\* out a dependency of it that is not built yet.
NotBuiltUnlessDepsNamed ==
  pc = "exit" =>
    \A p \in Requested :
      p \in Done => Range(depends[p]) \subseteq Range(jobs) \cup Range(csv)

\* "The follow pkg build error!" (build.sh:296): what is listed there is not
\* built.
ErrorsAreNotBuilt == Done \cap Failed = {}

\* "编译任务不成功, 返回-1" (build.sh:351): a session that did not build what
\* it was asked for does not exit with 0.
SuccessMeansRequestedBuilt ==
  pc = "exit" /\ exitcode = 0 => Range(jobs) \subseteq Done
=============================================================================
