------------------------------ MODULE TestHpk ------------------------------
(***************************************************************************)
(* One run of lycium/test.sh on the device: which packages it tests, in    *)
(* which directory the test of each one runs, what it reports, and which   *)
(* logs it collects.                                                       *)
(*                                                                         *)
(* Every HPKCHECK is sourced into the shell that runs the loop, so the     *)
(* functions one of them defines and the directories it has been in are    *)
(* still there when the next one runs.  A test is that of                  *)
(* lycium/template/HPKCHECK: it enters the build tree of the device's      *)
(* architecture, runs, and comes back with cd $OLDPWD.  Nothing looks at   *)
(* whether the tree could be entered.  What test programs do is given: the *)
(* tests of a package pass or they do not.                                 *)
(***************************************************************************)
EXTENDS Integers, Sequences, FiniteSets

CONSTANTS
  Lib,        \* names of directories of thirdparty/ and usr/
  NoLib,      \* not one of them
  Kinds,      \* the possible packages: [check: it has a HPKCHECK,
              \*   prepares: which defines checkprepare,
              \*   usr: it has a directory in usr/,
              \*   built: its build tree for the device is there,
              \*   returns: its test comes back to the directory it left]
  JobLists    \* the packages named, or found in usr/

ASSUME NoLibAssumption == NoLib \notin Lib
ASSUME JobListsAssumption == JobLists \subseteq Seq(Lib)

VARIABLES
  kinds, passes,         \* the packages, and those whose tests pass: neither changes
  jobs,                  \* of the command line, or what is in usr/
  hpkPaths, i,           \* the packages to test, and the position in the list
                         \* the loop runs through
  pc,                    \* the step the script is at
  cwd, OLDPWD,           \* the shell's directories
  checkprepare,          \* the package whose checkprepare the shell has
  prepared,              \* the one whose checkprepare ran for this package
  checkret,              \* what the test answered
  successlibs, failedlibs,
  logs, collected, fault \* the packages with a log, and with one in check_log, check_fault

vars == <<kinds, passes, jobs, hpkPaths, i, pc, cwd, OLDPWD, checkprepare,
          prepared, checkret, successlibs, failedlibs, logs, collected, fault>>

\* A directory: where the script was started, that of a package, or the build
\* tree of one.
StartDir == <<"start", NoLib>>
LibDir(lib) == <<"package", lib>>
BuildDir(lib) == <<"build", lib>>

lib == hpkPaths[i]

Init ==
  /\ kinds \in [Lib -> Kinds] /\ passes \in SUBSET Lib /\ jobs \in JobLists
  /\ hpkPaths = <<>> /\ i = 1 /\ pc = "start"
  /\ cwd = StartDir /\ OLDPWD = StartDir
  /\ checkprepare = NoLib /\ prepared = NoLib /\ checkret = TRUE
  /\ successlibs = <<>> /\ failedlibs = <<>>
  /\ logs = {} /\ collected = {} /\ fault = {}

(***************************************************************************)
(* Mutated forms of the definitions that follow: each breaks the property  *)
(* its comment names, and no specification uses it.                        *)
(***************************************************************************)
\* VerdictIsOfOwnTests: the directory is entered by its relative name.
RelativeCd(dir) == IF cwd = StartDir THEN dir ELSE cwd
\* OneVerdictEach: continue is left out, and the loop goes on to the verdict.
TestedWithoutCheck == TRUE
\* LogsCollected: only the logs of tests that failed are collected.
FailureOnly(dir) == cwd = dir /\ lib \in logs /\ ~ checkret
\* TypeOK: the loop runs one round too many.
OneMoreLib == i <= Len(hpkPaths)
-----------------------------------------------------------------------------
\* Something was built for the package, or a build of it has begun.
IsInUsr(job) == kinds[job].usr

HasCheck == kinds[lib].check

\* cd $libdir, an absolute path.
Enter(dir) == dir

\* [ -f ${libdir##*/}_${ARCH}_${OHOS_SDK_VER}_test.log ], a relative name.
LogIsHere(dir) == cwd = dir /\ lib \in logs

MoreLibs == i < Len(hpkPaths)

NextLib ==
  IF MoreLibs THEN i' = i + 1 /\ pc' = "loop" ELSE i' = i /\ pc' = "reported"

\* checktestenv ends the run when a tool is not there.
CheckTestEnv ==
  /\ pc = "start" /\ pc' \in {"find", "exited"}
  /\ UNCHANGED <<kinds, passes, jobs, hpkPaths, i, cwd, OLDPWD, checkprepare,
                 prepared, checkret, successlibs, failedlibs, logs, collected, fault>>

\* findlibsdir: those that have a directory in usr/, in the order given.
FindLib ==
  /\ pc = "find" /\ i <= Len(jobs)
  /\ hpkPaths' = IF IsInUsr(jobs[i]) THEN Append(hpkPaths, jobs[i]) ELSE hpkPaths
  /\ i' = i + 1
  /\ UNCHANGED <<kinds, passes, jobs, pc, cwd, OLDPWD, checkprepare, prepared,
                 checkret, successlibs, failedlibs, logs, collected, fault>>

FindEnd ==
  /\ pc = "find" /\ i > Len(jobs)
  /\ i' = 1 /\ pc' = IF hpkPaths = <<>> THEN "reported" ELSE "loop"
  /\ UNCHANGED <<kinds, passes, jobs, hpkPaths, cwd, OLDPWD, checkprepare, prepared,
                 checkret, successlibs, failedlibs, logs, collected, fault>>

SkipLib ==
  /\ pc = "loop" /\ ~ HasCheck
  /\ NextLib
  /\ UNCHANGED <<kinds, passes, jobs, hpkPaths, cwd, OLDPWD, checkprepare,
                 prepared, checkret, successlibs, failedlibs, logs, collected, fault>>

\* The package's directory, and its HPKCHECK sourced.
EnterLib ==
  /\ pc = "loop" /\ HasCheck /\ pc' = "prepare"
  /\ cwd' = Enter(LibDir(lib)) /\ OLDPWD' = cwd
  /\ checkprepare' = IF kinds[lib].prepares THEN lib ELSE checkprepare
  /\ UNCHANGED <<kinds, passes, jobs, hpkPaths, i, prepared, checkret,
                 successlibs, failedlibs, logs, collected, fault>>

\* checkprepare, if the shell has such a function.
Prepare ==
  /\ pc = "prepare" /\ pc' = "test"
  /\ prepared' = checkprepare
  /\ UNCHANGED <<kinds, passes, jobs, hpkPaths, i, cwd, OLDPWD, checkprepare,
                 checkret, successlibs, failedlibs, logs, collected, fault>>

\* The tests of a package answer what they do in its build tree, prepared as
\* they should be; anywhere else, and after another package's preparation,
\* they answer anything.  ctest is content with a directory that has no tests.
Answers(dir) ==
  IF dir = BuildDir(lib) /\ prepared \in {lib, NoLib} THEN {lib \in passes} ELSE BOOLEAN

\* openharmonycheck: it goes to the build tree of the directory it is in,
\* tests, and goes back to where it takes itself to have come from.
OpenharmonyCheck ==
  /\ pc = "test" /\ pc' = "collect"
  /\ logs' = logs \cup {lib}
  /\ IF cwd = LibDir(lib) /\ kinds[lib].built
     THEN /\ checkret' \in Answers(BuildDir(lib))
          /\ IF kinds[lib].returns
             THEN UNCHANGED cwd /\ OLDPWD' = BuildDir(lib)
             ELSE cwd' = BuildDir(lib) /\ OLDPWD' = cwd
     ELSE /\ checkret' \in Answers(cwd)
          /\ cwd' = OLDPWD /\ OLDPWD' = cwd
  /\ UNCHANGED <<kinds, passes, jobs, hpkPaths, i, checkprepare, prepared,
                 successlibs, failedlibs, collected, fault>>

\* The verdict, the log if it is found, and cd $OLDPWD.
Collect ==
  /\ pc = "collect"
  /\ IF checkret
     THEN successlibs' = Append(successlibs, lib) /\ UNCHANGED failedlibs
     ELSE failedlibs' = Append(failedlibs, lib) /\ UNCHANGED successlibs
  /\ collected' = IF LogIsHere(LibDir(lib)) THEN collected \cup {lib} ELSE collected
  /\ fault' = IF LogIsHere(LibDir(lib)) /\ ~ checkret THEN fault \cup {lib} ELSE fault
  /\ cwd' = OLDPWD /\ OLDPWD' = cwd
  /\ NextLib
  /\ UNCHANGED <<kinds, passes, jobs, hpkPaths, checkprepare, prepared, checkret, logs>>

Ended == pc \in {"reported", "exited"} /\ UNCHANGED vars

Next ==
  \/ CheckTestEnv \/ FindLib \/ FindEnd \/ SkipLib \/ EnterLib
  \/ Prepare \/ OpenharmonyCheck \/ Collect \/ Ended

Spec == Init /\ [][Next]_vars
-----------------------------------------------------------------------------
TypeOK ==
  /\ kinds \in [Lib -> Kinds] /\ passes \subseteq Lib
  /\ jobs \in JobLists /\ hpkPaths \in Seq(Lib)
  /\ i \in Nat \ {0} /\ (pc \in {"loop", "prepare", "test", "collect"} => i <= Len(hpkPaths))
  /\ pc \in {"start", "find", "loop", "prepare", "test", "collect", "reported", "exited"}
  /\ {cwd, OLDPWD} \subseteq {StartDir} \cup ({"package", "build"} \X Lib)
  /\ {checkprepare, prepared} \subseteq Lib \cup {NoLib} /\ checkret \in BOOLEAN
  /\ successlibs \in Seq(Lib) /\ failedlibs \in Seq(Lib)
  /\ logs \subseteq Lib /\ collected \subseteq Lib /\ fault \subseteq Lib

\* How often x is among the first m of s, and how often in all of it.
TimesUpTo(x, s, m) == Cardinality({n \in 1 .. m : s[n] = x})
Times(x, s) == TimesUpTo(x, s, Len(s))

\* The report counts every package that has a directory in usr/ and a test once
\* for each time it was named, among the successes or among the failures,
\* whatever directories the tests before it left the shell in (test.sh:162).
OneVerdictEach ==
  pc = "reported" =>
    \A x \in Lib : Times(x, successlibs) + Times(x, failedlibs)
                     = IF kinds[x].check /\ kinds[x].usr THEN Times(x, jobs) ELSE 0

\* A package that was built and brings its own preparation is reported as what
\* its own tests say, wherever the tests before it left the shell and
\* whichever of them could not find their trees.
VerdictIsOfOwnTests ==
  \A x \in Lib : kinds[x].built /\ kinds[x].prepares =>
    /\ x \in passes => \A n \in DOMAIN failedlibs : failedlibs[n] # x
    /\ x \notin passes => \A n \in DOMAIN successlibs : successlibs[n] # x

\* The log of every test that ran in its build tree and came back is collected
\* (test.sh:14), and in check_fault are those of the failures.
LogsCollected ==
  \A x \in Lib : kinds[x].built /\ kinds[x].returns =>
    /\ \A n \in DOMAIN successlibs : successlibs[n] = x => x \in collected
    /\ \A n \in DOMAIN failedlibs : failedlibs[n] = x => x \in collected \cap fault
    /\ x \in fault => \E n \in DOMAIN failedlibs : failedlibs[n] = x

\* "测试前的准备, 如果不需要可以不写。" (lycium/template/HPKCHECK:10): a test that
\* defines no checkprepare needs none, and none is run for it.
OwnPreparation == pc = "test" => prepared \in {lib, NoLib}

\* "当指定的库未编译时不会进行测试" (lycium/README.md:75): what is tested has been built.
OnlyBuiltIsTested ==
  \A x \in Lib : ~ kinds[x].built =>
    \A n \in DOMAIN successlibs : successlibs[n] # x
=============================================================================
