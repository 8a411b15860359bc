# Verification of lycium

The repository ports C and C++ libraries to OpenHarmony. Its own logic is
*lycium*, the framework of shell scripts under `lycium/` that downloads,
verifies, patches, compiles and installs the packages described by the
`HPKBUILD` files of `thirdparty/`, in the order of their dependencies, and runs
their tests on a device. This directory holds TLA+ models of it, the TLC
configurations that check them, and theorems that TLAPS proves.

## 1. Inventory

| Part | Code | State it keeps | Operations |
|---|---|---|---|
| Build session | `lycium/build.sh` | the arrays `donelibs`, `donelist`, `hpkPaths`, `notdonelist`, `nextroundlist`, `buildfalselist`, `lastroundfirstjob`, the links in the package directories, the exit code | `readdonelibs`, `makelibsdir`, `findmainhpkdir`, `prepareshell`, `buildhpk`, `cleanhpkdir` |
| Package build | `lycium/script/build_hpk.sh` | archive, source tree, `newdeps` and `count`, what is installed | `cleanhpk`, `builddepends`, `download`, `checksum`, `unpack`, `checkmakedepends`, the loop over `archs`, `recordbuildlibs` |
| Recipe | `lycium/template/HPKBUILD`, `thirdparty/*/HPKBUILD` | `patchflag`, the compiler's environment | `prepare`, `build`, `package`, `check`, `cleanbuild`, `recoverpkgbuildenv` |
| Registry | `lycium/usr/hpk_build.csv` | one row `pkgname,version,arch` for each architecture built | read by `readdonelibs`, appended to by `recordbuildlibs` |
| File of missing dependencies | `/tmp/$USER-lycium_deps-<time>` | names of packages | chosen by `build.sh`, appended to by `builpackage`, read and emptied by `buildhpk` |
| Compiler environment | `lycium/script/envset.sh` | thirteen variables | `setarm32ENV`, `setarm64ENV`, `unset...` |
| Toolchain wrappers | `copytools` in `build.sh`, `lycium/Buildtools` | files in the SDK | copied when the first of them is missing |
| Test runner | `lycium/test.sh`, `HPKCHECK` files | `hpkPaths`, `successlibs`, `failedlibs`, the current directory, the functions sourced so far | `findlibsdir`, `findbuilddir`, `checkhpk` |
| Device set-up | `lycium/CItools/env_build.sh` | unpacked directories, files installed on the device | `unpack`, `copy_files`, `set_busybox`, `copyBinFiles` |

How they interact. `build.sh` links `build_hpk.sh` and `envset.sh` into each
package's directory and runs the link as a child process, one package at a time,
giving it the list of what is built. The child answers with its exit code: 0 for
built, 101 for *a dependency is missing* (its name is then in the file of
missing dependencies), anything else for failed. The child sources the recipe
and writes the registry; the next session reads the registry and skips what is
there. Recipes find the libraries they depend on under `usr/<depend>/<arch>`.

What is hard here. Nothing is typed, locked or transactional: the state is spread
over six arrays, links, files and the registry, and it has to stay consistent
through rounds that discover work while they run; a step can fail or be killed
anywhere and the next session starts from whatever is on the disk; the decisions
(ready, stuck, built, successful) are taken from counts, lengths, first elements
and the presence of a row; two sessions started by two people, or by one in two
terminals, share the checkout, the SDK and `/tmp`; and what is sourced into a
shell stays there. `hazards` in `PROJECT.json` lists where this bites.

What makes the parts correct:

- *Session*: a package is built after everything it depends on, once, and none is
  lost or forgotten between the lists; the rounds end; the session gives up only
  what it cannot build; the exit code tells the outcome; the links are there when
  needed and gone afterwards.
- *Package build and recipe*: nothing is compiled from sources that do not match
  their checksum, the tree that is compiled is complete and patched once, a broken
  archive is replaced.
- *Registry*: a row stands for something installed, a package has one only when
  what it depends on does, and a package counts as built only when all of it is.
- *File of missing dependencies*: each session has one of its own, reads every name
  its children left there once, and nothing an earlier session left.
- *Compiler environment*: each architecture is compiled with its own compiler, in a
  tree no earlier build was made in.
- *Test runner*: each library's verdict comes from its own test, and its log is kept.
- *Device set-up, toolchain copy*: when they say they are through, everything is
  there; running the set-up again after a failure completes it.

## 2. Modules

| Module | What it is |
|---|---|
| `BuildOrder` | abstract specification of a session: what it promises, none of how |
| `BuildHpk` | one session of `build.sh`, action by action, with what it sees of its children |
| `MCBuildHpk` | instances of `BuildHpk`: graphs, command lines, registries |
| `BuildHpkProofs` | theorems on `BuildHpk`: types, order, nothing lost or forgotten, settled once, links, exit code, what the rounds do, and that it implements `BuildOrder` |
| `Installation` | abstract specification of what is installed and recorded for one package; `HpkPackage` and `Lycium` implement it |
| `HpkPackage` | one package and the runs of `build_hpk.sh` on it over many sessions, with failures and kills |
| `MCHpkPackage` | instances of `HpkPackage`: architectures and kinds of recipe |
| `HpkPackageProofs` | theorems on `HpkPackage` |
| `ArchLoop` | the loop over the architectures, run after run: compiler and copies of the tree |
| `MCArchLoop`, `ArchLoopProofs` | its instances and theorems |
| `Mailbox` | abstract specification of the file of missing dependencies |
| `DepsFile` | that file, for sessions at the same time and one after another |
| `MCDepsFile`, `DepsFileProofs` | its instances and theorems; it implements `Mailbox` |
| `Lycium` | several sessions on one checkout and what they share: the composition |
| `MCLycium`, `LyciumProofs` | its instances and theorems |
| `CopyTools` | `copytools` of several sessions, file by file |
| `MCCopyTools`, `CopyToolsProofs` | its instances and theorems |
| `TestHpk` | one run of `test.sh` on the device |
| `MCTestHpk`, `TestHpkProofs` | its instances and theorems |
| `EnvBuild` | the runs of `env_build.sh` on one device |
| `MCEnvBuild`, `EnvBuildProofs` | its instances and theorems |

**`BuildHpk`.** The variables are the script's arrays, under their names, as
sequences (`hpkPaths`, `donelist`, ...); `notdonelist` and `i` are the `for` loop;
`depfile` is the file of missing dependencies; `linked` the set of directories
that hold the links; `count` and `newdeps` belong to the child while it is in
`builddepends`; `pc` says in which loop the session is. Each iteration of a
loop is one action:

| Action | Code |
|---|---|
| `ReadDoneLine`, `ReadDoneEnd` | a row of the csv, and the end of `readdonelibs` |
| `MakeLibsDir` | a job of `makelibsdir`; without arguments `findmainhpkdir` makes the list |
| `PrepareShell` | `prepareshell` and the head of `buildhpk` |
| `RunHpk`, `RunMissing` | starting the child, which cleans up first; no link to start |
| `CheckDepend`, `NotReady`, `Compile` | the child's `builddepends`, exit 101, and everything else |
| `JobDone`, `AddDepend`, `Requeue`, `JobFailed` | the three branches on `res`, with one name of the file per `AddDepend` |
| `AllDone`, `Stuck`, `NextRound` | the tests at the end of a round |
| `CleanHpkDir` | `cleanhpkdir` and the exit code |

A package's path is modelled by its directory's name: `##*/` and
`$LYCIUM_ROOT/$hpksdir/` map one to the other and back. What the child does after
`builddepends` is one step with two outcomes, because `build.sh` can tell no more.

**`BuildOrder`.** Packages are wanted because they were asked for or because a
wanted one depends on them; a wanted package is built when everything it depends
on is; it may break; the session finishes when nothing that is left could be
built. `ImplementsBuildOrder` substitutes the lists of `BuildHpk` for its sets;
`Order(s)` does it with what a session of `Lycium` remembers.

**`Installation`.** The architectures of a package are installed and recorded one
after another, each recorded only when it is complete and not written to after
that, and a build begins only while there is no row; it may stop anywhere.
`Inst` in `HpkPackage` maps a run of the script to it, row for row; `Inst(p)` in
`Lycium` the rows and files of one of many packages, whichever session builds it.

**`HpkPackage`.** What lives on the disk (`archive`, `tree`, `patches`,
`installed`, `csv`) survives; `pc`, `k` (the position in `archs`) and `patchflag`
belong to a run. Contents are abstracted to none, partial, good, or bad: complete
but not what the checksum was written for. `pkgname` is taken for the directory's name;
where they differ (`build_hpk.sh:109`) is in `Lycium`. `kind` is what recipes differ in: the
architectures, where the tree is from (`source`: an archive the framework unpacks;
one that `prepare` unpacks, in 8 recipes with `autounpack=false`; a repository that
`prepare` clones, in 30 with `downloadpackage=false`), a `SHA512SUM` file or not, and
whether `package()` returns the status of the install (the template's does not, most
recipes follow it). Each function of the script is an action, with its failure as
`sure` sees it; `Kill` ends a run before or in the middle of any step.

**`ArchLoop`** looks at the same loop for what one round leaves to the next. `env` is
the architecture whose compiler the thirteen variables of `envset.sh` name; it ends
with the run. `copy[a]` is the copy of the tree many recipes compile in, which
outlives it: to the run at work it is `"left"`, or its own, `"whole"` or `"partial"`, for
no recipe looks at the status of its `cp` (`lua:41`, `bzip2:42`, `hunspell:25`), so
`Prepare` goes on with any of these. `kind` says how the recipe selects the compiler (by
name, or by position in `archs`), which function resets it, whether it makes copies, and
whether `cleanbuild` names them. `made[a]` records what the last build for `a` was made with.

**`DepsFile`** models `build.sh:48-60` and every use of the file. `content[t]` is the
file named after second `t`, a sequence of lines that carry who wrote them, which no
code reads and which the properties are about. Appending, reading (`cat` in the
head of the loop) and emptying are separate steps, because other sessions act
between them. `Mailbox` is the promise: `Put`, `Take` all, `Close`.

**`Lycium`** composes. From `BuildHpk` it keeps the decisions of a session (what is done,
what is ready, when links are made and removed) and drops the order of the rounds: a
session tries its packages in any order, as often as it likes, and ends (`End`) when
nothing that is left can be built: that is the outcome of the comparison of two rounds,
which `StopOnlyWhenBlocked` shows in `BuildHpk`, and not the comparison. The file of
missing dependencies is not in it; `DepsFile` has that, shared as it is. From `HpkPackage` it
keeps the steps of a run that touch what sessions share. Both keep their detail in
their own module. `failed` is a history variable: the packages of which a step
failed, to compare with what is reported.

**`CopyTools`** has an action for each step of `tar`, `cp` and `rm` on a file, because none
of them is atomic and sessions share both directories: `tar` removes a file that is
there (`TarUnlink`), creates it (`TarCreate`) and writes it (`TarWrite`), `cp` empties the
target (`CpOpen`) and fills it (`CpFill`) with what there is of the source, `rm` takes
one file after another of those it found. `Expand` is the shell that expands
`toolchain/*`; a file of that list may be gone when `cp` gets there. `todo[s]` are the files
a command has still to take. A command that fails leaves out any of them, and the
session goes on; a killed one stops. `undisturbed`, which no code reads, are the sessions
that copied while no other did and with nothing failing.

**`TestHpk`.** `cwd` and `OLDPWD` are the shell's directories, `checkprepare` the package
whose function of that name the shell has; each statement group of the loop is an
action. `kinds` is what packages differ in: a `HPKCHECK` or none, its own
`checkprepare` or none, a directory under `usr/`, a build tree, and whether the test
comes back to the directory it left.

**`EnvBuild`.** `unpacked`, `tools`, `cmds` and `extras` are on the device's disk and
survive; `part`, `c` and `pc` are the position of the run. `Kill` is a device that
restarts or a shell that is lost; `Start` runs the script again.

## 3. Runs

| Run | Question | Answer |
|---|---|---|
| `session` | the invariants of one session; do the rounds end, and does one from the second on never lead to one with the same packages; is each step one of `BuildOrder` | hold, 324,682 states |
| `build_all` | is a session over all directories a behaviour of `BuildOrder` | yes, 153,869 states |
| `premature_stop` | is what the last message lists really blocked | **no** |
| `package` | the invariants of a package over many runs; is a broken archive replaced; is it a behaviour of `Installation` | hold, 10,470 states |
| `partial_archs` | does success mean that all architectures are installed | **no** |
| `arch_loop` | is each architecture compiled with its own compiler, and never in a copy an earlier run left | yes, 17,304 states |
| `deps_file` | does a session read what an earlier one left; is the file a mailbox; does a session whose name is taken find another | no; yes; yes, 104,415 states |
| `sessions` | is the registry closed under dependencies, and does each session keep to `BuildOrder`, two at a time | yes, 257,992 states |
| `sessions_in_turn` | do rows stay true, are errors real, is everything recorded in the end, is each package a behaviour of `Installation`, one at a time | yes, 2,849 states |
| `tools_copied` | does a session that copies the wrappers alone, with nothing failing, leave them whole, whatever others left | yes, 1,196,360 states |
| `test_run` | one verdict each, from its own tests, with its log | hold, 90,200 states |
| `env_set_up` | is everything checked for there when the message is printed; does a later run get to the end | yes, 27,193 states |

`CopyTools` and `EnvBuild` have their `TypeOK` proved, for every instance, and their runs
do not repeat it.

`premature_stop` and `partial_archs` each check one sentence of the code, quoted at
the property, and find it violated; `findings` in `PROJECT.json` says what the code
does instead.

- *Premature stop* (`build.sh:301`). Two rounds "look alike" when they have as many
  packages and the same first one. `J` needs `K`, `K` needs `L1` and `L2`, `L2`
  needs `M`, and only `J` and `K` are named: in one round `L1` is built and `M`
  discovered, the length is the same and so is the first package, and `M`, which
  needs nothing, is listed for its dependencies to be checked. `StopOnlyWhenBlocked`
  states when this cannot happen: all dependencies were asked for, as they are
  when `build.sh` runs without arguments. So the advice in the README,
  while not needed for what it says, does avoid this.
- *Half of the architectures* (`build_hpk.sh:231`, `build.sh:117-130`): a row is written
  for each architecture, and one row is taken for the package. The template's
  `package()` (`template/HPKBUILD:49-53`), which forgets the status of the install,
  writes a row for nothing at all.

The modules state other sentences of messages, comments and guides that the code does
not keep. They have no configuration of their own: add the statement to the
invariants of the one named here, and TLC finds the behaviour described.

| Statement | Add to | What the code does |
|---|---|---|
| `NotBuiltUnlessDepsNamed` | `session` | a dependency left out of the command line is queued (`build.sh:257`) and built, where `lycium/README.md:47` says its dependents are not compiled |
| `ErrorsAreNotBuilt` | `session` | a name given twice is queued twice; its second run finds the link removed and lists a built package as an error (`build.sh:286`) |
| `SuccessMeansRequestedBuilt` | `session` | a name without a directory is dropped without a word (`build.sh:132`), and the session exits with 0 |
| `EachWithItsCompiler` | `arch_loop` | `hunspell/HPKBUILD:26` and `openldap/HPKBUILD:35` take the first of `archs` for the 32 bit one, and `archs` has only the other |
| `CleanEveryTime` | `arch_loop` | `lua/HPKBUILD:86`: `ARCH` is empty when `cleanbuild` runs, so the copy stays, and `cp -rf` copies the new tree into the old one |
| `FilesAreDifferent` | `deps_file` | the name of the file is looked for, not created (`build.sh:53`), so two sessions may take it |
| `NoFalseErrors` | `sessions` | the links and trees one session removes are those another is using (`build.sh:173`) |
| `BuildsWithAllTools` | `tools_copied` | with nothing failing (`MaxFaults = 0`), a session that starts while another copies finds the first wrapper half written and builds (`build.sh:317`); and sessions that overlap unpack into one directory that each removes (`build.sh:321-323`), so that when all are through a wrapper can be missing, for good, as only the first is looked for |
| `OwnPreparation` | `test_run` | `checkprepare` of an earlier package is still defined (`test.sh:133`) |
| `OnlyBuiltIsTested` | `test_run` | a directory under `usr/` is enough (`test.sh:101`), and no `cd` is checked |
| `AllThereWhenPrinted` | `env_set_up` | the last copies go unchecked (`env_build.sh:164`) |

## 4. Properties worth a word

- `DepsBuiltFirst`: `builddepends` compares the number of hits with the number of
  dependencies. It would be wrong if a name were in `donelist` twice; the registry
  has a row for each architecture, so this rests on the merging in `readdonelibs`.
- `NoDependencyForgotten`: the file collects the names of one child and is emptied
  after it; a dependency that was skipped because it was in a list must still be
  in one when its dependent is queued again.
- `BuiltAtMostOnce`, `ScriptPresent` and `ExitMatchesOutcome` assume that no name is
  given twice (`DistinctJobs`); `ErrorsAreNotBuilt` shows why.
- `StopOnlyWhenBlocked` assumes only that every dependency was asked for (`Closed`):
  `premature_stop` shows why. Names given twice do no harm here.
- `LaterRoundsDiffer` is what makes `Termination` true, and a safety property: `build.sh:301`
  compares a length and a first element, and two rounds over the same packages are
  recognised only because packages are queued again in the order they ran in. It is
  about the rounds from the second on: after the first there is nothing to compare
  with, and the second may run the same packages, as it does when two need each other.
- `BuildsInOrder` is the part of `ImplementsBuildOrder` that holds for command lines that
  leave dependencies out: every step but the verdict, which `premature_stop` shows to
  come too early then. It needs `DistinctJobs`, for the reason above.
- `SessionsKeepOrder` says that what sessions do to each other's trees, links and rows makes
  builds fail but never puts one before its dependencies; `Kill` is excepted, which
  ends a session with work left. The sessions of that run have all they need asked for.
- `ImplementsInstallation` of `HpkPackage` is for recipes that are `Careful`: for the others
  `partial_archs` shows rows of nothing. In `Lycium` it holds while sessions run in turn
  (two of them would install the same architecture at once), and for packages
  whose `pkgname` is their directory's name: another is built again although it has rows.
- `RecordedIsInstalled` is also a statement about later runs: none damages what is
  recorded, because a package with a row is not built again.
- `PatchedOnce` needs `cleanbuild` to run before anything else of a run, and
  `patchflag` to be reset by sourcing the recipe again.
- `CompiledForItsArch` is for recipes that select the compiler by the architecture's
  name, or by position in an `archs` that has those they count on (`Matched`). It does
  not rest on the reset of the environment, which may never be called
  (`build_hpk.sh:222`), but on every variable being assigned anew.
- `FreshCopy` covers the run after one that failed or was killed anywhere, also in the
  middle of `cp` or of `rm -rf`. It says whose copy is compiled, not that the copy is
  whole: a `cp` that stops half way goes unnoticed, and `make` decides what comes of it.
- `OnlyVerifiedSources` is about archives that are not the right one and about truncated
  ones; in the recipes that unpack in `prepare` nothing else would notice the latter.
- `NothingStale`: `/tmp` is full of the files of earlier sessions, with names in them
  when a session was killed. A session reads one of these only if it takes its name,
  and it does not, because a file that has lines exists. This also covers sessions
  that share a second with one that is still at work.
- `ImplementsMailbox`: between `cat` and `echo >` nothing is appended, because the only
  writer of the file is the child, which has ended. It is stated step by step, for as
  long as the files of the sessions at work are different (`FilesAreDifferent`): the
  code does not provide for that, and a session may take the name of one that is at work.
- `RegistryClosed` holds for concurrent sessions: they may spoil each other's trees, but a
  row is written only after `builddepends`, and rows are never removed.
- `RecordedStays` and `NoFalseErrors` are what is lost when sessions run at the same time;
  `sessions` with `NoFalseErrors` added shows the second. In turn they hold through every failure and
  kill, also with a package that is built again by every session.
- `OwnCopyIsComplete` is what is left of the promise that a session has its compilers:
  sessions that overlap spoil each other's copy (`BuildsWithAllTools`). One that is
  alone must come out with all of it over whatever others left, half a directory, wrappers
  half written into the SDK, and no later session may damage it.
- `OneVerdictEach` counts, because a package may be named more than once: the report has
  it as often as it was named, whatever the tests before it did to the shell.
- `VerdictIsOfOwnTests` and `LogsCollected`: `cd $libdir` is absolute, so it does not
  matter where a test left the shell; the log is sought by a relative name, and is
  found only when the test came back.
- `SetUpWhenPrinted`: the directories an earlier run left are unpacked over, never
  trusted. `EventuallySetUp` needs `[ -f $cmd ]` to follow links: one that leads to
  `busybox` is recognised and removed, or `ln -s` would fail for ever.

## 5. Bounds and fairness

`session`: every dependency graph over three packages (`a` may need itself, or
a name without a directory), eight command lines, three registries, every
combination of builds that fail. Three packages are enough for cycles,
diamonds, chains, a dependency discovered in the middle of a round, and two rounds
that look alike; the deeper graph of five in `premature_stop` is one that
separates `GivesUpOnlyBlocked` from `StopOnlyWhenBlocked`. Dependencies are listed in
one order and without repetitions. `build_all` has lists of all directories in
three orders.

`package`: one or two architectures, all twelve kinds of recipe for each, two kills
(`MaxKills`), and any number of failures and sessions. Two kills let the second hit
what the recovery from the first has left.

`arch_loop`: one or two architectures and every kind of recipe (64), check called or
not, two kills. `sessions`: two packages, one depending on the other, two
architectures against one; two sessions are enough for one to remove what the other
uses, and the same session name runs again and again. `sessions_in_turn` has one of
them and a package whose `pkgname` is not its directory, and a second kill. `deps_file`
has two sessions, so that one can meet the file of the other when that is over and
when it is at work, the clock runs to 4, where two sleeps of two seconds fit
(`MaxTime`), and a child appends up to two names (`MaxReports`).
`tools_copied`: two wrappers, the one that is looked for and another, three sessions,
so that two can spoil what the third finds, and two faults. `test_run`: three packages of
six kinds, lists in both orders, with one named twice. `env_set_up`: two of the four
commands and two of the unchecked copies, two kills.

Fairness. `BuildHpk!FairSpec` is `WF(Next)`: the scripts are sequential and run
until they end; a child that never returns is excluded. `HpkPackage!FairSpec`:
who wants the package runs `build.sh` again (`WF(Start)`), a run goes on
(`WF(Script)`), and neither `cleanbuild` nor a missing dependency stops every run
(`SF(CleanHpk)`, `SF(DependsReady)`). Nothing is assumed of the network, the
server or the compiler, and kills are bounded. `DepsFile!FairSpec`: the clock goes on
and so does a session. `EnvBuild!FairSpec`: the script is run again until it prints its
message, and what can succeed (unpacking, copying, linking) does not fail every time.
`Lycium!FairSpec`: sessions for everything are started again and again, each runs to
its end, and a step of a package's build that is tried again and again succeeds again
and again; that the rounds of a session end (`SF(End)`) is what `Termination` shows in `session`.

All specifications describe every state the script can be in between two of its
commands; what has ended stutters explicitly (`Exited`, `Ended`), so deadlock is
checked everywhere.

## 6. Proofs

`BuildHpkProofs` (for all packages, graphs, registries and command lines that
satisfy the `ASSUME`s, which only say what type they have):

- `TypeCorrect`. `TypeOK` with `InRound`: a child runs only while there is a job.
- `BuiltInOrder` (`DepsBuiltFirst`). The inductive invariant `OrderInv` adds
  `DoneLists` (no name is twice in `donelibs` or `donelist`), `Counting` (`count` is
  at most the number of dependencies looked at, and equal only if all of them
  are in `donelist`) and `ReadyIfBuilt` (an answer 0 is given only for a package whose
  dependencies are in `donelist`). Without `DoneLists` a count proves nothing.
- `NothingLost` (`NoJobLost`) and `NothingForgotten` (`NoDependencyForgotten`). `KeptInv`
  adds `Fresh` (the lists are as they should be before the rounds), `RoundKept` and
  `NextRan` (what ran in this round is settled or in the next, and what is in the next
  and ran is waiting), `Named` and `Told` (each missing dependency of the child
  that answered 101 is in the file, or taken care of).
- `SettledOnce` (`BuiltAtMostOnce`). `SettledInv` holds two facts under `DistinctJobs`:
  while jobs are selected (`Choosing`) the queue holds each once and none that is
  built; afterwards (`Settled`) the built, the failed, the queue of the next round and
  what is left of this one are disjoint and without repetitions.
- `ScriptIsThere` (`ScriptPresent`) and `NoLinkStays` (`LinksRemoved`). `LinksInv`: the
  links are in the directories of the session's packages, and in all of those
  that are queued. It rests on `Settled`, because only settled packages lose them.
- `VerdictIsRight` (`ExitMatchesOutcome`). `VerdictInv`: what failed or is left was taken
  on, and -1 is answered exactly when there is some. With `NoJobLost` and `Settled`
  nothing is on both sides.
- `StopsOnlyWhenBlocked` (`StopOnlyWhenBlocked`). `Reading` says that after the selection
  everything requested is built or queued, `Reporting` that a child that answered 101
  has a dependency that is not built and names only dependencies. `Stopping` is the
  argument itself: when the request is closed nothing new is discovered, so the next
  round is never longer than what this one has run; if it is as long, this round has
  built nothing since each of its packages was found blocked, and they still are.
- `Refinement` (`ImplementsBuildOrder`), for command lines that are closed and
  name nothing twice (`Asked`): every action of the session is a step of `BuildOrder`
  or a stutter. A child's failure maps to `broken`, its success to `built`, and the
  verdict to `BuildOrder`'s, which needs all of the invariants above.
- `StepsAreInOrder` (`BuildsInOrder`). The same case analysis (`OrderStep`) without the
  demand that the request is closed, which only the verdict needs.
- `RoundsDiffer` (`LaterRoundsDiffer`), for every command line, from the second round on. `InStep`: the
  queue of the next round holds each package once, and as long as a round has settled
  nothing and discovered nothing, that queue is the part of the round that has run, in
  its order. A next round over the same packages would have the same length and first
  element, and `build.sh:301` would have stopped the session.

`HpkPackageProofs` (for any architectures, kinds of recipe and number of kills):
`TypeCorrect`, `InstalledIsVerified`, `CompiledIsPatchedOnce`, `RowIsInstalled`.
The first two strengthenings follow the run: what holds of `tree` and `patches` at
each `pc`, and, for rows (`RowsInv`), that while a run works on position `k` exactly the
earlier architectures have rows, so an install never overwrites one. That it is exactly
these is needed only for `RunsInstall` (`ImplementsInstallation`): the architecture a run is
at is then the one that is due (`ArchIsDue`), and a run that is over has recorded all.

`DepsFileProofs` (any sessions, names and clock): `TypeCorrect`; `ReadsNothingStale`,
from `ContentInv` (a file with lines exists, whoever wrote a line was at work or over,
and the lines in a session's file are of none that was over when it took the name);
and `FileIsMailbox` (`ImplementsMailbox`): while no two sessions at work share a
second, each action changes at most the box of its own session (`OthersUnread`).

`CopyToolsProofs` (any sessions and wrappers): `TypeCorrect`, and `CopyIsComplete` from
`UndisturbedInv`: while an undisturbed session copies nobody else does, so what it has
unpacked is whole in the directory and what it has copied is whole in the SDK; once
it is through all are, and no session that starts after it copies again.

`ArchLoopProofs` (any architectures and kinds of recipe): `TypeCorrect`; `RightCompiler`
from `CompilerInv`, which says it of `env` between `prepare` and `build` and carries
`Matched`; `CopiesAreFresh` from `CopyInv`, which says that from `cleanbuild` on no copy
of an architecture still to come exists, so what `prepare` leaves is of this run.

`LyciumProofs` (any dependency graph, architectures and number of kills): `TypeCorrect`;
`RegistryIsClosed`, from `ClosedInv`, for any number of concurrent sessions; and, under
`Concurrent = 1`, `RowsStayInstalled` and `FailuresAreReal`. `InTurnInv` says what the one
session that runs relies on (`RunInv`): its links are there for all that waits, its
tree from `unpack` on, and what it has still to build has no rows, so no install is
over a recorded one. `SessionsAreInOrder` (`SessionsKeepOrder`) holds for any number of
concurrent sessions: `OrderInv` says only what a session knows of itself, that what it
builds is still waiting and, past `builddepends`, depends on nothing that is not done.
`PackagesAreInstalled` (`ImplementsInstallation`, under `Concurrent = 1`) adds `EarlierInv`,
the architectures before the one a session is at have rows, to `InTurnInv`.

`EnvBuildProofs` (any commands and copies): `TypeCorrect`, and `PrintedMeansSetUp` from
`DoneSoFar`: what is before the position of a run is on the device, and what it is
about to copy is unpacked in full.

`TestHpkProofs` (any packages, kinds and lists of names): `TypeCorrect`; `VerdictIsOwn` from
`OwnTestInv`, which follows what a test is given, the directory and the preparation, from
one statement of the loop to the next; `LogsAreCollected` from `LogInv`; and
`EachHasOneVerdict` (`OneVerdictEach`) from `CountInv`: the first loop has found as many
occurrences of a name as there are before its position, and the second has given
as many verdicts. The lemmas on `TimesUpTo` say what one more position adds.

Only model-checked: liveness, which is out of the prover's reach (`Termination`,
`BrokenArchiveReplaced`, `EventuallyNamed`, `EventuallySetUp`, `EventuallyRecorded`). Of
`Termination` a safety part is proved, as `RoundsDiffer`: the rounds from the second on differ.

## 7. Plan

Done: all the modules planned at first, in this order: `BuildOrder`, `BuildHpk`,
`HpkPackage`, `DepsFile` with `Mailbox`, `Lycium`, `ArchLoop`, `TestHpk`, `CopyTools`,
`EnvBuild`, and the proofs of their type and safety invariants and of the first refinements.

Then the theorems on `TestHpk`, and `Installation`, which a run of `HpkPackage` and the
sessions of `Lycium` both implement, as the sessions of `BuildHpk` and of `Lycium` both
implement `BuildOrder`.

Left, should the code or the interest change:

- a refinement of `Lycium` by `BuildHpk` and `HpkPackage` directly; now they meet in the two
  abstract specifications;
- a measure that decreases from round to round, of which `RoundsDiffer` is a part.

## 8. Not modelled

The host check and the SDK version (`build.sh:1-46`, `checkbuildenv`): they end the
script before it has changed anything. The text of compiler options
(`cmakedependpath`, `configuredependpath`) and of archive suffixes. What single recipes
and tests do beyond the kinds described: 322 `HPKBUILD` and 248 `HPKCHECK` files fill in
the templates, and enter as values. The container recipe, scripts that serve a single
package, the guides under `docs/`.

The repository's own logic is in shell scripts, which is what the models translate.
It has no C or C++ program of its own: the C files and headers in the tree are those
of the libraries installed under `lycium/usr`, of sources vendored under
`thirdparty/CUnit/tmp`, and generated `config.h` files under `thirdparty/*/adapted`.

Abstractions worth knowing. The models of one package take a dependency for built or
not as a whole; whether it is there for the right architecture is an assumption
(`ArchsAssumption` of `Lycium`, from the comment at `template/HPKBUILD:16`). In `Lycium` a
session is asked for packages with all they depend on, because for other requests
`premature_stop` has shown that it may give up anything; a tree that another session
unpacked anew is not told apart from the one that was being compiled; and no package
depends on one whose `pkgname` is not its directory's name. In `DepsFile` a session
that is killed is killed with its child.
