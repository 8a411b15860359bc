----------------------------- MODULE HpkPackage -----------------------------
(***************************************************************************)
(* One package and the runs of lycium/script/build_hpk.sh on it, session   *)
(* after session: what a run finds on the disk, what it leaves there when  *)
(* it ends, fails, or is killed, and what the next session makes of it.    *)
(*                                                                         *)
(* Three things outlive a run: the archive that was downloaded and the     *)
(* source tree, both in the package's directory, and under usr/ what was   *)
(* installed and the rows of hpk_build.csv.  Every step of the script goes *)
(* through "sure", which ends the run at the first failure.  The functions *)
(* of the HPKBUILD (prepare, build, package, check, cleanbuild) are those  *)
(* of lycium/template/HPKBUILD, with the flags of the packages that patch  *)
(* their sources and of those whose prepare unpacks the archive itself     *)
(* (autounpack false) or clones a repository (downloadpackage false).      *)
(***************************************************************************)
EXTENDS Integers, Sequences, FiniteSets, Functions

CONSTANTS
  Arch,       \* names of architectures
  Kinds,      \* the possible packages: [archs: the array archs of its HPKBUILD,
              \*   source: where the tree is from, an "archive" the framework
              \*     unpacks, one that prepare "unpacks", or a "clone",
              \*   sum: whether it has a file SHA512SUM,
              \*   checked: whether package() returns the status of the install]
  MaxKills    \* bound on the runs that are killed

ASSUME MaxKillsAssumption == MaxKills \in Nat
ASSUME KindsAssumption ==
  \A kind \in Kinds : /\ kind.archs \in Seq(Arch) /\ kind.archs # <<>>
                      /\ IsInjective(kind.archs)
                      /\ kind.source \in {"archive", "unpacks", "clone"}
                      /\ kind.sum \in BOOLEAN /\ kind.checked \in BOOLEAN

VARIABLES
  kind,         \* the package, which never changes
  archive,      \* the archive: "none" or empty, "partial", "good", or "bad":
                \* complete, but not what SHA512SUM was written for
  tree,         \* the source tree, unpacked from such an archive
  patches,      \* how often the tree was patched
  installed,    \* what usr/$pkgname/$ARCH holds, by the same scale
  csv,          \* the architectures in the rows of the package
  pc, k,        \* the step of the run, the position of ARCH in archs
  patchflag,    \* of the HPKBUILD: the patch is still to be applied
  cloneflag,    \* of the HPKBUILD: prepare has still to get the sources
  outcome,      \* of the last session: "none", "success" or "failure"
  kills         \* how many runs were killed

disk == <<archive, tree, patches, installed, csv>>
flags == <<patchflag, cloneflag>>
vars == <<kind, disk, pc, k, flags, outcome, kills>>

ARCH == kind.archs[k]
Complete == {"good", "bad"}
Contents == {"none", "partial"} \cup Complete

Init ==
  /\ kind \in Kinds
  /\ archive = "none" /\ tree = "none" /\ patches = 0
  /\ installed = [a \in Range(kind.archs) |-> "none"]
  /\ csv = <<>>
  /\ pc = "idle" /\ k = 1 /\ patchflag = TRUE /\ cloneflag = TRUE
  /\ outcome = "none" /\ kills = 0

(***************************************************************************)
(* Mutated forms of the definitions that follow: each breaks the property  *)
(* its comment names, and no specification uses it.                        *)
(***************************************************************************)
\* RecordedIsInstalled: a package counts as built when all of it is.
RecordedInFull == Range(kind.archs) \subseteq Range(csv)
\* PatchedOnce: cleanbuild leaves the tree where it is.
KeepTree == UNCHANGED <<tree, patches>>
\* OnlyVerifiedSources: an archive that is there passes for one that was verified.
SkipChecksum ==
  /\ pc = "download" /\ archive # "none"
  /\ pc' = IF kind.source = "archive" THEN "unpack" ELSE "prepare"
  /\ UNCHANGED <<kind, disk, k, flags, kills, outcome>>
\* BrokenArchiveReplaced: rm -rf is left out.
KeepArchive == archive
\* TypeOK: the loop runs one round too many.
OneMoreArch == k <= Len(kind.archs)
-----------------------------------------------------------------------------
\* build.sh takes a package for built as soon as it has a row in the csv.  The
\* row holds pkgname and build.sh asks for the directory: here they are the same.
Recorded == csv # <<>>

\* cleanbuild: rm -rf of the source tree.
CleanTree == tree' = "none" /\ patches' = 0

\* sha512sum -c succeeds.
SumMatches == archive = "good"

\* What is left of an archive that does not match.
RemoveArchive == "none"

\* for arch in ${archs[@]}
MoreArchs == k < Len(kind.archs)

\* "sure": the run ends, and with it the session, with an error.
Fail == pc' = "idle" /\ outcome' = "failure"

Goto(step) == pc' = step /\ outcome' = outcome

\* The session starts.  It ends at once when the package has a row; else it
\* runs build_hpk.sh, which sources the HPKBUILD.
Start ==
  /\ pc = "idle"
  /\ IF Recorded THEN pc' = "idle" /\ outcome' = "success"
     ELSE Goto("clean")
  /\ k' = 1 /\ patchflag' = TRUE /\ cloneflag' = TRUE
  /\ UNCHANGED <<kind, disk, kills>>

CleanHpk ==
  /\ pc = "clean"
  /\ CleanTree /\ Goto("depends")
  /\ UNCHANGED <<kind, archive, installed, csv, k, flags, kills>>

\* cleanbuild fails, having removed part of the tree.
CleanFails ==
  /\ pc = "clean"
  /\ tree' \in {tree, IF tree = "none" THEN "none" ELSE "partial"} /\ Fail
  /\ UNCHANGED <<kind, archive, patches, installed, csv, k, flags, kills>>

DependsReady ==
  /\ pc = "depends" /\ Goto(IF kind.source = "clone" THEN "prepare" ELSE "download")
  /\ UNCHANGED <<kind, disk, k, flags, kills>>

\* A dependency is missing: exit 101, and another run in the next round of
\* the session, or none when the session gives up.
DependsMissing ==
  /\ pc = "depends" /\ (Goto("clean") \/ Fail)
  /\ UNCHANGED <<kind, disk, k, flags, kills>>

\* An archive that is there is taken, whatever it is.
DownloadSkip ==
  /\ pc = "download" /\ archive # "none" /\ Goto("checksum")
  /\ UNCHANGED <<kind, disk, k, flags, kills>>

\* curl writes what the server sends to the archive, and what it got when
\* the transfer broke off stays there.
Download ==
  /\ pc = "download" /\ archive = "none"
  /\ \/ archive' \in Complete /\ Goto("checksum")
     \/ archive' \in {"none", "partial"} /\ Fail
  /\ UNCHANGED <<kind, tree, patches, installed, csv, k, flags, kills>>

Checksum ==
  /\ pc = "checksum"
  /\ IF kind.sum /\ ~ SumMatches
     THEN archive' = RemoveArchive /\ Fail
     ELSE /\ archive' = archive
          /\ Goto(IF kind.source = "archive" THEN "unpack" ELSE "prepare")
  /\ UNCHANGED <<kind, tree, patches, installed, csv, k, flags, kills>>

\* A truncated archive does not unpack, a complete one may.
Unpack ==
  /\ pc = "unpack"
  /\ \/ archive \in Complete /\ tree' = archive /\ Goto("prepare")
     \/ tree' = "partial" /\ Fail
  /\ UNCHANGED <<kind, archive, patches, installed, csv, k, flags, kills>>

\* prepare gets the sources before the first architecture.
MustFetch == kind.source # "archive" /\ cloneflag

\* git clone needs an empty place and is checked; what tar and unzip answer in
\* prepare is not, and a truncated archive leaves part of a tree.
Fetched ==
  IF kind.source = "clone" THEN (IF tree = "none" THEN Complete ELSE {})
  ELSE {"partial"} \cup ({archive} \cap Complete)

\* checkmakedepends or prepare fails, the latter having cloned or unpacked all,
\* part or nothing, and patched or not.  What patch answers is not looked at.
PrepareFails ==
  /\ pc = "prepare" /\ Fail
  /\ tree' \in {tree} \cup (IF MustFetch THEN {"partial"} \cup Fetched ELSE {})
  /\ patches' \in {patches} \cup (IF patchflag THEN {patches + 1} ELSE {})
  /\ UNCHANGED <<kind, archive, installed, csv, k, flags, kills>>

Prepare ==
  /\ pc = "prepare" /\ Goto("build")
  /\ tree' \in IF MustFetch THEN Fetched ELSE {tree}
  /\ patches' = IF patchflag THEN patches + 1 ELSE patches
  /\ patchflag' = FALSE /\ cloneflag' = FALSE
  /\ UNCHANGED <<kind, archive, installed, csv, k, kills>>

Build ==
  /\ pc = "build" /\ (Goto("package") \/ Fail)
  /\ UNCHANGED <<kind, disk, k, flags, kills>>

\* When the install fails, package() fails only if it returns its status: the
\* template's ends in a cd, which succeeds.
Package ==
  /\ pc = "package"
  /\ \/ installed' = [installed EXCEPT ![ARCH] = tree] /\ Goto("check")
     \/ /\ installed' = [installed EXCEPT ![ARCH] = "partial"]
        /\ IF kind.checked THEN Fail ELSE Goto("check")
  /\ UNCHANGED <<kind, archive, tree, patches, csv, k, flags, kills>>

\* check and recoverpkgbuildenv, or the one that fails.
Check ==
  /\ pc = "check" /\ (Goto("record") \/ Fail)
  /\ UNCHANGED <<kind, disk, k, flags, kills>>

\* The architecture is recorded; the loop goes on to the next or the run ends.
RecordBuildLibs ==
  /\ pc = "record"
  /\ csv' = Append(csv, ARCH)
  /\ IF MoreArchs
     THEN k' = k + 1 /\ Goto("prepare")
     ELSE k' = k /\ pc' = "idle" /\ outcome' = "success"
  /\ UNCHANGED <<kind, archive, tree, patches, installed, flags, kills>>

\* The run is killed, before its next step or in the middle of it.
Kill ==
  /\ pc # "idle" /\ kills < MaxKills
  /\ kills' = kills + 1 /\ Fail
  /\ archive' \in {archive} \cup
       (IF pc = "download" /\ archive = "none" THEN {"partial"} ELSE {})
  /\ tree' \in {tree} \cup
       (IF \/ pc = "unpack" \/ (pc = "prepare" /\ MustFetch)
           \/ (pc = "clean" /\ tree # "none")
        THEN {"partial"} ELSE {})
  /\ installed' \in {installed} \cup
       (IF pc = "package" THEN {[installed EXCEPT ![ARCH] = "partial"]} ELSE {})
  /\ patches' \in {patches} \cup
       (IF pc = "prepare" /\ patchflag THEN {patches + 1} ELSE {})
  /\ UNCHANGED <<kind, csv, k, flags>>

Script ==
  \/ CleanHpk \/ CleanFails \/ DependsReady \/ DependsMissing
  \/ DownloadSkip \/ Download \/ Checksum \/ Unpack
  \/ Prepare \/ PrepareFails \/ Build \/ Package \/ Check \/ RecordBuildLibs

Next == Start \/ Script \/ Kill

Spec == Init /\ [][Next]_vars

\* Who wants the package runs build.sh again, a run goes on until it ends or is
\* killed, and it is not cleanbuild or a missing dependency every time.
\* Nothing is assumed of the network or of the server.
FairSpec ==
  /\ Spec
  /\ WF_vars(Start) /\ WF_vars(Script)
  /\ SF_vars(CleanHpk) /\ SF_vars(DependsReady)
-----------------------------------------------------------------------------
TypeOK ==
  /\ kind \in Kinds
  /\ archive \in Contents /\ tree \in Contents /\ patches \in Nat
  /\ installed \in [Range(kind.archs) -> Contents]
  /\ csv \in Seq(Range(kind.archs))
  /\ pc \in {"idle", "clean", "depends", "download", "checksum", "unpack",
             "prepare", "build", "package", "check", "record"}
  /\ k \in DOMAIN kind.archs /\ patchflag \in BOOLEAN /\ cloneflag \in BOOLEAN
  /\ outcome \in {"none", "success", "failure"} /\ kills \in 0 .. MaxKills

\* "库的完整性校验" (build_hpk.sh:64): with a SHA512SUM nothing is unpacked,
\* compiled or installed from an archive that does not match it, be it another
\* one or a truncated one, whichever run downloaded it and however that run
\* ended.  A clone is not verified.
OnlyVerifiedSources ==
  kind.sum /\ kind.source # "clone" =>
    /\ pc \in {"unpack", "prepare", "build", "package"} => archive = "good"
    /\ tree # "bad" /\ \A a \in DOMAIN installed : installed[a] # "bad"

\* When package() returns its status, a row of the csv means that the
\* architecture is installed in full, and no later run ever damages it, unless
\* prepare unpacks the archive and does not notice that it is truncated.
RecordedIsInstalled ==
  kind.checked /\ kind.source # "unpacks" => \A a \in Range(csv) : installed[a] \in Complete

\* The tree that is compiled is a complete one that was patched exactly once,
\* also by a run after one that failed or was killed, and also when it is a
\* clone.  It may be incomplete when prepare unpacks it.
PatchedOnce ==
  pc \in {"build", "package"} =>
    patches = 1 /\ (kind.source # "unpacks" => tree \in Complete)

\* A broken archive does not block the package for good if it has a SHA512SUM.
BrokenArchiveReplaced ==
  (kind.sum /\ kind.source # "clone" /\ archive \in {"partial", "bad"}) ~> archive \notin {"partial", "bad"}

\* What the runs are to Installation.
Inst == INSTANCE Installation WITH
  archs <- kind.archs,
  usr <- [a \in Range(kind.archs) |-> IF installed[a] \in Complete THEN "full" ELSE installed[a]],
  rows <- Range(csv),
  building <- (pc # "idle")

\* package() returns the status of the install, and an incomplete tree is noticed.
Careful == kind.checked /\ kind.source # "unpacks"

\* Run after run, whatever fails and is killed, a careful package is installed
\* as Installation says: architecture by architecture, recorded when it is
\* complete and left alone from then on, and not built again once it has a row.
ImplementsInstallation == Inst!Init /\ [][Careful => Inst!Next]_(Inst!vars)

\* "进行自动编译三方库，并打包安装到当前目录的 usr/$pkgname/$ARCH 目录"
\* (lycium/README.md:40): after a session that succeeded the package is
\* installed for each architecture of its HPKBUILD.
SuccessMeansInstalled ==
  pc = "idle" /\ outcome = "success" =>
    \A a \in Range(kind.archs) : installed[a] \in Complete
=============================================================================
