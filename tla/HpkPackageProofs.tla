-------------------------- MODULE HpkPackageProofs --------------------------
(***************************************************************************)
(* Theorems about HpkPackage, for any number of architectures and of runs  *)
(* that are killed.                                                        *)
(***************************************************************************)
EXTENDS HpkPackage, TLAPS

\* The steps before the first prepare, and those that leave an architecture
\* half done.
Fetching == {"clean", "depends", "download", "checksum", "unpack"}
Compiling == {"build", "package", "check", "record"}
-----------------------------------------------------------------------------
(* The patch                                                               *)

\* The tree is as complete as the package cares for.
Compilable == kind.source # "unpacks" => tree \in Complete

\* A run that fetches has its patch before it; once it is past cleanbuild the
\* tree has none.  From prepare on, the flags say whether prepare has still to
\* get the tree, and whether the tree has the patch.
PatchInv ==
  /\ pc \in Fetching => patchflag = TRUE /\ cloneflag = TRUE /\ k = 1
  /\ pc \in Fetching \ {"clean"} => patches = 0
  /\ pc = "prepare" =>
       /\ MustFetch \/ Compilable
       /\ \/ patchflag = TRUE /\ patches = 0
          \/ patchflag = FALSE /\ patches = 1
  /\ pc \in Compiling => Compilable /\ patchflag = FALSE /\ patches = 1

(* The checksum                                                            *)

\* Only an archive that matches gets past it.
VerifiedInv ==
  kind.sum /\ kind.source # "clone" =>
    /\ pc \in {"unpack", "prepare"} \cup Compiling => archive = "good"
    /\ tree # "bad"
    /\ \A a \in DOMAIN installed : installed[a] # "bad"

(* The rows                                                                *)

\* A run starts without rows and records each architecture after the last.
RowsInv ==
  /\ pc \in Fetching => csv = <<>>
  /\ pc # "idle" =>
       Range(csv) = {kind.archs[m] : m \in 1 .. k - 1}
  /\ kind.checked /\ kind.source # "unpacks" =>
       /\ pc \in {"check", "record"} => installed[ARCH] \in Complete
       /\ \A a \in Range(csv) : installed[a] \in Complete
-----------------------------------------------------------------------------
LEMMA KindType ==
  ASSUME TypeOK
  PROVE  /\ kind.archs \in Seq(Arch) /\ kind.archs # <<>>
         /\ IsInjective(kind.archs)
         /\ kind.source \in {"archive", "unpacks", "clone"}
         /\ kind.sum \in BOOLEAN /\ kind.checked \in BOOLEAN
         /\ DOMAIN kind.archs = 1 .. Len(kind.archs)
         /\ Len(kind.archs) \in Nat \ {0}
         /\ 1 \in DOMAIN kind.archs
<1>1. kind \in Kinds
  BY DEF TypeOK
<1>2. /\ kind.archs \in Seq(Arch) /\ kind.archs # <<>>
      /\ IsInjective(kind.archs)
      /\ kind.source \in {"archive", "unpacks", "clone"}
      /\ kind.sum \in BOOLEAN /\ kind.checked \in BOOLEAN
  BY <1>1, KindsAssumption
<1>3. /\ DOMAIN kind.archs = 1 .. Len(kind.archs)
      /\ Len(kind.archs) \in Nat \ {0}
  BY <1>2
<1>4. 1 \in DOMAIN kind.archs
  BY <1>3
<1> QED BY <1>2, <1>3, <1>4

\* The current architecture is one of the package's.
LEMMA ArchType ==
  ASSUME TypeOK
  PROVE  ARCH \in Range(kind.archs) /\ DOMAIN installed = Range(kind.archs)
BY DEF TypeOK, ARCH, Range

\* The set of the entries of a sequence that got one more.
LEMMA RangeAppend ==
  ASSUME NEW S, NEW s \in Seq(S), NEW y
  PROVE  Range(Append(s, y)) = Range(s) \cup {y}
<1>1. DOMAIN Append(s, y) = DOMAIN s \cup {Len(s) + 1}
  OBVIOUS
<1>2. /\ \A j \in DOMAIN s : Append(s, y)[j] = s[j]
      /\ Append(s, y)[Len(s) + 1] = y
  OBVIOUS
<1> QED BY <1>1, <1>2 DEF Range

LEMMA AppendType ==
  ASSUME NEW S, NEW s \in Seq(S), NEW y \in S
  PROVE  Append(s, y) \in Seq(S)
OBVIOUS
-----------------------------------------------------------------------------
LEMMA TypeInit == Init => TypeOK
<1> SUFFICES ASSUME Init PROVE TypeOK
  OBVIOUS
<1>1. 1 \in DOMAIN kind.archs
  <2>1. kind.archs \in Seq(Arch) /\ kind.archs # <<>>
    BY KindsAssumption DEF Init
  <2> QED BY <2>1
<1>2. installed \in [Range(kind.archs) -> Contents]
  BY DEF Init, Contents
<1> QED BY <1>1, <1>2, MaxKillsAssumption
        DEF Init, TypeOK, Contents, Complete

LEMMA TypeNext == TypeOK /\ [Next]_vars => TypeOK'
<1> SUFFICES ASSUME TypeOK, [Next]_vars PROVE TypeOK'
  OBVIOUS
<1> USE DEF TypeOK, Contents, Complete, disk, flags, Fail, Goto
<1>k. 1 \in DOMAIN kind.archs /\ MaxKills \in Nat
  BY KindType, MaxKillsAssumption
<1>0. CASE UNCHANGED vars
  BY <1>0 DEF vars
<1>1. CASE Start
  BY <1>1, <1>k DEF Start
<1>2. CASE CleanHpk \/ CleanFails
  BY <1>2 DEF CleanHpk, CleanTree, CleanFails
<1>3. CASE DependsReady \/ DependsMissing
  BY <1>3 DEF DependsReady, DependsMissing
<1>4. CASE DownloadSkip \/ Download
  BY <1>4 DEF DownloadSkip, Download
<1>5. CASE Checksum
  BY <1>5 DEF Checksum, RemoveArchive
<1>6. CASE Unpack
  BY <1>6 DEF Unpack
<1>7. CASE Prepare \/ PrepareFails
  <2>1. patches' \in {patches, patches + 1}
    BY <1>7 DEF Prepare, PrepareFails
  <2>2. patches' \in Nat
    BY <2>1
  <2>3. patchflag' \in BOOLEAN /\ cloneflag' \in BOOLEAN
    BY <1>7 DEF Prepare, PrepareFails
  <2>4. tree' \in Contents
    BY <1>7 DEF Prepare, PrepareFails, Fetched
  <2> QED BY <1>7, <2>2, <2>3, <2>4 DEF Prepare, PrepareFails
<1>8. CASE Build \/ Check
  BY <1>8 DEF Build, Check
<1>9. CASE Package
  <2>1. installed' \in [Range(kind.archs) -> Contents]
    BY <1>9, ArchType DEF Package
  <2> QED BY <1>9, <2>1 DEF Package
<1>10. CASE RecordBuildLibs
  <2>1. csv' \in Seq(Range(kind.archs))
    <3>1. csv' = Append(csv, ARCH) /\ csv \in Seq(Range(kind.archs))
      BY <1>10 DEF RecordBuildLibs
    <3>2. ARCH \in Range(kind.archs)
      BY ArchType
    <3> QED BY ONLY <3>1, <3>2, AppendType
  <2>2. k' \in DOMAIN kind.archs
    <3>1. k \in 1 .. Len(kind.archs) /\ k' \in {k, k + 1}
            /\ (k' = k + 1 => k < Len(kind.archs))
      BY <1>10, KindType DEF RecordBuildLibs, MoreArchs
    <3> QED BY <3>1, KindType
  <2> QED BY <1>10, <2>1, <2>2 DEF RecordBuildLibs
<1>11. CASE Kill
  <2>1. kills' \in 0 .. MaxKills
    BY <1>11, <1>k DEF Kill
  <2>2. installed' \in [Range(kind.archs) -> Contents]
    BY <1>11, ArchType DEF Kill
  <2>3. archive' \in Contents /\ tree' \in Contents /\ patches' \in Nat
    BY <1>11 DEF Kill
  <2> QED BY <1>11, <2>1, <2>2, <2>3 DEF Kill
<1> QED
  BY <1>0, <1>1, <1>2, <1>3, <1>4, <1>5, <1>6, <1>7, <1>8, <1>9, <1>10, <1>11
  DEF Next, Script
-----------------------------------------------------------------------------
LEMMA PatchInit == Init => PatchInv
BY DEF Init, PatchInv, Fetching, Compiling

LEMMA PatchNext == TypeOK /\ PatchInv /\ [Next]_vars => PatchInv'
<1> SUFFICES ASSUME TypeOK, PatchInv, [Next]_vars PROVE PatchInv'
  OBVIOUS
<1> USE DEF PatchInv, Compilable, MustFetch, Fetching, Compiling, Complete, disk, flags, Fail, Goto
<1>0. CASE UNCHANGED vars
  BY <1>0 DEF vars
<1>1. CASE Start
  BY <1>1 DEF Start
<1>2. CASE CleanHpk \/ CleanFails
  BY <1>2 DEF CleanHpk, CleanTree, CleanFails
<1>3. CASE DependsReady \/ DependsMissing
  BY <1>3 DEF DependsReady, DependsMissing
<1>4. CASE DownloadSkip \/ Download
  BY <1>4 DEF DownloadSkip, Download
<1>5. CASE Checksum
  BY <1>5 DEF Checksum
<1>6. CASE Unpack
  BY <1>6 DEF Unpack
<1>7. CASE Prepare \/ PrepareFails
  BY <1>7, KindType DEF Prepare, PrepareFails, Fetched
<1>8. CASE Build \/ Check
  BY <1>8 DEF Build, Check
<1>9. CASE Package
  BY <1>9 DEF Package
<1>10. CASE RecordBuildLibs
  BY <1>10 DEF RecordBuildLibs
<1>11. CASE Kill
  BY <1>11 DEF Kill
<1> QED
  BY <1>0, <1>1, <1>2, <1>3, <1>4, <1>5, <1>6, <1>7, <1>8, <1>9, <1>10, <1>11
  DEF Next, Script
-----------------------------------------------------------------------------
LEMMA VerifiedInit == Init => VerifiedInv
BY DEF Init, VerifiedInv, Compiling

LEMMA VerifiedNext ==
  TypeOK /\ VerifiedInv /\ [Next]_vars => VerifiedInv'
<1> SUFFICES ASSUME TypeOK, VerifiedInv, [Next]_vars,
                    kind'.sum, kind'.source # "clone"
             PROVE  VerifiedInv'
  BY DEF VerifiedInv
<1> USE DEF VerifiedInv, Compiling, disk, flags, Fail, Goto
<1>t. DOMAIN installed = Range(kind.archs) /\ ARCH \in Range(kind.archs)
        /\ installed \in [Range(kind.archs) -> Contents]
  BY ArchType DEF TypeOK
<1>0. CASE UNCHANGED vars
  BY <1>0 DEF vars
<1>1. CASE Start
  BY <1>1 DEF Start
<1>2. CASE CleanHpk \/ CleanFails
  BY <1>2 DEF CleanHpk, CleanTree, CleanFails
<1>3. CASE DependsReady \/ DependsMissing
  BY <1>3 DEF DependsReady, DependsMissing
<1>4. CASE DownloadSkip \/ Download
  BY <1>4 DEF DownloadSkip, Download
<1>5. CASE Checksum
  BY <1>5 DEF Checksum, SumMatches
<1>6. CASE Unpack
  BY <1>6 DEF Unpack
<1>7. CASE Prepare \/ PrepareFails
  BY <1>7 DEF Prepare, PrepareFails, Fetched
<1>8. CASE Build \/ Check
  BY <1>8 DEF Build, Check
<1>9. CASE Package
  <2>1. /\ UNCHANGED <<kind, tree, archive>> /\ pc = "package"
        /\ \/ installed' = [installed EXCEPT ![ARCH] = tree]
           \/ installed' = [installed EXCEPT ![ARCH] = "partial"]
    BY <1>9 DEF Package
  <2>2. \A a \in DOMAIN installed' : installed'[a] # "bad"
    BY <2>1, <1>t
  <2> QED BY <2>1, <2>2
<1>10. CASE RecordBuildLibs
  BY <1>10 DEF RecordBuildLibs
<1>11. CASE Kill
  <2>1. /\ kind' = kind /\ tree' \in {tree, "partial"} /\ pc' = "idle"
        /\ \/ installed' = installed
           \/ installed' = [installed EXCEPT ![ARCH] = "partial"]
    BY <1>11 DEF Kill
  <2>2. \A a \in DOMAIN installed' : installed'[a] # "bad"
    BY <2>1, <1>t
  <2> QED BY <2>1, <2>2
<1> QED
  BY <1>0, <1>1, <1>2, <1>3, <1>4, <1>5, <1>6, <1>7, <1>8, <1>9, <1>10, <1>11
  DEF Next, Script
-----------------------------------------------------------------------------
LEMMA RowsInit == Init => RowsInv
BY DEF Init, RowsInv, Fetching, Range

\* The current architecture has no row yet.
LEMMA NoRowYet ==
  ASSUME TypeOK, RowsInv, pc # "idle"
  PROVE  ARCH \notin Range(csv)
<1>1. /\ k \in DOMAIN kind.archs /\ DOMAIN kind.archs = 1 .. Len(kind.archs)
      /\ Len(kind.archs) \in Nat /\ IsInjective(kind.archs)
  BY KindType DEF TypeOK
<1>2. \A m \in 1 .. k - 1 : m \in DOMAIN kind.archs /\ m # k
  BY <1>1
<1>3. \A m \in 1 .. k - 1 : kind.archs[m] # ARCH
  BY <1>1, <1>2 DEF IsInjective, ARCH
<1> QED BY <1>3 DEF RowsInv

LEMMA RowsNext ==
  TypeOK /\ PatchInv /\ RowsInv /\ [Next]_vars => RowsInv'
<1> SUFFICES ASSUME TypeOK, PatchInv, RowsInv, [Next]_vars PROVE RowsInv'
  OBVIOUS
<1> USE DEF Fetching, disk, flags, Fail, Goto
<1>t. /\ DOMAIN installed = Range(kind.archs) /\ ARCH \in Range(kind.archs)
      /\ installed \in [Range(kind.archs) -> Contents]
      /\ csv \in Seq(Range(kind.archs)) /\ k \in Nat
  BY ArchType, KindType DEF TypeOK
<1>0. CASE UNCHANGED vars
  BY <1>0 DEF vars, RowsInv, ARCH
<1>1. CASE Start
  <2>1. Recorded => pc' = "idle"
    BY <1>1 DEF Start
  <2> QED BY <1>1, <2>1 DEF Start, Recorded, RowsInv, Range
<1>2. CASE CleanHpk \/ CleanFails
  BY <1>2 DEF CleanHpk, CleanTree, CleanFails, RowsInv
<1>3. CASE DependsReady \/ DependsMissing
  BY <1>3 DEF DependsReady, DependsMissing, RowsInv
<1>4. CASE DownloadSkip \/ Download
  BY <1>4 DEF DownloadSkip, Download, RowsInv
<1>5. CASE Checksum
  BY <1>5 DEF Checksum, RowsInv
<1>6. CASE Unpack
  BY <1>6 DEF Unpack, RowsInv
<1>7. CASE Prepare \/ PrepareFails
  BY <1>7 DEF Prepare, PrepareFails, RowsInv
<1>8. CASE Build \/ Check
  BY <1>8 DEF Build, Check, RowsInv, ARCH
<1>9. CASE Package
  <2>1. /\ pc = "package" /\ pc' \in {"check", "idle"}
        /\ UNCHANGED <<kind, csv, k>> /\ ARCH' = ARCH
        /\ \/ installed' = [installed EXCEPT ![ARCH] = tree]
           \/ /\ installed' = [installed EXCEPT ![ARCH] = "partial"]
              /\ kind.checked => pc' = "idle"
    BY <1>9 DEF Package, ARCH
  <2>2. kind.source # "unpacks" => tree \in Complete
    BY <2>1 DEF PatchInv, Compilable, Compiling
  <2>3. pc' = "check" /\ kind.checked /\ kind.source # "unpacks" => installed'[ARCH] \in Complete
    BY <2>1, <2>2, <1>t DEF Complete
  <2>4. \A a \in Range(csv) : installed'[a] = installed[a]
    <3>1. ARCH \notin Range(csv)
      BY <2>1, NoRowYet
    <3>2. Range(csv) \subseteq Range(kind.archs)
      BY <1>t DEF Range
    <3> QED BY <2>1, <3>1, <3>2, <1>t
  <2> QED BY <2>1, <2>3, <2>4 DEF RowsInv
<1>10. CASE RecordBuildLibs
  <2>1. /\ pc = "record" /\ csv' = Append(csv, ARCH)
        /\ pc' \in {"prepare", "idle"} /\ UNCHANGED <<kind, installed>>
        /\ pc' = "prepare" => k' = k + 1
    BY <1>10 DEF RecordBuildLibs
  <2>2. Range(csv') = Range(csv) \cup {ARCH}
    BY <2>1, <1>t, RangeAppend
  <2>3. ASSUME pc' # "idle"
        PROVE  Range(csv') = {kind.archs[m] : m \in 1 .. k' - 1}
    <3>1. k' - 1 = k /\ k \in 1 .. k /\ 1 .. k = (1 .. k - 1) \cup {k}
      BY <2>1, <2>3, <1>t, KindType DEF TypeOK
    <3>2. Range(csv) = {kind.archs[m] : m \in 1 .. k - 1}
      BY <2>1 DEF RowsInv
    <3> QED BY <2>1, <2>2, <3>1, <3>2 DEF ARCH
  <2> QED BY <2>1, <2>2, <2>3 DEF RowsInv
<1>11. CASE Kill
  <2>1. /\ pc # "idle" /\ pc' = "idle" /\ UNCHANGED <<kind, csv, k>>
        /\ \/ installed' = installed
           \/ installed' = [installed EXCEPT ![ARCH] = "partial"]
    BY <1>11 DEF Kill
  <2>2. \A a \in Range(csv) : installed'[a] = installed[a]
    <3>1. ARCH \notin Range(csv)
      BY <2>1, NoRowYet
    <3>2. Range(csv) \subseteq Range(kind.archs)
      BY <1>t DEF Range
    <3> QED BY <2>1, <3>1, <3>2, <1>t
  <2> QED BY <2>1, <2>2 DEF RowsInv
<1> QED
  BY <1>0, <1>1, <1>2, <1>3, <1>4, <1>5, <1>6, <1>7, <1>8, <1>9, <1>10, <1>11
  DEF Next, Script
-----------------------------------------------------------------------------
LEMMA Invariance == Spec => [](TypeOK /\ PatchInv /\ VerifiedInv /\ RowsInv)
<1>1. Init => TypeOK /\ PatchInv /\ VerifiedInv /\ RowsInv
  BY TypeInit, PatchInit, VerifiedInit, RowsInit
<1>2. TypeOK /\ PatchInv /\ VerifiedInv /\ RowsInv /\ [Next]_vars
        => (TypeOK /\ PatchInv /\ VerifiedInv /\ RowsInv)'
  BY TypeNext, PatchNext, VerifiedNext, RowsNext
<1> QED BY <1>1, <1>2, PTL DEF Spec

\* The disk and the run keep their types, whenever runs fail or are killed.
THEOREM TypeCorrect == Spec => []TypeOK
BY Invariance, PTL

\* Whenever a run is killed: what is compiled was patched exactly once.
THEOREM CompiledIsPatchedOnce == Spec => []PatchedOnce
<1>1. PatchInv => PatchedOnce
  BY DEF PatchInv, PatchedOnce, Compilable, Compiling
<1> QED BY <1>1, Invariance, PTL

\* Whatever the server sent and wherever earlier runs stopped: with a
\* SHA512SUM, nothing that does not match it is unpacked, compiled or installed.
THEOREM InstalledIsVerified == Spec => []OnlyVerifiedSources
<1>1. VerifiedInv => OnlyVerifiedSources
  BY DEF VerifiedInv, OnlyVerifiedSources, Compiling
<1> QED BY <1>1, Invariance, PTL

\* For any number of architectures: if package() returns its status, a row of
\* the csv stands for an architecture that is installed in full.
THEOREM RowIsInstalled == Spec => []RecordedIsInstalled
<1>1. RowsInv => RecordedIsInstalled
  BY DEF RowsInv, RecordedIsInstalled
<1> QED BY <1>1, Invariance, PTL
-----------------------------------------------------------------------------
(* The abstract specification                                              *)

\* The two names of Range.
LEMMA InstRange == \A f : Inst!Range(f) = Range(f)
BY DEF Inst!Range, Range

\* During a run the architecture it is at is the one whose turn it is.
LEMMA ArchIsDue ==
  ASSUME TypeOK, RowsInv, pc # "idle"
  PROVE  Inst!Due(ARCH)
<1>1. /\ k \in DOMAIN kind.archs /\ DOMAIN kind.archs = 1 .. Len(kind.archs)
      /\ Len(kind.archs) \in Nat /\ IsInjective(kind.archs)
  BY KindType DEF TypeOK
<1>2. ARCH \in Range(kind.archs) \ Range(csv)
  BY ArchType, NoRowYet
<1>3. ASSUME NEW m \in DOMAIN kind.archs, NEW n \in DOMAIN kind.archs,
             m < n, kind.archs[n] = ARCH
      PROVE  kind.archs[m] \in Range(csv)
  <2>1. n = k
    BY <1>1, <1>3 DEF IsInjective, ARCH
  <2>2. m \in 1 .. k - 1
    BY <1>1, <1>3, <2>1
  <2> QED BY <2>2 DEF RowsInv
<1> QED BY <1>2, <1>3, InstRange DEF Inst!Due

\* The files of the architectures a step does not touch are what they were.
LEMMA InstalledUpdate ==
  ASSUME TypeOK, NEW c \in Contents, installed' = [installed EXCEPT ![ARCH] = c],
         kind' = kind
  PROVE  [a \in Range(kind'.archs) |-> IF installed'[a] \in Complete THEN "full" ELSE installed'[a]]
           = [[a \in Range(kind.archs) |-> IF installed[a] \in Complete THEN "full" ELSE installed[a]]
                EXCEPT ![ARCH] = IF c \in Complete THEN "full" ELSE c]
BY ArchType DEF TypeOK

LEMMA InstallationStep ==
  ASSUME TypeOK, PatchInv, RowsInv, Next, Careful
  PROVE  Inst!Next \/ UNCHANGED Inst!vars
<1> USE DEF disk, flags, Fail, Goto
<1>t. /\ ARCH \in Range(kind.archs) /\ csv \in Seq(Range(kind.archs))
      /\ pc \in {"idle"} \cup Fetching \cup {"prepare"} \cup Compiling
  BY ArchType DEF TypeOK, Fetching, Compiling
<1>1. CASE Start
  <2>1. CASE Recorded
    BY <1>1, <2>1 DEF Start, Inst!vars
  <2>2. CASE ~ Recorded
    <3>1. Range(csv) = {}
      BY <2>2 DEF Recorded, Range
    <3> QED BY <1>1, <2>2, <3>1 DEF Start, Inst!Next, Inst!Begin
  <2> QED BY <2>1, <2>2
<1>2. ASSUME pc # "idle", UNCHANGED <<kind, installed, csv>>
      PROVE  Inst!Next \/ UNCHANGED Inst!vars
  <2>1. CASE pc' = "idle"
    BY <1>2, <2>1 DEF Inst!Next, Inst!Stop
  <2>2. CASE pc' # "idle"
    BY <1>2, <2>2 DEF Inst!vars
  <2> QED BY <2>1, <2>2
<1>3. CASE Package
  <2>1. /\ pc = "package" /\ UNCHANGED <<kind, csv>>
        /\ \/ installed' = [installed EXCEPT ![ARCH] = tree] /\ pc' = "check"
           \/ installed' = [installed EXCEPT ![ARCH] = "partial"] /\ pc' = "idle"
    BY <1>3 DEF Package, Careful
  <2>2. Inst!Due(ARCH) /\ tree \in Complete /\ tree \in Contents
    BY <2>1, ArchIsDue DEF PatchInv, Compilable, Compiling, Careful, TypeOK
  <2>3. CASE installed' = [installed EXCEPT ![ARCH] = tree] /\ pc' = "check"
    <3>1. PICK a \in Inst!Range(kind.archs) : a = ARCH
      BY <1>t, InstRange
    <3>2. Inst!Install(a)
      BY <2>1, <2>2, <2>3, <3>1, InstalledUpdate, InstRange DEF Inst!Install
    <3> QED BY <3>2 DEF Inst!Next
  <2>4. CASE installed' = [installed EXCEPT ![ARCH] = "partial"] /\ pc' = "idle"
    <3>1. "partial" \in Contents /\ "partial" \notin Complete
      BY DEF Contents, Complete
    <3>2. Inst!Stop
      BY <1>t, <2>1, <2>2, <2>4, <3>1, InstalledUpdate, InstRange DEF Inst!Stop
    <3> QED BY <3>2 DEF Inst!Next
  <2> QED BY <2>1, <2>3, <2>4
<1>4. CASE Kill
  <2>1. CASE installed' = installed
    BY <1>2, <1>4, <2>1 DEF Kill
  <2>2. CASE installed' = [installed EXCEPT ![ARCH] = "partial"]
    <3>1. "partial" \in Contents /\ "partial" \notin Complete
      BY DEF Contents, Complete
    <3>2. pc # "idle" /\ pc' = "idle" /\ UNCHANGED <<kind, csv>> /\ Inst!Due(ARCH)
      BY <1>4, ArchIsDue DEF Kill
    <3>3. Inst!Stop
      BY <1>t, <2>2, <3>1, <3>2, InstalledUpdate, InstRange DEF Inst!Stop
    <3> QED BY <3>3 DEF Inst!Next
  <2> QED BY <1>4, <2>1, <2>2 DEF Kill
<1>5. CASE RecordBuildLibs
  <2>1. /\ pc = "record" /\ csv' = Append(csv, ARCH) /\ UNCHANGED <<kind, installed>>
        /\ \/ k < Len(kind.archs) /\ pc' = "prepare"
           \/ ~ (k < Len(kind.archs)) /\ pc' = "idle"
    BY <1>5 DEF RecordBuildLibs, MoreArchs
  <2>2. Inst!Due(ARCH) /\ installed[ARCH] \in Complete
    BY <2>1, ArchIsDue DEF RowsInv, Careful
  <2>3. Range(csv') = Range(csv) \cup {ARCH}
    BY <1>t, <2>1, RangeAppend
  <2>4. Range(csv') = {kind.archs[m] : m \in 1 .. k}
    <3>1. 1 .. k = (1 .. k - 1) \cup {k}
      BY KindType DEF TypeOK
    <3> QED BY <2>1, <2>3, <3>1 DEF RowsInv, ARCH
  <2>5. (pc' # "idle") <=> Range(csv') # Range(kind.archs)
    <3>1. /\ k \in DOMAIN kind.archs /\ DOMAIN kind.archs = 1 .. Len(kind.archs)
          /\ Len(kind.archs) \in Nat /\ IsInjective(kind.archs)
      BY KindType DEF TypeOK
    <3>2. CASE k < Len(kind.archs)
      <4>1. k + 1 \in DOMAIN kind.archs /\ \A m \in 1 .. k : m \in DOMAIN kind.archs /\ m # k + 1
        BY <3>1, <3>2
      <4>2. kind.archs[k + 1] \notin Range(csv')
        BY <2>4, <3>1, <4>1 DEF IsInjective
      <4>3. kind.archs[k + 1] \in Range(kind.archs)
        BY <4>1 DEF Range
      <4> QED BY <2>1, <3>2, <4>2, <4>3
    <3>3. CASE ~ (k < Len(kind.archs))
      <4>1. DOMAIN kind.archs = 1 .. k
        BY <3>1, <3>3
      <4> QED BY <2>1, <2>4, <3>3, <4>1 DEF Range
    <3> QED BY <3>2, <3>3
  <2>6. Inst!Record(ARCH)
    BY <1>t, <2>1, <2>2, <2>3, <2>5, InstRange DEF Inst!Record
  <2> QED BY <1>t, <2>6, InstRange DEF Inst!Next
<1> QED
  BY <1>1, <1>2, <1>3, <1>4, <1>5
  DEF Next, Script, CleanHpk, CleanTree, CleanFails, DependsReady, DependsMissing, DownloadSkip,
      Download, Checksum, Unpack, Prepare, PrepareFails, Build, Check

\* For any number of architectures, runs and kills: a package that returns the
\* status of its install is installed and recorded as Installation says.
THEOREM RunsInstall == Spec => ImplementsInstallation
<1>1. Init => Inst!Init
  BY InstRange DEF Init, Inst!Init, Range, Complete
<1>2. TypeOK /\ PatchInv /\ RowsInv /\ [Next]_vars
        => [Careful => Inst!Next]_(Inst!vars)
  <2>1. UNCHANGED vars => UNCHANGED Inst!vars
    BY DEF vars, disk, Inst!vars
  <2> QED BY <2>1, InstallationStep
<1> QED BY <1>1, <1>2, Invariance, PTL DEF Spec, ImplementsInstallation
=============================================================================
