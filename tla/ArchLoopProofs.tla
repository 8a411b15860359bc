--------------------------- MODULE ArchLoopProofs ---------------------------
(***************************************************************************)
(* Theorems about ArchLoop, for any number of architectures, any packages  *)
(* of the kinds there are and any number of runs that are killed.          *)
(***************************************************************************)
EXTENDS ArchLoop, TLAPS

\* After prepare a recipe that goes by name, or by position with the archs it
\* was written for, has the compiler it needs.
CompilerInv ==
  Matched =>
    /\ CompiledForItsArch
    /\ pc = "build" => env = ARCH

\* From cleanbuild on there is no copy of the architectures still to come,
\* whatever an earlier run left, so prepare makes one, or nothing.
CopyInv ==
  kind.copies /\ kind.cleans =>
    /\ FreshCopy
    /\ pc = "clean" => k = 1
    /\ pc = "prepare" => \A m \in DOMAIN kind.archs : m >= k => copy[kind.archs[m]] = "none"
    /\ pc = "build" => copy[ARCH] # "left"
    /\ pc \in {"build", "package", "check", "recover", "record"} =>
         \A m \in DOMAIN kind.archs : m > k => copy[kind.archs[m]] = "none"
-----------------------------------------------------------------------------
LEMMA KindType ==
  ASSUME TypeOK
  PROVE  /\ DOMAIN kind.archs = 1 .. Len(kind.archs) /\ Len(kind.archs) \in Nat \ {0}
         /\ IsInjective(kind.archs) /\ Len(kind.archs) <= Len(Arch)
         /\ DOMAIN Arch = 1 .. Len(Arch) /\ Len(Arch) \in Nat
         /\ k \in 1 .. Len(kind.archs) /\ ARCH \in Archs /\ ARCH \in Range(Arch)
         /\ Arch[k] \in Range(Arch) /\ NoArch \notin Range(Arch)
<1>1. kind \in Kinds
  BY DEF TypeOK
<1>2. /\ kind.archs \in Seq(Range(Arch)) /\ kind.archs # <<>>
      /\ Len(kind.archs) <= Len(Arch) /\ IsInjective(kind.archs)
  BY <1>1, KindsAssumption
<1>3. DOMAIN Arch = 1 .. Len(Arch) /\ Len(Arch) \in Nat /\ NoArch \notin Range(Arch)
  BY ArchAssumption
<1>4. DOMAIN kind.archs = 1 .. Len(kind.archs) /\ Len(kind.archs) \in Nat \ {0}
  BY <1>2
<1>5. k \in 1 .. Len(kind.archs) /\ k \in DOMAIN kind.archs
  BY <1>4 DEF TypeOK
<1>6. ARCH \in Archs /\ ARCH \in Range(Arch)
  BY <1>2, <1>5 DEF ARCH, Archs, Range
<1>7. Arch[k] \in Range(Arch)
  BY <1>2, <1>3, <1>4, <1>5 DEF Range
<1> QED BY <1>2, <1>3, <1>4, <1>5, <1>6, <1>7

LEMMA TypeInit == Init => TypeOK
<1> SUFFICES ASSUME Init PROVE TypeOK
  OBVIOUS
<1>1. kind \in Kinds /\ 1 \in DOMAIN kind.archs
  BY KindsAssumption DEF Init
<1> QED BY <1>1, MaxKillsAssumption DEF Init, TypeOK, Copies, NothingMade

LEMMA TypeNext == TypeOK /\ [Next]_vars => TypeOK'
<1> SUFFICES ASSUME TypeOK, [Next]_vars PROVE TypeOK'
  OBVIOUS
<1>1. kind' = kind /\ LYCIUM_BUILD_CHECK' = LYCIUM_BUILD_CHECK
  BY DEF Next, Start, CleanBuild, CleanFails, Prepare, PrepareFails, Build, BuildFails,
         Package, Check, Recover, Record, Kill, Ended, vars
<1>2. env' \in Range(Arch) \cup {NoArch}
  BY KindType DEF Next, Start, CleanBuild, CleanFails, Prepare, PrepareFails, Build, BuildFails,
       Package, Check, Recover, Record, Kill, Ended, vars, SetEnv, SetForArch, ResetIn, TypeOK
<1>3. copy' \in [Archs -> Copies]
  <2>0. copy \in [Archs -> Copies] /\ ARCH \in Archs
    BY KindType DEF TypeOK
  <2>1. ASSUME MakeCopy PROVE copy' \in [Archs -> Copies]
    BY <2>0, <2>1 DEF MakeCopy, Copies
  <2>2. ASSUME NEW gone, Remove(gone) PROVE copy' \in [Archs -> Copies]
    BY <2>0, <2>2 DEF Remove, Copies
  <2>3. ASSUME Start PROVE copy' \in [Archs -> Copies]
    BY <2>0, <2>3 DEF Start, Copies
  <2> QED
    BY <2>0, <2>1, <2>2, <2>3
    DEF Next, CleanBuild, CleanFails, Prepare, PrepareFails, Build, BuildFails,
        Package, Check, Recover, Record, Kill, Ended, vars
<1>4. made' \in [Archs -> [for : Range(Arch) \cup {NoArch}, from : Copies]]
  <2>1. copy[ARCH] \in Copies /\ env \in Range(Arch) \cup {NoArch}
    BY KindType DEF TypeOK
  <2> QED
    BY <2>1 DEF Next, Start, CleanBuild, CleanFails, Prepare, PrepareFails, Build, BuildFails,
         Package, Check, Recover, Record, Kill, Ended, vars, TypeOK
<1>5. csv' \subseteq Archs /\ kills' \in 0 .. MaxKills
  BY KindType, MaxKillsAssumption
  DEF Next, Start, CleanBuild, CleanFails, Prepare, PrepareFails, Build, BuildFails,
      Package, Check, Recover, Record, Kill, Ended, vars, TypeOK
<1>6. k' \in DOMAIN kind.archs
  BY KindType
  DEF Next, Start, CleanBuild, CleanFails, Prepare, PrepareFails, Build, BuildFails,
      Package, Check, Recover, Record, Kill, Ended, vars, MoreArchs, TypeOK
<1>7. pc' \in {"idle", "clean", "prepare", "build", "package", "check", "recover", "record"}
  BY DEF Next, Start, CleanBuild, CleanFails, Prepare, PrepareFails, Build, BuildFails,
      Package, Check, Recover, Record, Kill, Ended, vars, Goto, Fail, TypeOK
<1> QED BY <1>1, <1>2, <1>3, <1>4, <1>5, <1>6, <1>7 DEF TypeOK, Archs
-----------------------------------------------------------------------------
LEMMA CompilerInit == Init => CompilerInv
BY DEF Init, CompilerInv, CompiledForItsArch, NothingMade

LEMMA CompilerNext == TypeOK /\ CompilerInv /\ [Next]_vars => CompilerInv'
<1> SUFFICES ASSUME TypeOK, CompilerInv, [Next]_vars PROVE CompilerInv'
  OBVIOUS
<1>k. kind' = kind
  BY DEF Next, Start, CleanBuild, CleanFails, Prepare, PrepareFails, Build, BuildFails,
         Package, Check, Recover, Record, Kill, Ended, vars
<1> SUFFICES ASSUME Matched
             PROVE  /\ \A a \in Archs : made'[a].for \in {a, NoArch}
                    /\ pc' = "build" => env' = ARCH'
  BY <1>k DEF CompilerInv, CompiledForItsArch, Archs, Matched
<1>1. CASE Prepare
  <2>1. SetEnv = ARCH
    BY KindType DEF SetEnv, SetForArch, ARCH, Matched
  <2> QED BY <1>k, <1>1, <2>1 DEF Prepare, ARCH, CompilerInv, CompiledForItsArch
<1>2. CASE Build
  <2>1. made' = [made EXCEPT ![ARCH] = [for |-> ARCH, from |-> copy[ARCH]]]
    BY <1>k, <1>2 DEF Build, CompilerInv
  <2> QED BY <1>k, <1>2, <2>1, KindType DEF Build, Goto, CompilerInv, CompiledForItsArch, TypeOK
<1>3. CASE ~ Prepare /\ ~ Build
  BY <1>k, <1>3
  DEF Next, Start, CleanBuild, CleanFails, PrepareFails, BuildFails, Package, Check, Recover,
      Record, Kill, Ended, vars, Goto, Fail, ARCH, CompilerInv, CompiledForItsArch
<1> QED BY <1>1, <1>2, <1>3
-----------------------------------------------------------------------------
LEMMA CopyInit == Init => CopyInv
BY DEF Init, CopyInv, FreshCopy, NothingMade

LEMMA CopyNext == TypeOK /\ CopyInv /\ [Next]_vars => CopyInv'
<1> SUFFICES ASSUME TypeOK, CopyInv, [Next]_vars PROVE CopyInv'
  OBVIOUS
<1>k. kind' = kind
  BY DEF Next, Start, CleanBuild, CleanFails, Prepare, PrepareFails, Build, BuildFails,
         Package, Check, Recover, Record, Kill, Ended, vars
<1> SUFFICES ASSUME kind.copies, kind.cleans PROVE CopyInv'
  BY <1>k DEF CopyInv
<1>0. /\ copy \in [Archs -> Copies] /\ ARCH \in Archs /\ k \in 1 .. Len(kind.archs)
      /\ DOMAIN kind.archs = 1 .. Len(kind.archs) /\ IsInjective(kind.archs)
      /\ \A m \in DOMAIN kind.archs : kind.archs[m] \in Archs
  BY KindType DEF TypeOK, Archs, Range
<1>a. \A m \in DOMAIN kind.archs : m > k => kind.archs[m] # ARCH
  BY <1>k, <1>0 DEF IsInjective, ARCH
<1>b. ASSUME made' = made PROVE FreshCopy'
  BY <1>k, <1>b DEF CopyInv, FreshCopy, Archs
<1>1. CASE Start
  BY <1>k, <1>1, <1>b DEF Start, Goto, CopyInv
<1>2. CASE CleanBuild
  <2>1. \A m \in DOMAIN kind.archs : copy'[kind.archs[m]] = "none"
    BY <1>k, <1>0, <1>2 DEF CleanBuild, Remove, CleanedCopies, Cleaned
  <2> QED BY <1>k, <1>2, <1>b, <2>1 DEF CleanBuild, Goto, CopyInv
<1>3. CASE Prepare
  <2>1. copy[ARCH] = "none" /\ \A m \in DOMAIN kind.archs : m > k => copy[kind.archs[m]] = "none"
    BY <1>k, <1>0, <1>3 DEF Prepare, CopyInv, ARCH
  <2>2. PICK result \in {"none", "partial", "whole"} : copy' = [copy EXCEPT ![ARCH] = result]
    BY <1>k, <1>3, <2>1 DEF Prepare, MakeCopy
  <2>3. copy'[ARCH] # "left" /\ \A m \in DOMAIN kind.archs : m > k => copy'[kind.archs[m]] = "none"
    BY <1>0, <1>a, <2>1, <2>2
  <2> QED BY <1>k, <1>3, <1>b, <2>3 DEF Prepare, Goto, CopyInv, ARCH
<1>4. CASE Build
  <2>1. /\ copy[ARCH] # "left" /\ copy' = copy
        /\ \A m \in DOMAIN kind.archs : m > k => copy[kind.archs[m]] = "none"
    BY <1>k, <1>4 DEF Build, CopyInv
  <2>2. made' = [made EXCEPT ![ARCH] = [for |-> env, from |-> copy[ARCH]]]
    BY <1>k, <1>4 DEF Build
  <2>3. FreshCopy'
    BY <1>k, <2>1, <2>2 DEF CopyInv, FreshCopy, Archs, TypeOK
  <2> QED BY <1>k, <1>4, <2>1, <2>3 DEF Build, Goto, CopyInv
<1>5. CASE Package \/ Check \/ Recover
  BY <1>k, <1>5, <1>b DEF Package, Check, Recover, Goto, Fail, CopyInv
<1>6. CASE Record
  BY <1>k, <1>0, <1>6, <1>b DEF Record, Goto, CopyInv
<1>7. CASE CleanFails \/ PrepareFails \/ BuildFails \/ Kill
  <2>1. made' = made /\ pc' = "idle"
    BY <1>k, <1>7 DEF CleanFails, PrepareFails, BuildFails, Kill, Fail
  <2> QED BY <1>k, <1>b, <2>1 DEF CopyInv
<1>8. CASE Ended \/ UNCHANGED vars
  BY <1>k, <1>8, <1>b DEF Ended, vars, CopyInv, ARCH
<1> QED
  BY <1>1, <1>2, <1>3, <1>4, <1>5, <1>6, <1>7, <1>8 DEF Next

LEMMA Invariance == Spec => [](TypeOK /\ CompilerInv /\ CopyInv)
<1>1. Init => TypeOK /\ CompilerInv /\ CopyInv
  BY TypeInit, CompilerInit, CopyInit
<1>2. TypeOK /\ CompilerInv /\ CopyInv /\ [Next]_vars => (TypeOK /\ CompilerInv /\ CopyInv)'
  BY TypeNext, CompilerNext, CopyNext
<1> QED BY <1>1, <1>2, PTL DEF Spec

\* The environment, the copies and the run keep their types.
THEOREM TypeCorrect == Spec => []TypeOK
BY Invariance, PTL

\* For any architectures, wherever a recipe resets its compiler or does not:
\* one that goes by name, or by position with the archs it was written for,
\* compiles each with the architecture's own compiler.
THEOREM RightCompiler == Spec => []CompiledForItsArch
<1>1. CompilerInv => CompiledForItsArch
  BY DEF CompilerInv, CompiledForItsArch
<1> QED BY <1>1, Invariance, PTL

\* Wherever earlier runs failed or were killed: a package whose cleanbuild
\* names the copies is never compiled in one of theirs.
THEOREM CopiesAreFresh == Spec => []FreshCopy
<1>1. CopyInv => FreshCopy
  BY DEF CopyInv, FreshCopy
<1> QED BY <1>1, Invariance, PTL
=============================================================================
