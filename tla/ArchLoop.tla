------------------------------ MODULE ArchLoop ------------------------------
(***************************************************************************)
(* The loop over the architectures in lycium/script/build_hpk.sh, run      *)
(* after run, with what one round leaves to the next: the compiler that    *)
(* the functions of lycium/script/envset.sh put into the environment, and  *)
(* the copy of the source tree that many recipes compile in, one for each  *)
(* architecture, next to the tree.                                         *)
(*                                                                         *)
(* The recipes do this in a few ways, which are the Kinds of package.  The *)
(* environment ends with the run, the copies stay: cleanbuild, which is    *)
(* called before there is an architecture, has to remove them.  No recipe  *)
(* looks at the status of the cp that makes the copy: one that stops half  *)
(* way does not end the run, and what there is of the copy is compiled.    *)
(***************************************************************************)
EXTENDS Integers, Sequences, Functions

CONSTANTS
  Arch,       \* the architectures there are compilers for, in the order in
              \*   which recipes that go by position expect them
  NoArch,     \* none of them: no compiler is set
  Kinds,      \* the possible packages: [archs: the array of its HPKBUILD,
              \*   select: prepare takes the compiler by "name" or "position",
              \*   reset: the function that takes it out again, "package",
              \*     "check", "recoverpkgbuildenv" or "none",
              \*   copies: it compiles in a copy,
              \*   cleans: cleanbuild names the copies of all archs]
  MaxKills    \* bound on the runs that are killed

ASSUME ArchAssumption ==
  Arch \in Seq(Range(Arch)) /\ Arch # <<>> /\ IsInjective(Arch) /\ NoArch \notin Range(Arch)
ASSUME KindsAssumption ==
  \A kind \in Kinds : /\ kind.archs \in Seq(Range(Arch)) /\ kind.archs # <<>>
                      /\ Len(kind.archs) <= Len(Arch) /\ IsInjective(kind.archs)
                      /\ kind.select \in {"name", "position"}
                      /\ kind.reset \in {"package", "check", "recoverpkgbuildenv", "none"}
                      /\ kind.copies \in BOOLEAN /\ kind.cleans \in BOOLEAN
ASSUME MaxKillsAssumption == MaxKills \in Nat

VARIABLES
  kind,         \* the package, which never changes
  LYCIUM_BUILD_CHECK,  \* check is called, everywhere but on CYGWIN
  env,          \* the architecture of the compiler in the environment
  copy,         \* copy[a]: "none", "left" by an earlier run, whatever it did
                \*   in it, or made by this one: "partial" or "whole"
  made,         \* made[a]: [for, from] of the last build for a
  csv,          \* the architectures in the rows of the package
  pc, k,        \* the step of the run, the position of ARCH in archs
  kills         \* how many runs were killed

vars == <<kind, LYCIUM_BUILD_CHECK, env, copy, made, csv, pc, k, kills>>

ARCH == kind.archs[k]
Archs == Range(kind.archs)
Copies == {"none", "partial", "whole", "left"}
NothingMade == [for |-> NoArch, from |-> "none"]

Init ==
  /\ kind \in Kinds /\ LYCIUM_BUILD_CHECK \in BOOLEAN
  /\ env = NoArch
  /\ copy = [a \in Archs |-> "none"]
  /\ made = [a \in Archs |-> NothingMade]
  /\ csv = {} /\ pc = "idle" /\ k = 1 /\ kills = 0

(***************************************************************************)
(* Mutated forms of the definitions that follow: each breaks the property  *)
(* its comment names, and no specification uses it.                        *)
(***************************************************************************)
\* CompiledForItsArch: what is in the environment already is left as it is.
OnlyIfUnset == IF env = NoArch THEN ARCH ELSE env
\* FreshCopy: cleanbuild removes the copy of the last architecture only.
LastArchOnly == {kind.archs[Len(kind.archs)]}
\* TypeOK: the loop runs one round too many.
OneMoreArch == k <= Len(kind.archs)
-----------------------------------------------------------------------------
MoreArchs == k < Len(kind.archs)

Fail == pc' = "idle"
Goto(step) == pc' = step

\* The compiler prepare sets: all of its variables are assigned, whatever they
\* were.  A recipe that goes by position takes archs[0] for the first of Arch.
SetForArch == ARCH
SetEnv == IF kind.select = "name" THEN SetForArch ELSE Arch[k]

\* The copies that cleanbuild removes.  ARCH is empty when it is called, and
\* a recipe that uses it removes none.
Cleaned == Archs
CleanedCopies == IF kind.cleans THEN Cleaned ELSE {}

\* build.sh takes a package for built as soon as it has a row.  To this run
\* every copy there is is one that was left.
Start ==
  /\ pc = "idle" /\ csv = {} /\ Goto("clean")
  /\ env' = NoArch /\ k' = 1
  /\ copy' = [a \in Archs |-> IF copy[a] = "none" THEN "none" ELSE "left"]
  /\ UNCHANGED <<kind, LYCIUM_BUILD_CHECK, made, csv, kills>>

Remove(gone) == copy' = [a \in Archs |-> IF a \in gone THEN "none" ELSE copy[a]]

CleanBuild ==
  /\ pc = "clean" /\ Goto("prepare")
  /\ Remove(CleanedCopies)
  /\ UNCHANGED <<kind, LYCIUM_BUILD_CHECK, env, made, csv, k, kills>>

\* cleanbuild, or what comes before the loop, fails.
CleanFails ==
  /\ pc = "clean" /\ Fail
  /\ \E gone \in SUBSET CleanedCopies : Remove(gone)
  /\ UNCHANGED <<kind, LYCIUM_BUILD_CHECK, env, made, csv, k, kills>>

\* cp -rf of the tree, of which it may get nothing or part; where there is a
\* copy it goes into that one, which stays as it is.
MakeCopy ==
  \E result \in {"none", "partial", "whole"} :
    copy' = IF kind.copies /\ copy[ARCH] = "none" THEN [copy EXCEPT ![ARCH] = result] ELSE copy

\* The status of prepare is that of what comes after the cp.
Prepare ==
  /\ pc = "prepare" /\ Goto("build")
  /\ MakeCopy /\ env' = SetEnv
  /\ UNCHANGED <<kind, LYCIUM_BUILD_CHECK, made, csv, k, kills>>

PrepareFails ==
  /\ pc = "prepare" /\ Fail
  /\ MakeCopy /\ env' = SetEnv
  /\ UNCHANGED <<kind, LYCIUM_BUILD_CHECK, made, csv, k, kills>>

\* Without a copy there is no directory to build in.
Build ==
  /\ pc = "build" /\ Goto("package")
  /\ kind.copies => copy[ARCH] # "none"
  /\ made' = [made EXCEPT ![ARCH] = [for |-> env, from |-> copy[ARCH]]]
  /\ UNCHANGED <<kind, LYCIUM_BUILD_CHECK, env, copy, csv, k, kills>>

BuildFails ==
  /\ pc = "build" /\ Fail
  /\ UNCHANGED <<kind, LYCIUM_BUILD_CHECK, env, copy, made, csv, k, kills>>

ResetIn(function) == env' = IF kind.reset = function THEN NoArch ELSE env

Package ==
  /\ pc = "package"
  /\ \/ ResetIn("package") /\ Goto(IF LYCIUM_BUILD_CHECK THEN "check" ELSE "recover")
     \/ UNCHANGED env /\ Fail
  /\ UNCHANGED <<kind, LYCIUM_BUILD_CHECK, copy, made, csv, k, kills>>

Check ==
  /\ pc = "check"
  /\ \/ ResetIn("check") /\ Goto("recover")
     \/ UNCHANGED env /\ Fail
  /\ UNCHANGED <<kind, LYCIUM_BUILD_CHECK, copy, made, csv, k, kills>>

Recover ==
  /\ pc = "recover" /\ Goto("record")
  /\ ResetIn("recoverpkgbuildenv")
  /\ UNCHANGED <<kind, LYCIUM_BUILD_CHECK, copy, made, csv, k, kills>>

Record ==
  /\ pc = "record"
  /\ csv' = csv \cup {ARCH}
  /\ IF MoreArchs THEN k' = k + 1 /\ Goto("prepare") ELSE k' = k /\ Goto("idle")
  /\ UNCHANGED <<kind, LYCIUM_BUILD_CHECK, env, copy, made, kills>>

\* The run is killed, before its next step or in the middle of it.
Kill ==
  /\ pc # "idle" /\ kills < MaxKills /\ kills' = kills + 1 /\ Fail
  /\ \/ UNCHANGED copy
     \/ pc = "prepare" /\ MakeCopy
     \/ pc = "clean" /\ \E gone \in SUBSET CleanedCopies : Remove(gone)
  /\ UNCHANGED <<kind, LYCIUM_BUILD_CHECK, env, made, csv, k>>

Ended == pc = "idle" /\ csv # {} /\ UNCHANGED vars

Next ==
  \/ Start \/ CleanBuild \/ CleanFails \/ Prepare \/ PrepareFails \/ Build
  \/ BuildFails \/ Package \/ Check \/ Recover \/ Record \/ Kill \/ Ended

Spec == Init /\ [][Next]_vars
-----------------------------------------------------------------------------
TypeOK ==
  /\ kind \in Kinds /\ LYCIUM_BUILD_CHECK \in BOOLEAN
  /\ env \in Range(Arch) \cup {NoArch}
  /\ copy \in [Archs -> Copies]
  /\ made \in [Archs -> [for : Range(Arch) \cup {NoArch}, from : Copies]]
  /\ csv \subseteq Archs
  /\ pc \in {"idle", "clean", "prepare", "build", "package", "check", "recover", "record"}
  /\ k \in DOMAIN kind.archs /\ kills \in 0 .. MaxKills

\* The recipe goes by name, or by position with archs as it was written for.
Matched == kind.select = "name" \/ \A m \in DOMAIN kind.archs : kind.archs[m] = Arch[m]

\* What such a recipe compiles for an architecture it compiles with that
\* architecture's compiler, whatever the round before left in the environment:
\* also when it takes it out in check and check is not called
\* (build_hpk.sh:222), or nowhere.  A recipe that goes by position needs an
\* archs that starts with the architectures it counts on (hunspell:26).
CompiledForItsArch ==
  Matched => \A a \in Archs : made[a].for \in {a, NoArch}

\* A package whose cleanbuild names the copies is never compiled in one that an
\* earlier run left, wherever that run failed or was killed: what it compiles
\* in was made by the run itself.  It may be part of a tree (lua:41).
FreshCopy ==
  kind.copies /\ kind.cleans => \A a \in Archs : made[a].from # "left"

\* "prepare()函数除了创建编译目录外，还需要配置对应架构的环境变量"
\* (docs/thirdparty_port.md:258), with the code of the recipes that go by
\* position: each architecture is compiled with its own compiler.
EachWithItsCompiler == \A a \in Archs : made[a].for \in {a, NoArch}

\* "清理上次的环境" (build_hpk.sh:242): no run compiles in what an earlier one left.
CleanEveryTime == \A a \in Archs : made[a].from # "left"
=============================================================================
