---------------------------- MODULE TestHpkProofs ----------------------------
(***************************************************************************)
(* Theorems about TestHpk, for any packages, of any kinds, and any list of *)
(* those to test.                                                          *)
(***************************************************************************)
EXTENDS TestHpk, FiniteSetTheorems, TLAPS

Testing == {"prepare", "test", "collect"}

\* What one package's test is given: the directory it starts in, and the
\* preparation of its own if it has one; and what it answers then.
OwnTestInv ==
  /\ pc \in {"prepare", "test"} => cwd = LibDir(lib)
  /\ pc = "prepare" /\ kinds[lib].prepares => checkprepare = lib
  /\ pc = "test" /\ kinds[lib].prepares => prepared = lib
  /\ pc = "collect" /\ kinds[lib].built /\ kinds[lib].prepares =>
       (checkret <=> lib \in passes)
  /\ VerdictIsOfOwnTests

\* A test that comes back has left its log where the loop looks for it.
LogInv ==
  /\ pc = "collect" /\ kinds[lib].built /\ kinds[lib].returns =>
       cwd = LibDir(lib) /\ lib \in logs
  /\ LogsCollected

Verdicts(x) == Times(x, successlibs) + Times(x, failedlibs)

\* What the two loops have done so far is counted: the first has found those of
\* the names before position i that are in usr/, the second has a verdict for
\* those of the packages before it that have a test.
CountInv ==
  /\ pc \in {"start", "find"} => successlibs = <<>> /\ failedlibs = <<>>
  /\ pc = "start" => hpkPaths = <<>> /\ i = 1
  /\ pc = "find" =>
       /\ i <= Len(jobs) + 1
       /\ \A x \in Lib : Times(x, hpkPaths) =
            IF kinds[x].usr THEN TimesUpTo(x, jobs, i - 1) ELSE 0
  /\ pc \in {"loop", "reported"} \cup Testing =>
       \A x \in Lib : Times(x, hpkPaths) = IF kinds[x].usr THEN Times(x, jobs) ELSE 0
  /\ pc \in {"loop"} \cup Testing =>
       \A x \in Lib : Verdicts(x) =
         IF kinds[x].check THEN TimesUpTo(x, hpkPaths, i - 1) ELSE 0
  /\ pc \in Testing => kinds[lib].check
  /\ pc = "reported" =>
       \A x \in Lib : Verdicts(x) = IF kinds[x].check THEN Times(x, hpkPaths) ELSE 0
-----------------------------------------------------------------------------
(* Counting                                                                *)

LEMMA TimesType ==
  ASSUME NEW x, NEW s, NEW m \in Nat
  PROVE  /\ IsFiniteSet({n \in 1 .. m : s[n] = x})
         /\ TimesUpTo(x, s, m) \in Nat
<1>1. IsFiniteSet(1 .. m)
  BY FS_Interval
<1>2. IsFiniteSet({n \in 1 .. m : s[n] = x})
  BY <1>1, FS_Subset
<1> QED BY <1>2, FS_CardinalityType DEF TimesUpTo

\* No position, no occurrence.
LEMMA TimesNone ==
  ASSUME NEW x, NEW s
  PROVE  TimesUpTo(x, s, 0) = 0
<1>1. {n \in 1 .. 0 : s[n] = x} = {}
  OBVIOUS
<1> QED BY <1>1, FS_EmptySet DEF TimesUpTo

\* The next position counts if x is there.
LEMMA TimesNext ==
  ASSUME NEW x, NEW s, NEW m \in Nat
  PROVE  TimesUpTo(x, s, m + 1) = TimesUpTo(x, s, m) + (IF s[m + 1] = x THEN 1 ELSE 0)
<1> DEFINE Before == {n \in 1 .. m : s[n] = x}
           Upto   == {n \in 1 .. m + 1 : s[n] = x}
<1>1. IsFiniteSet(Before)
  BY TimesType
<1>4. m + 1 \notin Before
  OBVIOUS
<1>2. CASE s[m + 1] = x
  <2>1. Upto = Before \cup {m + 1}
    BY <1>2
  <2>2. Cardinality(Before \cup {m + 1}) = Cardinality(Before) + 1
    BY <1>1, <1>4, FS_AddElement
  <2> QED BY <1>2, <2>1, <2>2 DEF TimesUpTo
<1>3. CASE s[m + 1] # x
  <2>1. Upto = Before
    BY <1>3
  <2>2. TimesUpTo(x, s, m) \in Nat
    BY TimesType
  <2> QED BY <1>3, <2>1, <2>2 DEF TimesUpTo
<1> QED BY <1>2, <1>3

\* Of two lists that agree up to m the same is counted.
LEMMA TimesAgree ==
  ASSUME NEW x, NEW s, NEW t, NEW m \in Nat, \A n \in 1 .. m : s[n] = t[n]
  PROVE  TimesUpTo(x, s, m) = TimesUpTo(x, t, m)
<1>1. {n \in 1 .. m : s[n] = x} = {n \in 1 .. m : t[n] = x}
  OBVIOUS
<1> QED BY <1>1 DEF TimesUpTo

LEMMA TimesAppend ==
  ASSUME NEW x, NEW S, NEW s \in Seq(S), NEW y \in S
  PROVE  Times(x, Append(s, y)) = Times(x, s) + (IF y = x THEN 1 ELSE 0)
<1> DEFINE t == Append(s, y)
           m == Len(s)
<1>1. /\ m \in Nat /\ Len(t) = m + 1 /\ t[m + 1] = y
      /\ \A n \in 1 .. m : s[n] = t[n]
  OBVIOUS
<1> HIDE DEF t, m
<1>2. TimesUpTo(x, s, m) = TimesUpTo(x, t, m)
  BY <1>1, TimesAgree
<1>3. TimesUpTo(x, t, m + 1) = TimesUpTo(x, t, m) + (IF t[m + 1] = x THEN 1 ELSE 0)
  BY <1>1, TimesNext
<1>4. Times(x, t) = TimesUpTo(x, t, m + 1) /\ Times(x, s) = TimesUpTo(x, s, m)
  BY <1>1 DEF Times, m
<1>5. Times(x, t) = Times(x, s) + (IF y = x THEN 1 ELSE 0)
  BY <1>1, <1>2, <1>3, <1>4
<1> QED BY <1>5 DEF t

LEMMA ListTimesType ==
  ASSUME NEW x, NEW s \in Seq(Lib)
  PROVE  Times(x, s) \in Nat
<1>1. Len(s) \in Nat
  OBVIOUS
<1> QED BY <1>1, TimesType DEF Times

LEMMA TimesEmpty ==
  ASSUME NEW x
  PROVE  Times(x, <<>>) = 0
BY TimesNone DEF Times
-----------------------------------------------------------------------------
(* Types                                                                   *)

LEMMA LibType ==
  ASSUME TypeOK, pc \in {"loop"} \cup Testing
  PROVE  lib \in Lib /\ i \in 1 .. Len(hpkPaths)
BY DEF TypeOK, lib, Testing

LEMMA TypeInit == Init => TypeOK
BY DEF Init, TypeOK, StartDir

LEMMA TypeNext == TypeOK /\ [Next]_vars => TypeOK'
<1> SUFFICES ASSUME TypeOK, [Next]_vars PROVE TypeOK'
  OBVIOUS
<1> USE DEF StartDir, LibDir, BuildDir, NextLib, MoreLibs
<1>1. CASE UNCHANGED vars \/ Ended
  BY <1>1 DEF vars, Ended, TypeOK
<1>2. CASE CheckTestEnv
  BY <1>2 DEF CheckTestEnv, TypeOK
<1>3. CASE FindLib
  <2>1. jobs[i] \in Lib
    BY <1>3, JobListsAssumption DEF FindLib, TypeOK
  <2> QED BY <1>3, <2>1 DEF FindLib, TypeOK
<1>4. CASE FindEnd
  BY <1>4 DEF FindEnd, TypeOK
<1>5. CASE SkipLib
  BY <1>5 DEF SkipLib, TypeOK
<1>6. CASE EnterLib
  BY <1>6, LibType DEF EnterLib, Enter, TypeOK
<1>7. CASE Prepare
  BY <1>7 DEF Prepare, TypeOK
<1>8. CASE OpenharmonyCheck
  <2>1. lib \in Lib
    BY <1>8, LibType DEF OpenharmonyCheck, Testing
  <2>2. checkret' \in BOOLEAN
    BY <1>8 DEF OpenharmonyCheck, Answers
  <2>3. {cwd', OLDPWD'} \subseteq {cwd, OLDPWD, BuildDir(lib)}
    BY <1>8 DEF OpenharmonyCheck
  <2> QED BY <1>8, <2>1, <2>2, <2>3 DEF OpenharmonyCheck, TypeOK
<1>9. CASE Collect
  <2>1. lib \in Lib
    BY <1>9, LibType DEF Collect, Testing
  <2>2. /\ pc = "collect" /\ pc' \in {"loop", "reported"}
        /\ i' \in Nat \ {0} /\ (pc' = "loop" => i' <= Len(hpkPaths'))
    BY <1>9 DEF Collect, TypeOK
  <2>3. successlibs' \in Seq(Lib) /\ failedlibs' \in Seq(Lib)
    <3>1. Append(successlibs, lib) \in Seq(Lib) /\ Append(failedlibs, lib) \in Seq(Lib)
      BY <2>1 DEF TypeOK
    <3>2. successlibs \in Seq(Lib) /\ failedlibs \in Seq(Lib)
      BY DEF TypeOK
    <3>3. /\ successlibs' \in {successlibs, Append(successlibs, lib)}
          /\ failedlibs' \in {failedlibs, Append(failedlibs, lib)}
      BY <1>9 DEF Collect
    <3> QED BY <3>1, <3>2, <3>3
  <2>4. collected' \subseteq Lib /\ fault' \subseteq Lib
    BY <1>9, <2>1 DEF Collect, TypeOK
  <2>5. {cwd', OLDPWD'} = {cwd, OLDPWD}
    BY <1>9 DEF Collect
  <2> QED BY <1>9, <2>2, <2>3, <2>4, <2>5 DEF Collect, TypeOK
<1> QED
  BY <1>1, <1>2, <1>3, <1>4, <1>5, <1>6, <1>7, <1>8, <1>9 DEF Next
-----------------------------------------------------------------------------
(* Whose tests the verdict is of                                           *)

LEMMA OwnTestInit == Init => OwnTestInv
BY DEF Init, OwnTestInv, VerdictIsOfOwnTests

\* A package that joins one of the lists of verdicts.
LEMMA JoinsVerdicts ==
  ASSUME NEW s \in Seq(Lib), NEW y \in Lib, NEW x,
         NEW n \in DOMAIN Append(s, y), Append(s, y)[n] = x
  PROVE  x = y \/ (n \in DOMAIN s /\ s[n] = x)
<1>1. n \in 1 .. Len(s) + 1
  OBVIOUS
<1>2. CASE n = Len(s) + 1
  BY <1>2
<1>3. CASE n # Len(s) + 1
  <2>1. n \in 1 .. Len(s)
    BY <1>1, <1>3
  <2> QED BY <2>1
<1> QED BY <1>2, <1>3

LEMMA OwnTestNext == TypeOK /\ OwnTestInv /\ [Next]_vars => OwnTestInv'
<1> SUFFICES ASSUME TypeOK, OwnTestInv, [Next]_vars PROVE OwnTestInv'
  OBVIOUS
<1>1. CASE UNCHANGED vars \/ Ended
  BY <1>1 DEF vars, Ended, OwnTestInv, lib, VerdictIsOfOwnTests
<1>2. CASE CheckTestEnv \/ FindLib \/ FindEnd \/ SkipLib
  BY <1>2 DEF CheckTestEnv, FindLib, FindEnd, SkipLib, NextLib, OwnTestInv, VerdictIsOfOwnTests
<1>3. CASE EnterLib
  BY <1>3 DEF EnterLib, Enter, OwnTestInv, lib, LibDir, VerdictIsOfOwnTests
<1>4. CASE Prepare
  BY <1>4 DEF Prepare, OwnTestInv, lib, LibDir, VerdictIsOfOwnTests
<1>5. CASE OpenharmonyCheck
  <2>1. ASSUME kinds[lib].built, kinds[lib].prepares PROVE checkret' <=> lib \in passes
    <3>1. cwd = LibDir(lib) /\ prepared = lib
      BY <1>5, <2>1 DEF OpenharmonyCheck, OwnTestInv
    <3>2. checkret' \in Answers(BuildDir(lib))
      BY <1>5, <2>1, <3>1 DEF OpenharmonyCheck
    <3>3. Answers(BuildDir(lib)) = {lib \in passes}
      BY <3>1 DEF Answers
    <3> QED BY <3>2, <3>3, Zenon
  <2>2. /\ pc' = "collect"
        /\ UNCHANGED <<kinds, passes, successlibs, failedlibs>> /\ lib' = lib
    BY <1>5 DEF OpenharmonyCheck, lib
  <2> QED BY <2>1, <2>2 DEF OwnTestInv, VerdictIsOfOwnTests
<1>6. CASE Collect
  <2>1. lib \in Lib /\ successlibs \in Seq(Lib) /\ failedlibs \in Seq(Lib)
    BY <1>6, LibType DEF Collect, Testing, TypeOK
  <2>2. /\ pc = "collect" /\ pc' \in {"loop", "reported"}
        /\ UNCHANGED <<kinds, passes>>
        /\ \/ /\ checkret /\ successlibs' = Append(successlibs, lib)
              /\ failedlibs' = failedlibs
           \/ /\ ~ checkret /\ failedlibs' = Append(failedlibs, lib)
              /\ successlibs' = successlibs
    BY <1>6 DEF Collect, NextLib
  <2>3. ASSUME NEW x \in Lib, kinds[x].built, kinds[x].prepares
        PROVE  /\ x \in passes => \A n \in DOMAIN failedlibs' : failedlibs'[n] # x
               /\ x \notin passes => \A n \in DOMAIN successlibs' : successlibs'[n] # x
    <3>1. ASSUME x \in passes, NEW n \in DOMAIN failedlibs', failedlibs'[n] = x
          PROVE  FALSE
      <4>1. x = lib /\ ~ checkret
        <5>1. \A m \in DOMAIN failedlibs : failedlibs[m] # x
          BY <2>3, <3>1 DEF OwnTestInv, VerdictIsOfOwnTests
        <5>2. ~ checkret /\ failedlibs' = Append(failedlibs, lib)
          BY <2>2, <3>1, <5>1
        <5> QED BY <2>1, <3>1, <5>1, <5>2, JoinsVerdicts
      <4> QED BY <2>2, <2>3, <3>1, <4>1 DEF OwnTestInv
    <3>2. ASSUME x \notin passes, NEW n \in DOMAIN successlibs', successlibs'[n] = x
          PROVE  FALSE
      <4>1. x = lib /\ checkret
        <5>1. \A m \in DOMAIN successlibs : successlibs[m] # x
          BY <2>3, <3>2 DEF OwnTestInv, VerdictIsOfOwnTests
        <5>2. checkret /\ successlibs' = Append(successlibs, lib)
          BY <2>2, <3>2, <5>1
        <5> QED BY <2>1, <3>2, <5>1, <5>2, JoinsVerdicts
      <4> QED BY <2>2, <2>3, <3>2, <4>1 DEF OwnTestInv
    <3> QED BY <3>1, <3>2
  <2> QED BY <2>2, <2>3 DEF OwnTestInv, VerdictIsOfOwnTests
<1> QED
  BY <1>1, <1>2, <1>3, <1>4, <1>5, <1>6 DEF Next
-----------------------------------------------------------------------------
(* The logs                                                                *)

LEMMA LogInit == Init => LogInv
BY DEF Init, LogInv, LogsCollected

LEMMA LogNext == TypeOK /\ OwnTestInv /\ LogInv /\ [Next]_vars => LogInv'
<1> SUFFICES ASSUME TypeOK, OwnTestInv, LogInv, [Next]_vars PROVE LogInv'
  OBVIOUS
<1>1. CASE UNCHANGED vars \/ Ended
  BY <1>1 DEF vars, Ended, LogInv, lib, LogsCollected
<1>2. CASE CheckTestEnv \/ FindLib \/ FindEnd \/ SkipLib \/ EnterLib \/ Prepare
  BY <1>2 DEF CheckTestEnv, FindLib, FindEnd, SkipLib, EnterLib, Prepare, NextLib,
              LogInv, LogsCollected
<1>3. CASE OpenharmonyCheck
  <2>1. kinds[lib].built /\ kinds[lib].returns => cwd' = LibDir(lib) /\ lib \in logs'
    BY <1>3 DEF OpenharmonyCheck, OwnTestInv
  <2>2. UNCHANGED <<kinds, successlibs, failedlibs, collected, fault>> /\ lib' = lib
    BY <1>3 DEF OpenharmonyCheck, lib
  <2> QED BY <2>1, <2>2 DEF LogInv, LogsCollected, LibDir
<1>4. CASE Collect
  <2>1. lib \in Lib /\ successlibs \in Seq(Lib) /\ failedlibs \in Seq(Lib)
    BY <1>4, LibType DEF Collect, Testing, TypeOK
  <2>2. /\ pc = "collect" /\ pc' \in {"loop", "reported"} /\ UNCHANGED kinds
        /\ \/ /\ checkret /\ successlibs' = Append(successlibs, lib)
              /\ failedlibs' = failedlibs
           \/ /\ ~ checkret /\ failedlibs' = Append(failedlibs, lib)
              /\ successlibs' = successlibs
        /\ collected \subseteq collected' /\ fault \subseteq fault'
        /\ fault' \subseteq fault \cup (IF checkret THEN {} ELSE {lib})
    BY <1>4 DEF Collect, NextLib
  <2>3. ASSUME kinds[lib].built, kinds[lib].returns
        PROVE  lib \in collected' /\ (~ checkret => lib \in fault')
    BY <1>4, <2>3 DEF Collect, LogIsHere, LogInv
  <2>4. ASSUME NEW x \in Lib, kinds[x].built, kinds[x].returns
        PROVE  /\ \A n \in DOMAIN successlibs' : successlibs'[n] = x => x \in collected'
               /\ \A n \in DOMAIN failedlibs' : failedlibs'[n] = x => x \in collected' \cap fault'
               /\ x \in fault' => \E n \in DOMAIN failedlibs' : failedlibs'[n] = x
    <3>1. ASSUME NEW n \in DOMAIN successlibs', successlibs'[n] = x PROVE x \in collected'
      <4>1. CASE n \in DOMAIN successlibs /\ successlibs[n] = x
        BY <2>2, <2>4, <4>1 DEF LogInv, LogsCollected
      <4>2. CASE ~ (n \in DOMAIN successlibs /\ successlibs[n] = x)
        <5>1. successlibs' = Append(successlibs, lib)
          BY <2>2, <3>1, <4>2
        <5>2. x = lib
          BY <2>1, <3>1, <4>2, <5>1, JoinsVerdicts
        <5> QED BY <2>3, <2>4, <5>2
      <4> QED BY <4>1, <4>2
    <3>2. ASSUME NEW n \in DOMAIN failedlibs', failedlibs'[n] = x
          PROVE  x \in collected' \cap fault'
      <4>1. CASE n \in DOMAIN failedlibs /\ failedlibs[n] = x
        BY <2>2, <2>4, <4>1 DEF LogInv, LogsCollected
      <4>2. CASE ~ (n \in DOMAIN failedlibs /\ failedlibs[n] = x)
        <5>1. ~ checkret /\ failedlibs' = Append(failedlibs, lib)
          BY <2>2, <3>2, <4>2
        <5>2. x = lib
          BY <2>1, <3>2, <4>2, <5>1, JoinsVerdicts
        <5> QED BY <2>3, <2>4, <5>1, <5>2
      <4> QED BY <4>1, <4>2
    <3>3. ASSUME x \in fault' PROVE \E n \in DOMAIN failedlibs' : failedlibs'[n] = x
      <4>1. \A n \in DOMAIN failedlibs : n \in DOMAIN failedlibs' /\ failedlibs'[n] = failedlibs[n]
        BY <2>1, <2>2
      <4>2. CASE x \in fault
        BY <2>4, <4>1, <4>2 DEF LogInv, LogsCollected
      <4>3. CASE x = lib /\ ~ checkret
        <5>1. Len(failedlibs) + 1 \in DOMAIN failedlibs' /\ failedlibs'[Len(failedlibs) + 1] = lib
          BY <2>1, <2>2, <4>3
        <5> QED BY <4>3, <5>1
      <4> QED BY <2>2, <3>3, <4>2, <4>3
    <3> QED BY <3>1, <3>2, <3>3
  <2> QED BY <2>2, <2>4 DEF LogInv, LogsCollected
<1> QED
  BY <1>1, <1>2, <1>3, <1>4 DEF Next
-----------------------------------------------------------------------------
(* One verdict for each time a package is named                            *)

LEMMA CountInit == Init => CountInv
BY DEF Init, CountInv, Testing

\* When the position moves on, or the loop is over.
LEMMA CountNextLib ==
  ASSUME TypeOK, CountInv, pc \in {"loop", "collect"}, NextLib,
         UNCHANGED <<kinds, jobs, hpkPaths>>,
         \A x \in Lib : Verdicts(x)' =
           Verdicts(x) + (IF kinds[x].check /\ lib = x THEN 1 ELSE 0)
  PROVE  CountInv'
<1>1. i \in 1 .. Len(hpkPaths) /\ Len(hpkPaths) \in Nat /\ pc \in {"loop"} \cup Testing
  BY LibType DEF Testing, TypeOK
<1>2. ASSUME NEW x \in Lib
      PROVE  Verdicts(x)' = IF kinds[x].check THEN TimesUpTo(x, hpkPaths, i) ELSE 0
  <2>1. i - 1 \in Nat /\ (i - 1) + 1 = i
    BY <1>1
  <2>2. TimesUpTo(x, hpkPaths, i) = TimesUpTo(x, hpkPaths, i - 1) + (IF lib = x THEN 1 ELSE 0)
    BY <2>1, TimesNext DEF lib
  <2>3. Verdicts(x) = IF kinds[x].check THEN TimesUpTo(x, hpkPaths, i - 1) ELSE 0
    BY <1>1 DEF CountInv
  <2> QED BY <2>2, <2>3
<1>3. \A x \in Lib : Times(x, hpkPaths) = IF kinds[x].usr THEN Times(x, jobs) ELSE 0
  BY <1>1 DEF CountInv
<1>4. CASE MoreLibs
  <2>1. pc' = "loop" /\ i' - 1 = i
    BY <1>1, <1>4 DEF NextLib
  <2> QED BY <1>2, <1>3, <2>1 DEF CountInv, Testing
<1>5. CASE ~ MoreLibs
  <2>1. pc' = "reported" /\ i = Len(hpkPaths)
    BY <1>1, <1>5 DEF NextLib, MoreLibs
  <2> QED BY <1>2, <1>3, <2>1 DEF CountInv, Testing, Times
<1> QED BY <1>4, <1>5

LEMMA CountNext == TypeOK /\ CountInv /\ [Next]_vars => CountInv'
<1> SUFFICES ASSUME TypeOK, CountInv, [Next]_vars PROVE CountInv'
  OBVIOUS
<1>0. /\ hpkPaths \in Seq(Lib) /\ jobs \in Seq(Lib) /\ i \in Nat \ {0}
      /\ successlibs \in Seq(Lib) /\ failedlibs \in Seq(Lib)
  BY JobListsAssumption DEF TypeOK
<1>v. \A x \in Lib : Verdicts(x) \in Nat
  BY <1>0, ListTimesType DEF Verdicts
<1>1. CASE UNCHANGED vars \/ Ended
  BY <1>1 DEF vars, Ended, CountInv, Verdicts, lib
<1>2. CASE CheckTestEnv
  <2>1. /\ pc = "start" /\ pc' \in {"find", "exited"}
        /\ UNCHANGED <<kinds, jobs, hpkPaths, i, successlibs, failedlibs>>
    BY <1>2 DEF CheckTestEnv
  <2>2. /\ hpkPaths = <<>> /\ i = 1 /\ successlibs = <<>> /\ failedlibs = <<>>
    BY <2>1 DEF CountInv
  <2>3. \A x \in Lib : Times(x, hpkPaths) = 0 /\ TimesUpTo(x, jobs, i - 1) = 0
    BY <2>2, TimesEmpty, TimesNone
  <2>4. i <= Len(jobs) + 1
    BY <1>0, <2>2
  <2> QED BY <2>1, <2>2, <2>3, <2>4 DEF CountInv, Testing
<1>3. CASE FindLib
  <2>1. /\ pc = "find" /\ pc' = "find" /\ i <= Len(jobs) /\ i' = i + 1
        /\ UNCHANGED <<kinds, jobs, successlibs, failedlibs>>
        /\ hpkPaths' = IF kinds[jobs[i]].usr THEN Append(hpkPaths, jobs[i]) ELSE hpkPaths
    BY <1>3 DEF FindLib, IsInUsr
  <2>2. jobs[i] \in Lib /\ i - 1 \in Nat /\ (i - 1) + 1 = i /\ i' - 1 = i
    BY <1>0, <2>1
  <2>3. ASSUME NEW x \in Lib
        PROVE  Times(x, hpkPaths)' = IF kinds[x].usr THEN TimesUpTo(x, jobs, i) ELSE 0
    <3>1. Times(x, hpkPaths) = IF kinds[x].usr THEN TimesUpTo(x, jobs, i - 1) ELSE 0
      BY <2>1 DEF CountInv
    <3>2. TimesUpTo(x, jobs, i) = TimesUpTo(x, jobs, i - 1) + (IF jobs[i] = x THEN 1 ELSE 0)
      BY <2>2, TimesNext
    <3>3. /\ Times(x, hpkPaths) \in Nat /\ TimesUpTo(x, jobs, i - 1) \in Nat
      BY <1>0, <2>2, TimesType, ListTimesType
    <3>4. Times(x, Append(hpkPaths, jobs[i])) =
            Times(x, hpkPaths) + (IF jobs[i] = x THEN 1 ELSE 0)
      BY <1>0, <2>2, TimesAppend
    <3>5. Times(x, hpkPaths)' = Times(x, hpkPaths')
      BY DEF Times, TimesUpTo
    <3>6. CASE kinds[jobs[i]].usr
      BY <2>1, <3>1, <3>2, <3>3, <3>4, <3>5, <3>6
    <3>7. CASE ~ kinds[jobs[i]].usr
      BY <2>1, <3>1, <3>2, <3>3, <3>5, <3>7
    <3> QED BY <3>6, <3>7
  <2>4. i' <= Len(jobs') + 1
    BY <1>0, <2>1
  <2>5. successlibs = <<>> /\ failedlibs = <<>>
    BY <2>1 DEF CountInv
  <2> QED BY <2>1, <2>2, <2>3, <2>4, <2>5 DEF CountInv, Testing
<1>4. CASE FindEnd
  <2>1. /\ pc = "find" /\ pc' \in {"loop", "reported"} /\ i > Len(jobs) /\ i' = 1
        /\ pc' = "reported" => hpkPaths = <<>>
        /\ UNCHANGED <<kinds, jobs, hpkPaths, successlibs, failedlibs>>
    BY <1>4 DEF FindEnd
  <2>2. i - 1 = Len(jobs) /\ successlibs = <<>> /\ failedlibs = <<>>
    BY <1>0, <2>1 DEF CountInv
  <2>3. \A x \in Lib : Times(x, hpkPaths) = IF kinds[x].usr THEN Times(x, jobs) ELSE 0
    BY <2>1, <2>2 DEF CountInv, Times
  <2>4. \A x \in Lib : Verdicts(x)' = 0
    BY <2>1, <2>2, TimesEmpty DEF Verdicts
  <2>5. \A x \in Lib : TimesUpTo(x, hpkPaths, i' - 1) = 0
    BY <2>1, TimesNone
  <2>6. hpkPaths = <<>> => \A x \in Lib : Times(x, hpkPaths) = 0
    BY TimesEmpty
  <2> QED BY <2>1, <2>3, <2>4, <2>5, <2>6 DEF CountInv, Testing
<1>5. CASE SkipLib
  <2>1. /\ pc = "loop" /\ ~ kinds[lib].check /\ NextLib
        /\ UNCHANGED <<kinds, jobs, hpkPaths, successlibs, failedlibs>>
    BY <1>5 DEF SkipLib, HasCheck
  <2>2. \A x \in Lib : Verdicts(x)' = Verdicts(x) + (IF kinds[x].check /\ lib = x THEN 1 ELSE 0)
    BY <1>v, <2>1 DEF Verdicts
  <2> QED BY <2>1, <2>2, CountNextLib
<1>6. CASE EnterLib \/ Prepare \/ OpenharmonyCheck
  <2>1. /\ pc \in {"loop"} \cup Testing /\ pc' \in Testing
        /\ UNCHANGED <<kinds, jobs, hpkPaths, i, successlibs, failedlibs>>
        /\ pc = "loop" => kinds[lib].check
    BY <1>6 DEF EnterLib, Prepare, OpenharmonyCheck, HasCheck, Testing
  <2> QED BY <2>1 DEF CountInv, Testing, Verdicts, lib
<1>7. CASE Collect
  <2>1. /\ pc = "collect" /\ NextLib /\ UNCHANGED <<kinds, jobs, hpkPaths>>
        /\ \/ successlibs' = Append(successlibs, lib) /\ failedlibs' = failedlibs
           \/ failedlibs' = Append(failedlibs, lib) /\ successlibs' = successlibs
    BY <1>7 DEF Collect
  <2>2. lib \in Lib /\ kinds[lib].check
    BY <2>1, LibType DEF Testing, CountInv
  <2>3. ASSUME NEW x \in Lib
        PROVE  Verdicts(x)' = Verdicts(x) + (IF kinds[x].check /\ lib = x THEN 1 ELSE 0)
    <3>1. Verdicts(x)' = Times(x, successlibs') + Times(x, failedlibs')
      BY DEF Verdicts, Times, TimesUpTo
    <3>2. Times(x, successlibs) \in Nat /\ Times(x, failedlibs) \in Nat
      BY <1>0, ListTimesType
    <3>3. /\ Times(x, Append(successlibs, lib)) = Times(x, successlibs) + (IF lib = x THEN 1 ELSE 0)
          /\ Times(x, Append(failedlibs, lib)) = Times(x, failedlibs) + (IF lib = x THEN 1 ELSE 0)
      BY <1>0, <2>2, TimesAppend
    <3>4. (IF lib = x THEN 1 ELSE 0) = (IF kinds[x].check /\ lib = x THEN 1 ELSE 0)
      BY <2>2
    <3>5. CASE successlibs' = Append(successlibs, lib) /\ failedlibs' = failedlibs
      BY <3>1, <3>2, <3>3, <3>4, <3>5 DEF Verdicts
    <3>6. CASE failedlibs' = Append(failedlibs, lib) /\ successlibs' = successlibs
      BY <3>1, <3>2, <3>3, <3>4, <3>6 DEF Verdicts
    <3> QED BY <2>1, <3>5, <3>6
  <2> QED BY <2>1, <2>3, CountNextLib
<1> QED
  BY <1>1, <1>2, <1>3, <1>4, <1>5, <1>6, <1>7 DEF Next
-----------------------------------------------------------------------------
LEMMA Invariance == Spec => [](TypeOK /\ OwnTestInv /\ LogInv /\ CountInv)
<1>1. Init => TypeOK /\ OwnTestInv /\ LogInv /\ CountInv
  BY TypeInit, OwnTestInit, LogInit, CountInit
<1>2. TypeOK /\ OwnTestInv /\ LogInv /\ CountInv /\ [Next]_vars
        => (TypeOK /\ OwnTestInv /\ LogInv /\ CountInv)'
  BY TypeNext, OwnTestNext, LogNext, CountNext
<1> QED BY <1>1, <1>2, PTL DEF Spec

\* The types of the script's variables.
THEOREM TypeCorrect == Spec => []TypeOK
BY Invariance, PTL

\* A package with a test gets one verdict each time it was named (checkhpk).
THEOREM EachHasOneVerdict == Spec => []OneVerdictEach
<1>1. CountInv => OneVerdictEach
  BY DEF CountInv, OneVerdictEach, Verdicts
<1> QED BY <1>1, Invariance, PTL

\* The verdict on a package that was built and brings its preparation is that of
\* its own tests (checkhpk).
THEOREM VerdictIsOwn == Spec => []VerdictIsOfOwnTests
<1>1. OwnTestInv => VerdictIsOfOwnTests
  BY DEF OwnTestInv
<1> QED BY <1>1, Invariance, PTL

\* Its log is collected (checkhpk).
THEOREM LogsAreCollected == Spec => []LogsCollected
<1>1. LogInv => LogsCollected
  BY DEF LogInv
<1> QED BY <1>1, Invariance, PTL
=============================================================================
