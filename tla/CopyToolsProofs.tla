--------------------------- MODULE CopyToolsProofs ---------------------------
(***************************************************************************)
(* Theorems about CopyTools, for any number of sessions, wrappers and      *)
(* faults.                                                                 *)
(***************************************************************************)
EXTENDS CopyTools, TLAPS

Unpacking == {"tar", "create", "write"}

\* What a session relies on that nobody has disturbed: it is alone, what its tar
\* has taken is in the directory, and what its cp has taken is in the SDK.
UndisturbedInv ==
  \A s \in undisturbed :
    /\ pc[s] \in Copying \cup {"build"} /\ Copiers \subseteq {s}
    /\ pc[s] \in Unpacking =>
         \A f \in Tool : f \in todo[s] \/ toolchain[f] = "whole" \/ (pc[s] # "tar" /\ f = tool[s])
    /\ pc[s] = "write" => toolchain[tool[s]] = s
    /\ pc[s] \in {"cp", "fill"} =>
         \A f \in Tool : /\ toolchain[f] = "whole"
                         /\ f \in todo[s] \/ sdk[f] = "whole" \/ (pc[s] = "fill" /\ f = tool[s])
    /\ pc[s] \in {"rm", "build"} => \A f \in Tool : sdk[f] = "whole"
-----------------------------------------------------------------------------
LEMMA TypeInit == Init => TypeOK
BY ToolAssumption, MaxFaultsAssumption DEF Init, TypeOK

LEMMA CommandType ==
  ASSUME NEW step \in Copying
  PROVE  Command(step) \in {"tar", "cp", "rm"}
BY DEF Command, Copying

\* A file that is taken changes the two variables of its session.
LEMMA TakeType ==
  ASSUME TypeOK, NEW s \in Session, NEW f \in todo[s], Take(s, f)
  PROVE  /\ f \in Tool
         /\ todo' = [todo EXCEPT ![s] = todo[s] \ {f}] /\ todo' \in [Session -> SUBSET Tool]
         /\ tool' = [tool EXCEPT ![s] = f] /\ tool' \in [Session -> Tool]
BY DEF Take, Todo, TypeOK

LEMMA TypeNext == TypeOK /\ [Next]_vars => TypeOK'
<1> SUFFICES ASSUME TypeOK, [Next]_vars PROVE TypeOK'
  OBVIOUS
<1>1. CASE UNCHANGED vars \/ Ended
  BY <1>1 DEF vars, Ended, TypeOK
<1>2. ASSUME NEW s \in Session, Probe(s)
      PROVE  TypeOK'
  BY <1>2 DEF Probe, Goto, Todo, TypeOK, Copying
<1>3. ASSUME NEW s \in Session, TarUnlink(s) \/ CpOpen(s) \/ RmUnlink(s)
      PROVE  TypeOK'
  <2>1. PICK f \in todo[s] : Take(s, f) /\ toolchain' \in {toolchain, [toolchain EXCEPT ![f] = "none"]}
                             /\ sdk' \in {sdk, [sdk EXCEPT ![f] = "partial"]}
    BY <1>3 DEF TarUnlink, CpOpen, RmUnlink
  <2>2. pc' \in [Session -> Copying \cup {"start", "build", "killed"}]
    BY <1>3 DEF TarUnlink, CpOpen, RmUnlink, Goto, TypeOK, Copying
  <2>3. UNCHANGED <<undisturbed, faults>>
    BY <1>3 DEF TarUnlink, CpOpen, RmUnlink
  <2> QED BY <2>1, <2>2, <2>3, TakeType DEF TypeOK
<1>4. ASSUME NEW s \in Session, TarCreate(s) \/ TarWrite(s) \/ CpFill(s)
      PROVE  TypeOK'
  BY <1>4 DEF TarCreate, TarWrite, CpFill, Goto, TypeOK, Copying
<1>5. ASSUME NEW s \in Session, Expand(s) \/ RmOpen(s) \/ Copied(s)
      PROVE  TypeOK'
  BY <1>5 DEF Expand, Listed, Present, RmOpen, Copied, Goto, Todo, TypeOK, Copying
<1>6. ASSUME NEW s \in Session, CommandFails(s) \/ Kill(s)
      PROVE  TypeOK'
  <2>1. faults' \in 0 .. MaxFaults /\ undisturbed' \subseteq Session /\ pc[s] \in Copying
    BY <1>6, MaxFaultsAssumption DEF CommandFails, Kill, Fault, TypeOK
  <2>2. pc' \in [Session -> Copying \cup {"start", "build", "killed"}]
    BY <1>6, <2>1, CommandType DEF CommandFails, Kill, Goto, TypeOK, Copying
  <2>3. todo' \in [Session -> SUBSET Tool] /\ UNCHANGED <<sdk, toolchain, tool>>
    BY <1>6 DEF CommandFails, Kill, Todo, TypeOK
  <2> QED BY <2>1, <2>2, <2>3 DEF TypeOK
<1> QED
  BY <1>1, <1>2, <1>3, <1>4, <1>5, <1>6 DEF Next, SessionStep
-----------------------------------------------------------------------------
LEMMA UndisturbedInit == Init => UndisturbedInv
BY DEF Init, UndisturbedInv

\* A session that begins to copy does so undisturbed only when no other is at
\* it, and disturbs those that are.
LEMMA ProbeUndisturbed ==
  ASSUME TypeOK, UndisturbedInv, NEW t \in Session, Probe(t)
  PROVE  UndisturbedInv'
<1>1. pc[t] = "start" /\ t \notin Copiers /\ UNCHANGED <<sdk, toolchain, tool>>
  BY DEF Probe, Copiers, Copying
<1>2. CASE AlreadyThere
  <2>1. pc' = [pc EXCEPT ![t] = "build"] /\ UNCHANGED <<todo, undisturbed>>
    BY <1>2 DEF Probe, Goto
  <2>2. Copiers' = Copiers /\ t \notin undisturbed
    BY <1>1, <2>1 DEF Copiers, Copying, TypeOK, UndisturbedInv
  <2>3. \A s \in undisturbed : pc'[s] = pc[s]
    BY <2>1, <2>2 DEF TypeOK
  <2> QED BY <1>1, <2>1, <2>2, <2>3 DEF UndisturbedInv
<1>3. CASE ~ AlreadyThere
  <2>1. /\ pc' = [pc EXCEPT ![t] = "tar"] /\ todo' = [todo EXCEPT ![t] = Tool]
        /\ undisturbed' = IF Copiers = {} THEN undisturbed \cup {t} ELSE undisturbed \ Copiers
    BY <1>3 DEF Probe, Goto, Todo
  <2>2. \A s \in undisturbed : pc[s] # "build"
    BY <1>3, ToolAssumption DEF AlreadyThere, UndisturbedInv
  <2>3. undisturbed \subseteq Copiers
    BY <2>2 DEF UndisturbedInv, Copiers, TypeOK
  <2>4. CASE Copiers = {}
    <3>1. undisturbed' = {t} /\ Copiers' \subseteq {t} /\ pc'[t] = "tar" /\ todo'[t] = Tool
      BY <2>1, <2>3, <2>4 DEF Copiers, TypeOK
    <3> QED BY <3>1 DEF UndisturbedInv, Copying
  <2>5. CASE Copiers # {}
    BY <2>1, <2>3, <2>5 DEF UndisturbedInv
  <2> QED BY <2>4, <2>5
<1> QED BY <1>2, <1>3

LEMMA UndisturbedNext == TypeOK /\ TypeOK' /\ UndisturbedInv /\ [Next]_vars => UndisturbedInv'
<1> SUFFICES ASSUME TypeOK, TypeOK', UndisturbedInv, [Next]_vars PROVE UndisturbedInv'
  OBVIOUS
<1>1. CASE UNCHANGED vars \/ Ended
  BY <1>1 DEF vars, Ended, UndisturbedInv, Copiers
<1>2. ASSUME NEW t \in Session, Probe(t)
      PROVE  UndisturbedInv'
  BY <1>2, ProbeUndisturbed
<1>3. ASSUME NEW t \in Session, SessionStep(t), ~ Probe(t), NEW s \in undisturbed'
      PROVE  /\ s = t /\ pc[s] \in Copying /\ s \in undisturbed
             /\ undisturbed' \subseteq undisturbed /\ Copiers' \subseteq {s}
  <2>1. pc[t] \in Copying /\ t \in Copiers /\ undisturbed' \subseteq undisturbed
    BY <1>3 DEF SessionStep, TarUnlink, TarCreate, TarWrite, Expand, CpOpen, CpFill, RmOpen,
         RmUnlink, Copied, CommandFails, Kill, Fault, Copying, Copiers
  <2>2. s \in undisturbed /\ s = t /\ Copiers \subseteq {s}
    BY <1>3, <2>1 DEF UndisturbedInv
  <2>3. pc' = pc \/ \E step : pc' = [pc EXCEPT ![t] = step]
    BY <1>3 DEF SessionStep, TarUnlink, TarCreate, TarWrite, Expand, CpOpen, CpFill, RmOpen,
         RmUnlink, Copied, CommandFails, Kill, Goto
  <2>4. Copiers' \subseteq {s}
    BY <2>2, <2>3 DEF Copiers, TypeOK
  <2> QED BY <2>1, <2>2, <2>4
<1>4. ASSUME NEW t \in Session, SessionStep(t), ~ Probe(t)
      PROVE  UndisturbedInv'
  <2> SUFFICES ASSUME NEW s \in undisturbed'
      PROVE  /\ pc'[s] \in Copying \cup {"build"}
             /\ pc'[s] \in Unpacking =>
                  \A f \in Tool : \/ f \in todo'[s] \/ toolchain'[f] = "whole"
                                  \/ pc'[s] # "tar" /\ f = tool'[s]
             /\ pc'[s] = "write" => toolchain'[tool'[s]] = s
             /\ pc'[s] \in {"cp", "fill"} =>
                  \A f \in Tool : /\ toolchain'[f] = "whole"
                                  /\ \/ f \in todo'[s] \/ sdk'[f] = "whole"
                                     \/ pc'[s] = "fill" /\ f = tool'[s]
             /\ pc'[s] \in {"rm", "build"} => \A f \in Tool : sdk'[f] = "whole"
    BY <1>3, <1>4 DEF UndisturbedInv
  <2>0. s = t /\ s \in undisturbed /\ s \in Session /\ TypeOK /\ UndisturbedInv
    BY <1>3, <1>4
  <2> USE DEF Goto, Todo, Copying, Unpacking
  <2>1. CASE TarUnlink(s)
    <3>1. PICK f \in todo[s] : Take(s, f) /\ toolchain' = [toolchain EXCEPT ![f] = "none"]
      BY <2>1 DEF TarUnlink
    <3>2. pc[s] = "tar" /\ pc'[s] = "create"
      BY <2>0, <2>1 DEF TarUnlink, TypeOK
    <3> QED BY <2>0, <3>1, <3>2, TakeType DEF UndisturbedInv, TypeOK
  <2>2. CASE TarCreate(s)
    BY <2>0, <2>2 DEF TarCreate, UndisturbedInv, TypeOK
  <2>3. CASE TarWrite(s)
    BY <2>0, <2>3 DEF TarWrite, UndisturbedInv, TypeOK
  <2>4. CASE Expand(s)
    <3>1. \A f \in Tool : toolchain[f] = "whole"
      BY <2>0, <2>4 DEF Expand, UndisturbedInv
    <3> QED BY <2>0, <2>4, <3>1 DEF Expand, Listed, Present, TypeOK
  <2>5. CASE CpOpen(s)
    <3>1. PICK f \in todo[s] : Take(s, f) /\ IF toolchain[f] = "none" THEN UNCHANGED <<sdk, pc>>
                          ELSE sdk' = [sdk EXCEPT ![f] = "partial"] /\ Goto(s, "fill")
      BY <2>5 DEF CpOpen
    <3>2. pc[s] = "cp" /\ f \in Tool /\ toolchain[f] = "whole" /\ toolchain' = toolchain
      BY <2>0, <2>5, <3>1 DEF CpOpen, UndisturbedInv, TypeOK
    <3>3. sdk' = [sdk EXCEPT ![f] = "partial"] /\ pc'[s] = "fill"
      BY <2>0, <3>1, <3>2 DEF TypeOK
    <3> QED BY <2>0, <3>1, <3>2, <3>3, TakeType DEF UndisturbedInv, TypeOK
  <2>6. CASE CpFill(s)
    <3>1. /\ pc[s] = "fill" /\ pc'[s] = "cp" /\ tool[s] \in Tool /\ toolchain[tool[s]] = "whole"
          /\ UNCHANGED <<toolchain, todo, tool>>
      BY <2>0, <2>6 DEF CpFill, UndisturbedInv, TypeOK
    <3>2. sdk' = [sdk EXCEPT ![tool[s]] = "whole"]
      BY <2>6, <3>1 DEF CpFill
    <3> QED BY <2>0, <3>1, <3>2 DEF UndisturbedInv, TypeOK
  <2>7. CASE RmOpen(s)
    BY <2>0, <2>7 DEF RmOpen, UndisturbedInv, TypeOK
  <2>8. CASE RmUnlink(s) \/ Copied(s)
    BY <2>0, <2>8 DEF RmUnlink, Copied, UndisturbedInv, TypeOK
  <2>9. CASE CommandFails(s) \/ Kill(s)
    BY <2>9 DEF CommandFails, Kill, Fault
  <2> QED
    BY <1>4, <2>0, <2>1, <2>2, <2>3, <2>4, <2>5, <2>6, <2>7, <2>8, <2>9 DEF SessionStep
<1> QED
  BY <1>1, <1>2, <1>4 DEF Next

LEMMA Invariance == Spec => [](TypeOK /\ UndisturbedInv)
<1>1. Init => TypeOK /\ UndisturbedInv
  BY TypeInit, UndisturbedInit
<1>2. TypeOK /\ UndisturbedInv /\ [Next]_vars => (TypeOK /\ UndisturbedInv)'
  BY TypeNext, UndisturbedNext
<1> QED BY <1>1, <1>2, PTL DEF Spec

\* The directories and the sessions keep their types.
THEOREM TypeCorrect == Spec => []TypeOK
BY Invariance, PTL

\* For any number of sessions that fail, are killed, and unpack and remove under
\* each other's hands: one that copies alone, and of which nothing fails, leaves
\* all the wrappers in the SDK, and no later one takes one out (copytools).
THEOREM CopyIsComplete == Spec => []OwnCopyIsComplete
<1>1. UndisturbedInv => OwnCopyIsComplete
  BY DEF UndisturbedInv, OwnCopyIsComplete
<1> QED BY <1>1, Invariance, PTL
=============================================================================
