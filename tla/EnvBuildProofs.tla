--------------------------- MODULE EnvBuildProofs ---------------------------
(***************************************************************************)
(* Theorems about EnvBuild, for any commands and any number of runs that   *)
(* are cut off.                                                            *)
(***************************************************************************)
EXTENDS EnvBuild, TLAPS

\* A run that is past an archive has copied it, and a run that is past a
\* command has linked it, whatever the runs before it left.
DoneSoFar ==
  /\ pc # "idle" => \A m \in 1 .. part - 1 : tools[Parts[m]] = "full"
  /\ pc = "copy" => unpacked[Name] = "full"
  /\ pc \in {"links", "link", "remove", "extras"} => tools[Name] = "full"
  /\ pc = "extras" => LastPart
  /\ pc \in {"links", "link"} => part = 2 /\ \A m \in 1 .. c - 1 : cmds[Cmds[m]] = "link"
  /\ pc \in {"unpack", "copy", "remove", "extras"} /\ (part > 2 \/ (part = 2 /\ pc = "remove")) =>
       \A cmd \in Cmd : cmds[cmd] = "link"
  /\ pc \in {"unpack", "copy"} /\ part <= 2 => c = 1
  /\ pc = "remove" /\ part = 1 => c = 1
  /\ success => pc = "idle"
-----------------------------------------------------------------------------
LEMMA PartsType ==
  /\ DOMAIN Parts = 1 .. 4 /\ Len(Parts) = 4
  /\ \A m \in 1 .. 4 : Parts[m] \in PartNames
  /\ PartNames = {Parts[m] : m \in 1 .. 4}
  /\ \A m \in 1 .. 4 : Parts[m] = "busybox" <=> m = 2
BY DEF Parts, PartNames

LEMMA CmdsType ==
  /\ DOMAIN Cmds = 1 .. Len(Cmds) /\ Len(Cmds) \in Nat \ {0}
  /\ Cmd = {Cmds[m] : m \in 1 .. Len(Cmds)}
  /\ \A m, n \in 1 .. Len(Cmds) : Cmds[m] = Cmds[n] => m = n
<1>1. DOMAIN Cmds = 1 .. Len(Cmds) /\ Len(Cmds) \in Nat \ {0}
  BY CmdsAssumption
<1> QED BY <1>1, CmdsAssumption DEF Cmd, Range, IsInjective

LEMMA TypeInit == Init => TypeOK
<1> SUFFICES ASSUME Init PROVE TypeOK
  OBVIOUS
<1>1. 1 \in DOMAIN Parts /\ 1 \in DOMAIN Cmds /\ 0 \in 0 .. MaxKills
  BY PartsType, CmdsType, MaxKillsAssumption
<1>2. cmds \in [Cmd -> {"none", "file", "link"}]
  BY DEF Init
<1> QED BY <1>1, <1>2 DEF Init, TypeOK, Contents

LEMMA TypeNext == TypeOK /\ [Next]_vars => TypeOK'
<1> SUFFICES ASSUME TypeOK, [Next]_vars PROVE TypeOK'
  OBVIOUS
<1>1. Name \in PartNames /\ Cmds[c] \in Cmd /\ part \in 1 .. 4 /\ c \in 1 .. Len(Cmds)
  BY PartsType, CmdsType DEF TypeOK, Name
<1> USE DEF TypeOK, Contents, Goto, Exit
<1>2. CASE Start
  BY <1>2, PartsType, CmdsType DEF Start
<1>3. CASE Unpack \/ UnpackFails \/ Copy \/ CopyFails
  BY <1>1, <1>3 DEF Unpack, UnpackFails, Copy, AfterCopy, CopyFails, AfterFailedCopy
<1>4. CASE MakeRoom \/ Link \/ LinkFails
  BY <1>1, <1>4, CmdsType DEF MakeRoom, Link, LinkFails
<1>5. CASE RemoveUnpacked
  BY <1>1, <1>5, PartsType DEF RemoveUnpacked, LastPart
<1>6. CASE CopyExtras
  BY <1>6 DEF CopyExtras
<1>7. CASE Kill
  BY <1>1, <1>7, MaxKillsAssumption DEF Kill
<1>8. CASE Ended \/ UNCHANGED vars
  BY <1>8 DEF Ended, vars
<1> QED BY <1>2, <1>3, <1>4, <1>5, <1>6, <1>7, <1>8 DEF Next, SetUpStep
-----------------------------------------------------------------------------
LEMMA DoneInit == Init => DoneSoFar /\ SetUpWhenPrinted
BY DEF Init, DoneSoFar, SetUpWhenPrinted

LEMMA DoneNext ==
  TypeOK /\ DoneSoFar /\ SetUpWhenPrinted /\ [Next]_vars => DoneSoFar' /\ SetUpWhenPrinted'
<1> SUFFICES ASSUME TypeOK, DoneSoFar, SetUpWhenPrinted, [Next]_vars
             PROVE  DoneSoFar' /\ SetUpWhenPrinted'
  OBVIOUS
<1>0. /\ Name \in PartNames /\ Cmds[c] \in Cmd /\ part \in 1 .. 4 /\ c \in 1 .. Len(Cmds)
      /\ tools \in [PartNames -> Contents] /\ unpacked \in [PartNames -> Contents]
      /\ cmds \in [Cmd -> {"none", "file", "link"}]
  BY PartsType, CmdsType DEF TypeOK, Name
<1>1. CASE Start
  BY <1>1 DEF Start, Goto, DoneSoFar, SetUpWhenPrinted
<1>2. CASE Unpack
  BY <1>0, <1>2 DEF Unpack, Goto, Name, DoneSoFar, SetUpWhenPrinted
<1>3. CASE Copy
  <2>1. /\ tools' = [tools EXCEPT ![Name] = "full"] /\ pc = "copy"
        /\ pc' = IF part = 2 THEN "links" ELSE "remove"
        /\ UNCHANGED <<unpacked, cmds, extras, part, c, success>>
    BY <1>0, <1>3, PartsType DEF Copy, AfterCopy, Goto, DoneSoFar, Name
  <2>2. tools'[Name] = "full" /\ \A p \in PartNames : tools[p] = "full" => tools'[p] = "full"
    BY <1>0, <2>1
  <2>3. \A m \in 1 .. part - 1 : tools'[Parts[m]] = "full"
    BY <1>0, <2>1, <2>2, PartsType DEF DoneSoFar
  <2> QED BY <1>0, <2>1, <2>2, <2>3 DEF DoneSoFar, SetUpWhenPrinted, Name
<1>4. CASE UnpackFails \/ CopyFails \/ LinkFails \/ Kill
  <2>1. /\ pc' = "idle" /\ success' = success /\ pc # "idle" /\ ~ success
    BY <1>4 DEF UnpackFails, CopyFails, AfterFailedCopy, LinkFails, Kill, Exit, DoneSoFar
  <2> QED BY <2>1 DEF DoneSoFar, SetUpWhenPrinted
<1>5. CASE MakeRoom
  <2>1. \A m \in 1 .. c - 1 : cmds'[Cmds[m]] = cmds[Cmds[m]]
    <3>1. \A m \in 1 .. c - 1 : Cmds[m] # Cmds[c] /\ Cmds[m] \in Cmd
      BY <1>0, CmdsType
    <3> QED BY <1>0, <1>5, <3>1 DEF MakeRoom
  <2> QED BY <1>5, <2>1 DEF MakeRoom, Goto, Name, DoneSoFar, SetUpWhenPrinted
<1>6. CASE Link
  <2>1. \A m \in 1 .. c : cmds'[Cmds[m]] = "link"
    <3>1. \A m \in 1 .. c : Cmds[m] \in Cmd /\ (m = c \/ m \in 1 .. c - 1)
      BY <1>0, CmdsType
    <3> QED BY <1>0, <1>6, <3>1 DEF Link, DoneSoFar
  <2>2. CASE c < Len(Cmds)
    <3>1. c' = c + 1 /\ pc' = "links" /\ UNCHANGED <<unpacked, tools, extras, part, success>> /\ pc = "link"
      BY <1>6, <2>2 DEF Link, Goto
    <3>2. \A m \in 1 .. c' - 1 : cmds'[Cmds[m]] = "link"
      BY <1>0, <2>1, <3>1
    <3> QED BY <3>1, <3>2 DEF DoneSoFar, SetUpWhenPrinted, Name
  <2>3. CASE ~ (c < Len(Cmds))
    <3>1. c' = c /\ pc' = "remove" /\ UNCHANGED <<unpacked, tools, extras, part, success>> /\ pc = "link"
      BY <1>6, <2>3 DEF Link, Goto
    <3>2. \A cmd \in Cmd : cmds'[cmd] = "link"
      BY <1>0, <2>1, <2>3, CmdsType
    <3> QED BY <3>1, <3>2 DEF DoneSoFar, SetUpWhenPrinted, Name
  <2> QED BY <2>2, <2>3
<1>7. CASE RemoveUnpacked
  <2>1. /\ pc = "remove" /\ tools[Name] = "full" /\ UNCHANGED <<tools, cmds, extras, c, success>>
        /\ ~ success
    BY <1>7 DEF RemoveUnpacked, Goto, DoneSoFar
  <2>2. \A m \in 1 .. part : tools[Parts[m]] = "full"
    <3>1. \A m \in 1 .. part : m = part \/ m \in 1 .. part - 1
      BY <1>0
    <3> QED BY <2>1, <3>1 DEF DoneSoFar, Name
  <2>3. CASE LastPart
    <3>1. part' = part /\ pc' = "extras"
      BY <1>7, <2>3 DEF RemoveUnpacked, Goto
    <3> QED BY <1>0, <2>1, <2>3, <3>1, PartsType DEF DoneSoFar, SetUpWhenPrinted, Name, LastPart
  <2>4. CASE ~ LastPart
    <3>1. part' = part + 1 /\ pc' = "unpack"
      BY <1>7, <2>4 DEF RemoveUnpacked, Goto
    <3>2. \A m \in 1 .. part' - 1 : tools'[Parts[m]] = "full"
      BY <1>0, <2>1, <2>2, <3>1
    <3>3. part' > 2 => \A cmd \in Cmd : cmds'[cmd] = "link"
      BY <1>0, <2>1, <3>1 DEF DoneSoFar
    <3>4. part' <= 2 => c' = 1
      BY <1>0, <2>1, <3>1 DEF DoneSoFar
    <3> QED BY <2>1, <3>1, <3>2, <3>3, <3>4 DEF DoneSoFar, SetUpWhenPrinted
  <2> QED BY <2>3, <2>4
<1>8. CASE CopyExtras
  <2>1. /\ pc = "extras" /\ part = 4 /\ pc' = "idle" /\ success'
        /\ UNCHANGED <<tools, cmds>>
    BY <1>8, PartsType DEF CopyExtras, DoneSoFar, LastPart
  <2>2. \A cmd \in Cmd : cmds[cmd] = "link"
    BY <2>1 DEF DoneSoFar
  <2>3. \A m \in 1 .. 4 : tools[Parts[m]] = "full"
    <3>1. \A m \in 1 .. 4 : m = part \/ m \in 1 .. part - 1
      BY <2>1
    <3> QED BY <2>1, <3>1 DEF DoneSoFar, Name
  <2>4. \A p \in PartNames : tools[p] = "full"
    BY <2>3, PartsType
  <2> QED BY <2>1, <2>2, <2>4 DEF DoneSoFar, SetUpWhenPrinted
<1>9. CASE Ended \/ UNCHANGED vars
  BY <1>9 DEF Ended, vars, DoneSoFar, SetUpWhenPrinted, Name, LastPart
<1> QED
  BY <1>1, <1>2, <1>3, <1>4, <1>5, <1>6, <1>7, <1>8, <1>9 DEF Next, SetUpStep

LEMMA Invariance == Spec => [](TypeOK /\ DoneSoFar /\ SetUpWhenPrinted)
<1>1. Init => TypeOK /\ DoneSoFar /\ SetUpWhenPrinted
  BY TypeInit, DoneInit
<1>2. TypeOK /\ DoneSoFar /\ SetUpWhenPrinted /\ [Next]_vars
        => (TypeOK /\ DoneSoFar /\ SetUpWhenPrinted)'
  BY TypeNext, DoneNext
<1> QED BY <1>1, <1>2, PTL DEF Spec

\* The device and the run keep their types.
THEOREM TypeCorrect == Spec => []TypeOK
BY Invariance, PTL

\* Wherever earlier runs failed or were cut off: when the message is printed
\* the archives are on the device and the commands are links to busybox.
THEOREM PrintedMeansSetUp == Spec => []SetUpWhenPrinted
BY Invariance, PTL
=============================================================================
