------------------------------ MODULE EnvBuild ------------------------------
(***************************************************************************)
(* lycium/CItools/env_build.sh, which sets a device up for test.sh: it     *)
(* unpacks four archives and copies them to the device, makes four         *)
(* commands links to busybox, and copies some more tools.  It ends at the  *)
(* first failure of the first two kinds and does not look at the last; a   *)
(* run that failed or was cut off (the device restarts, the shell is lost) *)
(* is repeated from the start on what it left behind.                      *)
(***************************************************************************)
EXTENDS Integers, Sequences, Functions

CONSTANTS
  Cmds,       \* the commands that become links to busybox, CMD_ARRAY
  Extra,      \* what is copied last: cmake and ctest to the path they have
              \*   on the build host, sed and env to /usr/bin
  MaxKills    \* bound on the runs that are cut off

ASSUME MaxKillsAssumption == MaxKills \in Nat
ASSUME CmdsAssumption ==
  /\ Cmds \in Seq(Range(Cmds)) /\ Cmds # <<>> /\ IsInjective(Cmds)

VARIABLES
  unpacked,     \* of each archive, the directory it is unpacked to
  tools,        \* of each archive, what the device has of it
  cmds,         \* what each command is: "none", a "file" of the device, a "link"
  extras,       \* of Extra, those that are there
  part, c,      \* the archive and the command the run is at, positions
  pc,           \* the step it is at
  success,      \* the last run has printed "set CI env success!!"
  kills         \* how many runs were cut off

vars == <<unpacked, tools, cmds, extras, part, c, pc, success, kills>>

Parts == <<"cmake_make", "busybox", "perl", "shell_cmd">>
PartNames == {"cmake_make", "busybox", "perl", "shell_cmd"}
Cmd == Range(Cmds)
Contents == {"none", "partial", "full"}

Init ==
  /\ unpacked = [p \in PartNames |-> "none"]
  /\ tools = [p \in PartNames |-> "none"]
  /\ cmds \in [Cmd -> {"none", "file"}]
  /\ extras = {} /\ part = 1 /\ c = 1 /\ pc = "idle" /\ success = FALSE /\ kills = 0

(***************************************************************************)
(* Mutated forms of the definitions that follow: each breaks the property  *)
(* its comment names, and no specification uses it.                        *)
(***************************************************************************)
\* EventuallySetUp: the command in the way is removed only if it is the
\* device's own, and a link of an earlier run stays in the way.
OnlyOwnFile(cmd) == cmds[cmd] = "file"
\* SetUpWhenPrinted: the status of cp is not looked at.
UncheckedCopy == pc' = "remove" /\ UNCHANGED success
-----------------------------------------------------------------------------
Name == Parts[part]

Goto(step) == pc' = step /\ UNCHANGED success

Exit == pc' = "idle" /\ UNCHANGED success

\* [ -f $cmd ]: a file, or a link that leads to one.
IsFile(cmd) == cmds[cmd] = "file" \/ (cmds[cmd] = "link" /\ tools["busybox"] # "none")

LastPart == part = Len(Parts)

Start ==
  /\ pc = "idle" /\ ~ success
  /\ part' = 1 /\ c' = 1 /\ Goto("unpack")
  /\ UNCHANGED <<unpacked, tools, cmds, extras, kills>>

\* tar writes over what an earlier run left there.
Unpack ==
  /\ pc = "unpack"
  /\ unpacked' = [unpacked EXCEPT ![Name] = "full"] /\ Goto("copy")
  /\ UNCHANGED <<tools, cmds, extras, part, c, kills>>

\* The archive is not there, or tar fails.
UnpackFails ==
  /\ pc = "unpack" /\ Exit
  /\ unpacked' \in {unpacked, [unpacked EXCEPT ![Name] = "partial"]}
  /\ UNCHANGED <<tools, cmds, extras, part, c, kills>>

AfterCopy == Goto(IF Name = "busybox" THEN "links" ELSE "remove")

\* cp -arf, of what was unpacked.
Copy ==
  /\ pc = "copy"
  /\ tools' = [tools EXCEPT ![Name] = unpacked[Name]] /\ AfterCopy
  /\ UNCHANGED <<unpacked, cmds, extras, part, c, kills>>

AfterFailedCopy == Exit

CopyFails ==
  /\ pc = "copy" /\ AfterFailedCopy
  /\ tools' \in {tools, [tools EXCEPT ![Name] = "partial"]}
  /\ UNCHANGED <<unpacked, cmds, extras, part, c, kills>>

\* rm ${cmd}, if there is such a file.
MakeRoom ==
  /\ pc = "links"
  /\ cmds' = IF IsFile(Cmds[c]) THEN [cmds EXCEPT ![Cmds[c]] = "none"] ELSE cmds
  /\ Goto("link")
  /\ UNCHANGED <<unpacked, tools, extras, part, c, kills>>

\* ln -s busybox ${cmd}, which fails when there is something already.
Link ==
  /\ pc = "link" /\ cmds[Cmds[c]] = "none"
  /\ cmds' = [cmds EXCEPT ![Cmds[c]] = "link"]
  /\ IF c < Len(Cmds) THEN c' = c + 1 /\ Goto("links") ELSE c' = c /\ Goto("remove")
  /\ UNCHANGED <<unpacked, tools, extras, part, kills>>

LinkFails ==
  /\ pc = "link" /\ Exit
  /\ UNCHANGED <<unpacked, tools, cmds, extras, part, c, kills>>

\* rm -rf of the directory, of all but perl's, and the next archive.
RemoveUnpacked ==
  /\ pc = "remove"
  /\ unpacked' = IF Name = "perl" THEN unpacked ELSE [unpacked EXCEPT ![Name] = "none"]
  /\ IF LastPart THEN part' = part /\ Goto("extras")
     ELSE part' = part + 1 /\ Goto("unpack")
  /\ UNCHANGED <<tools, cmds, extras, c, kills>>

\* The last copies, of which any may fail, and the message.
CopyExtras ==
  /\ pc = "extras"
  /\ \E copied \in SUBSET Extra : extras' = extras \cup copied
  /\ pc' = "idle" /\ success' = TRUE
  /\ UNCHANGED <<unpacked, tools, cmds, part, c, kills>>

\* The run is cut off, before its next step or in the middle of it.
Kill ==
  /\ pc # "idle" /\ kills < MaxKills
  /\ kills' = kills + 1 /\ Exit
  /\ unpacked' \in {unpacked} \cup
       (IF pc = "unpack" \/ (pc = "remove" /\ Name # "perl")
        THEN {[unpacked EXCEPT ![Name] = "partial"]} ELSE {})
  /\ tools' \in {tools} \cup
       (IF pc = "copy" THEN {[tools EXCEPT ![Name] = "partial"]} ELSE {})
  /\ UNCHANGED <<cmds, extras, part, c>>

SetUpStep ==
  \/ Unpack \/ UnpackFails \/ Copy \/ CopyFails
  \/ MakeRoom \/ Link \/ LinkFails \/ RemoveUnpacked \/ CopyExtras

Ended == success /\ UNCHANGED vars

Next == Start \/ SetUpStep \/ Kill \/ Ended

Spec == Init /\ [][Next]_vars

\* Who sets the device up runs the script again until it prints its message,
\* a run goes on until it ends, and nothing that can succeed fails every time.
FairSpec ==
  /\ Spec
  /\ WF_vars(Start) /\ WF_vars(SetUpStep)
  /\ \A n \in DOMAIN Parts : SF_vars(part = n /\ Unpack) /\ SF_vars(part = n /\ Copy)
  /\ \A n \in DOMAIN Cmds : SF_vars(c = n /\ Link)
-----------------------------------------------------------------------------
TypeOK ==
  /\ unpacked \in [PartNames -> Contents] /\ tools \in [PartNames -> Contents]
  /\ cmds \in [Cmd -> {"none", "file", "link"}]
  /\ extras \subseteq Extra
  /\ part \in DOMAIN Parts /\ c \in DOMAIN Cmds
  /\ pc \in {"idle", "unpack", "copy", "links", "link", "remove", "extras"}
  /\ success \in BOOLEAN /\ kills \in 0 .. MaxKills

\* When the message is printed, the four archives are on the device in full
\* and the commands lead to busybox, whatever earlier runs failed or were cut
\* off in the middle of.
SetUpWhenPrinted ==
  success =>
    /\ \A p \in PartNames : tools[p] = "full"
    /\ \A cmd \in Cmd : cmds[cmd] = "link"

\* A run that failed or was cut off leaves nothing behind that keeps the runs
\* after it from getting to the end, links to busybox among them.
EventuallySetUp == <>success

\* "有如下打印后表示安装成功" (lycium/CItools/README_zh.md:100): when the message is
\* printed, everything is there.
AllThereWhenPrinted == success => extras = Extra
=============================================================================
