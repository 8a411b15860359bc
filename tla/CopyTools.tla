----------------------------- MODULE CopyTools -----------------------------
(***************************************************************************)
(* copytools of lycium/build.sh: sessions on one checkout and one SDK, at  *)
(* the same time or one after another, each of which copies the compiler   *)
(* wrappers of Buildtools into the SDK unless the first of them is there.  *)
(* They unpack into one directory, which each removes when it is through.  *)
(*                                                                         *)
(* Nothing here is atomic: tar removes a file that is there and writes it  *)
(* anew, cp empties its target before it fills it, rm takes one file after *)
(* another.  The wrappers have some 190 bytes, so each is written at once. *)
(* No status is looked at: a tar or a cp that fails, as one that is cut    *)
(* off, leaves part of the wrappers, and a session goes on to build.       *)
(***************************************************************************)
EXTENDS Integers

CONSTANTS
  Session,    \* names of sessions
  Tool,       \* the wrappers, which tar, cp and rm take in any order
  Probed,     \* the one that is looked for
  MaxFaults   \* bound on what fails or is killed

ASSUME ToolAssumption == Probed \in Tool
ASSUME SessionAssumption == Session \cap {"none", "whole"} = {}
ASSUME MaxFaultsAssumption == MaxFaults \in Nat

VARIABLES
  sdk,          \* the wrappers in the SDK: "none", "partial" or "whole"
  toolchain,    \* those in the directory toolchain: "none", "whole", or the
                \*   session that began to write it
  pc,           \* pc[s]: the step session s is at
  todo,         \* todo[s]: the wrappers its tar, cp or rm has still to take
  tool,         \* tool[s]: the one it is at
  undisturbed,  \* the sessions that copied, or do so, with nothing failing and
                \*   no other session at it; no code reads it
  faults        \* how much failed or was killed

vars == <<sdk, toolchain, pc, todo, tool, undisturbed, faults>>

Copying == {"tar", "create", "write", "cp", "fill", "rm"}
Copiers == {s \in Session : pc[s] \in Copying}

Init ==
  /\ sdk = [f \in Tool |-> "none"] /\ toolchain = [f \in Tool |-> "none"]
  /\ pc = [s \in Session |-> "start"]
  /\ todo = [s \in Session |-> {}] /\ tool = [s \in Session |-> Probed]
  /\ undisturbed = {} /\ faults = 0

(***************************************************************************)
(* A mutated form of a definition that follows: it breaks the property its *)
(* comment names, and no specification uses it.                            *)
(***************************************************************************)
\* OwnCopyIsComplete: cp -n, which leaves what is in the SDK as it is.
ListedAndNew == {f \in Tool : toolchain[f] # "none" /\ sdk[f] = "none"}
-----------------------------------------------------------------------------
Goto(s, step) == pc' = [pc EXCEPT ![s] = step]
Todo(s, files) == todo' = [todo EXCEPT ![s] = files]

\* The command takes another of the files it has to.
Take(s, f) == f \in todo[s] /\ tool' = [tool EXCEPT ![s] = f] /\ Todo(s, todo[s] \ {f})

\* [ -e $OHOS_SDK/native/llvm/bin/aarch64-linux-ohos-clang ], be it half written.
AlreadyThere == sdk[Probed] # "none"

Probe(s) ==
  /\ pc[s] = "start"
  /\ IF AlreadyThere
     THEN Goto(s, "build") /\ UNCHANGED <<todo, undisturbed>>
     ELSE /\ Goto(s, "tar") /\ Todo(s, Tool)
          /\ undisturbed' = IF Copiers = {} THEN undisturbed \cup {s} ELSE undisturbed \ Copiers
  /\ UNCHANGED <<sdk, toolchain, tool, faults>>

\* tar removes the file of that name, if there is one.
TarUnlink(s) ==
  /\ pc[s] = "tar" /\ Goto(s, "create")
  /\ \E f \in todo[s] : Take(s, f) /\ toolchain' = [toolchain EXCEPT ![f] = "none"]
  /\ UNCHANGED <<sdk, undisturbed, faults>>

\* It creates another, and removes what has come there in the meantime.
TarCreate(s) ==
  /\ pc[s] = "create" /\ Goto(s, "write")
  /\ toolchain' = [toolchain EXCEPT ![tool[s]] = s]
  /\ UNCHANGED <<sdk, todo, tool, undisturbed, faults>>

\* It writes to the file it created, whether or not that is in the directory.
TarWrite(s) ==
  /\ pc[s] = "write" /\ Goto(s, "tar")
  /\ toolchain' = [toolchain EXCEPT ![tool[s]] = IF @ = s THEN "whole" ELSE @]
  /\ UNCHANGED <<sdk, todo, tool, undisturbed, faults>>

Present == {f \in Tool : toolchain[f] # "none"}

\* toolchain/* as the shell expands it.
Listed == Present

Expand(s) ==
  /\ pc[s] = "tar" /\ todo[s] = {}
  /\ Todo(s, Listed) /\ Goto(s, "cp")
  /\ UNCHANGED <<sdk, toolchain, tool, undisturbed, faults>>

\* cp opens a file of the list and empties its target; it complains about a
\* file that is gone and goes on.
CpOpen(s) ==
  /\ pc[s] = "cp"
  /\ \E f \in todo[s] :
       /\ Take(s, f)
       /\ IF toolchain[f] = "none"
          THEN UNCHANGED <<sdk, pc>>
          ELSE sdk' = [sdk EXCEPT ![f] = "partial"] /\ Goto(s, "fill")
  /\ UNCHANGED <<toolchain, undisturbed, faults>>

\* It fills the target with what it reads.  From a file that others removed or
\* were writing in the meantime it has got all or part, and what it writes
\* over a whole wrapper is part of the same bytes.
CpFill(s) ==
  /\ pc[s] = "fill" /\ Goto(s, "cp")
  /\ \/ sdk' = [sdk EXCEPT ![tool[s]] = "whole"]
     \/ toolchain[tool[s]] # "whole" /\ sdk' = sdk
  /\ UNCHANGED <<toolchain, todo, tool, undisturbed, faults>>

\* rm -rf toolchain: it reads the directory, and removes what it found there.
RmOpen(s) ==
  /\ pc[s] = "cp" /\ todo[s] = {}
  /\ Todo(s, Present) /\ Goto(s, "rm")
  /\ UNCHANGED <<sdk, toolchain, tool, undisturbed, faults>>

RmUnlink(s) ==
  /\ pc[s] = "rm"
  /\ \E f \in todo[s] : Take(s, f) /\ toolchain' = [toolchain EXCEPT ![f] = "none"]
  /\ UNCHANGED <<sdk, pc, undisturbed, faults>>

\* The session goes on to build.
Copied(s) ==
  /\ pc[s] = "rm" /\ todo[s] = {} /\ Goto(s, "build")
  /\ UNCHANGED <<sdk, toolchain, todo, tool, undisturbed, faults>>

\* The command of a step.
Command(step) == CASE step \in {"tar", "create", "write"} -> "tar"
                   [] step \in {"cp", "fill"} -> "cp"
                   [] OTHER -> "rm"

Fault(s) ==
  /\ pc[s] \in Copying /\ faults < MaxFaults
  /\ faults' = faults + 1 /\ undisturbed' = undisturbed \ {s}

\* The command fails at the file it is at, and at none, some or all of those
\* it has still to take.
CommandFails(s) ==
  /\ Fault(s) /\ Goto(s, Command(pc[s]))
  /\ \E rest \in SUBSET todo[s] : Todo(s, rest)
  /\ UNCHANGED <<sdk, toolchain, tool>>

Kill(s) ==
  /\ Fault(s) /\ Goto(s, "killed") /\ Todo(s, {})
  /\ UNCHANGED <<sdk, toolchain, tool>>

SessionStep(s) ==
  \/ Probe(s)
  \/ TarUnlink(s) \/ TarCreate(s) \/ TarWrite(s) \/ Expand(s)
  \/ CpOpen(s) \/ CpFill(s) \/ RmOpen(s) \/ RmUnlink(s) \/ Copied(s)
  \/ CommandFails(s) \/ Kill(s)

Ended == (\A s \in Session : pc[s] \in {"build", "killed"}) /\ UNCHANGED vars

Next == (\E s \in Session : SessionStep(s)) \/ Ended

Spec == Init /\ [][Next]_vars
-----------------------------------------------------------------------------
TypeOK ==
  /\ sdk \in [Tool -> {"none", "partial", "whole"}]
  /\ toolchain \in [Tool -> {"none", "whole"} \cup Session]
  /\ pc \in [Session -> Copying \cup {"start", "build", "killed"}]
  /\ todo \in [Session -> SUBSET Tool] /\ tool \in [Session -> Tool]
  /\ undisturbed \subseteq Session /\ faults \in 0 .. MaxFaults

\* A session that copies the wrappers while no other does, and of which nothing
\* fails, has them all from then on, in full, and so has every later one:
\* whatever sessions that failed, were killed, or got into each other's way
\* have left in the directory and in the SDK.
OwnCopyIsComplete ==
  \A s \in undisturbed : pc[s] = "build" => \A f \in Tool : sdk[f] = "whole"

\* "在使用`lycium`工具前，需要将这些编译命令拷贝到SDK对应的目录下" 
\* (lycium/Buildtools/README.md:31): a session builds with all the wrappers in the SDK.
BuildsWithAllTools ==
  \A s \in Session : pc[s] = "build" => \A f \in Tool : sdk[f] = "whole"
=============================================================================
