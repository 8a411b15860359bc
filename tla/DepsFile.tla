------------------------------ MODULE DepsFile ------------------------------
(***************************************************************************)
(* The file /tmp/$USER-lycium_deps-<second>, in which build_hpk.sh leaves  *)
(* the names of missing dependencies to the build.sh that runs it, for     *)
(* several sessions of one user at the same time or one after another.     *)
(*                                                                         *)
(* A session takes the second it starts in for the name, unless there is   *)
(* such a file already; but the file comes into being only when a child    *)
(* first appends to it.  Nobody removes it.  A session that is killed is   *)
(* killed with its child.                                                  *)
(***************************************************************************)
EXTENDS Integers, Sequences, FiniteSets

CONSTANTS
  Session,      \* names of sessions
  Dep,          \* names of dependencies
  MaxTime,      \* bound on the clock
  MaxReports    \* bound on the names a session's children report

ASSUME MaxTimeAssumption == MaxTime \in Nat
ASSUME MaxReportsAssumption == MaxReports \in Nat

VARIABLES
  now,          \* date +%s
  files,        \* the seconds that are the name of a file
  content,      \* content[t]: the lines of that file, with the session of each
  pc,           \* pc[s]: the step session s is at
  build_time,   \* build_time[s]: what date said last
  reports,      \* reports[s]: how many names its children reported
  got,          \* got[s]: what it read last
  before        \* before[s]: the sessions over when it took its name

vars == <<now, files, content, pc, build_time, reports, got, before>>

Second == 0 .. MaxTime
Building(s) == pc[s] \in {"run", "reporting", "read", "truncate"}

Init ==
  /\ now = 0 /\ files = {}
  /\ content = [t \in Second |-> <<>>]
  /\ pc = [s \in Session |-> "date"]
  /\ build_time = [s \in Session |-> 0]
  /\ reports = [s \in Session |-> 0]
  /\ got = [s \in Session |-> <<>>]
  /\ before = [s \in Session |-> {}]

(***************************************************************************)
(* Mutated forms of the definitions that follow: each breaks the property  *)
(* its comment names, and no specification uses it.                        *)
(***************************************************************************)
\* NothingStale: the file is not looked for.
NeverTaken(t) == FALSE
\* ImplementsMailbox: the file is not emptied after it was read.
LeftFull(t) == content[t]
\* EventuallyNamed: date is called before the loop only.
SameNameAgain == "test"
\* TypeOK: a session takes the second after this one.
NextSecond(s) == now + 1
-----------------------------------------------------------------------------
Goto(s, step) == pc' = [pc EXCEPT ![s] = step]

\* [ -f $depend_tmp_file ]
Taken(t) == t \in files

Tick ==
  /\ now < MaxTime /\ now' = now + 1
  /\ UNCHANGED <<files, content, pc, build_time, reports, got, before>>

\* What date says, and what the session remembers of it.
Date(s) == now

ReadClock(s) ==
  /\ pc[s] = "date" /\ Goto(s, "test")
  /\ build_time' = [build_time EXCEPT ![s] = Date(s)]
  /\ UNCHANGED <<now, files, content, reports, got, before>>

Over == {s \in Session : pc[s] = "over"}

TakeName(s) ==
  /\ pc[s] = "test"
  /\ IF Taken(build_time[s])
     THEN Goto(s, "sleep") /\ UNCHANGED before
     ELSE Goto(s, "run") /\ before' = [before EXCEPT ![s] = Over]
  /\ UNCHANGED <<now, files, content, build_time, reports, got>>

AfterSleep == "date"

\* sleep 2, which takes two seconds or more.
Wake(s) ==
  /\ pc[s] = "sleep" /\ now >= build_time[s] + 2
  /\ Goto(s, AfterSleep)
  /\ UNCHANGED <<now, files, content, build_time, reports, got, before>>

\* echo $dep >> the file, by the child, which makes it if it is not there.
Report(s, d) ==
  /\ pc[s] \in {"run", "reporting"} /\ reports[s] < MaxReports
  /\ files' = files \cup {build_time[s]}
  /\ content' = [content EXCEPT ![build_time[s]] = Append(@, [by |-> s, dep |-> d])]
  /\ reports' = [reports EXCEPT ![s] = @ + 1]
  /\ Goto(s, "reporting")
  /\ UNCHANGED <<now, build_time, got, before>>

\* The child has ended with 101.
ChildExits(s) ==
  /\ pc[s] = "reporting" /\ Goto(s, "read")
  /\ UNCHANGED <<now, files, content, build_time, reports, got, before>>

\* `cat ${LYCIUM_DEPEND_PKGNAMES}`, the words of the loop.
ReadFile(s) ==
  /\ pc[s] = "read" /\ Goto(s, "truncate")
  /\ got' = [got EXCEPT ![s] = content[build_time[s]]]
  /\ UNCHANGED <<now, files, content, build_time, reports, before>>

Emptied(t) == <<>>

\* echo > ${LYCIUM_DEPEND_PKGNAMES}, after the loop.
Truncate(s) ==
  /\ pc[s] = "truncate" /\ Goto(s, "run")
  /\ content' = [content EXCEPT ![build_time[s]] = Emptied(build_time[s])]
  /\ UNCHANGED <<now, files, build_time, reports, got, before>>

\* The rounds are over, or the session is killed, wherever it is.
End(s) ==
  /\ pc[s] # "over" /\ Goto(s, "over")
  /\ UNCHANGED <<now, files, content, build_time, reports, got, before>>

SessionStep(s) ==
  \/ ReadClock(s) \/ TakeName(s) \/ Wake(s)
  \/ (\E d \in Dep : Report(s, d)) \/ ChildExits(s)
  \/ ReadFile(s) \/ Truncate(s)

Ended == Over = Session /\ now = MaxTime /\ UNCHANGED vars

Next == Tick \/ (\E s \in Session : SessionStep(s) \/ End(s)) \/ Ended

Spec == Init /\ [][Next]_vars

\* "杜绝重复的，依赖库暂存文件" (build.sh:55): no two sessions at work have the same
\* file.
FilesAreDifferent ==
  \A s, t \in Session : s # t /\ Building(s) /\ Building(t) => build_time[s] # build_time[t]

\* The clock goes on, and so does a session.
FairSpec ==
  Spec /\ WF_vars(Tick) /\ \A s \in Session : WF_vars(SessionStep(s))
-----------------------------------------------------------------------------
TypeOK ==
  /\ now \in Second /\ files \subseteq Second
  /\ content \in [Second -> Seq([by : Session, dep : Dep])]
  /\ pc \in [Session -> {"date", "test", "sleep", "run", "reporting", "read", "truncate", "over"}]
  /\ build_time \in [Session -> Second]
  /\ reports \in [Session -> 0 .. MaxReports]
  /\ got \in [Session -> Seq([by : Session, dep : Dep])]
  /\ before \in [Session -> SUBSET Session]

\* What a session reads was never left by one that was over when it took its
\* name, killed with names in its file perhaps: files are not removed, but no
\* session takes the name of one.
NothingStale ==
  \A s \in Session : \A j \in DOMAIN got[s] : got[s][j].by \notin before[s]

\* The names left for a session and not read yet.
Unread(s) ==
  IF pc[s] \in {"run", "reporting", "read"} THEN content[build_time[s]] ELSE <<>>

\* While the sessions at work have different files, each has a mailbox: it
\* reads every name its children reported, once, and no step of another takes
\* one from it or adds one to it.
Box == INSTANCE Mailbox WITH box <- [s \in Session |-> Unread(s)]
ImplementsMailbox ==
  Box!Init /\ [][FilesAreDifferent' => Box!Next]_<<[s \in Session |-> Unread(s)], got>>

\* A session whose name is taken tries again later with another, and finds one
\* for itself, unless that is later than the bound on the clock.
OutOfTime(s) == pc[s] = "sleep" /\ build_time[s] + 2 > MaxTime
EventuallyNamed == \A s \in Session : <>(Building(s) \/ pc[s] = "over" \/ OutOfTime(s))
=============================================================================
