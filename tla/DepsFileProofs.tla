--------------------------- MODULE DepsFileProofs ---------------------------
(***************************************************************************)
(* Theorems about DepsFile, for any number of sessions and dependencies,   *)
(* any bound on the clock and on what is reported.                         *)
(***************************************************************************)
EXTENDS DepsFile, TLAPS

Line == [by : Session, dep : Dep]

\* What is in the file a session at work has, and in what it read.
ContentInv ==
  /\ \A t \in Second : t \notin files => content[t] = <<>>
  /\ \A s \in Session : before[s] \subseteq Over
  /\ \A s \in Session : pc[s] \in {"date", "test", "sleep"} => got[s] = <<>>
  /\ \A s \in Session : Building(s) =>
       \A j \in DOMAIN content[build_time[s]] :
         content[build_time[s]][j].by \notin before[s]
-----------------------------------------------------------------------------
LEMMA AppendFacts ==
  ASSUME NEW S, NEW q \in Seq(S), NEW e \in S
  PROVE  /\ Append(q, e) \in Seq(S)
         /\ \A j \in DOMAIN Append(q, e) :
              \/ Append(q, e)[j] = e
              \/ j \in DOMAIN q /\ Append(q, e)[j] = q[j]
OBVIOUS

LEMMA TypeInit == Init => TypeOK
<1> SUFFICES ASSUME Init PROVE TypeOK
  OBVIOUS
<1>1. 0 \in Second /\ 0 \in 0 .. MaxReports
  BY MaxTimeAssumption, MaxReportsAssumption DEF Second
<1>2. <<>> \in Seq(Line)
  OBVIOUS
<1> QED BY <1>1, <1>2 DEF Init, TypeOK, Line

LEMMA TypeNext == TypeOK /\ [Next]_vars => TypeOK'
<1> SUFFICES ASSUME TypeOK, [Next]_vars PROVE TypeOK'
  OBVIOUS
<1> USE DEF TypeOK, Goto
<1>1. CASE UNCHANGED vars
  BY <1>1 DEF vars
<1>2. CASE Tick
  <2>1. now' \in Second
    BY <1>2, MaxTimeAssumption DEF Tick, Second
  <2> QED BY <1>2, <2>1 DEF Tick
<1>3. ASSUME NEW s \in Session, ReadClock(s) \/ TakeName(s) \/ Wake(s)
      PROVE  TypeOK'
  <2>1. Over \in SUBSET Session
    BY DEF Over
  <2> QED BY <1>3, <2>1 DEF ReadClock, TakeName, Wake, Date, AfterSleep
<1>4. ASSUME NEW s \in Session, NEW d \in Dep, Report(s, d)
      PROVE  TypeOK'
  <2>1. build_time[s] \in Second /\ [by |-> s, dep |-> d] \in [by : Session, dep : Dep]
    OBVIOUS
  <2>2. Append(content[build_time[s]], [by |-> s, dep |-> d]) \in Seq([by : Session, dep : Dep])
    BY <2>1, AppendFacts
  <2>3. reports[s] + 1 \in 0 .. MaxReports
    BY <1>4, MaxReportsAssumption DEF Report
  <2> QED BY <1>4, <2>1, <2>2, <2>3 DEF Report
<1>5. ASSUME NEW s \in Session, ChildExits(s) \/ ReadFile(s) \/ Truncate(s) \/ End(s)
      PROVE  TypeOK'
  <2>1. <<>> \in Seq([by : Session, dep : Dep])
    OBVIOUS
  <2>2. content[build_time[s]] \in Seq([by : Session, dep : Dep])
    OBVIOUS
  <2>3. CASE ChildExits(s) \/ End(s)
    BY <2>3 DEF ChildExits, End
  <2>4. CASE ReadFile(s)
    BY <2>4, <2>2 DEF ReadFile
  <2>5. CASE Truncate(s)
    BY <2>5, <2>1 DEF Truncate, Emptied
  <2> QED BY <1>5, <2>3, <2>4, <2>5
<1> QED
  BY <1>1, <1>2, <1>3, <1>4, <1>5 DEF Next, SessionStep, Ended
-----------------------------------------------------------------------------
LEMMA ContentInit == Init => ContentInv
BY DEF Init, ContentInv, Building

LEMMA ContentNext ==
  TypeOK /\ ContentInv /\ NothingStale /\ [Next]_vars => ContentInv' /\ NothingStale'
<1> SUFFICES ASSUME TypeOK, ContentInv, NothingStale, [Next]_vars
             PROVE  ContentInv' /\ NothingStale'
  OBVIOUS
<1> USE DEF ContentInv, NothingStale, Building, Goto, Over
<1>1. CASE UNCHANGED vars
  BY <1>1 DEF vars
<1>2. CASE Tick
  BY <1>2 DEF Tick
<1>3. ASSUME NEW s \in Session, ReadClock(s) \/ Wake(s)
      PROVE  ContentInv' /\ NothingStale'
  BY <1>3 DEF ReadClock, Wake, AfterSleep, TypeOK
<1>4. ASSUME NEW s \in Session, TakeName(s)
      PROVE  ContentInv' /\ NothingStale'
  <2>1. CASE build_time[s] \in files
    BY <1>4, <2>1 DEF TakeName, Taken, TypeOK
  <2>2. CASE build_time[s] \notin files
    <3>1. build_time[s] \in Second
      BY DEF TypeOK
    <3>2. content[build_time[s]] = <<>> /\ got[s] = <<>>
      BY <1>4, <2>2, <3>1 DEF TakeName
    <3>3. /\ pc' = [pc EXCEPT ![s] = "run"] /\ before' = [before EXCEPT ![s] = Over]
          /\ UNCHANGED <<now, files, content, build_time, reports, got>>
      BY <1>4, <2>2 DEF TakeName, Taken
    <3>4. pc[s] = "test"
      BY <1>4 DEF TakeName
    <3>5. \A t \in Session : t # s => pc'[t] = pc[t] /\ before'[t] = before[t]
      BY <3>3 DEF TypeOK
    <3>6. pc'[s] = "run" /\ before'[s] = Over
      BY <3>3 DEF TypeOK
    <3>7. Over' = Over
      BY <3>4, <3>5, <3>6
    <3>8. \A t \in Session : before'[t] \subseteq Over'
      BY <3>5, <3>6, <3>7
    <3>9. \A t \in Session : Building(t)' => t = s \/ Building(t)
      BY <3>3, <3>5
    <3>10. \A t \in Session : Building(t)' =>
             \A j \in DOMAIN content'[build_time'[t]] :
               content'[build_time'[t]][j].by \notin before'[t]
      <4> SUFFICES ASSUME NEW t \in Session, Building(t)'
                   PROVE  \A j \in DOMAIN content[build_time[t]] :
                            content[build_time[t]][j].by \notin before'[t]
        BY <3>3
      <4>1. CASE t = s
        BY <4>1, <3>2
      <4>2. CASE t # s
        BY <4>2, <3>5, <3>9
      <4> QED BY <4>1, <4>2
    <3>11. NothingStale'
      <4> SUFFICES ASSUME NEW t \in Session
                   PROVE  \A j \in DOMAIN got[t] : got[t][j].by \notin before'[t]
        BY <3>3
      <4> QED BY <3>2, <3>5
    <3>12. \A t \in Session : pc'[t] \in {"date", "test", "sleep"} => got'[t] = <<>>
      BY <3>2, <3>3, <3>5
    <3> QED BY <3>3, <3>8, <3>10, <3>11, <3>12
  <2> QED BY <2>1, <2>2
<1>5. ASSUME NEW s \in Session, NEW d \in Dep, Report(s, d)
      PROVE  ContentInv' /\ NothingStale'
  <2> DEFINE f == build_time[s]
             e == [by |-> s, dep |-> d]
  <2>1. f \in Second /\ pc[s] # "over"
    BY <1>5 DEF Report, TypeOK
  <2>2. /\ content'[f] = Append(content[f], e)
        /\ \A t \in Second : t # f => content'[t] = content[t]
    BY <1>5, <2>1 DEF Report, TypeOK
  <2>3. content[f] \in Seq([by : Session, dep : Dep])
    BY <2>1 DEF TypeOK
  <2>4. \A j \in DOMAIN content'[f] :
          content'[f][j] = e \/ (j \in DOMAIN content[f] /\ content'[f][j] = content[f][j])
    BY <2>2, <2>3, AppendFacts
  <2>5. \A t \in Session : s \notin before[t]
    BY <2>1
  <2>6. /\ pc' = [pc EXCEPT ![s] = "reporting"] /\ files' = files \cup {f}
        /\ pc[s] \in {"run", "reporting"}
        /\ UNCHANGED <<now, build_time, got, before>>
    BY <1>5 DEF Report
  <2>7. /\ Over' = Over
        /\ \A t \in Session : Building(t)' <=> Building(t)
        /\ \A t \in Session : pc[t] \in {"date", "test", "sleep"} <=> pc'[t] \in {"date", "test", "sleep"}
    BY <2>6 DEF TypeOK
  <2>8. \A t \in Session : Building(t) =>
          \A j \in DOMAIN content'[build_time[t]] :
            content'[build_time[t]][j].by \notin before[t]
    <3> SUFFICES ASSUME NEW t \in Session, Building(t),
                        NEW j \in DOMAIN content'[build_time[t]]
                 PROVE  content'[build_time[t]][j].by \notin before[t]
      OBVIOUS
    <3>1. CASE build_time[t] = f
      BY <3>1, <2>4, <2>5
    <3>2. CASE build_time[t] # f
      BY <3>2, <2>2 DEF TypeOK
    <3> QED BY <3>1, <3>2
  <2>9. \A t \in Second : t \notin files' => content'[t] = <<>>
    BY <2>2, <2>6
  <2> QED BY <2>6, <2>7, <2>8, <2>9
<1>6. ASSUME NEW s \in Session, ChildExits(s)
      PROVE  ContentInv' /\ NothingStale'
  BY <1>6 DEF ChildExits, TypeOK
<1>7. ASSUME NEW s \in Session, ReadFile(s)
      PROVE  ContentInv' /\ NothingStale'
  BY <1>7 DEF ReadFile, TypeOK
<1>8. ASSUME NEW s \in Session, Truncate(s)
      PROVE  ContentInv' /\ NothingStale'
  <2>1. /\ pc[s] = "truncate" /\ pc' = [pc EXCEPT ![s] = "run"]
        /\ content' = [content EXCEPT ![build_time[s]] = <<>>]
        /\ UNCHANGED <<now, files, build_time, reports, got, before>>
    BY <1>8 DEF Truncate, Emptied
  <2>2. \A t \in Second : content'[t] = content[t] \/ content'[t] = <<>>
    BY <2>1 DEF TypeOK
  <2>3. /\ Over' = Over
        /\ \A t \in Session : Building(t)' <=> Building(t)
        /\ \A t \in Session : pc[t] \in {"date", "test", "sleep"} <=> pc'[t] \in {"date", "test", "sleep"}
    BY <2>1 DEF TypeOK
  <2>4. \A t \in Session : build_time[t] \in Second
    BY DEF TypeOK
  <2> QED BY <2>1, <2>2, <2>3, <2>4
<1>9. ASSUME NEW s \in Session, End(s)
      PROVE  ContentInv' /\ NothingStale'
  BY <1>9 DEF End, TypeOK
<1> QED
  BY <1>1, <1>2, <1>3, <1>4, <1>5, <1>6, <1>7, <1>8, <1>9 DEF Next, SessionStep, Ended

LEMMA Invariance == Spec => [](TypeOK /\ ContentInv /\ NothingStale)
<1>1. Init => TypeOK /\ ContentInv /\ NothingStale
  BY TypeInit, ContentInit DEF Init, NothingStale
<1>2. TypeOK /\ ContentInv /\ NothingStale /\ [Next]_vars => (TypeOK /\ ContentInv /\ NothingStale)'
  BY TypeNext, ContentNext
<1> QED BY <1>1, <1>2, PTL DEF Spec

\* The clock, the files and the sessions keep their types.
THEOREM TypeCorrect == Spec => []TypeOK
BY Invariance, PTL

\* Whenever sessions start, however many take one name and wherever they are
\* killed: none reads what a session left that was over before it began.
THEOREM ReadsNothingStale == Spec => []NothingStale
BY Invariance, PTL
-----------------------------------------------------------------------------
(* The mailboxes of sessions whose files are different                     *)

mail == [s \in Session |-> Unread(s)]

\* A step of session s that touches only its own file, if any, leaves what is
\* unread by the others.
LEMMA OthersUnread ==
  ASSUME TypeOK, FilesAreDifferent', NEW s \in Session, NEW step,
         pc' = [pc EXCEPT ![s] = step], build_time' = build_time,
         \/ content' = content
         \/ Building(s)' /\ \A t \in Second : t # build_time[s] => content'[t] = content[t]
  PROVE  \A t \in Session : t # s => Unread(t)' = Unread(t)
<1> SUFFICES ASSUME NEW t \in Session, t # s PROVE Unread(t)' = Unread(t)
  OBVIOUS
<1>1. pc'[t] = pc[t] /\ build_time[t] \in Second
  BY DEF TypeOK
<1>2. CASE content' = content
  BY <1>1, <1>2 DEF Unread
<1>3. CASE /\ Building(s)' /\ pc[t] \in {"run", "reporting", "read"}
           /\ \A u \in Second : u # build_time[s] => content'[u] = content[u]
  <2>1. Building(t)'
    BY <1>1, <1>3 DEF Building
  <2>2. build_time[t] # build_time[s]
    BY <1>3, <2>1 DEF FilesAreDifferent
  <2> QED BY <1>1, <1>3, <2>2 DEF Unread
<1>4. CASE pc[t] \notin {"run", "reporting", "read"}
  BY <1>1, <1>4 DEF Unread
<1> QED BY <1>2, <1>3, <1>4

\* What is unread by s is all that changed.
LEMMA MailIs ==
  ASSUME NEW s \in Session, NEW new, Unread(s)' = new,
         \A t \in Session : t # s => Unread(t)' = Unread(t)
  PROVE  mail' = [mail EXCEPT ![s] = new]
BY DEF mail

LEMMA MailSame ==
  ASSUME NEW s \in Session, Unread(s)' = Unread(s),
         \A t \in Session : t # s => Unread(t)' = Unread(t)
  PROVE  mail' = mail
BY DEF mail

LEMMA BoxInit == Init => Box!Init
BY DEF Init, Box!Init, Unread

LEMMA BoxNext ==
  TypeOK /\ ContentInv /\ [Next]_vars => [FilesAreDifferent' => Box!Next]_<<mail, got>>
<1> SUFFICES ASSUME TypeOK, ContentInv, [Next]_vars, FilesAreDifferent'
             PROVE  [Box!Next]_<<mail, got>>
  OBVIOUS
<1>1. CASE UNCHANGED vars
  BY <1>1 DEF vars, mail, Unread
<1>2. CASE Next
  <2> USE <1>2
  <2>1. CASE Tick
    BY <2>1 DEF Tick, mail, Unread
  <2>2. CASE Ended
    BY <2>2 DEF Ended, vars, mail, Unread
  <2>3. ASSUME NEW s \in Session, ReadClock(s)
        PROVE  UNCHANGED <<mail, got>>
    BY <2>3 DEF ReadClock, Goto, mail, Unread, TypeOK
  <2>4. ASSUME NEW s \in Session, Wake(s) \/ ChildExits(s)
        PROVE  UNCHANGED <<mail, got>>
    BY <2>4 DEF Wake, AfterSleep, ChildExits, Goto, mail, Unread, TypeOK
  <2>5. ASSUME NEW s \in Session, TakeName(s)
        PROVE  UNCHANGED <<mail, got>>
    <3>1. pc[s] = "test" /\ UNCHANGED <<content, build_time, got>>
      BY <2>5 DEF TakeName
    <3>2. build_time[s] \in files \/ content[build_time[s]] = <<>>
      BY DEF ContentInv, TypeOK
    <3>3. \/ pc' = [pc EXCEPT ![s] = "sleep"]
          \/ pc' = [pc EXCEPT ![s] = "run"] /\ content[build_time[s]] = <<>>
      BY <2>5, <3>2 DEF TakeName, Taken, Goto
    <3> QED BY <3>1, <3>3 DEF mail, Unread, TypeOK
  <2>6. ASSUME NEW s \in Session, NEW d \in Dep, Report(s, d)
        PROVE  Box!Put(s, d)
    <3>1. /\ pc' = [pc EXCEPT ![s] = "reporting"] /\ pc'[s] = "reporting"
          /\ UNCHANGED <<build_time, got>> /\ pc[s] \in {"run", "reporting"}
          /\ build_time[s] \in Second
      BY <2>6 DEF Report, Goto, TypeOK
    <3>2. /\ content'[build_time[s]] = Append(content[build_time[s]], [by |-> s, dep |-> d])
          /\ \A t \in Second : t # build_time[s] => content'[t] = content[t]
      BY <2>6, <3>1 DEF Report, TypeOK
    <3>3. Unread(s)' = Append(mail[s], [by |-> s, dep |-> d])
      BY <3>1, <3>2 DEF Unread, mail
    <3>4. Building(s)'
      BY <3>1 DEF Building
    <3>5. \A t \in Session : t # s => Unread(t)' = Unread(t)
      BY <3>1, <3>2, <3>4, OthersUnread
    <3>6. mail' = [mail EXCEPT ![s] = Append(mail[s], [by |-> s, dep |-> d])]
      BY <3>3, <3>5, MailIs
    <3> QED BY <3>1, <3>6 DEF Box!Put, mail
  <2>7. ASSUME NEW s \in Session, ReadFile(s)
        PROVE  Box!Take(s)
    <3>1. /\ pc' = [pc EXCEPT ![s] = "truncate"] /\ pc'[s] = "truncate" /\ pc[s] = "read"
          /\ UNCHANGED <<build_time, content>>
          /\ got' = [got EXCEPT ![s] = content[build_time[s]]]
      BY <2>7 DEF ReadFile, Goto, TypeOK
    <3>2. Unread(s)' = <<>> /\ mail[s] = content[build_time[s]]
      BY <3>1 DEF Unread, mail
    <3>3. \A t \in Session : t # s => Unread(t)' = Unread(t)
      BY <3>1, OthersUnread
    <3>4. mail' = [mail EXCEPT ![s] = <<>>]
      BY <3>2, <3>3, MailIs
    <3> QED BY <3>1, <3>2, <3>4 DEF Box!Take, mail
  <2>8. ASSUME NEW s \in Session, Truncate(s)
        PROVE  UNCHANGED <<mail, got>>
    <3>1. /\ pc' = [pc EXCEPT ![s] = "run"] /\ pc'[s] = "run" /\ pc[s] = "truncate"
          /\ UNCHANGED <<build_time, got>> /\ build_time[s] \in Second
      BY <2>8 DEF Truncate, Goto, TypeOK
    <3>2. /\ content'[build_time[s]] = <<>>
          /\ \A t \in Second : t # build_time[s] => content'[t] = content[t]
      BY <2>8, <3>1 DEF Truncate, Emptied, TypeOK
    <3>3. Unread(s)' = Unread(s) /\ Building(s)'
      BY <3>1, <3>2 DEF Unread, Building
    <3>4. \A t \in Session : t # s => Unread(t)' = Unread(t)
      BY <3>1, <3>2, <3>3, OthersUnread
    <3> QED BY <3>1, <3>3, <3>4, MailSame
  <2>9. ASSUME NEW s \in Session, End(s)
        PROVE  Box!Close(s)
    <3>1. /\ pc' = [pc EXCEPT ![s] = "over"] /\ pc'[s] = "over"
          /\ UNCHANGED <<build_time, content, got>>
      BY <2>9 DEF End, Goto, TypeOK
    <3>2. Unread(s)' = <<>>
      BY <3>1 DEF Unread
    <3>3. \A t \in Session : t # s => Unread(t)' = Unread(t)
      BY <3>1, OthersUnread
    <3>4. mail' = [mail EXCEPT ![s] = <<>>]
      BY <3>2, <3>3, MailIs
    <3> QED BY <3>1, <3>4 DEF Box!Close, mail
  <2> QED
    BY <2>1, <2>2, <2>3, <2>4, <2>5, <2>6, <2>7, <2>8, <2>9
    DEF Next, SessionStep, Box!Next
<1> QED BY <1>1, <1>2

\* For any number of sessions, while those at work have different files: the
\* file is a mailbox for each, from which a session takes every name its
\* children left there, once, and no other's.
THEOREM FileIsMailbox == Spec => ImplementsMailbox
<1>1. TypeOK /\ ContentInv /\ [Next]_vars
        => [FilesAreDifferent' => Box!Next]_<<[s \in Session |-> Unread(s)], got>>
  BY BoxNext DEF mail
<1> QED BY <1>1, BoxInit, Invariance, PTL DEF Spec, ImplementsMailbox
=============================================================================
