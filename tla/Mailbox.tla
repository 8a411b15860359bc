------------------------------ MODULE Mailbox ------------------------------
(***************************************************************************)
(* What lycium/build.sh needs of the file LYCIUM_DEPEND_PKGNAMES: a place  *)
(* of its own for each session, where its child leaves the names of the    *)
(* missing dependencies, and from where the session takes every name that  *)
(* was left there and no other, each once.  DepsFile is the file.          *)
(***************************************************************************)
EXTENDS Sequences

CONSTANTS Session, Dep

VARIABLES
  box,      \* box[s]: the names left for s and not taken yet
  got       \* got[s]: what s took last

Init ==
  /\ box = [s \in Session |-> <<>>]
  /\ got = [s \in Session |-> <<>>]

Put(s, d) ==
  /\ box' = [box EXCEPT ![s] = Append(@, [by |-> s, dep |-> d])]
  /\ UNCHANGED got

Take(s) ==
  /\ got' = [got EXCEPT ![s] = box[s]]
  /\ box' = [box EXCEPT ![s] = <<>>]

\* What is left when a session ends is nobody's.
Close(s) ==
  /\ box' = [box EXCEPT ![s] = <<>>]
  /\ UNCHANGED got

Next == \E s \in Session : Take(s) \/ Close(s) \/ \E d \in Dep : Put(s, d)

Spec == Init /\ [][Next]_<<box, got>>
=============================================================================
