----------------------------- MODULE BuildOrder -----------------------------
(***************************************************************************)
(* What lycium/build.sh promises of one session, with none of how it does  *)
(* it: the packages it is asked for, and the dependencies it finds it      *)
(* needs, are built, each after all of its dependencies; a package whose   *)
(* build fails is given up; and the session ends only when nothing it      *)
(* still wants could be built, with a verdict that says whether all it     *)
(* wanted is there.  BuildHpk is the detailed specification that           *)
(* implements this one.                                                    *)
(***************************************************************************)
CONSTANT Pkg    \* the names of packages

VARIABLES
  deps,         \* deps[p]: the packages p needs built before it
  requested,    \* the packages the session is asked for
  wanted,       \* the packages the session has taken on
  built,        \* the packages built, in this session or before it
  broken,       \* the packages given up because their build failed
  verdict       \* "none" until the session ends

vars == <<deps, requested, wanted, built, broken, verdict>>

Outstanding == wanted \ (built \cup broken)

Init ==
  /\ deps \in [Pkg -> SUBSET Pkg]
  /\ requested \in SUBSET Pkg
  /\ built \in SUBSET Pkg
  /\ wanted = {}
  /\ broken = {}
  /\ verdict = "none"

\* A package is taken on because it was asked for or because a package
\* still to be built depends on it.
Want(p) ==
  /\ verdict = "none"
  /\ p \notin wanted \cup built
  /\ \/ p \in requested
     \/ \E q \in Outstanding : p \in deps[q]
  /\ wanted' = wanted \cup {p}
  /\ UNCHANGED <<deps, requested, built, broken, verdict>>

Build(p) ==
  /\ verdict = "none"
  /\ p \in Outstanding
  /\ deps[p] \subseteq built
  /\ built' = built \cup {p}
  /\ UNCHANGED <<deps, requested, wanted, broken, verdict>>

Break(p) ==
  /\ verdict = "none"
  /\ p \in Outstanding
  /\ broken' = broken \cup {p}
  /\ UNCHANGED <<deps, requested, wanted, built, verdict>>

\* The session gives up only what it could not build.
Finish ==
  /\ verdict = "none"
  /\ \A p \in Outstanding : ~ (deps[p] \subseteq built)
  /\ verdict' = IF wanted \subseteq built THEN "success" ELSE "failure"
  /\ UNCHANGED <<deps, requested, wanted, built, broken>>

Next == (\E p \in Pkg : Want(p) \/ Build(p) \/ Break(p)) \/ Finish

Spec == Init /\ [][Next]_vars
=============================================================================
