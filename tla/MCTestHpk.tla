----------------------------- MODULE MCTestHpk -----------------------------
(***************************************************************************)
(* Small instances of TestHpk.                                             *)
(***************************************************************************)
EXTENDS TestHpk

CONSTANTS a, b, c

MCLib == {a, b, c}

\* A package with a test, and what can be different about one.
Plain == [check |-> TRUE, prepares |-> FALSE, usr |-> TRUE, built |-> TRUE, returns |-> TRUE]
Prepares == [Plain EXCEPT !.prepares = TRUE]
Untested == [Plain EXCEPT !.check = FALSE]
\* usr/ has it, for the other architecture or because its build broke off.
NotBuilt == [Plain EXCEPT !.built = FALSE, !.prepares = TRUE]
\* Its test does not come back when it fails, as that of libffi.
StaysAway == [Plain EXCEPT !.returns = FALSE]

AllKinds == {Plain, Prepares, Untested, NotBuilt, StaysAway, [Untested EXCEPT !.usr = FALSE]}

\* All there is, one named twice, some named.
AllLists == {<<a, b, c>>, <<b, a, b>>, <<c>>, <<>>}
=============================================================================
