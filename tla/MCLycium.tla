------------------------------ MODULE MCLycium ------------------------------
(***************************************************************************)
(* A package a, for two architectures, and one that depends on it, for one *)
(* of them: b, or r, whose pkgname is not the name of its directory.       *)
(***************************************************************************)
EXTENDS Lycium, TLC

CONSTANTS a, b, r, v7, v8

TwoPkgs == {a, b}

WithRenamed == {a, r}

TwoDepends == a :> {} @@ b :> {a}

RenamedDepends == a :> {} @@ r :> {a}

TwoArchs == a :> <<v7, v8>> @@ b :> <<v8>>

RenamedArchs == a :> <<v7, v8>> @@ r :> <<v8>>

Symmetry == Permutations(Session)
=============================================================================
