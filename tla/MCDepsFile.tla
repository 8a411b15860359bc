----------------------------- MODULE MCDepsFile -----------------------------
(***************************************************************************)
(* Small instances of DepsFile.                                            *)
(***************************************************************************)
EXTENDS DepsFile

CONSTANTS s1, s2, d

Two == {s1, s2}
MCDep == {d}
=============================================================================
