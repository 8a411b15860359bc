---------------------------- MODULE MCCopyTools ----------------------------
(***************************************************************************)
(* Small instances of CopyTools: two of the four wrappers, the one that is *)
(* looked for and another.                                                 *)
(***************************************************************************)
EXTENDS CopyTools, TLC

CONSTANTS clang64, clangxx64, s1, s2, s3

MCTool == {clang64, clangxx64}
Three == {s1, s2, s3}

Symmetry == Permutations(Three)
=============================================================================
