----------------------------- MODULE MCArchLoop -----------------------------
(***************************************************************************)
(* Small instances of ArchLoop: the two architectures of the repository.   *)
(***************************************************************************)
EXTENDS ArchLoop

CONSTANTS v7, v8

MCArch == <<v7, v8>>

Resets == {"package", "check", "recoverpkgbuildenv", "none"}

AllKinds ==
  [archs : {<<v7, v8>>, <<v8>>}, select : {"name", "position"}, reset : Resets,
   copies : BOOLEAN, cleans : BOOLEAN]
=============================================================================
