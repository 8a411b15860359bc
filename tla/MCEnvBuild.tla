----------------------------- MODULE MCEnvBuild -----------------------------
(***************************************************************************)
(* Small instances of EnvBuild: two of the four commands, two of the four  *)
(* copies nobody checks.                                                   *)
(***************************************************************************)
EXTENDS EnvBuild

CONSTANTS awk, expr, ctest, sed

MCCmds == <<expr, awk>>
MCExtra == {ctest, sed}
=============================================================================
