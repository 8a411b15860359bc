---------------------------- MODULE MCHpkPackage ----------------------------
(***************************************************************************)
(* Small instances of HpkPackage.                                          *)
(***************************************************************************)
EXTENDS HpkPackage

CONSTANTS v7, v8

MCArch == {v7, v8}

\* One or two architectures, from an archive or a clone, with and without
\* SHA512SUM and status.
AllKinds ==
  [archs : {<<v8>>, <<v7, v8>>}, source : {"archive", "unpacks", "clone"}, sum : BOOLEAN, checked : BOOLEAN]

\* As careful as a package can be, for two architectures.
CarefulKind == {[archs |-> <<v7, v8>>, source |-> "archive", sum |-> TRUE, checked |-> TRUE]}
=============================================================================
