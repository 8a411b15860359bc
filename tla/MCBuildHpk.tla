----------------------------- MODULE MCBuildHpk -----------------------------
(***************************************************************************)
(* Small instances of BuildHpk.  Packages are model values; x is a name    *)
(* without a directory, as libusb is for cups.                             *)
(***************************************************************************)
EXTENDS BuildHpk, SequencesExt

CONSTANTS a, b, c, d, e, x

MCPkg == {a, b, c, x}
MCHpkDirs == {a, b, c}

\* Every dependency graph on a, b and c, in which a may also depend on x, or
\* on itself.
MCCatalogs ==
  { (a :> SetToSeq(A)) @@ (b :> SetToSeq(B)) @@ (c :> SetToSeq(C)) @@ (x :> <<>>) :
      A \in SUBSET {b, c, x} \cup {{a}}, B \in SUBSET {a, c}, C \in SUBSET {a, b} }

\* One package, some in both orders, all, a name without a directory, and a
\* package named twice.
MCJobLists ==
  { <<a>>, <<b>>, <<a, b>>, <<b, a>>, <<b, c>>, <<x, a>>, <<c, b, a>>,
    <<a, b, a>> }

\* Nothing built before; one library in two architectures; two libraries in
\* several, the rows of one split by the other's, as an interrupted session
\* that is run again leaves them.
MCCsvFiles == { <<>>, <<b, b>>, <<c, x, c>> }

\* build.sh without arguments: every directory, in the order of their names,
\* x being one without an HPKBUILD.
AllJobLists == { <<a, b, c, x>>, <<b, x, c, a>>, <<c, a, b>> }

-----------------------------------------------------------------------------
\* A deeper graph: a needs b, b needs c and d, and c needs e.
DeepPkg == {a, b, c, d, e}
DeepCatalogs ==
  { (a :> <<b>>) @@ (b :> <<c, d>>) @@ (c :> <<e>>) @@ (d :> <<>>) @@ (e :> <<>>) }
DeepJobLists == { <<a, b>> }
NoCsv == { <<>> }
=============================================================================
