---------------------------- MODULE Installation ----------------------------
(***************************************************************************)
(* What lycium promises of one package and of the two things it leaves     *)
(* under usr/, the files and the rows of hpk_build.csv: the architectures  *)
(* are installed and recorded one after another in the order of archs,     *)
(* each is recorded only when it is installed in full, what is recorded is *)
(* never written to again, and a package is built anew only as long as it  *)
(* has no row.  A build may stop anywhere, and leave the architecture it   *)
(* was at half installed.                                                  *)
(*                                                                         *)
(* Two modules implement it: HpkPackage, whose runs do all the script      *)
(* does, and Lycium, whose sessions take their turns at many packages.     *)
(***************************************************************************)
EXTENDS Integers, Sequences, Functions

VARIABLES
  archs,      \* the architectures of the package, which never change
  usr,        \* usr[a]: what is installed, "none", "partial" or "full"
  rows,       \* the architectures that have a row
  building    \* a build of the package is under way

vars == <<archs, usr, rows, building>>

Init ==
  /\ usr = [a \in Range(archs) |-> "none"]
  /\ rows = {}
  /\ building = FALSE

\* The first architecture without a row.
Due(a) ==
  /\ a \in Range(archs) \ rows
  /\ \A m, n \in DOMAIN archs : m < n /\ archs[n] = a => archs[m] \in rows

Begin ==
  /\ ~ building /\ rows = {}
  /\ building' = TRUE
  /\ UNCHANGED <<archs, usr, rows>>

Install(a) ==
  /\ building /\ Due(a)
  /\ usr' = [usr EXCEPT ![a] = "full"]
  /\ UNCHANGED <<archs, rows, building>>

\* The build is over when the last architecture is recorded.
Record(a) ==
  /\ building /\ Due(a) /\ usr[a] = "full"
  /\ rows' = rows \cup {a}
  /\ building' = (rows' # Range(archs))
  /\ UNCHANGED <<archs, usr>>

Stop ==
  /\ building /\ building' = FALSE
  /\ \/ usr' = usr
     \/ \E a \in Range(archs) : Due(a) /\ usr' = [usr EXCEPT ![a] = "partial"]
  /\ UNCHANGED <<archs, rows>>

Next == Begin \/ Stop \/ \E a \in Range(archs) : Install(a) \/ Record(a)

Spec == Init /\ [][Next]_vars
=============================================================================
