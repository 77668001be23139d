------------------------ MODULE MCCapabilityCommand ------------------------
(* Constants for model checking CapabilityCommand. *)
EXTENDS CapabilityCommand, TLC

CONSTANTS d1, d2, d3, a1, a2, a3, a4

ThreeScanners == (d1 :> "m1") @@ (d2 :> "m1") @@ (d3 :> "m2")
OneDevice == d1 :> "m1"
Addresses == {a1, a2, a3, a4}
Symmetry == Permutations(Addresses) \cup Permutations({d1, d2})
MCTotalBudget == [c \in Budgeted |-> 3]
MCHostCeiling == [c \in Budgeted |-> 5]

\* Bounds of the run: at most one scanner is off, and a list that names scanners leaves at
\* most one out.
MostAreOn == Cardinality(Present) >= 2
FewMissing == Listing = {} \/ Cardinality(Present \ Listing) <= 1
=============================================================================
