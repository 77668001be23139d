--------------------------- MODULE MCScanCommand ---------------------------
(* Constants for model checking ScanCommand. *)
EXTENDS ScanCommand, TLC

CONSTANTS d1, d2, a1, a2, a3

TwoModels == (d1 :> "m1") @@ (d2 :> "m2")
OneDevice == d1 :> "m1"
Addresses == {a1, a2, a3}
Symmetry == Permutations(Addresses)
Bracketing == <<"sample1", "sample2">>
MCTotalBudget == [c \in Budgeted |-> 3]
MCHostCeiling == [c \in Budgeted |-> 5]
=============================================================================
