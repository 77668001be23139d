-------------------------- MODULE MCMacOwnership --------------------------
(***************************************************************************)
(* Small instances of MacOwnership: commands are interchangeable, and so   *)
(* are the signals, so the safety run uses both as symmetry sets.          *)
(***************************************************************************)
EXTENDS MacOwnership, TLC

Symmetry == Permutations(Callers) \union Permutations(Signals)
=============================================================================
