----------------------------- MODULE MCAdapters -----------------------------
(* Constants for model checking Adapters. *)
EXTENDS Adapters, TLC

Symmetry == Permutations(Adapter) \cup Permutations(Key)
=============================================================================
