------------------------ MODULE MCProcessOwnership ------------------------
(***************************************************************************)
(* Small instances of ProcessOwnership: console events and handle values   *)
(* are interchangeable, so safety runs use both as symmetry sets.          *)
(***************************************************************************)
EXTENDS ProcessOwnership, TLC

Symmetry == Permutations(Handlers) \union Permutations(Handles)
=============================================================================
