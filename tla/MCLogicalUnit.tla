--------------------------- MODULE MCLogicalUnit ---------------------------
(* Numbers and symmetry for the model checking of LogicalUnit.              *)
EXTENDS LogicalUnit, TLC

TwoNumbers == <<19, 20>>
Holders    == Permutations(Handles)
=============================================================================
