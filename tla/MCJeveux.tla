------------------------------ MODULE MCJeveux ------------------------------
(* Values of the constants of Jeveux for TLC.                               *)
EXTENDS Jeveux, TLC

CONSTANTS g1, g2, v1, Data

MCSize == [o \in Objects |-> IF o = v1 THEN 2 ELSE 1]
Sym == Permutations({g1, g2})
=============================================================================
