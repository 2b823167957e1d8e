------------------------------ MODULE MCJxDisk ------------------------------
(* Lengths for the model checking of JxDisk: words of two bytes, records of *)
(* sixteen words. Two small objects fill a record; the big one, of twenty   *)
(* words, takes two.                                                        *)
EXTENDS JxDisk, TLC

CONSTANTS p1, p2, gros

UserLso == p1 :> 3 @@ p2 :> 3 @@ gros :> 40
Sym == {f @@ g : f \in Permutations({p1, p2}), g \in Permutations(Values)}
Lengths == [o \in Objects |-> IF o = Usadi THEN 20 ELSE IF o = Acce THEN 5 ELSE UserLso[o]]
=============================================================================
