------------------------------ MODULE JvNames ------------------------------
(***************************************************************************)
(* What the catalogue of JEVEUX promises: a name is registered once, in    *)
(* one base, under an identifier that no other name of that base has; it   *)
(* keeps them until it is forgotten, whatever is registered or forgotten   *)
(* meanwhile. The values, the addresses and the marks of an object are     *)
(* found by its identifier: to lose or to exchange one is to lose the      *)
(* object.                                                                 *)
(*                                                                         *)
(* JvCatalog.tla implements this module.                                   *)
(***************************************************************************)
CONSTANTS Names,        \* names of objects
          Bases,        \* the bases open
          Idents,       \* identifiers: positions in the tables of a base
          Unknown       \* no place

VARIABLE reg            \* reg[n]: base and identifier of n, or Unknown

Init == reg = [n \in Names |-> Unknown]

Register(n) == /\ reg[n] = Unknown
               /\ \E p \in Bases \X Idents :
                     /\ \A m \in Names : reg[m] # p
                     /\ reg' = [reg EXCEPT ![n] = p]

Forget(n) == /\ reg[n] # Unknown
             /\ reg' = [reg EXCEPT ![n] = Unknown]

Next == \E n \in Names : Register(n) \/ Forget(n)

Spec == Init /\ [][Next]_reg
=============================================================================
