----------------------------- MODULE MCMpiCheck -----------------------------
(* Programs and sub-communicators for the model checking of MpiCheck.       *)
EXTENDS MpiCheck

NoSub   == [r \in Ranks |-> Ranks]
Pairs   == [r \in Ranks |-> IF r < 2 THEN {0, 1} ELSE {2, 3}]
Second  == {<<c, k>> \in (1..Cmds) \X (1..Colls) : k = 2}
Everywhere == (1..Cmds) \X (1..Colls)
Empty   == {}
Last    == {N - 1}
=============================================================================
