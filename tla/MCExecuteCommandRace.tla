------------------------ MODULE MCExecuteCommandRace ------------------------
(* A small instance of ExecuteCommandRace for TLC. *)
EXTENDS ExecuteCommandRace

CONSTANTS t1, t2, uk1, k1, v1

OneClient == [uk \in {uk1} |-> {k1}]
=============================================================================
