----------------------------- MODULE MCMemStore -----------------------------
(* Small instances of MemStore for TLC. *)
EXTENDS MemStore

CONSTANTS t1, t2, uk1, uk2, k1, k2, v1

DisjointPrints == [uk \in {uk1, uk2} |-> IF uk = uk1 THEN {k1} ELSE {k2}]
=============================================================================
