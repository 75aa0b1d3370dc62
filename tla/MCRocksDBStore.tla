--------------------------- MODULE MCRocksDBStore ---------------------------
(* A small instance of RocksDBStore for TLC. *)
EXTENDS RocksDBStore

CONSTANTS t1, t2, t3, uk1, uk2, k1, v1

\* Two client types: the commands of both write the client counter.
SharedCounter == [uk \in {uk1, uk2} |-> {k1}]
=============================================================================
