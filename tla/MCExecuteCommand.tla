-------------------------- MODULE MCExecuteCommand --------------------------
(* Small instances of ExecuteCommand for TLC, with the store the enclave sees. *)
EXTENDS EnclaveStore

CONSTANTS t1, t2, t3, uk1, uk2, k1, k2, v1

ThreadSymmetry == Permutations(Thread)

OneClient == [uk \in {uk1} |-> {k1}]

\* Two client types whose commands both write the client counter.
SharedCounter == [uk \in {uk1, uk2} |-> {k1}]

\* Two clients: the commands of the first write its state, those of the second only read.
OneWriter == [uk \in {uk1, uk2} |-> IF uk = uk1 THEN {k1} ELSE {}]
=============================================================================
