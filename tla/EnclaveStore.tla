---------------------------- MODULE EnclaveStore ----------------------------
(***************************************************************************)
(* The accesses of a command to the store of the enclave (CacheKVS), as a  *)
(* sequence of operations of bounded length.                               *)
(***************************************************************************)
EXTENDS ExecuteCommand, CacheKVS, SequencesExt

CONSTANT MaxOps  \* the bound on a command's accesses

Accessed(ops) == FoldLeft(access, NewStore([k \in Key |-> db[k].val]), ops)

Changes(ops, k, i) == {j \in 1..i : ops[j].op \in {"set", "remove"} /\ ops[j].key = k}

\* What the command wrote last before its i-th access, or what it read first.
Expected(ops, i) ==
    LET k        == ops[i].key
        writes   == Changes(ops, k, i - 1)
        last     == ops[Max(writes)]
        first    == Min({j \in 1..i : ops[j].op = "get" /\ ops[j].key = k})
        host     == Accessed(SubSeq(ops, 1, first - 1)).kv[k]
    IN  IF writes # {} THEN (IF last.op = "set" THEN last.value ELSE None) ELSE host

\* Within a command the enclave sees one store, whatever the host does: a key is read
\* from the host at most once, a get returns what the command wrote last or read
\* first, and an answer that is refused, cut off or an error ends the command
\* instead of passing for an absent value.  The accesses are those of the first
\* command after a start of the service, on whatever is committed by then.
ReadsAreStable ==
    latest_tx_id = 0 => \A ops \in BoundedSeq(Op, MaxOps) :
       LET s    == Accessed(ops)
           gets == SelectSeq([i \in DOMAIN ops |-> i], LAMBDA i : ops[i].op = "get")
       IN  /\ \A k \in Key : s.reads[k] <= 1
           /\ Len(s.got) <= Len(gets)
           /\ ~s.panicked => Len(s.got) = Len(gets)
           /\ \A n \in 1..Len(s.got) : s.got[n] = Expected(ops, gets[n])
=============================================================================
