------------------------------ MODULE CacheKVS ------------------------------
(***************************************************************************)
(* The store as the enclave sees it (host-api/src/store.rs): CacheKVS      *)
(* (modules/store/src/cache.rs) over TxStore, whose every call is an ocall *)
(* (host-api/src/api.rs to modules/host/src/ocalls.rs) on the transaction  *)
(* of the command.  The operators say what an access returns and leaves.   *)
(*                                                                         *)
(* The host is outside the enclave: between two accesses what it would     *)
(* answer for a key may change, and an answer may be an error or of any    *)
(* length.                                                                 *)
(***************************************************************************)
EXTENDS Naturals, Sequences, KVStore

CONSTANTS
    OcallMaxLen,  \* the output buffer of host-api's execute_command (65536)
    Panic         \* a failed unwrap or assertion: the command ends

ASSUME CacheAssumption ==
    /\ OcallMaxLen \in Nat \ {0}
    /\ None \notin Value
    /\ Unwritten \notin Data
    /\ Panic \notin {<<"Set">>, <<"Remove">>, <<"CommandError">>}
    /\ Panic \notin {<<"Get", v>> : v \in Data}

-----------------------------------------------------------------------------
(* The host's side.                                                        *)

\* store::dispatch, with the transaction's data in `kv`: the data afterwards and the
\* StoreResult.  The host's own failure is a CommandError.
dispatch(kv, cmd, fails) ==
    IF fails THEN [kv |-> kv, result |-> <<"CommandError">>]
    ELSE CASE cmd.op = "get" -> [kv |-> kv, result |-> <<"Get", kv[cmd.key]>>]
           [] cmd.op = "set" -> [kv |-> [kv EXCEPT ![cmd.key] = cmd.value], result |-> <<"Set">>]
           [] cmd.op = "remove" -> [kv |-> [kv EXCEPT ![cmd.key] = None], result |-> <<"Remove">>]

\* ocall_execute_command: a response that does not fit is dropped, and output_len
\* keeps its zero.
ocall_execute_command(kv, cmd, answer) ==
    LET done == dispatch(kv, cmd, answer.fails)
    IN  IF answer.len > OcallMaxLen
        THEN [kv |-> done.kv, ret |-> "UNEXPECTED", output |-> <<>>, output_len |-> 0]
        ELSE [kv |-> done.kv, ret |-> IF answer.fails THEN "UNEXPECTED" ELSE "SUCCESS",
              output |-> done.result, output_len |-> answer.len]

-----------------------------------------------------------------------------
(* The enclave's side.                                                     *)

\* execute_command and TxStore's unwrap of it: an empty output does not decode, a
\* CommandError is an error, and the length is asserted.
execute_command_result(reply) ==
    IF /\ reply.output_len < OcallMaxLen
       /\ reply.output # <<>>
       /\ reply.ret = "SUCCESS"
    THEN reply.output ELSE Panic

\* What a CacheKVS over a TxStore is: the host's data, the cache, whether the command
\* goes on, what its gets returned and how often each key was asked of the host.
NewStore(kv) ==
    [kv |-> kv, cache |-> <<>>, panicked |-> FALSE, got |-> <<>>, reads |-> [k \in Key |-> 0]]

\* A call of TxStore: the data afterwards, and the result or a panic.
TxStore(kv, op) ==
    LET reply == ocall_execute_command(kv, op, op.answer)
    IN  [kv |-> reply.kv, result |-> execute_command_result(reply)]

\* BTreeMap::insert
insert(cache, key, value) ==
    [k \in DOMAIN cache \cup {key} |-> IF k = key THEN value ELSE cache[k]]

\* set and remove write through, then change the cache.
cache_write(s, op, value) ==
    LET txcall == TxStore(s.kv, op)
    IN  IF txcall.result = Panic THEN [s EXCEPT !.kv = txcall.kv, !.panicked = TRUE]
        ELSE [s EXCEPT !.kv = txcall.kv, !.cache = insert(@, op.key, value)]

cache_set(s, op) == cache_write(s, op, op.value)

cache_remove(s, op) == cache_write(s, op, None)

\* Mutant of cache_insert: an absent key is not cached.
cache_insert_present(cache, key, value) ==
    IF value = None THEN cache ELSE insert(cache, key, value)

\* That there is no value is cached, too.
cache_insert(cache, key, value) == insert(cache, key, value)

\* The first get of a key asks the host.
cache_get(s, op) ==
    IF op.key \in DOMAIN s.cache THEN [s EXCEPT !.got = Append(@, s.cache[op.key])]
    ELSE LET txcall == TxStore(s.kv, op)
             asked  == [s EXCEPT !.kv = txcall.kv, !.reads[op.key] = @ + 1]
         IN  IF txcall.result = Panic THEN [asked EXCEPT !.panicked = TRUE]
             ELSE [asked EXCEPT !.cache = cache_insert(@, op.key, txcall.result[2]),
                                !.got = Append(@, txcall.result[2])]

\* One access, or a change of what the host would answer.
access(s, op) ==
    IF s.panicked THEN s
    ELSE CASE op.op = "get" -> cache_get(s, op)
           [] op.op = "set" -> cache_set(s, op)
           [] op.op = "remove" -> cache_remove(s, op)
           [] op.op = "host" -> [s EXCEPT !.kv[op.key] = op.value]

-----------------------------------------------------------------------------
\* The answers of the host: one that fits, one as long as the buffer, one longer, and
\* an error.
Answer ==
    {[len |-> n, fails |-> FALSE] : n \in {1, OcallMaxLen, OcallMaxLen + 1}}
        \cup {[len |-> 1, fails |-> TRUE]}

Op ==
    [op : {"get", "remove"}, key : Key, answer : Answer]
        \cup [op : {"set"}, key : Key, value : Value, answer : Answer]
        \cup [op : {"host"}, key : Key, value : Data]
=============================================================================
