---------------------------- MODULE EnclaveView -----------------------------
(***************************************************************************)
(* The accesses of one command to its store (CacheKVS), in any order and   *)
(* number, while the host changes its data and answers as it likes.        *)
(***************************************************************************)
EXTENDS CacheKVS

VARIABLES
    store,  \* the CacheKVS of the command
    own,    \* history: what the command itself wrote last, per key
    first   \* history: what the host had when a key was first read, per key

view_vars == <<store, own, first>>

\* An answer of the host, of any length.
AnyAnswer == [len : Nat \ {0}, fails : BOOLEAN]

ViewInit ==
    /\ store \in {NewStore(kv) : kv \in [Key -> Data]}
    /\ own = [k \in Key |-> Unwritten]
    /\ first = [k \in Key |-> Unwritten]

\* KVStore::get.
view_get(k, a) ==
    /\ ~store.panicked
    /\ store' = access(store, [op |-> "get", key |-> k, answer |-> a])
    /\ first' = IF own[k] = Unwritten /\ first[k] = Unwritten /\ ~store'.panicked
                THEN [first EXCEPT ![k] = store.kv[k]] ELSE first
    /\ own' = own

\* KVStore::set.
view_set(k, v, a) ==
    /\ ~store.panicked
    /\ store' = access(store, [op |-> "set", key |-> k, value |-> v, answer |-> a])
    /\ own' = IF store'.panicked THEN own ELSE [own EXCEPT ![k] = v]
    /\ first' = first

\* KVStore::remove.
view_remove(k, a) ==
    /\ ~store.panicked
    /\ store' = access(store, [op |-> "remove", key |-> k, answer |-> a])
    /\ own' = IF store'.panicked THEN own ELSE [own EXCEPT ![k] = None]
    /\ first' = first

\* What the host would answer changes.
view_host(k, v) ==
    /\ ~store.panicked
    /\ store' = access(store, [op |-> "host", key |-> k, value |-> v])
    /\ UNCHANGED <<own, first>>

ViewNext ==
    \E k \in Key :
        \/ \E a \in AnyAnswer :
              \/ view_get(k, a)
              \/ \E v \in Value : view_set(k, v, a)
              \/ view_remove(k, a)
        \/ \E v \in Data : view_host(k, v)

ViewSpec == ViewInit /\ [][ViewNext]_view_vars

-----------------------------------------------------------------------------
\* "The store guarantees that reads a value from the host store only once per key"
\* (host-api/src/store.rs).
ReadsOnce == \A k \in Key : store.reads[k] <= 1

\* What a get of k returns: what the command wrote last, or else what it read first.
Seen(k) == IF own[k] # Unwritten THEN own[k] ELSE first[k]

\* Whatever the host changes in between, a get that returns at all returns a value, that
\* value is what the command wrote last or read first, and what was read first stays.
GetsSeeOneStore ==
    [][\A k \in Key :
          /\ first[k] # Unwritten => first'[k] = first[k]
          /\ \A a \in AnyAnswer :
                view_get(k, a) /\ ~store'.panicked =>
                    /\ store'.got = Append(store.got, Seen(k)')
                    /\ Seen(k)' \in Data]_view_vars

\* An answer that is an error, or as long as the buffer or longer, is never taken for a
\* value or for success: the get or the write that needed it ends the command.
BadAnswersPanic ==
    [][\A k \in Key, a \in AnyAnswer :
          a.fails \/ a.len >= OcallMaxLen =>
              /\ view_get(k, a) /\ Seen(k) = Unwritten => store'.panicked
              /\ \A v \in Value : view_set(k, v, a) => store'.panicked
              /\ view_remove(k, a) => store'.panicked]_view_vars
=============================================================================
