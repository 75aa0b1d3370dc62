------------------------- MODULE ExecuteCommandRace -------------------------
(***************************************************************************)
(* The strong count of an Rc is a plain integer: `Rc::drop` loads it and   *)
(* stores it decremented.  All uses of the key mutexes' counts are under   *)
(* the store's RwLock, except the drop of a handle that execute_command    *)
(* abandons when `load(addr)?` fails.  Here the load and the store of that *)
(* drop are two steps, so that a locked section of another thread may fall *)
(* between them.                                                           *)
(***************************************************************************)
EXTENDS ExecuteCommand

VARIABLE dropping  \* the drop each thread is in: the mutex and the count it loaded

rvars == <<cvars, dropping>>

NoDrop == [mutex |-> 0, loaded |-> 0]

RInit == CInit /\ dropping = [t \in Thread |-> NoDrop]

\* The guard is released, then Rc::drop loads the count.
load_error_drop(t) ==
    /\ handle[t].st = "begun" /\ call[t].at = "none" /\ is_update_tx(t)
    /\ dropping' = [dropping EXCEPT ![t] =
           [mutex |-> handle[t].mutex, loaded |-> strong[handle[t].mutex]]]
    /\ handle' = [handle EXCEPT ![t] = NoHandle]
    /\ UNCHANGED <<inner, db, latest_tx_id, txs, mutex, strong, rwlock, call, poisoned>>

\* Rc::drop stores the count it computed.  When a locked section has changed the
\* count in between, the two stores race and either may come last.
rc_drop_store(t) ==
    LET m == dropping[t].mutex IN
    /\ m # 0
    /\ \/ strong' = [strong EXCEPT ![m] = dropping[t].loaded - 1]
       \/ strong[m] # dropping[t].loaded /\ UNCHANGED strong
    /\ dropping' = [dropping EXCEPT ![t] = NoDrop]
    /\ UNCHANGED <<inner, db, latest_tx_id, txs, mutex, handle, rwlock, call, poisoned>>

RNext ==
    \E t \in Thread :
       \/ dropping[t] = NoDrop /\ execute_command(t) /\ UNCHANGED dropping
       \/ load_error_drop(t)
       \/ rc_drop_store(t)

RSpec == RInit /\ [][RNext]_rvars

\* finalize_tx: "2" indicates that the handle and the entry of `mutex` are the only
\* owners, so the entry it looks up is always there (`expect("invariant violation")`).
EntryPresentUnderRaces == EntryPresent
=============================================================================
