---------------------------- MODULE RocksDBStore ----------------------------
(***************************************************************************)
(* The transactional host store: modules/store/src/rocksdb.rs.            *)
(*                                                                         *)
(* A thread that runs a command calls create_transaction, prepare, begin,  *)
(* any number of tx_get / tx_set / tx_remove, and commit or rollback.      *)
(* Every call except prepare runs under the RwLock of the environment      *)
(* (Enclave::use_mut_store, Environment::get_mut_store) and is one step    *)
(* here; prepare blocks on the mutex of the update key without that lock.  *)
(*                                                                         *)
(* The data is abstracted to small sets of keys and values.  Footprint[uk] *)
(* is what the commands that run under the update key uk may write.        *)
(***************************************************************************)
EXTENDS Naturals, KVStore

CONSTANTS
    Thread,     \* the host threads that run commands
    UpdateKey,  \* the non-empty update keys (a client type URL, a client id)
    Footprint,  \* the keys each update key's commands may write
    MaxTxId,    \* the largest TxId (u64::MAX in the code)
    NoKey,      \* Option::None as an update key
    NoTx        \* `txs` has no entry for the id

TxId == 1..MaxTxId

\* A key's content and the transaction that committed it.  `by` stands for the
\* sequence number RocksDB keeps with the key.
Cell == [val : Data, by : 0..MaxTxId]

StoreTransaction ==
    [kind     : {"Read", "Update", "ReadSnapshot"},
     snapshot : [Key -> Cell],
     buffer   : [Key -> Data \cup {Unwritten}]]

\* A thread's RocksDBTx.  A mutex is named after the transaction that allocated
\* it; 0 is "no mutex".  The guard lives as long as a prepared handle.
Handle ==
    [st         : {"none", "created", "prepared", "begun"},
     id         : 0..MaxTxId,
     update_key : UpdateKey \cup {NoKey},
     mutex      : 0..MaxTxId]

ASSUME ConstantsAssumption ==
    /\ MaxTxId \in Nat
    /\ Footprint \in [UpdateKey -> SUBSET Key]
    /\ None \notin Value
    /\ Unwritten \notin Data
    /\ NoKey \notin UpdateKey
    /\ NoTx \notin StoreTransaction

VARIABLES
    inner,         \* which InnerDB is open
    db,            \* its content
    latest_tx_id,
    txs,           \* TxId -> StoreTransaction
    mutex,         \* UpdateKey -> Rc<Mutex>, 0 when there is no entry
    strong,        \* the strong count of each Rc<Mutex>
    handle,        \* the handle each thread owns
    rwlock         \* the RwLock around the store, `Environment.store`

vars == <<inner, db, latest_tx_id, txs, mutex, strong, handle, rwlock>>

NoHandle == [st |-> "none", id |-> 0, update_key |-> NoKey, mutex |-> 0]

is_update_tx(t) == handle[t].update_key # NoKey

\* Mutant of tx_get: reads fall through to the database instead of the snapshot.
tx_get_latest(stx, k) ==
    IF stx.buffer[k] # Unwritten THEN stx.buffer[k] ELSE db[k].val

\* What tx_get returns: the transaction's own write, else the snapshot.
tx_get(stx, k) ==
    IF stx.buffer[k] # Unwritten THEN stx.buffer[k] ELSE stx.snapshot[k].val

-----------------------------------------------------------------------------
\* RocksDBStore::open or ::open_read_only, on any database.
Init ==
    /\ inner \in {"TransactionDB", "ReadOnlyDB"}
    /\ db \in [Key -> {[val |-> v, by |-> 0] : v \in Data}]
    /\ latest_tx_id = 0
    /\ txs = [i \in TxId |-> NoTx]
    /\ mutex = [uk \in UpdateKey |-> 0]
    /\ strong = [m \in TxId |-> 0]
    /\ handle = [t \in Thread |-> NoHandle]
    /\ rwlock = "usable"

-----------------------------------------------------------------------------
\* Mutant of create_read_tx: the id is incremented without the overflow check.
create_read_tx_unchecked(t, uk) ==
    /\ rwlock = "usable"
    /\ handle[t].st = "none"
    /\ uk = NoKey \/ inner = "ReadOnlyDB"
    /\ latest_tx_id' = latest_tx_id + 1
    /\ handle' = [handle EXCEPT ![t] =
           [st |-> "created", id |-> latest_tx_id + 1,
            update_key |-> NoKey, mutex |-> 0]]
    /\ UNCHANGED <<inner, db, txs, mutex, strong, rwlock>>

create_read_tx(t, uk) ==
    /\ rwlock = "usable"
    /\ handle[t].st = "none"
    /\ uk = NoKey \/ inner = "ReadOnlyDB"
    /\ latest_tx_id < MaxTxId
    /\ latest_tx_id' = latest_tx_id + 1
    /\ handle' = [handle EXCEPT ![t] =
           [st |-> "created", id |-> latest_tx_id + 1,
            update_key |-> NoKey, mutex |-> 0]]
    /\ UNCHANGED <<inner, db, txs, mutex, strong, rwlock>>

create_update_tx(t, uk) ==
    /\ rwlock = "usable"
    /\ handle[t].st = "none"
    /\ uk # NoKey /\ inner = "TransactionDB"
    /\ latest_tx_id < MaxTxId
    /\ LET id == latest_tx_id + 1
           m  == IF mutex[uk] = 0 THEN id ELSE mutex[uk]
       IN  /\ latest_tx_id' = id
           /\ mutex' = [mutex EXCEPT ![uk] = m]
           /\ strong' = [strong EXCEPT ![m] = IF mutex[uk] = 0 THEN 2 ELSE @ + 1]
           /\ handle' = [handle EXCEPT ![t] =
                  [st |-> "created", id |-> id, update_key |-> uk, mutex |-> m]]
    /\ UNCHANGED <<inner, db, txs, rwlock>>

\* The update key is the empty string: the id is spent and the call fails.
create_invalid_key(t) ==
    /\ rwlock = "usable"
    /\ handle[t].st = "none"
    /\ inner = "TransactionDB"
    /\ latest_tx_id < MaxTxId
    /\ latest_tx_id' = latest_tx_id + 1
    /\ UNCHANGED <<inner, db, txs, mutex, strong, handle, rwlock>>

\* TxId::safe_incr fails and nothing changes.
create_overflow(t) ==
    /\ rwlock = "usable"
    /\ handle[t].st = "none"
    /\ latest_tx_id = MaxTxId
    /\ UNCHANGED vars

create_transaction(t) ==
    \/ \E uk \in UpdateKey \cup {NoKey} :
          create_read_tx(t, uk) \/ create_update_tx(t, uk)
    \/ create_invalid_key(t)
    \/ create_overflow(t)

\* Mutant of Locked: the guard is taken by begin, not by prepare.
Locked_when_begun(m) ==
    \E u \in Thread : handle[u].st = "begun" /\ handle[u].mutex = m

\* Mutant of Locked: the guard is taken when the handle is created.
Locked_when_created(m) ==
    \E u \in Thread : handle[u].st # "none" /\ handle[u].mutex = m

\* Some prepared handle holds the guard of mutex m.
Locked(m) ==
    \E u \in Thread : handle[u].st \in {"prepared", "begun"} /\ handle[u].mutex = m

\* Mutant of prepare: the mutex of the update key is not locked.
prepare_no_lock(t) ==
    /\ rwlock = "usable"
    /\ handle[t].st = "created"
    /\ handle' = [handle EXCEPT ![t].st = "prepared"]
    /\ UNCHANGED <<inner, db, latest_tx_id, txs, mutex, strong, rwlock>>

prepare(t) ==
    /\ rwlock = "usable"
    /\ handle[t].st = "created"
    /\ is_update_tx(t) => ~Locked(handle[t].mutex)
    /\ handle' = [handle EXCEPT ![t].st = "prepared"]
    /\ UNCHANGED <<inner, db, latest_tx_id, txs, mutex, strong, rwlock>>

begin(t) ==
    /\ rwlock = "usable"
    /\ handle[t].st = "prepared"
    /\ txs' = [txs EXCEPT ![handle[t].id] =
           [kind     |-> IF inner = "ReadOnlyDB" THEN "ReadSnapshot"
                         ELSE IF is_update_tx(t) THEN "Update" ELSE "Read",
            snapshot |-> db,
            buffer   |-> [k \in Key |-> Unwritten]]]
    /\ handle' = [handle EXCEPT ![t].st = "begun"]
    /\ UNCHANGED <<inner, db, latest_tx_id, mutex, strong, rwlock>>

\* Mutant of Conflict: the transaction is begun without set_snapshot, so RocksDB
\* does not validate against it.
Conflict_no_validation(id, k) ==
    \E j \in TxId \ {id} :
       txs[j] # NoTx /\ txs[j].kind = "Update" /\ txs[j].buffer[k] # Unwritten

\* RocksDB refuses a write of a key that another transaction has locked, or that
\* was committed after this transaction's snapshot.  The owner of a row lock
\* cannot release it while the writer waits: it needs the store's RwLock.
Conflict(id, k) ==
    \/ \E j \in TxId \ {id} :
          txs[j] # NoTx /\ txs[j].kind = "Update" /\ txs[j].buffer[k] # Unwritten
    \/ db[k].by # txs[id].snapshot[k].by

\* StoreTransaction::set (v a value) and ::remove (v = None).
tx_write(t, k, v) ==
    /\ rwlock = "usable"
    /\ handle[t].st = "begun"
    /\ is_update_tx(t) => k \in Footprint[handle[t].update_key]
    /\ txs[handle[t].id].kind = "Update" => ~Conflict(handle[t].id, k)
    /\ txs' = [txs EXCEPT ![handle[t].id].buffer[k] = v]
    /\ UNCHANGED <<inner, db, latest_tx_id, mutex, strong, handle, rwlock>>

\* `.unwrap()` on the refused write panics under the RwLock and poisons it; the
\* handle is dropped while unwinding, its entry of `txs` stays.
tx_write_panic(t, k) ==
    /\ rwlock = "usable"
    /\ handle[t].st = "begun"
    /\ is_update_tx(t) => k \in Footprint[handle[t].update_key]
    /\ txs[handle[t].id].kind = "Update" /\ Conflict(handle[t].id, k)
    /\ rwlock' = "poisoned"
    /\ handle' = [handle EXCEPT ![t] = NoHandle]
    /\ strong' = [strong EXCEPT ![handle[t].mutex] = @ - 1]
    /\ UNCHANGED <<inner, db, latest_tx_id, txs, mutex>>

\* Mutants of LastUser: one owner too many or too few is counted.
LastUser_3(v) == strong[v] = 3

LastUser_1(v) == strong[v] = 1

\* The count says that only the handle and the entry of `mutex` own the Rc.
LastUser(v) == strong[v] = 2

\* finalize_tx without its last line f(tx): the entry of `mutex` goes when the
\* count says that only the handle and the entry are left, then the entry of
\* `txs` goes, and the handle is dropped when the function returns.  That the
\* entry of `mutex` is there (`expect("invariant violation")`) is EntryPresent.
finalize_tx(t) ==
    /\ rwlock = "usable"
    /\ handle[t].st = "begun"
    /\ IF is_update_tx(t)
       THEN LET uk   == handle[t].update_key
                v    == mutex[uk]
                last == LastUser(v)
            IN  /\ v # 0
                /\ mutex' = IF last THEN [mutex EXCEPT ![uk] = 0] ELSE mutex
                /\ strong' = [i \in TxId |->
                       strong[i] - (IF i = v /\ last THEN 1 ELSE 0)
                                 - (IF i = handle[t].mutex THEN 1 ELSE 0)]
       ELSE UNCHANGED <<mutex, strong>>
    /\ txs' = [txs EXCEPT ![handle[t].id] = NoTx]
    /\ handle' = [handle EXCEPT ![t] = NoHandle]
    /\ UNCHANGED <<inner, latest_tx_id, rwlock>>

\* Mutant of Committed: everything the transaction sees is written back.
Committed_all(id, stx) == [k \in Key |-> [val |-> tx_get(stx, k), by |-> id]]

\* The database after transaction `id` has committed the writes of `stx`.
Committed(id, stx) ==
    [k \in Key |-> IF stx.buffer[k] = Unwritten
                   THEN db[k] ELSE [val |-> stx.buffer[k], by |-> id]]

commit(t) ==
    /\ finalize_tx(t)
    /\ db' = IF txs[handle[t].id].kind = "Update"
             THEN Committed(handle[t].id, txs[handle[t].id]) ELSE db

\* RocksDB fails to write the batch: Error::commit_tx.
commit_error(t) ==
    /\ finalize_tx(t)
    /\ txs[handle[t].id].kind = "Update"
    /\ UNCHANGED db

rollback(t) ==
    /\ finalize_tx(t)
    /\ UNCHANGED db

\* The process ends and the store is opened again.  No snapshot survives, so the
\* sequence numbers restart.
crash ==
    /\ inner' \in {"TransactionDB", "ReadOnlyDB"}
    /\ db' = [k \in Key |-> [val |-> db[k].val, by |-> 0]]
    /\ latest_tx_id' = 0
    /\ txs' = [i \in TxId |-> NoTx]
    /\ mutex' = [uk \in UpdateKey |-> 0]
    /\ strong' = [m \in TxId |-> 0]
    /\ handle' = [t \in Thread |-> NoHandle]
    /\ rwlock' = "usable"

\* A poisoned RwLock makes every call panic in `.unwrap()` before it touches the
\* store.
poisoned_call(t) ==
    /\ rwlock = "poisoned"
    /\ UNCHANGED vars

Next ==
    \/ \E t \in Thread :
          \/ create_transaction(t)
          \/ prepare(t)
          \/ begin(t)
          \/ \E k \in Key : \E v \in Data : tx_write(t, k, v)
          \/ \E k \in Key : tx_write_panic(t, k)
          \/ commit(t)
          \/ commit_error(t)
          \/ rollback(t)
          \/ poisoned_call(t)
    \/ crash

Spec == Init /\ [][Next]_vars

\* A thread that runs a command goes on with it: the enclave's work between two
\* calls ends, and a free mutex is given to some thread that waits for it.
Fairness ==
    \A t \in Thread :
        /\ WF_vars(prepare(t))
        /\ WF_vars(begin(t))
        /\ WF_vars(commit(t) \/ rollback(t))

FairSpec == Spec /\ Fairness

-----------------------------------------------------------------------------
TypeOK ==
    /\ inner \in {"TransactionDB", "ReadOnlyDB"}
    /\ db \in [Key -> Cell]
    /\ latest_tx_id \in 0..MaxTxId
    /\ txs \in [TxId -> StoreTransaction \cup {NoTx}]
    /\ mutex \in [UpdateKey -> 0..MaxTxId]
    /\ strong \in [TxId -> Nat]
    /\ handle \in [Thread -> Handle]
    /\ rwlock \in {"usable", "poisoned"}

Live(t, uk) == handle[t].st # "none" /\ handle[t].update_key = uk

Running(t, uk) == handle[t].st = "begun" /\ handle[t].update_key = uk

\* Two update transactions with the same update key are never begun at the same
\* time, although the mutex that keeps them apart is allocated, counted and
\* dropped while threads come and go (create_transaction, finalize_tx).
MutualExclusion ==
    rwlock = "usable" =>
        \A t, u \in Thread : \A uk \in UpdateKey :
            Running(t, uk) /\ Running(u, uk) => t = u

\* `mutex.get(update_key).expect("invariant violation")` in finalize_tx never
\* fails, and the entry it finds is the mutex that the handle has locked.
EntryPresent ==
    rwlock = "usable" =>
        \A t \in Thread : \A uk \in UpdateKey :
            Live(t, uk) => mutex[uk] # 0 /\ handle[t].mutex = mutex[uk]

\* The map `mutex` has an entry only for an update key that some handle uses, and
\* `txs` only for a transaction that is begun: nothing is left behind when the
\* last handle is finalized.
NoLeftovers ==
    rwlock = "usable" =>
        /\ \A uk \in UpdateKey : mutex[uk] # 0 => \E t \in Thread : Live(t, uk)
        /\ \A i \in TxId : txs[i] # NoTx =>
              \E t \in Thread : handle[t].st = "begun" /\ handle[t].id = i

\* While an update transaction runs, every key its update key guards still has in
\* the database the content its snapshot shows: what a command has read of its
\* client is still true when it commits.
FootprintStable ==
    rwlock = "usable" =>
        \A t \in Thread : \A uk \in UpdateKey : Running(t, uk) =>
            \A k \in Footprint[uk] : txs[handle[t].id].snapshot[k] = db[k]

\* The update keys' footprints are disjoint, as they are for UpdateClient
\* commands (the update key is the client id, the prefix of what it writes).
DisjointFootprints ==
    \A a, b \in UpdateKey : a # b => Footprint[a] \cap Footprint[b] = {}

\* No write of a transaction is refused by RocksDB, so no `.unwrap()` panics under
\* the store's RwLock.
NeverPoisoned == rwlock = "usable"

\* A commit overwrites a key only when the transaction has seen the key's last
\* committed content, whatever the footprints: no update is lost.
NoLostUpdate ==
    [][ \A t \in Thread : commit(t) =>
          \A k \in Key :
             db'[k] # db[k] => db[k].by = txs[handle[t].id].snapshot[k].by ]_vars

\* A begun transaction reads one moment of the database and its own writes: no
\* step of another thread changes what tx_get returns to it.
ReadsRepeatable ==
    [][ \A t \in Thread, k \in Key :
          LET i == handle[t].id IN
          /\ handle[t].st = "begun" /\ handle'[t] = handle[t]
          /\ \A v \in Data : ~tx_write(t, k, v)
          => tx_get(txs[i], k)' = tx_get(txs[i], k) ]_vars

\* When threads stop to create transactions, every transaction ends and the maps
\* of the store become empty.
Quiescent ==
    /\ \A uk \in UpdateKey : mutex[uk] = 0
    /\ \A i \in TxId : txs[i] = NoTx
    /\ \A t \in Thread : handle[t].st = "none"

Quiesces ==
    <>[][\A t \in Thread : ~create_transaction(t)]_vars => <>[](Quiescent \/ rwlock = "poisoned")

-----------------------------------------------------------------------------
\* The update transactions of the store implement CommitStore: the transactions
\* of an update key are the ones begun with it, and what one saw is its snapshot.
RunningThreads == [uk \in UpdateKey |-> {t \in Thread : Running(t, uk)}]

SeenData ==
    [uk \in UpdateKey |-> [k \in Key |->
        IF \E t \in Thread : Running(t, uk)
        THEN txs[handle[CHOOSE t \in Thread : Running(t, uk)].id].snapshot[k].val
        ELSE None]]

CS == INSTANCE CommitStore WITH
          data    <- [k \in Key |-> db[k].val],
          running <- RunningThreads,
          seen    <- SeenData

\* create_transaction's doc: transactions that reference the same update key are
\* controlled by the store.
ImplementsCommitStore == CS!Spec
=============================================================================
