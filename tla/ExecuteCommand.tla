--------------------------- MODULE ExecuteCommand ---------------------------
(***************************************************************************)
(* A command on its way through the host: execute_command and              *)
(* raw_execute_command (modules/enclave-api/src/api/primitive.rs) around   *)
(* the transactions of RocksDBStore.                                       *)
(*                                                                         *)
(* The command begins a transaction, loads the enclave key it names from   *)
(* the key manager, enters the enclave, which reads and writes through     *)
(* ocalls, and commits or rolls back.  A command also leaves by two ways   *)
(* that never reach finalize_tx: the `?` after `load`, which drops the     *)
(* handle, and a panic, which drops it while unwinding and so poisons the  *)
(* mutex of its update key.                                                *)
(***************************************************************************)
EXTENDS RocksDBStore

CONSTANT OutputMaxLen  \* the output buffer of raw_execute_command (65536)

ASSUME OutputAssumption == OutputMaxLen \in Nat \ {0}

VARIABLES
    call,     \* where each thread's call of the enclave is
    poisoned  \* the poisoned mutexes

cvars == <<vars, call, poisoned>>

\* `ok` is the status the enclave returned, `len` the output_len it wrote.
NoCall == [at |-> "none", ok |-> "no", len |-> 0]

\* The last command of the thread has returned Ok to its caller.
Answered == [NoCall EXCEPT !.ok = "yes"]

CInit ==
    /\ Init
    /\ call = [t \in Thread |-> NoCall]
    /\ poisoned = {}

\* begin_tx: create_transaction, then prepare, then begin; the first and the last
\* under the RwLock, prepare waiting for the mutex of the update key.
issue(t) ==
    /\ create_transaction(t)
    /\ call' = [call EXCEPT ![t] = NoCall]
    /\ UNCHANGED poisoned

\* Mutant of begin_tx: a poisoned mutex is locked like any other.
begin_tx_into_inner(t) ==
    /\ prepare(t) \/ begin(t)
    /\ UNCHANGED <<call, poisoned>>

begin_tx(t) ==
    /\ \/ prepare(t) /\ handle[t].mutex \notin poisoned
       \/ begin(t)
    /\ UNCHANGED <<call, poisoned>>

\* Mutant of drop_handle: a Drop of the handle that removes the entry of `mutex`
\* without a look at the count.
drop_handle_removes(t) ==
    /\ handle' = [handle EXCEPT ![t] = NoHandle]
    /\ mutex' = [uk \in UpdateKey |-> IF uk = handle[t].update_key THEN 0 ELSE mutex[uk]]
    /\ UNCHANGED <<inner, db, latest_tx_id, txs, strong, rwlock>>

\* A handle goes out of scope outside the RwLock: the guard is released and the
\* count loses it; the transaction stays in `txs`.
drop_handle(t) ==
    /\ handle' = [handle EXCEPT ![t] = NoHandle]
    /\ strong' = IF is_update_tx(t)
                 THEN [strong EXCEPT ![handle[t].mutex] = @ - 1] ELSE strong
    /\ UNCHANGED <<inner, db, latest_tx_id, txs, mutex, rwlock>>

\* Mutant of prepare_panic: the waiter retries a poisoned mutex.
prepare_panic_retries(t) ==
    /\ rwlock = "usable"
    /\ handle[t].st = "created"
    /\ is_update_tx(t) /\ handle[t].mutex \in poisoned /\ ~Locked(handle[t].mutex)
    /\ UNCHANGED cvars

\* `lock()` on a poisoned mutex is an error, and `prepare` unwraps it.
prepare_panic(t) ==
    /\ rwlock = "usable"
    /\ handle[t].st = "created"
    /\ is_update_tx(t) /\ handle[t].mutex \in poisoned /\ ~Locked(handle[t].mutex)
    /\ drop_handle(t)
    /\ UNCHANGED <<call, poisoned>>

\* The key manager has no row for the address, or SQLite fails: `load(addr)?`.
load_error(t) ==
    /\ rwlock = "usable"
    /\ handle[t].st = "begun" /\ call[t].at = "none"
    /\ drop_handle(t)
    /\ UNCHANGED <<call, poisoned>>

\* The command names no key, or its sealed key is loaded: the ecall starts.
enter_enclave(t) ==
    /\ rwlock = "usable"
    /\ handle[t].st = "begun" /\ call[t].at = "none"
    /\ call' = [call EXCEPT ![t].at = "running"]
    /\ UNCHANGED <<vars, poisoned>>

\* The enclave's store calls back: ocall_execute_command.
ocall(t) ==
    /\ call[t].at = "running"
    /\ \E k \in Key : \E v \in Data : tx_write(t, k, v)
    /\ UNCHANGED <<call, poisoned>>

\* RocksDB refuses the write and the ocall panics under the RwLock.  The thread
\* unwinds to its task and poisons its mutex too, or the process aborts: that is
\* `restart`.
ocall_panic(t) ==
    /\ call[t].at = "running"
    /\ \E k \in Key : tx_write_panic(t, k)
    /\ poisoned' = poisoned \cup {handle[t].mutex}
    /\ call' = [call EXCEPT ![t] = NoCall]

\* The RwLock is poisoned: the thread's next use of the store panics and unwinds.
store_panic(t) ==
    /\ rwlock = "poisoned"
    /\ drop_handle(t)
    /\ poisoned' = IF is_update_tx(t) /\ handle[t].st # "created"
                   THEN poisoned \cup {handle[t].mutex} ELSE poisoned
    /\ call' = [call EXCEPT ![t] = NoCall]

\* The encoded response is res_len bytes long.  The enclave refuses one that is
\* longer than the buffer and then leaves output_len 0.
ecall_execute_command(t, status, res_len) ==
    /\ rwlock = "usable"
    /\ call[t].at = "running"
    /\ call' = [call EXCEPT ![t] =
           IF res_len > OutputMaxLen
           THEN [at |-> "returned", ok |-> "no", len |-> 0]
           ELSE [at |-> "returned", ok |-> status, len |-> res_len]]
    /\ UNCHANGED <<vars, poisoned>>

\* The ecall itself fails (no free TCS, a lost enclave): output_len is still 0.
sgx_error(t) ==
    /\ rwlock = "usable"
    /\ call[t].at = "running"
    /\ call' = [call EXCEPT ![t] = [at |-> "returned", ok |-> "no", len |-> 0]]
    /\ UNCHANGED <<vars, poisoned>>

\* Mutant of output_panic: the guard is released without poisoning the mutex.
output_panic_no_poison(t) ==
    /\ rwlock = "usable"
    /\ call[t].at = "returned" /\ ~(call[t].len < OutputMaxLen)
    /\ drop_handle(t)
    /\ call' = [call EXCEPT ![t] = NoCall]
    /\ UNCHANGED poisoned

\* `assert!((output_len as usize) < output_maxlen)` fails.
output_panic(t) ==
    /\ rwlock = "usable"
    /\ call[t].at = "returned" /\ ~(call[t].len < OutputMaxLen)
    /\ drop_handle(t)
    /\ poisoned' = IF is_update_tx(t) THEN poisoned \cup {handle[t].mutex} ELSE poisoned
    /\ call' = [call EXCEPT ![t] = NoCall]

\* Mutant of return: the error of commit_tx is not passed on.
return_ignores_error(t) ==
    /\ call[t].at = "returned" /\ call[t].len < OutputMaxLen
    /\ \/ /\ call[t].ok = "yes" /\ (commit(t) \/ commit_error(t))
          /\ call' = [call EXCEPT ![t] = Answered]
       \/ /\ call[t].ok = "no" /\ rollback(t)
          /\ call' = [call EXCEPT ![t] = NoCall]
    /\ UNCHANGED poisoned

\* The command returns: commit_tx after a success, whose error it passes on, and
\* rollback_tx after an error.
return(t) ==
    /\ call[t].at = "returned" /\ call[t].len < OutputMaxLen
    /\ \/ /\ call[t].ok = "yes" /\ commit(t)
          /\ call' = [call EXCEPT ![t] = Answered]
       \/ /\ call[t].ok = "yes" /\ commit_error(t)
          /\ call' = [call EXCEPT ![t] = NoCall]
       \/ /\ call[t].ok = "no" /\ rollback(t)
          /\ call' = [call EXCEPT ![t] = NoCall]
    /\ UNCHANGED poisoned

restart ==
    /\ crash
    /\ call' = [t \in Thread |-> NoCall]
    /\ poisoned' = {}

enclave_returns(t) ==
    \/ \E status \in {"yes", "no"}, res_len \in 1..(OutputMaxLen + 1) :
          ecall_execute_command(t, status, res_len)
    \/ sgx_error(t)

execute_command(t) ==
    \/ issue(t)
    \/ begin_tx(t)
    \/ prepare_panic(t)
    \/ load_error(t)
    \/ enter_enclave(t)
    \/ ocall(t)
    \/ ocall_panic(t)
    \/ enclave_returns(t)
    \/ output_panic(t)
    \/ return(t)
    \/ store_panic(t)

CNext == (\E t \in Thread : execute_command(t)) \/ restart

CSpec == CInit /\ [][CNext]_cvars

\* A thread that has issued a command goes on with it, and the enclave returns.
CFairness ==
    \A t \in Thread :
        /\ WF_cvars(begin_tx(t) \/ prepare_panic(t) \/ enter_enclave(t))
        /\ WF_cvars(enclave_returns(t))
        /\ WF_cvars(output_panic(t) \/ return(t) \/ store_panic(t))

CFairSpec == CSpec /\ CFairness

-----------------------------------------------------------------------------
\* Although commands drop handles without finalizing them, the entry finalize_tx
\* expects is there, and it is the mutex the thread has locked.
EntryPresentAfterDrops == EntryPresent

\* A transaction left in `txs` by a dropped handle holds row locks only under an
\* update key whose mutex is poisoned and still in the map, so that no later
\* command can reach `tx.put` and meet the lock under the store's RwLock.
LeftLocksAreFenced ==
    \A i \in TxId : \A k \in Key :
        /\ txs[i] # NoTx /\ txs[i].kind = "Update"
        /\ txs[i].buffer[k] # Unwritten
        /\ ~\E t \in Thread : handle[t].st = "begun" /\ handle[t].id = i
        => \A uk \in UpdateKey : k \in Footprint[uk] => mutex[uk] \in poisoned

\* The store's RwLock is never poisoned, whatever commands panic or drop their
\* handle, as long as update keys have disjoint footprints.
StoreUsable == rwlock = "usable"

\* What a command answers is what happened to the data: it changes only when a command
\* returns Ok, after the enclave reported success, and then to what the enclave wrote;
\* and all that the enclave wrote is there when the command returns Ok.  A commit_tx that
\* fails is an error to the caller and leaves the data as it was.
AnswersMatchData ==
    [][ /\ \A k \in Key : db'[k].val # db[k].val =>
              \E t \in Thread :
                 /\ call[t].at = "returned" /\ call[t].ok = "yes"
                 /\ call'[t] = Answered
                 /\ db'[k].val = tx_get(txs[handle[t].id], k)
        /\ \A t \in Thread : call[t].at = "returned" /\ call'[t] = Answered =>
              LET stx == txs[handle[t].id] IN
              \A k \in Key : stx.kind = "Update" /\ stx.buffer[k] # Unwritten =>
                 db'[k].val = stx.buffer[k] ]_cvars

\* When no new command arrives every command that was issued returns, fails or
\* panics: no thread waits forever for a mutex whose holder is gone.
CommandsEnd ==
    <>[][\A t \in Thread : ~create_transaction(t)]_cvars
        => <>[](\A t \in Thread : handle[t].st = "none" /\ call[t].at = "none")

\* raw_execute_command asserts that the output is shorter than its buffer.
OutputFitsBuffer ==
    \A t \in Thread : call[t].at = "returned" => call[t].len < OutputMaxLen
=============================================================================
