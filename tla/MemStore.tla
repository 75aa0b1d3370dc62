------------------------------ MODULE MemStore ------------------------------
(***************************************************************************)
(* The in-memory host store of the tests (modules/store/src/memory.rs),    *)
(* used by execute_command the way ExecuteCommand describes: a command     *)
(* begins a transaction, may fail to load its enclave key, writes, and     *)
(* commits or rolls back.  Every call locks the store's own Mutex inside   *)
(* the RwLock, so an assertion that fails poisons both.                    *)
(***************************************************************************)
EXTENDS Naturals, KVStore

CONSTANTS Thread, UpdateKey, Footprint, MaxTxId

ASSUME MemStoreAssumption ==
    /\ MaxTxId \in Nat
    /\ Footprint \in [UpdateKey -> SUBSET Key]
    /\ Unwritten \notin Data

VARIABLES
    running_tx_exists,  \* "yes" or "no"
    latest_tx_id,
    uncommitted_data,
    committed_data,
    command,            \* each thread's command: its stage and its update key
    lock                \* the RwLock and the Mutex around the store

vars == <<running_tx_exists, latest_tx_id, uncommitted_data, committed_data,
          command, lock>>

NoCommand(uk) == [at |-> "none", key |-> uk]

NoWrites == [k \in Key |-> Unwritten]

Init ==
    /\ running_tx_exists = "no"
    /\ latest_tx_id = 0
    /\ uncommitted_data = NoWrites
    /\ committed_data = [k \in Key |-> None]
    /\ command \in [Thread -> {NoCommand(uk) : uk \in UpdateKey}]
    /\ lock = "usable"

\* create_transaction ignores the update key; prepare does nothing.
create_transaction(t, uk) ==
    /\ lock = "usable" /\ command[t].at = "none"
    /\ latest_tx_id < MaxTxId
    /\ latest_tx_id' = latest_tx_id + 1
    /\ command' = [command EXCEPT ![t] = [at |-> "created", key |-> uk]]
    /\ UNCHANGED <<running_tx_exists, uncommitted_data, committed_data, lock>>

create_overflow(t) ==
    /\ lock = "usable" /\ command[t].at = "none"
    /\ latest_tx_id = MaxTxId
    /\ UNCHANGED vars

\* Mutant of begin: no assertion that no transaction runs.
begin_any(t) ==
    /\ lock = "usable" /\ command[t].at = "created"
    /\ running_tx_exists' = "yes"
    /\ command' = [command EXCEPT ![t].at = "begun"]
    /\ UNCHANGED <<latest_tx_id, uncommitted_data, committed_data, lock>>

\* `assert!(!self.running_tx_exists)`: the locks are poisoned when it fails.
begin(t) ==
    /\ lock = "usable" /\ command[t].at = "created"
    /\ IF running_tx_exists = "no"
       THEN /\ running_tx_exists' = "yes"
            /\ command' = [command EXCEPT ![t].at = "begun"]
            /\ UNCHANGED lock
       ELSE /\ lock' = "poisoned"
            /\ command' = [command EXCEPT ![t].at = "none"]
            /\ UNCHANGED running_tx_exists
    /\ UNCHANGED <<latest_tx_id, uncommitted_data, committed_data>>

\* execute_command: `load(addr)?` returns and drops the handle, a plain MemTx.
load_error(t) ==
    /\ lock = "usable" /\ command[t].at = "begun"
    /\ command' = [command EXCEPT ![t].at = "none"]
    /\ UNCHANGED <<running_tx_exists, latest_tx_id, uncommitted_data,
                   committed_data, lock>>

enter_enclave(t) ==
    /\ lock = "usable" /\ command[t].at = "begun"
    /\ command' = [command EXCEPT ![t].at = "enclave"]
    /\ UNCHANGED <<running_tx_exists, latest_tx_id, uncommitted_data,
                   committed_data, lock>>

\* tx_set and tx_remove, which ignore the id of the transaction.
tx_write(t, k, v) ==
    /\ lock = "usable" /\ command[t].at = "enclave"
    /\ k \in Footprint[command[t].key]
    /\ IF running_tx_exists = "yes"
       THEN /\ uncommitted_data' = [uncommitted_data EXCEPT ![k] = v]
            /\ UNCHANGED committed_data
       ELSE /\ committed_data' = [committed_data EXCEPT ![k] = v]
            /\ UNCHANGED uncommitted_data
    /\ UNCHANGED <<running_tx_exists, latest_tx_id, command, lock>>

\* commit and rollback assert that a transaction runs; RunningWhileBegun says so.
commit(t) ==
    /\ lock = "usable" /\ command[t].at = "enclave"
    /\ running_tx_exists = "yes"
    /\ running_tx_exists' = "no"
    /\ uncommitted_data' = NoWrites
    /\ committed_data' = [k \in Key |-> IF uncommitted_data[k] = Unwritten
                                        THEN committed_data[k]
                                        ELSE uncommitted_data[k]]
    /\ command' = [command EXCEPT ![t].at = "none"]
    /\ UNCHANGED <<latest_tx_id, lock>>

\* Mutant of rollback: `uncommitted_data` is not cleared.
rollback_keeps(t) ==
    /\ lock = "usable" /\ command[t].at = "enclave"
    /\ running_tx_exists = "yes"
    /\ running_tx_exists' = "no"
    /\ command' = [command EXCEPT ![t].at = "none"]
    /\ UNCHANGED <<latest_tx_id, uncommitted_data, committed_data, lock>>

rollback(t) ==
    /\ lock = "usable" /\ command[t].at = "enclave"
    /\ running_tx_exists = "yes"
    /\ running_tx_exists' = "no"
    /\ uncommitted_data' = NoWrites
    /\ command' = [command EXCEPT ![t].at = "none"]
    /\ UNCHANGED <<latest_tx_id, committed_data, lock>>

\* A thread that uses a poisoned store panics.
store_panic(t) ==
    /\ lock = "poisoned"
    /\ command' = [command EXCEPT ![t].at = "none"]
    /\ UNCHANGED <<running_tx_exists, latest_tx_id, uncommitted_data,
                   committed_data, lock>>

Next ==
    \E t \in Thread :
       \/ \E uk \in UpdateKey : create_transaction(t, uk)
       \/ create_overflow(t)
       \/ begin(t)
       \/ load_error(t)
       \/ enter_enclave(t)
       \/ \E k \in Key, v \in Data : tx_write(t, k, v)
       \/ commit(t)
       \/ rollback(t)
       \/ store_panic(t)

Spec == Init /\ [][Next]_vars

-----------------------------------------------------------------------------
\* The asserts of commit and rollback hold: while a command's transaction is begun
\* the flag is set, and no other command's transaction is.
RunningWhileBegun ==
    \A t \in Thread : command[t].at \in {"begun", "enclave"} =>
        /\ running_tx_exists = "yes"
        /\ \A u \in Thread \ {t} : command[u].at \notin {"begun", "enclave"}

Running(t, uk) == command[t].at \in {"begun", "enclave"} /\ command[t].key = uk

CS == INSTANCE CommitStore WITH
          data    <- committed_data,
          running <- [uk \in UpdateKey |-> {t \in Thread : Running(t, uk)}],
          seen    <- [uk \in UpdateKey |->
                         IF \E t \in Thread : Running(t, uk)
                         THEN committed_data ELSE [k \in Key |-> None]]

\* MemStore keeps the promise of CommitStore, by stopping when two transactions
\* would overlap.
ImplementsCommitStore == CS!Spec
=============================================================================
