---------------------------- MODULE Stores_proofs ----------------------------
(***************************************************************************)
(* Theorems about the two stores of modules/store that are kept in memory. *)
(*                                                                         *)
(* MemStore, for every number of threads, update keys and keys: its        *)
(* asserts hold and it implements CommitStore, without any assumption on   *)
(* the footprints.                                                         *)
(*                                                                         *)
(* EnclaveView, a command on a CacheKVS, for any number of accesses, keys, *)
(* values and answers of the host.  The invariant is that the cache holds, *)
(* of each key, what the command wrote last or else read first.            *)
(***************************************************************************)
EXTENDS MemStore, EnclaveView, TLAPS

\* The provers a leaf that names none is given to, in this order.
USE SMTT(10), ZenonT(10), SMTT(30), SMTT(60)

Command == [at : {"none", "created", "begun", "enclave"}, key : UpdateKey]

MTypeOK ==
    /\ running_tx_exists \in {"yes", "no"}
    /\ latest_tx_id \in 0..MaxTxId
    /\ uncommitted_data \in [Key -> Data \cup {Unwritten}]
    /\ committed_data \in [Key -> Data]
    /\ command \in [Thread -> Command]
    /\ lock \in {"usable", "poisoned"}

\* Uncommitted writes are those of a command in the enclave.  A command that fails
\* to load its key has written nothing, so the flag it leaves set is all it leaves.
WritesOwned ==
    lock = "usable" => \A k \in Key : uncommitted_data[k] # Unwritten =>
        \E t \in Thread : command[t].at = "enclave" /\ k \in Footprint[command[t].key]

MInv == MTypeOK /\ RunningWhileBegun /\ WritesOwned

-----------------------------------------------------------------------------
\* A new MemStore has no transaction.
LEMMA InitMInv == Init => MInv
<1> SUFFICES ASSUME Init PROVE MInv
  OBVIOUS
<1>1. command \in [Thread -> Command] /\ \A t \in Thread : command[t].at = "none"
  BY DEF Init, NoCommand, Command
<1> QED
  BY <1>1, MemStoreAssumption
     DEF Init, MInv, MTypeOK, RunningWhileBegun, WritesOwned, NoWrites, Data

\* What a step does to the stage of a thread's command.
LEMMA StageStep ==
    ASSUME MTypeOK, NEW t \in Thread, NEW s \in {"none", "created", "begun", "enclave"},
           command' = [command EXCEPT ![t].at = s]
    PROVE  /\ command' \in [Thread -> Command]
           /\ command'[t].at = s /\ command'[t].key = command[t].key
           /\ \A u \in Thread \ {t} : command'[u] = command[u]
<1>1. command' = [command EXCEPT ![t] = [command[t] EXCEPT !.at = s]]
  OBVIOUS
<1>2. command[t] \in Command
  BY DEF MTypeOK
<1>3. [command[t] EXCEPT !.at = s] \in Command
  BY <1>2 DEF Command
<1>4. command'[t] = [command[t] EXCEPT !.at = s]
  BY <1>1 DEF MTypeOK
<1> QED
  BY <1>1, <1>2, <1>3, <1>4 DEF MTypeOK, Command

(* Every step preserves the invariant. *)
LEMMA NextMInv == MInv /\ [Next]_vars => MInv'
<1> SUFFICES ASSUME MInv, [Next]_vars PROVE MInv'
  OBVIOUS
<1> USE MemStoreAssumption
<1>0. MTypeOK /\ RunningWhileBegun /\ WritesOwned
  BY DEF MInv
<1>1. ASSUME NEW t \in Thread, NEW uk \in UpdateKey, create_transaction(t, uk) PROVE MInv'
  <2>1. /\ command' \in [Thread -> Command] /\ command[t].at = "none"
        /\ command'[t].at = "created"
        /\ \A u \in Thread \ {t} : command'[u] = command[u]
    BY <1>0, <1>1 DEF create_transaction, MTypeOK, Command
  <2>2. MTypeOK'
    BY <1>0, <1>1, <2>1 DEF create_transaction, MTypeOK
  <2>3. RunningWhileBegun' /\ WritesOwned'
    BY <1>0, <1>1, <2>1 DEF create_transaction, RunningWhileBegun, WritesOwned
  <2> QED
    BY <2>2, <2>3 DEF MInv
<1>2. ASSUME NEW t \in Thread, begin(t) PROVE MInv'
  <2>1. CASE running_tx_exists = "no"
    <3>1. /\ command' \in [Thread -> Command] /\ command'[t].at = "begun"
          /\ \A u \in Thread \ {t} : command'[u] = command[u]
      BY <1>0, <1>2, <2>1, StageStep DEF begin
    <3>2. \A u \in Thread : command[u].at \notin {"begun", "enclave"}
      BY <1>0, <2>1 DEF RunningWhileBegun
    <3>3. MTypeOK' /\ RunningWhileBegun'
      BY <1>0, <1>2, <2>1, <3>1, <3>2 DEF begin, MTypeOK, RunningWhileBegun
    <3>4. WritesOwned'
      BY <1>0, <1>2, <2>1, <3>1, <3>2 DEF begin, WritesOwned
    <3> QED
      BY <3>3, <3>4 DEF MInv
  <2>2. CASE running_tx_exists # "no"
    <3>1. /\ command' \in [Thread -> Command] /\ command'[t].at = "none"
          /\ \A u \in Thread \ {t} : command'[u] = command[u]
      BY <1>0, <1>2, <2>2, StageStep DEF begin
    <3> QED
      BY <1>0, <1>2, <2>2, <3>1 DEF begin, MInv, MTypeOK, RunningWhileBegun, WritesOwned
  <2> QED
    BY <2>1, <2>2
<1>3. ASSUME NEW t \in Thread, load_error(t) PROVE MInv'
  <2>1. /\ command' \in [Thread -> Command] /\ command'[t].at = "none"
        /\ \A u \in Thread \ {t} : command'[u] = command[u]
    BY <1>0, <1>3, StageStep, Zenon DEF load_error
  <2> QED
    BY <1>0, <1>3, <2>1 DEF load_error, MInv, MTypeOK, RunningWhileBegun, WritesOwned
<1>4. ASSUME NEW t \in Thread, enter_enclave(t) PROVE MInv'
  <2>1. /\ command' \in [Thread -> Command] /\ command'[t].at = "enclave"
        /\ \A u \in Thread \ {t} : command'[u] = command[u]
    BY <1>0, <1>4, StageStep, Zenon DEF enter_enclave
  <2> QED
    BY <1>0, <1>4, <2>1 DEF enter_enclave, MInv, MTypeOK, RunningWhileBegun, WritesOwned
<1>5. ASSUME NEW t \in Thread, NEW k \in Key, NEW v \in Data, tx_write(t, k, v) PROVE MInv'
  <2>1. /\ uncommitted_data' = [uncommitted_data EXCEPT ![k] = v]
        /\ UNCHANGED <<committed_data, running_tx_exists, latest_tx_id, command, lock>>
        /\ command[t].at = "enclave" /\ k \in Footprint[command[t].key]
    BY <1>0, <1>5 DEF tx_write, RunningWhileBegun
  <2>2. MTypeOK' /\ RunningWhileBegun'
    BY <1>0, <2>1 DEF MTypeOK, RunningWhileBegun
  <2>3. WritesOwned'
    BY <1>0, <2>1 DEF MTypeOK, WritesOwned
  <2> QED
    BY <2>2, <2>3 DEF MInv
<1>6. ASSUME NEW t \in Thread, commit(t) \/ rollback(t) PROVE MInv'
  <2>1. /\ command' \in [Thread -> Command] /\ command'[t].at = "none"
        /\ \A u \in Thread \ {t} : command'[u] = command[u]
        /\ command[t].at = "enclave"
    BY <1>0, <1>6, StageStep DEF commit, rollback
  <2>2. RunningWhileBegun' /\ WritesOwned'
    BY <1>0, <1>6, <2>1 DEF commit, rollback, NoWrites, RunningWhileBegun, WritesOwned
  <2>3. MTypeOK'
    BY <1>0, <1>6, <2>1 DEF commit, rollback, NoWrites, MTypeOK
  <2> QED
    BY <2>2, <2>3 DEF MInv
<1>7. ASSUME NEW t \in Thread, store_panic(t) PROVE MInv'
  <2>1. /\ command' \in [Thread -> Command] /\ command'[t].at = "none"
        /\ \A u \in Thread \ {t} : command'[u] = command[u]
    BY <1>0, <1>7, StageStep, Zenon DEF store_panic
  <2> QED
    BY <1>0, <1>7, <2>1 DEF store_panic, MInv, MTypeOK, RunningWhileBegun, WritesOwned
<1>8. CASE UNCHANGED vars
  BY <1>0, <1>8 DEF vars, MInv, MTypeOK, RunningWhileBegun, WritesOwned
<1> QED
  BY <1>1, <1>2, <1>3, <1>4, <1>5, <1>6, <1>7, <1>8 DEF Next, create_overflow

(* The asserts of commit and rollback never fail, however commands overlap and
   although a failed load leaves the flag set. *)
THEOREM RunningWhileBegunHolds == Spec => []RunningWhileBegun
<1>1. MInv => RunningWhileBegun
  BY DEF MInv
<1> QED
  BY InitMInv, NextMInv, <1>1, PTL DEF Spec

-----------------------------------------------------------------------------
(* The refinement mapping. *)
RunningIn == [uk \in UpdateKey |-> {t \in Thread : Running(t, uk)}]

SeenIn ==
    [uk \in UpdateKey |->
        IF \E t \in Thread : Running(t, uk) THEN committed_data ELSE [k \in Key |-> None]]

\* A step that keeps the running transactions and the committed data is a stutter.
LEMMA StutterMapped ==
    ASSUME committed_data' = committed_data,
           \A t \in Thread, uk \in UpdateKey : Running(t, uk)' <=> Running(t, uk)
    PROVE  UNCHANGED CS!vars
<1>1. RunningIn' = RunningIn
  BY DEF RunningIn
<1>2. SeenIn' = SeenIn
  <2>1. \A uk \in UpdateKey :
           (\E t \in Thread : Running(t, uk)') <=> (\E t \in Thread : Running(t, uk))
    OBVIOUS
  <2> QED
    BY <2>1 DEF SeenIn
<1> QED
  BY <1>1, <1>2 DEF CS!vars, RunningIn, SeenIn

(* A thread whose transaction runs leaves: for CommitStore its transaction ends, and
   no other was running. *)
LEMMA EndMapped ==
    ASSUME MInv, NEW t \in Thread, command[t].at \in {"begun", "enclave"},
           command'[t].at = "none",
           \A u \in Thread \ {t} : command'[u] = command[u]
    PROVE  CS!End(t, command[t].key)
<1> DEFINE b == command[t].key
<1>0. b \in UpdateKey
  BY DEF MInv, MTypeOK, Command
<1>1. \A u \in Thread, uk \in UpdateKey : Running(u, uk) <=> u = t /\ uk = b
  BY DEF MInv, RunningWhileBegun, Running
<1>2. \A u \in Thread, uk \in UpdateKey : ~Running(u, uk)'
  BY <1>1 DEF Running
<1>3. RunningIn[b] = {t}
  BY <1>0, <1>1 DEF RunningIn
<1>4. RunningIn' = [RunningIn EXCEPT ![b] = {}]
  <2>1. \A uk \in UpdateKey : RunningIn'[uk] = {}
    BY <1>2 DEF RunningIn
  <2>2. \A uk \in UpdateKey \ {b} : RunningIn[uk] = {}
    BY <1>1 DEF RunningIn
  <2> QED
    BY <1>0, <2>1, <2>2, Zenon DEF RunningIn
<1>5. SeenIn' = [SeenIn EXCEPT ![b] = [k \in Key |-> None]]
  <2>1. \A uk \in UpdateKey : SeenIn'[uk] = [k \in Key |-> None]
    BY <1>2 DEF SeenIn
  <2>2. \A uk \in UpdateKey \ {b} : SeenIn[uk] = [k \in Key |-> None]
    BY <1>1 DEF SeenIn
  <2> QED
    BY <1>0, <2>1, <2>2, Zenon DEF SeenIn
<1> QED
  BY <1>3, <1>4, <1>5, Zenon DEF CS!End, CS!Nothing, RunningIn, SeenIn

(* Every step of MemStore is a step or a stutter of CommitStore. *)
LEMMA NextMapped == ASSUME MInv, [Next]_vars PROVE [CS!Next]_(CS!vars)
<1> USE MemStoreAssumption
<1>0. MTypeOK /\ RunningWhileBegun /\ WritesOwned
  BY DEF MInv
<1>1. ASSUME NEW t \in Thread, NEW uk \in UpdateKey, create_transaction(t, uk)
      PROVE  UNCHANGED CS!vars
  <2>1. /\ command[t].at = "none" /\ command'[t].at = "created"
        /\ \A u \in Thread \ {t} : command'[u] = command[u]
    BY <1>0, <1>1 DEF create_transaction, MTypeOK
  <2> QED
    BY <1>1, <2>1, StutterMapped DEF create_transaction, Running
<1>2. ASSUME NEW t \in Thread, begin(t)
      PROVE  UNCHANGED CS!vars \/ \E uk \in UpdateKey : CS!Begin(t, uk)
  <2>1. CASE running_tx_exists = "no"
    <3> DEFINE b == command[t].key
    <3>1. /\ b \in UpdateKey
          /\ command'[t].at = "begun" /\ command'[t].key = b
          /\ \A u \in Thread \ {t} : command'[u] = command[u]
          /\ committed_data' = committed_data
      BY <1>0, <1>2, <2>1, StageStep DEF begin, MTypeOK, Command
    <3>2. \A u \in Thread, uk \in UpdateKey : ~Running(u, uk)
      BY <1>0, <2>1 DEF RunningWhileBegun, Running
    <3>3. \A u \in Thread, uk \in UpdateKey : Running(u, uk)' <=> u = t /\ uk = b
      BY <3>1, <3>2 DEF Running
    <3>4. RunningIn[b] = {} /\ RunningIn' = [RunningIn EXCEPT ![b] = {t}]
      <4>1. \A uk \in UpdateKey : RunningIn[uk] = {}
        BY <3>2 DEF RunningIn
      <4>2. RunningIn'[b] = {t} /\ \A uk \in UpdateKey \ {b} : RunningIn'[uk] = {}
        BY <3>1, <3>3 DEF RunningIn
      <4>3. /\ RunningIn = [uk \in UpdateKey |-> RunningIn[uk]]
            /\ RunningIn' = [uk \in UpdateKey |-> RunningIn'[uk]]
        BY DEF RunningIn
      <4>4. RunningIn' = [RunningIn EXCEPT ![b] = {t}]
        BY <3>1, <4>1, <4>2, <4>3
      <4> QED
        BY <3>1, <4>1, <4>4
    <3>5. SeenIn' = [SeenIn EXCEPT ![b] = committed_data]
      <4>1. \A uk \in UpdateKey : SeenIn[uk] = [k \in Key |-> None]
        BY <3>2 DEF SeenIn
      <4>2. /\ SeenIn'[b] = committed_data
            /\ \A uk \in UpdateKey \ {b} : SeenIn'[uk] = [k \in Key |-> None]
        BY <3>1, <3>3 DEF SeenIn
      <4> QED
        BY <3>1, <4>1, <4>2, Zenon DEF SeenIn
    <3>6. CS!Begin(t, b)
      BY <3>1, <3>4, <3>5 DEF CS!Begin, RunningIn, SeenIn
    <3> QED
      BY <3>1, <3>6
  <2>2. CASE running_tx_exists # "no"
    <3>1. /\ command[t].at = "created" /\ command'[t].at = "none"
          /\ \A u \in Thread \ {t} : command'[u] = command[u]
      BY <1>0, <1>2, <2>2, StageStep DEF begin
    <3> QED
      BY <1>2, <3>1, StutterMapped DEF begin, Running
  <2> QED
    BY <2>1, <2>2
<1>3. ASSUME NEW t \in Thread, load_error(t) \/ rollback(t) \/ store_panic(t)
      PROVE  UNCHANGED CS!vars \/ \E uk \in UpdateKey : CS!Rollback(t, uk)
  <2>1. /\ command'[t].at = "none" /\ committed_data' = committed_data
        /\ \A u \in Thread \ {t} : command'[u] = command[u]
        /\ command[t].key \in UpdateKey
    BY <1>0, <1>3, StageStep DEF load_error, rollback, store_panic, MTypeOK, Command
  <2>2. CASE command[t].at \in {"begun", "enclave"}
    BY <2>1, <2>2, EndMapped DEF CS!Rollback
  <2>3. CASE command[t].at \notin {"begun", "enclave"}
    BY <2>1, <2>3, StutterMapped DEF Running
  <2> QED
    BY <2>2, <2>3
<1>4. ASSUME NEW t \in Thread, enter_enclave(t)
      PROVE  UNCHANGED CS!vars
  <2>1. /\ command[t].at = "begun" /\ command'[t].at = "enclave"
        /\ command'[t].key = command[t].key
        /\ \A u \in Thread \ {t} : command'[u] = command[u]
    BY <1>0, <1>4, StageStep, Zenon DEF enter_enclave
  <2> QED
    BY <1>4, <2>1, StutterMapped DEF enter_enclave, Running
<1>5. ASSUME NEW t \in Thread, NEW k \in Key, NEW v \in Data, tx_write(t, k, v)
      PROVE  UNCHANGED CS!vars
  <2>1. committed_data' = committed_data /\ command' = command
    BY <1>0, <1>5 DEF tx_write, RunningWhileBegun
  <2> QED
    BY <2>1, StutterMapped DEF Running
<1>6. ASSUME NEW t \in Thread, commit(t)
      PROVE  \E uk \in UpdateKey : CS!Commit(t, uk)
  <2> DEFINE b == command[t].key
  <2>1. /\ b \in UpdateKey /\ command[t].at = "enclave" /\ command'[t].at = "none"
        /\ \A u \in Thread \ {t} : command'[u] = command[u]
    BY <1>0, <1>6, StageStep DEF commit, MTypeOK, Command
  <2>2. CS!End(t, b)
    BY <2>1, EndMapped
  <2>3. SeenIn[b] = committed_data
    BY <2>1 DEF SeenIn, Running
  <2>4. \A u \in Thread \ {t} : command[u].at # "enclave"
    BY <1>0, <2>1 DEF RunningWhileBegun
  <2>5. \A k \in Key : uncommitted_data[k] # Unwritten => k \in Footprint[b]
    BY <1>0, <1>6, <2>4 DEF WritesOwned, commit
  <2>6. committed_data' \in [Key -> Data]
    BY <1>0, <1>6 DEF commit, MTypeOK
  <2>7. \A k \in Key \ Footprint[b] : committed_data'[k] = committed_data[k]
    BY <1>6, <2>5 DEF commit
  <2> DEFINE w == [k \in Footprint[b] |-> committed_data'[k]]
  <2>8. w \in [Footprint[b] -> Data]
    BY <2>1, <2>6
  <2>9. committed_data' = [k \in Key |-> IF k \in Footprint[b] THEN w[k] ELSE committed_data[k]]
    BY <2>6, <2>7
  <2>10. \A k \in Footprint[b] : SeenIn[b][k] = committed_data[k]
    BY <2>3
  <2>11. CS!Commit(t, b)
    BY <2>2, <2>8, <2>9, <2>10, ZenonT(30) DEF CS!Commit, CS!Data, Data, SeenIn
  <2> QED
    BY <2>1, <2>11
<1>7. ASSUME UNCHANGED vars PROVE UNCHANGED CS!vars
  BY <1>7, StutterMapped DEF vars, Running
<1> QED
  BY <1>1, <1>2, <1>3, <1>4, <1>5, <1>6, <1>7 DEF Next, create_overflow, CS!Next

\* A new MemStore is an initial state of CommitStore.
LEMMA InitMapped == Init => CS!Init
<1> SUFFICES ASSUME Init PROVE CS!Init
  OBVIOUS
<1>1. \A t \in Thread, uk \in UpdateKey : ~Running(t, uk)
  BY DEF Init, NoCommand, Running
<1>2. /\ RunningIn = [uk \in UpdateKey |-> {}]
      /\ SeenIn = [uk \in UpdateKey |-> [k \in Key |-> None]]
  BY <1>1 DEF RunningIn, SeenIn
<1>3. committed_data \in [Key -> Data]
  BY DEF Init, Data
<1> QED
  BY <1>2, <1>3 DEF CS!Init, CS!Nothing, CS!Data, Data, RunningIn, SeenIn

(* The in-memory store keeps the promise of the trait CommitStore, by stopping when
   two transactions would overlap. *)
THEOREM MemStoreImplementsCommitStore == Spec => ImplementsCommitStore
<1>1. MInv /\ [Next]_vars => [CS!Next]_(CS!vars)
  BY NextMapped
<1> QED
  BY InitMInv, NextMInv, InitMapped, <1>1, PTL DEF Spec, ImplementsCommitStore, CS!Spec

-----------------------------------------------------------------------------
(* The store of the enclave.                                               *)

\* The host's answer is no error and shorter than the output buffer.
Fits(a) == ~a.fails /\ a.len < OcallMaxLen

\* TxStore::get of an answer that fits is the host's data; any other answer is a panic
\* of the unwrap, and the data is not touched.
LEMMA TxStoreGet ==
    ASSUME NEW kv \in [Key -> Data], NEW k \in Key, NEW a \in AnyAnswer
    PROVE  LET tx == TxStore(kv, [op |-> "get", key |-> k, answer |-> a])
           IN  /\ tx.kv = kv
               /\ Fits(a) => tx.result # Panic /\ tx.result[2] = kv[k]
               /\ ~Fits(a) => tx.result = Panic
<1>1. kv[k] \in Data
  OBVIOUS
<1>2. Panic # <<"Get", kv[k]>>
  BY <1>1, CacheAssumption
<1> QED
  BY <1>2, CacheAssumption
     DEF TxStore, ocall_execute_command, dispatch, execute_command_result, Fits, AnyAnswer

\* TxStore::set panics exactly when the answer does not fit.
LEMMA TxStoreSet ==
    ASSUME NEW kv \in [Key -> Data], NEW k \in Key, NEW v \in Value, NEW a \in AnyAnswer
    PROVE  LET tx == TxStore(kv, [op |-> "set", key |-> k, value |-> v, answer |-> a])
           IN  /\ tx.kv \in [Key -> Data]
               /\ (tx.result = Panic) <=> ~Fits(a)
<1>1. Panic # <<"Set">>
  BY CacheAssumption
<1> QED
  BY <1>1, CacheAssumption
     DEF TxStore, ocall_execute_command, dispatch, execute_command_result, Fits, AnyAnswer, Data

\* TxStore::remove panics exactly when the answer does not fit.
LEMMA TxStoreRemove ==
    ASSUME NEW kv \in [Key -> Data], NEW k \in Key, NEW a \in AnyAnswer
    PROVE  LET tx == TxStore(kv, [op |-> "remove", key |-> k, answer |-> a])
           IN  /\ tx.kv \in [Key -> Data]
               /\ (tx.result = Panic) <=> ~Fits(a)
<1>1. Panic # <<"Remove">>
  BY CacheAssumption
<1> QED
  BY <1>1, CacheAssumption
     DEF TxStore, ocall_execute_command, dispatch, execute_command_result, Fits, AnyAnswer, Data

\* The keys a cache may hold, each with a value or with None.
Caches == UNION {[K -> Data] : K \in SUBSET Key}

\* The values of `store`.
Stores ==
    [kv : [Key -> Data], cache : Caches,
     panicked : BOOLEAN, got : Seq(Data), reads : [Key -> Nat]]

\* A CacheKVS with these fields.
StoreWith(kv, cache, panicked, got, reads) ==
    [kv |-> kv, cache |-> cache, panicked |-> panicked, got |-> got, reads |-> reads]

\* Fields of the right types make a store (CacheKVS::new and its updates).
LEMMA StoreWithType ==
    ASSUME NEW kv \in [Key -> Data], NEW cache \in Caches,
           NEW panicked \in BOOLEAN, NEW got \in Seq(Data), NEW reads \in [Key -> Nat]
    PROVE  StoreWith(kv, cache, panicked, got, reads) \in Stores
BY Zenon DEF StoreWith, Stores

\* The fields of a store (CacheKVS) have their types.
LEMMA StoreFields ==
    ASSUME NEW s \in Stores
    PROVE  /\ s.kv \in [Key -> Data]
           /\ s.cache \in Caches
           /\ s.panicked \in BOOLEAN
           /\ s.got \in Seq(Data)
           /\ s.reads \in [Key -> Nat]
BY DEF Stores

\* A store is its fields.
Own(r) == StoreWith(r.kv, r.cache, r.panicked, r.got, r.reads)

\* What CacheKVS::set and ::remove change of a store, field by field.
LEMMA StoreExcept ==
    ASSUME NEW s \in Stores, ~s.panicked, NEW kv, NEW cache
    PROVE  /\ [s EXCEPT !.kv = kv, !.panicked = TRUE]
                 = StoreWith(kv, s.cache, TRUE, s.got, s.reads)
           /\ [s EXCEPT !.kv = kv, !.cache = cache]
                 = StoreWith(kv, cache, FALSE, s.got, s.reads)
<1>0. s.panicked = FALSE
  BY StoreFields
<1>1. ASSUME NEW r, r = [s EXCEPT !.kv = kv, !.panicked = TRUE]
      PROVE  r = StoreWith(kv, s.cache, TRUE, s.got, s.reads)
  <2>1. r = Own(r)
    BY <1>1, Zenon DEF Stores, StoreWith, Own
  <2>2. r.kv = kv /\ r.panicked = TRUE /\ r.cache = s.cache /\ r.got = s.got /\ r.reads = s.reads
    BY <1>1 DEF Stores
  <2> QED
    BY <2>1, <2>2, Zenon DEF Own
<1>2. ASSUME NEW r, r = [s EXCEPT !.kv = kv, !.cache = cache]
      PROVE  r = StoreWith(kv, cache, FALSE, s.got, s.reads)
  <2>1. r = Own(r)
    BY <1>2, Zenon DEF Stores, StoreWith, Own
  <2>2. r.kv = kv /\ r.panicked = s.panicked /\ r.cache = cache /\ r.got = s.got
        /\ r.reads = s.reads
    BY <1>2 DEF Stores
  <2> QED
    BY <1>0, <2>1, <2>2, Zenon DEF Own
<1> QED
  BY <1>1, <1>2, Zenon

\* `c` is `cache` with v at k.
HasInserted(c, cache, k, v) ==
    /\ c \in Caches
    /\ DOMAIN c = DOMAIN cache \cup {k}
    /\ \A j \in DOMAIN cache \cup {k} : c[j] = IF j = k THEN v ELSE cache[j]

\* BTreeMap::insert on the cache adds or replaces one key.
LEMMA Inserted ==
    ASSUME NEW cache \in Caches, NEW k \in Key, NEW v \in Data
    PROVE  HasInserted(insert(cache, k, v), cache, k, v)
<1>1. PICK K \in SUBSET Key : cache \in [K -> Data]
  BY DEF Caches
<1>2. DOMAIN cache = K
  BY <1>1
<1>3. insert(cache, k, v) \in [K \cup {k} -> Data]
  BY <1>1, <1>2 DEF insert
<1>4. K \cup {k} \in SUBSET Key
  BY <1>1
<1>5. insert(cache, k, v) \in Caches
  BY <1>3, <1>4 DEF Caches
<1> QED
  BY <1>2, <1>5 DEF insert, HasInserted

\* CacheKVS::get of a cached key does not ask the host.
LEMMA HitGet ==
    ASSUME NEW s \in Stores, ~s.panicked, NEW k \in DOMAIN s.cache, NEW a
    PROVE  access(s, [op |-> "get", key |-> k, answer |-> a])
             = StoreWith(s.kv, s.cache, FALSE, Append(s.got, s.cache[k]), s.reads)
BY Zenon DEF access, cache_get, Stores, StoreWith

\* CacheKVS::get of a key that is not cached asks the host once and caches the answer,
\* or panics.
LEMMA MissGet ==
    ASSUME NEW s \in Stores, ~s.panicked, NEW k \in Key, k \notin DOMAIN s.cache,
           NEW a \in AnyAnswer
    PROVE  access(s, [op |-> "get", key |-> k, answer |-> a])
             = IF Fits(a)
               THEN StoreWith(s.kv, insert(s.cache, k, s.kv[k]), FALSE, Append(s.got, s.kv[k]),
                              [s.reads EXCEPT ![k] = @ + 1])
               ELSE StoreWith(s.kv, s.cache, TRUE, s.got, [s.reads EXCEPT ![k] = @ + 1])
<1> DEFINE tx == TxStore(s.kv, [op |-> "get", key |-> k, answer |-> a])
<1>1. s.kv \in [Key -> Data]
  BY DEF Stores
<1>2. tx.kv = s.kv /\ (Fits(a) => tx.result # Panic /\ tx.result[2] = s.kv[k])
          /\ (~Fits(a) => tx.result = Panic)
  BY <1>1, TxStoreGet
<1>3. access(s, [op |-> "get", key |-> k, answer |-> a])
        = cache_get(s, [op |-> "get", key |-> k, answer |-> a])
  BY DEF access
<1> HIDE DEF tx
<1> DEFINE r == cache_get(s, [op |-> "get", key |-> k, answer |-> a])
           more == [s.reads EXCEPT ![k] = @ + 1]
<1>4. r = IF tx.result = Panic
          THEN [s EXCEPT !.kv = tx.kv, !.reads = more, !.panicked = TRUE]
          ELSE [s EXCEPT !.kv = tx.kv, !.reads = more,
                         !.cache = insert(s.cache, k, tx.result[2]),
                         !.got = Append(s.got, tx.result[2])]
  BY DEF cache_get, cache_insert, tx, Stores
<1>5. s.panicked = FALSE
  BY StoreFields
<1> HIDE DEF more, r
<1>6. r = Own(r)
  BY <1>4, Zenon DEF Stores, StoreWith, Own
<1>7. CASE Fits(a)
  <2>1. r.kv = s.kv /\ r.panicked = s.panicked /\ r.reads = more
    BY <1>2, <1>4, <1>7 DEF Stores
  <2>2. r.cache = insert(s.cache, k, s.kv[k]) /\ r.got = Append(s.got, s.kv[k])
    BY <1>2, <1>4, <1>7 DEF Stores
  <2> QED
    BY <1>3, <1>5, <1>6, <1>7, <2>1, <2>2, Zenon DEF Own, r, more
<1>8. CASE ~Fits(a)
  <2>1. r.kv = s.kv /\ r.panicked = TRUE /\ r.reads = more /\ r.cache = s.cache /\ r.got = s.got
    BY <1>2, <1>4, <1>8 DEF Stores
  <2> QED
    BY <1>3, <1>6, <1>8, <2>1, Zenon DEF Own, r, more
<1> QED
  BY <1>7, <1>8, Zenon

\* The operation that leaves v at k: a set, or a remove when v is None.
WriteOp(k, v, a) ==
    IF v = None THEN [op |-> "remove", key |-> k, answer |-> a]
    ELSE [op |-> "set", key |-> k, value |-> v, answer |-> a]

\* CacheKVS::set and ::remove write through, then change the cache, or panic.
LEMMA Writes ==
    ASSUME NEW s \in Stores, ~s.panicked, NEW k \in Key, NEW v \in Data, NEW a \in AnyAnswer
    PROVE  \E kv \in [Key -> Data] :
               access(s, WriteOp(k, v, a)) =
                   IF Fits(a) THEN StoreWith(kv, insert(s.cache, k, v), FALSE, s.got, s.reads)
                   ELSE StoreWith(kv, s.cache, TRUE, s.got, s.reads)
<1> DEFINE op == WriteOp(k, v, a)
<1> DEFINE tx == TxStore(s.kv, op)
<1>1. s.kv \in [Key -> Data]
  BY StoreFields
<1>2. tx.kv \in [Key -> Data] /\ ((tx.result = Panic) <=> ~Fits(a))
  <2>1. CASE v = None
    <3>1. op = [op |-> "remove", key |-> k, answer |-> a]
      BY <2>1, Zenon DEF WriteOp
    <3> QED
      BY <1>1, <3>1, TxStoreRemove
  <2>2. CASE v # None
    <3>1. op = [op |-> "set", key |-> k, value |-> v, answer |-> a]
      BY <2>2, Zenon DEF WriteOp
    <3>2. v \in Value
      BY <2>2 DEF Data
    <3> QED
      BY <1>1, <3>1, <3>2, TxStoreSet
  <2> QED
    BY <2>1, <2>2, Zenon
<1>3. access(s, op) = cache_write(s, op, v)
  BY DEF access, cache_set, cache_remove, WriteOp
<1>4. op.key = k
  BY DEF WriteOp
<1> HIDE DEF op, tx
<1>5. cache_write(s, op, v)
        = IF tx.result = Panic THEN [s EXCEPT !.kv = tx.kv, !.panicked = TRUE]
          ELSE [s EXCEPT !.kv = tx.kv, !.cache = insert(s.cache, k, v)]
  BY <1>4 DEF cache_write, tx
<1>6. cache_write(s, op, v)
        = IF tx.result = Panic THEN StoreWith(tx.kv, s.cache, TRUE, s.got, s.reads)
          ELSE StoreWith(tx.kv, insert(s.cache, k, v), FALSE, s.got, s.reads)
  BY <1>5, StoreExcept, Zenon
<1> QED
  BY <1>2, <1>3, <1>6, Zenon DEF op

-----------------------------------------------------------------------------
ViewTypeOK ==
    /\ store \in Stores
    /\ own \in [Key -> Data \cup {Unwritten}]
    /\ first \in [Key -> Data \cup {Unwritten}]

\* While the command goes on, the cache holds what it knows of a key, and a key it does
\* not know was not asked for.
KeyInv(k) ==
    IF k \in DOMAIN store.cache
    THEN store.cache[k] = Seen(k) /\ Seen(k) \in Data
    ELSE Seen(k) = Unwritten /\ store.reads[k] = 0

ViewInv ==
    /\ ViewTypeOK
    /\ ~store.panicked => \A k \in Key : KeyInv(k)
    /\ ReadsOnce

\* new_enclave_store starts with an empty cache, so nothing is known of any key.
LEMMA ViewStart == ViewInit => ViewInv
<1> SUFFICES ASSUME ViewInit PROVE ViewInv
  OBVIOUS
<1>1. PICK kv \in [Key -> Data] : store = NewStore(kv)
  BY DEF ViewInit
<1>2. <<>> \in [{} -> Data] /\ {} \in SUBSET Key
  OBVIOUS
<1>3. <<>> \in Caches
  BY <1>2 DEF Caches
<1>a. <<>> \in Seq(Data)
  OBVIOUS
<1>b. [k \in Key |-> 0] \in [Key -> Nat]
  OBVIOUS
<1>4. store \in Stores
  BY <1>1, <1>3, <1>a, <1>b, Zenon DEF NewStore, Stores
<1>5. ViewTypeOK
  BY <1>4 DEF ViewTypeOK, ViewInit
<1>6. /\ \A k \in Key : k \notin DOMAIN store.cache /\ store.reads[k] = 0
  BY <1>1 DEF NewStore
<1>7. \A k \in Key : Seen(k) = Unwritten
  BY DEF ViewInit, Seen
<1> QED
  BY <1>5, <1>6, <1>7 DEF ViewInv, KeyInv, ReadsOnce

\* What a get does: a hit, a miss that is answered and a miss that is not.
GetHits(k) ==
    /\ k \in DOMAIN store.cache
    /\ store' = StoreWith(store.kv, store.cache, FALSE, Append(store.got, store.cache[k]),
                          store.reads)
    /\ first' = first

GetMisses(k) ==
    /\ k \notin DOMAIN store.cache
    /\ store' = StoreWith(store.kv, insert(store.cache, k, store.kv[k]), FALSE,
                          Append(store.got, store.kv[k]), [store.reads EXCEPT ![k] = @ + 1])
    /\ first' = [first EXCEPT ![k] = store.kv[k]]

GetPanics(k) ==
    /\ k \notin DOMAIN store.cache
    /\ store' = StoreWith(store.kv, store.cache, TRUE, store.got,
                          [store.reads EXCEPT ![k] = @ + 1])
    /\ first' = first

\* The three outcomes of CacheKVS::get.
LEMMA GetCases ==
    ASSUME ViewInv, NEW k \in Key, NEW a \in AnyAnswer, view_get(k, a)
    PROVE  /\ own' = own
           /\ \/ GetHits(k)
              \/ Fits(a) /\ GetMisses(k)
              \/ ~Fits(a) /\ GetPanics(k)
<1> DEFINE op == [op |-> "get", key |-> k, answer |-> a]
<1>1. store \in Stores /\ ~store.panicked
  BY DEF ViewInv, ViewTypeOK, view_get
<1>2. store' = access(store, op) /\ own' = own
  BY DEF view_get
<1>3. first' = IF own[k] = Unwritten /\ first[k] = Unwritten /\ ~store'.panicked
               THEN [first EXCEPT ![k] = store.kv[k]] ELSE first
  BY DEF view_get
<1>4. CASE k \in DOMAIN store.cache
  <2>1. store' = StoreWith(store.kv, store.cache, FALSE, Append(store.got, store.cache[k]),
                           store.reads)
    BY <1>1, <1>2, <1>4, HitGet, Zenon
  <2>2. Seen(k) # Unwritten
    BY <1>1, <1>4, CacheAssumption DEF ViewInv, KeyInv
  <2>3. first' = first
    BY <1>3, <2>2 DEF Seen
  <2>4. GetHits(k)
    BY <1>4, <2>1, <2>3, Zenon DEF GetHits
  <2> QED
    BY <1>2, <2>4, Zenon
<1>5. CASE k \notin DOMAIN store.cache
  <2>1. own[k] = Unwritten /\ first[k] = Unwritten
    BY <1>1, <1>5 DEF ViewInv, KeyInv, Seen
  <2>2. CASE Fits(a)
    <3>1. store' = StoreWith(store.kv, insert(store.cache, k, store.kv[k]), FALSE,
                             Append(store.got, store.kv[k]), [store.reads EXCEPT ![k] = @ + 1])
      BY <1>1, <1>2, <1>5, <2>2, MissGet, Zenon
    <3>2. ~store'.panicked
      BY <3>1 DEF StoreWith
    <3>3. first' = [first EXCEPT ![k] = store.kv[k]]
      BY <1>3, <2>1, <3>2
    <3>4. GetMisses(k)
      BY <1>5, <3>1, <3>3, Zenon DEF GetMisses
    <3> QED
      BY <1>2, <2>2, <3>4, Zenon
  <2>3. CASE ~Fits(a)
    <3>1. store' = StoreWith(store.kv, store.cache, TRUE, store.got,
                             [store.reads EXCEPT ![k] = @ + 1])
      BY <1>1, <1>2, <1>5, <2>3, MissGet, Zenon
    <3>2. store'.panicked
      BY <3>1 DEF StoreWith
    <3>3. first' = first
      BY <1>3, <3>2
    <3>4. GetPanics(k)
      BY <1>5, <3>1, <3>3, Zenon DEF GetPanics
    <3> QED
      BY <1>2, <2>3, <3>4, Zenon
  <2> QED
    BY <2>2, <2>3
<1> QED
  BY <1>4, <1>5

\* What a set (v a value) or a remove (v = None) does.
Wrote(k, v, a) ==
    \E kv \in [Key -> Data] :
        \/ /\ Fits(a)
           /\ store' = StoreWith(kv, insert(store.cache, k, v), FALSE, store.got, store.reads)
           /\ own' = [own EXCEPT ![k] = v]
        \/ /\ ~Fits(a)
           /\ store' = StoreWith(kv, store.cache, TRUE, store.got, store.reads)
           /\ own' = own

\* The two outcomes of CacheKVS::set and ::remove.
LEMMA WriteCases ==
    ASSUME ViewInv, NEW k \in Key, NEW a \in AnyAnswer, NEW v \in Data,
           \/ v = None /\ view_remove(k, a)
           \/ v # None /\ view_set(k, v, a)
    PROVE  Wrote(k, v, a) /\ first' = first
<1>1. store \in Stores
  BY DEF ViewInv, ViewTypeOK
<1>2. /\ ~store.panicked
      /\ store' = access(store, WriteOp(k, v, a))
      /\ own' = IF store'.panicked THEN own ELSE [own EXCEPT ![k] = v]
      /\ first' = first
  BY Zenon DEF view_remove, view_set, WriteOp
<1>3. PICK kv \in [Key -> Data] :
        access(store, WriteOp(k, v, a)) =
            IF Fits(a) THEN StoreWith(kv, insert(store.cache, k, v), FALSE, store.got, store.reads)
            ELSE StoreWith(kv, store.cache, TRUE, store.got, store.reads)
  BY <1>1, <1>2, Writes, Zenon
<1>4. CASE Fits(a)
  <2>1. store' = StoreWith(kv, insert(store.cache, k, v), FALSE, store.got, store.reads)
    BY <1>2, <1>3, <1>4, Zenon
  <2>2. ~store'.panicked
    BY <2>1 DEF StoreWith
  <2>3. own' = [own EXCEPT ![k] = v]
    BY <1>2, <2>2, Zenon
  <2> QED
    BY <1>2, <1>4, <2>1, <2>3, Zenon DEF Wrote
<1>5. CASE ~Fits(a)
  <2>1. store' = StoreWith(kv, store.cache, TRUE, store.got, store.reads)
    BY <1>2, <1>3, <1>5, Zenon
  <2>2. store'.panicked
    BY <2>1 DEF StoreWith
  <2>3. own' = own
    BY <1>2, <2>2, Zenon
  <2> QED
    BY <1>2, <1>5, <2>1, <2>3, Zenon DEF Wrote
<1> QED
  BY <1>4, <1>5, Zenon

\* CacheKVS::get keeps the cache equal to what the command knows.
LEMMA GetKeeps ==
    ASSUME ViewInv, NEW k \in Key, NEW a \in AnyAnswer, view_get(k, a)
    PROVE  ViewInv'
<1>1. /\ store.kv \in [Key -> Data]
      /\ store.cache \in Caches
      /\ store.got \in Seq(Data)
      /\ store.reads \in [Key -> Nat]
  BY StoreFields DEF ViewInv, ViewTypeOK
<1>2. /\ first \in [Key -> Data \cup {Unwritten}]
      /\ own \in [Key -> Data \cup {Unwritten}]
      /\ own' = own
  BY GetCases DEF ViewInv, ViewTypeOK
<1>3. /\ \A j \in Key : KeyInv(j)
      /\ \A j \in Key : store.reads[j] <= 1
  BY DEF ViewInv, ReadsOnce, view_get
<1>4. CASE GetHits(k)
  <2>1. store.cache[k] \in Data
    BY <1>3, <1>4 DEF KeyInv, GetHits
  <2>2. Append(store.got, store.cache[k]) \in Seq(Data)
    BY <1>1, <2>1
  <2>3. store' \in Stores
    BY <1>1, <1>4, <2>2, StoreWithType, Zenon DEF GetHits
  <2>4. store'.cache = store.cache /\ store'.reads = store.reads /\ first' = first
    BY <1>4 DEF GetHits, StoreWith
  <2>5. \A j \in Key : Seen(j)' = Seen(j)
    BY <1>2, <2>4 DEF Seen
  <2>6. \A j \in Key : KeyInv(j)'
    BY <1>3, <2>4, <2>5 DEF KeyInv
  <2> QED
    BY <1>2, <1>3, <2>3, <2>4, <2>6 DEF ViewInv, ViewTypeOK, ReadsOnce
<1>5. CASE GetMisses(k)
  <2>1. store.kv[k] \in Data
    BY <1>1
  <2>2. Append(store.got, store.kv[k]) \in Seq(Data)
    BY <1>1, <2>1
  <2>3. [store.reads EXCEPT ![k] = @ + 1] \in [Key -> Nat]
    BY <1>1
  <2>4. /\ store'.cache = insert(store.cache, k, store.kv[k])
        /\ store'.reads = [store.reads EXCEPT ![k] = @ + 1]
        /\ first' = [first EXCEPT ![k] = store.kv[k]]
    BY <1>5 DEF GetMisses, StoreWith
  <2>5. HasInserted(store'.cache, store.cache, k, store.kv[k])
    <3>1. HasInserted(insert(store.cache, k, store.kv[k]), store.cache, k, store.kv[k])
      BY <1>1, <2>1, Inserted, Zenon
    <3> QED
      BY <2>4, <3>1, Zenon
  <2>6. store' \in Stores
    <3>1. insert(store.cache, k, store.kv[k]) \in Caches
      BY <2>4, <2>5, Zenon DEF HasInserted
    <3>2. FALSE \in BOOLEAN
      OBVIOUS
    <3>3. StoreWith(store.kv, insert(store.cache, k, store.kv[k]), FALSE,
                    Append(store.got, store.kv[k]), [store.reads EXCEPT ![k] = @ + 1]) \in Stores
      BY <1>1, <2>2, <2>3, <3>1, <3>2, StoreWithType, Zenon
    <3> QED
      BY <1>5, <3>3, Zenon DEF GetMisses
  <2>7. Seen(k) = Unwritten /\ store.reads[k] = 0
    BY <1>3, <1>5 DEF KeyInv, GetMisses
  <2>8. \A j \in Key : Seen(j)' = IF j = k THEN store.kv[k] ELSE Seen(j)
    BY <1>2, <2>4, <2>7 DEF Seen
  <2>9. \A j \in Key : store'.reads[j] = IF j = k THEN 1 ELSE store.reads[j]
    BY <1>1, <2>4, <2>7
  <2>10. \A j \in Key : KeyInv(j)'
    BY <1>3, <2>1, <2>5, <2>8, <2>9 DEF KeyInv, HasInserted
  <2>11. first' \in [Key -> Data \cup {Unwritten}]
    BY <1>2, <2>1, <2>4
  <2> QED
    BY <1>2, <1>3, <2>6, <2>9, <2>10, <2>11 DEF ViewInv, ViewTypeOK, ReadsOnce
<1>6. CASE GetPanics(k)
  <2>1. [store.reads EXCEPT ![k] = @ + 1] \in [Key -> Nat]
    BY <1>1
  <2>2. store' \in Stores
    BY <1>1, <1>6, <2>1, StoreWithType, Zenon DEF GetPanics
  <2>3. /\ store'.reads = [store.reads EXCEPT ![k] = @ + 1]
        /\ store'.panicked
        /\ first' = first
    BY <1>6 DEF GetPanics, StoreWith
  <2>4. store.reads[k] = 0
    BY <1>3, <1>6 DEF KeyInv, GetPanics
  <2>5. \A j \in Key : store'.reads[j] <= 1
    BY <1>1, <1>3, <2>3, <2>4
  <2> QED
    BY <1>2, <2>2, <2>3, <2>5 DEF ViewInv, ViewTypeOK, ReadsOnce
<1> QED
  BY <1>4, <1>5, <1>6, GetCases

\* CacheKVS::set and ::remove keep the cache equal to what the command knows.
LEMMA WriteKeeps ==
    ASSUME ViewInv, ~store.panicked, NEW k \in Key, NEW a \in AnyAnswer, NEW v \in Data,
           Wrote(k, v, a), first' = first
    PROVE  ViewInv'
<1>1. /\ store.cache \in Caches
      /\ store.got \in Seq(Data)
      /\ store.reads \in [Key -> Nat]
  BY StoreFields DEF ViewInv, ViewTypeOK
<1>2. /\ first \in [Key -> Data \cup {Unwritten}]
      /\ own \in [Key -> Data \cup {Unwritten}]
  BY DEF ViewInv, ViewTypeOK
<1>3. /\ \A j \in Key : KeyInv(j)
      /\ \A j \in Key : store.reads[j] <= 1
  BY DEF ViewInv, ReadsOnce
<1>4. PICK kv \in [Key -> Data] :
        \/ /\ Fits(a)
           /\ store' = StoreWith(kv, insert(store.cache, k, v), FALSE, store.got, store.reads)
           /\ own' = [own EXCEPT ![k] = v]
        \/ /\ ~Fits(a)
           /\ store' = StoreWith(kv, store.cache, TRUE, store.got, store.reads)
           /\ own' = own
  BY Zenon DEF Wrote
<1>5. store'.reads = store.reads
  BY <1>4 DEF StoreWith
<1>6. CASE Fits(a)
  <2>1. store'.cache = insert(store.cache, k, v)
    BY <1>4, <1>6 DEF StoreWith
  <2>2. HasInserted(store'.cache, store.cache, k, v)
    <3>1. HasInserted(insert(store.cache, k, v), store.cache, k, v)
      BY <1>1, Inserted, Zenon
    <3> QED
      BY <2>1, <3>1, Zenon
  <2>3. store' \in Stores
    <3>1. FALSE \in BOOLEAN
      OBVIOUS
    <3>2. store' = StoreWith(kv, store'.cache, FALSE, store.got, store.reads)
      BY <1>4, <1>6, <2>1, Zenon
    <3> QED
      BY <1>1, <2>2, <3>1, <3>2, StoreWithType, Zenon DEF HasInserted
  <2>4. own' = [own EXCEPT ![k] = v]
    BY <1>4, <1>6
  <2>5. v # Unwritten
    BY CacheAssumption
  <2>6. \A j \in Key : Seen(j)' = IF j = k THEN v ELSE Seen(j)
    BY <1>2, <2>4, <2>5 DEF Seen
  <2>7. \A j \in Key : KeyInv(j)'
    BY <1>3, <1>5, <2>2, <2>6 DEF KeyInv, HasInserted
  <2>8. own' \in [Key -> Data \cup {Unwritten}]
    BY <1>2, <2>4
  <2> QED
    BY <1>2, <1>3, <1>5, <2>3, <2>7, <2>8 DEF ViewInv, ViewTypeOK, ReadsOnce
<1>7. CASE ~Fits(a)
  <2>1. /\ store' = StoreWith(kv, store.cache, TRUE, store.got, store.reads)
        /\ own' = own
    BY <1>4, <1>7, Zenon
  <2>2. store' \in Stores
    <3>1. TRUE \in BOOLEAN
      OBVIOUS
    <3> QED
      BY <1>1, <2>1, <3>1, StoreWithType, Zenon
  <2>3. store'.panicked
    BY <2>1 DEF StoreWith
  <2>4. ViewTypeOK'
    BY <1>2, <2>1, <2>2, Zenon DEF ViewTypeOK
  <2>5. ReadsOnce'
    BY <1>3, <1>5, Zenon DEF ReadsOnce
  <2> QED
    BY <2>3, <2>4, <2>5, Zenon DEF ViewInv
<1> QED
  BY <1>6, <1>7

\* What the host does to its data between two ocalls does not reach the cache.
LEMMA HostKeeps ==
    ASSUME ViewInv, NEW k \in Key, NEW v \in Data, view_host(k, v)
    PROVE  ViewInv'
<1>1. store \in Stores /\ ~store.panicked
  BY DEF ViewInv, ViewTypeOK, view_host
<1>2. store' = [store EXCEPT !.kv[k] = v]
  BY DEF view_host, access
<1>3. store' \in Stores
  BY <1>1, <1>2, Zenon DEF Stores
<1>4. store'.cache = store.cache /\ store'.reads = store.reads
  BY <1>1, <1>2 DEF Stores
<1>5. own' = own /\ first' = first
  BY DEF view_host
<1>6. \A j \in Key : KeyInv(j)'
  BY <1>1, <1>4, <1>5 DEF ViewInv, KeyInv, Seen
<1> QED
  BY <1>3, <1>4, <1>5, <1>6 DEF ViewInv, ViewTypeOK, ReadsOnce

\* Every access of CacheKVS keeps the invariant.
LEMMA ViewStep == ViewInv /\ [ViewNext]_view_vars => ViewInv'
<1> SUFFICES ASSUME ViewInv, [ViewNext]_view_vars PROVE ViewInv'
  OBVIOUS
<1>1. CASE UNCHANGED view_vars
  BY <1>1 DEF view_vars, ViewInv, ViewTypeOK, KeyInv, Seen, ReadsOnce
<1>2. ASSUME NEW k \in Key, NEW a \in AnyAnswer, NEW v \in Value, view_set(k, v, a)
      PROVE  ViewInv'
  <2>1. v \in Data /\ v # None
    BY CacheAssumption DEF Data
  <2>2. ~store.panicked
    BY <1>2 DEF view_set
  <2> QED
    BY <1>2, <2>1, <2>2, WriteCases, WriteKeeps, Zenon
<1>3. ASSUME NEW k \in Key, NEW a \in AnyAnswer, view_remove(k, a)
      PROVE  ViewInv'
  <2>1. None \in Data
    BY DEF Data
  <2>2. ~store.panicked
    BY <1>3 DEF view_remove
  <2> QED
    BY <1>3, <2>1, <2>2, WriteCases, WriteKeeps, Zenon
<1> QED
  BY <1>1, <1>2, <1>3, GetKeeps, HostKeeps, Zenon DEF ViewNext

\* The cache of CacheKVS is what the command wrote last or read first, and a key that
\* is not cached was not asked of the host, until the command panics.
THEOREM ViewIsInvariant == ViewSpec => []ViewInv
BY ViewStart, ViewStep, PTL DEF ViewSpec

\* CacheKVS::get asks the host for a key at most once in a command, as the comment of
\* new_enclave_store says.
THEOREM ReadsAtMostOnce == ViewSpec => []ReadsOnce
<1>1. ViewInv => ReadsOnce
  BY DEF ViewInv
<1> QED
  BY <1>1, ViewIsInvariant, PTL

\* What CacheKVS::get read first of a key is never read again.
LEMMA FirstStays ==
    ASSUME ViewInv, [ViewNext]_view_vars, NEW k \in Key, first[k] # Unwritten
    PROVE  first'[k] = first[k]
<1>0. first \in [Key -> Data \cup {Unwritten}]
  BY DEF ViewInv, ViewTypeOK
<1>1. CASE UNCHANGED view_vars
  BY <1>1 DEF view_vars
<1>2. ASSUME NEW j \in Key, NEW a \in AnyAnswer, view_get(j, a)
      PROVE  first'[k] = first[k]
  BY <1>0, <1>2 DEF view_get
<1>3. ASSUME NEW j \in Key, NEW a \in AnyAnswer, NEW v, view_set(j, v, a)
      PROVE  first'[k] = first[k]
  BY <1>3 DEF view_set
<1>4. ASSUME NEW j \in Key, NEW a \in AnyAnswer, view_remove(j, a)
      PROVE  first'[k] = first[k]
  BY <1>4 DEF view_remove
<1>5. ASSUME NEW j \in Key, NEW v, view_host(j, v)
      PROVE  first'[k] = first[k]
  BY <1>5 DEF view_host
<1> QED
  BY <1>1, <1>2, <1>3, <1>4, <1>5, Zenon DEF ViewNext

\* CacheKVS::get returns what the command wrote last or read first.
LEMMA GetReturnsSeen ==
    ASSUME ViewInv, NEW k \in Key, NEW a \in AnyAnswer, view_get(k, a), ~store'.panicked
    PROVE  store'.got = Append(store.got, Seen(k)') /\ Seen(k)' \in Data
<1>1. KeyInv(k)
  BY DEF ViewInv, view_get
<1>2. own' = own /\ (GetHits(k) \/ GetMisses(k) \/ GetPanics(k))
  BY GetCases, Zenon
<1>3. ~GetPanics(k)
  BY DEF GetPanics, StoreWith
<1>4. CASE GetHits(k)
  <2>1. Seen(k)' = Seen(k)
    BY <1>2, <1>4 DEF GetHits, Seen
  <2>2. store.cache[k] = Seen(k) /\ Seen(k) \in Data
    BY <1>1, <1>4 DEF KeyInv, GetHits
  <2>3. store'.got = Append(store.got, store.cache[k])
    BY <1>4 DEF GetHits, StoreWith
  <2> QED
    BY <2>1, <2>2, <2>3, Zenon
<1>5. CASE GetMisses(k)
  <2>1. store.kv[k] \in Data
    BY StoreFields DEF ViewInv, ViewTypeOK
  <2>2. own[k] = Unwritten
    BY <1>1, <1>5 DEF KeyInv, GetMisses, Seen
  <2>3. first'[k] = store.kv[k]
    BY <1>5 DEF GetMisses, ViewInv, ViewTypeOK
  <2>4. Seen(k)' = store.kv[k]
    BY <1>2, <2>2, <2>3 DEF Seen
  <2>5. store'.got = Append(store.got, store.kv[k])
    BY <1>5 DEF GetMisses, StoreWith
  <2> QED
    BY <2>1, <2>4, <2>5, Zenon
<1> QED
  BY <1>2, <1>3, <1>4, <1>5

\* Whatever the host changes between two accesses, the gets of a command see one store:
\* CacheKVS::get returns what the command wrote last or read first, for any number and
\* order of accesses, any keys and values and any length of the output buffer.
THEOREM EnclaveSeesOneStore == ViewSpec => GetsSeeOneStore
<1>1. ViewInv /\ [ViewNext]_view_vars =>
        [\A k \in Key :
          /\ first[k] # Unwritten => first'[k] = first[k]
          /\ \A a \in AnyAnswer :
                view_get(k, a) /\ ~store'.panicked =>
                    /\ store'.got = Append(store.got, Seen(k)')
                    /\ Seen(k)' \in Data]_view_vars
  BY FirstStays, GetReturnsSeen, Zenon
<1> QED
  BY <1>1, ViewIsInvariant, PTL DEF ViewSpec, GetsSeeOneStore

\* TxStore's unwrap and execute_command's length check: an answer that is an error or
\* does not fit ends the command, and never passes for an absent value or a write done.
THEOREM BadAnswersEndCommand == ViewSpec => BadAnswersPanic
<1>1. ASSUME ViewInv, NEW k \in Key, NEW a \in AnyAnswer, a.fails \/ a.len >= OcallMaxLen
      PROVE  /\ view_get(k, a) /\ Seen(k) = Unwritten => store'.panicked
             /\ \A v \in Value : view_set(k, v, a) => store'.panicked
             /\ view_remove(k, a) => store'.panicked
  <2>1. ~Fits(a)
    BY <1>1, CacheAssumption DEF Fits, AnyAnswer
  <2>2. \A v \in Data : Wrote(k, v, a) => store'.panicked
    BY <2>1 DEF Wrote, StoreWith
  <2>3. ASSUME view_get(k, a), Seen(k) = Unwritten PROVE store'.panicked
    <3>1. KeyInv(k)
      BY <1>1, <2>3 DEF ViewInv, view_get
    <3>2. ~GetHits(k)
      BY <2>3, <3>1, CacheAssumption, Zenon DEF KeyInv, GetHits
    <3>3. GetPanics(k)
      BY <1>1, <2>1, <2>3, <3>2, GetCases, Zenon
    <3> QED
      BY <3>3 DEF GetPanics, StoreWith
  <2>4. ASSUME NEW v \in Value, view_set(k, v, a) PROVE store'.panicked
    <3>1. v \in Data /\ v # None
      BY CacheAssumption DEF Data
    <3> QED
      BY <1>1, <2>2, <2>4, <3>1, WriteCases, Zenon
  <2>5. ASSUME view_remove(k, a) PROVE store'.panicked
    <3>1. None \in Data
      BY DEF Data
    <3> QED
      BY <1>1, <2>2, <2>5, <3>1, WriteCases, Zenon
  <2> QED
    BY <2>3, <2>4, <2>5, Zenon
<1>2. ViewInv /\ [ViewNext]_view_vars =>
        [\A k \in Key, a \in AnyAnswer :
          a.fails \/ a.len >= OcallMaxLen =>
              /\ view_get(k, a) /\ Seen(k) = Unwritten => store'.panicked
              /\ \A v \in Value : view_set(k, v, a) => store'.panicked
              /\ view_remove(k, a) => store'.panicked]_view_vars
  BY <1>1, Zenon
<1> QED
  BY <1>2, ViewIsInvariant, PTL DEF ViewSpec, BadAnswersPanic
=============================================================================
