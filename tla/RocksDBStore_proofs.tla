------------------------ MODULE RocksDBStore_proofs ------------------------
(***************************************************************************)
(* Theorems about RocksDBStore for every number of threads, update keys,   *)
(* keys and transactions.                                                  *)
(*                                                                         *)
(* MutualExclusion is not inductive: whether two threads lock the same     *)
(* mutex depends on when the entry of `mutex` is removed, which depends on *)
(* the strong count.  IInv says that the count of an entry is one more     *)
(* than the number of handles of its update key and that those handles     *)
(* all own that entry's mutex.                                             *)
(***************************************************************************)
EXTENDS RocksDBStore, TLAPS

\* The provers a leaf that names none is given to, in this order.
USE SMTT(10), ZenonT(10), SMTT(30), SMTT(60)

\* S has n elements: f numbers them.
Counts(n, S) ==
    /\ n \in Nat
    /\ \E f \in [1..n -> S] :
          /\ \A i, j \in 1..n : f[i] = f[j] => i = j
          /\ \A x \in S : \E i \in 1..n : f[i] = x

\* The threads that own a handle of the update key.
Users(uk) == {t \in Thread : Live(t, uk)}

HandleInv ==
    \A t \in Thread :
        /\ handle[t].st = "none" => handle[t] = NoHandle
        /\ handle[t].st # "none" => handle[t].id \in 1..latest_tx_id
        /\ handle[t].update_key = NoKey => handle[t].mutex = 0
        /\ \A u \in Thread :
              handle[t].st # "none" /\ handle[u].st # "none"
              /\ handle[t].id = handle[u].id => t = u

MutexInv ==
    /\ \A uk \in UpdateKey : mutex[uk] <= latest_tx_id
    /\ \A a, b \in UpdateKey : mutex[a] # 0 /\ mutex[a] = mutex[b] => a = b

OwnsEntry ==
    \A t \in Thread, uk \in UpdateKey :
        Live(t, uk) => mutex[uk] # 0 /\ handle[t].mutex = mutex[uk]

CountInv ==
    \A uk \in UpdateKey :
        mutex[uk] # 0 => Counts(strong[mutex[uk]] - 1, Users(uk))

HasGuard(t) == handle[t].st \in {"prepared", "begun"}

GuardInv ==
    \A t, u \in Thread, uk \in UpdateKey :
        /\ HasGuard(t) /\ handle[t].update_key = uk
        /\ HasGuard(u) /\ handle[u].update_key = uk
        => t = u

TxsInv ==
    \A t \in Thread : handle[t].st = "begun" =>
        /\ txs[handle[t].id] # NoTx
        /\ txs[handle[t].id].kind = "Update" <=> handle[t].update_key # NoKey

ReadOnlyInv ==
    inner = "ReadOnlyDB" => \A t \in Thread : handle[t].update_key = NoKey

Core ==
    /\ HandleInv
    /\ MutexInv
    /\ OwnsEntry
    /\ CountInv
    /\ GuardInv
    /\ TxsInv
    /\ ReadOnlyInv

\* Only threads that own a handle keep entries of `mutex` and `txs`.
NothingLeft ==
    /\ \A uk \in UpdateKey : mutex[uk] # 0 => Users(uk) # {}
    /\ \A i \in TxId : txs[i] # NoTx =>
          \E t \in Thread : handle[t].st = "begun" /\ handle[t].id = i

IInv == TypeOK /\ (rwlock = "usable" => Core /\ NothingLeft)

-----------------------------------------------------------------------------
USE DEF TxId

(* The empty set has no elements, and a set that has some has at least one. *)
LEMMA CountsEmpty ==
    /\ Counts(0, {})
    /\ \A n, S : Counts(n, S) /\ S # {} => n >= 1
    /\ \A S : Counts(0, S) => S = {}
<1>1. Counts(0, {})
  <2>1. [i \in 1..0 |-> i] \in [1..0 -> {}]
    OBVIOUS
  <2>2. 0 \in Nat /\ 1..0 = {}
    OBVIOUS
  <2> QED
    BY <2>1, <2>2, Zenon DEF Counts
<1>2. ASSUME NEW n, NEW S, Counts(n, S), S # {} PROVE n >= 1
  BY <1>2 DEF Counts
<1>3. ASSUME NEW S, Counts(0, S) PROVE S = {}
  BY <1>3 DEF Counts
<1> QED
  BY <1>1, <1>2, <1>3

(* A handle more: Rc::clone. *)
LEMMA CountsMore ==
    ASSUME NEW n, NEW S, NEW x, Counts(n, S), x \notin S
    PROVE  Counts(n + 1, S \cup {x})
<1>1. PICK f \in [1..n -> S] : /\ \A i, j \in 1..n : f[i] = f[j] => i = j
                               /\ \A y \in S : \E i \in 1..n : f[i] = y
  BY DEF Counts
<1>2. n \in Nat
  BY DEF Counts
<1> DEFINE g == [i \in 1..(n + 1) |-> IF i = n + 1 THEN x ELSE f[i]]
<1>3. g \in [1..(n + 1) -> S \cup {x}]
  BY <1>2
<1>4. \A i, j \in 1..(n + 1) : g[i] = g[j] => i = j
  <2>1. \A i \in 1..(n + 1) : i # n + 1 => i \in 1..n
    BY <1>2
  <2>2. \A i \in 1..n : f[i] \in S
    OBVIOUS
  <2> QED
    BY <1>1, <2>1, <2>2
<1>5. ASSUME NEW y \in S \cup {x}
      PROVE  \E i \in 1..(n + 1) : g[i] = y
  <2>1. CASE y = x
    <3>1. n + 1 \in 1..(n + 1) /\ g[n + 1] = y
      BY <1>2, <2>1
    <3> QED
      BY <3>1, Zenon
  <2>2. CASE y \in S
    <3>1. PICK i \in 1..n : f[i] = y
      BY <1>1, <2>2
    <3>2. i \in 1..(n + 1) /\ g[i] = y
      BY <1>2, <3>1
    <3> QED
      BY <3>2, Zenon
  <2> QED
    BY <2>1, <2>2, Zenon
<1>6. n + 1 \in Nat
  BY <1>2
<1> HIDE DEF g
<1> QED
  BY <1>3, <1>4, <1>5, <1>6, Zenon DEF Counts

(* A handle less: the last element takes the number of the one that goes. *)
LEMMA CountsLess ==
    ASSUME NEW n, NEW S, NEW x \in S, Counts(n, S)
    PROVE  n - 1 \in Nat /\ Counts(n - 1, S \ {x})
<1>1. PICK f \in [1..n -> S] : /\ \A i, j \in 1..n : f[i] = f[j] => i = j
                               /\ \A y \in S : \E i \in 1..n : f[i] = y
  BY DEF Counts
<1>2. PICK k \in 1..n : f[k] = x
  BY <1>1
<1>3. n \in Nat /\ n - 1 \in Nat /\ n \in 1..n
  BY <1>2 DEF Counts
<1> DEFINE g == [i \in 1..(n - 1) |-> IF i = k THEN f[n] ELSE f[i]]
<1>4. \A i \in 1..(n - 1) : i \in 1..n /\ i # n
  BY <1>3
<1>5. g \in [1..(n - 1) -> S \ {x}]
  <2>1. ASSUME NEW i \in 1..(n - 1)
        PROVE  (IF i = k THEN f[n] ELSE f[i]) \in S \ {x}
    BY <1>1, <1>2, <1>3, <1>4
  <2> QED
    BY <2>1, Zenon
<1>6. \A i, j \in 1..(n - 1) : g[i] = g[j] => i = j
  BY <1>1, <1>2, <1>3, <1>4
<1>7. ASSUME NEW y \in S \ {x}
      PROVE  \E i \in 1..(n - 1) : g[i] = y
  <2>1. PICK i \in 1..n : f[i] = y
    BY <1>1
  <2>2. CASE i = n
    <3>1. k \in 1..(n - 1)
      BY <1>2, <1>3, <2>1, <2>2
    <3> QED
      BY <2>1, <2>2, <3>1, Zenon
  <2>3. CASE i # n
    <3>1. i \in 1..(n - 1) /\ i # k
      BY <1>2, <1>3, <2>1, <2>3
    <3> QED
      BY <2>1, <3>1, Zenon
  <2> QED
    BY <2>2, <2>3, Zenon
<1> HIDE DEF g
<1> QED
  BY <1>3, <1>5, <1>6, <1>7, Zenon DEF Counts

(* The users are one alone exactly when they count as one. *)
LEMMA CountsOne ==
    ASSUME NEW n, NEW x, Counts(n, {x})
    PROVE  n = 1
<1>1. PICK f \in [1..n -> {x}] : /\ \A i, j \in 1..n : f[i] = f[j] => i = j
                                 /\ \E i \in 1..n : f[i] = x
  BY DEF Counts
<1>2. n \in Nat /\ n >= 1
  BY <1>1 DEF Counts
<1>3. ASSUME n # 1 PROVE FALSE
  <2>1. 1 \in 1..n /\ 2 \in 1..n /\ f[1] = f[2]
    BY <1>2, <1>3
  <2> QED
    BY <1>1, <2>1
<1> QED
  BY <1>3

(* The initial state satisfies the invariant: a store that has just been opened
   has no handles and no entries. *)
LEMMA InitIInv == Init => IInv
<1> SUFFICES ASSUME Init PROVE IInv
  OBVIOUS
<1>1. TypeOK
  <2>1. handle \in [Thread -> Handle]
    BY ConstantsAssumption DEF Init, NoHandle, Handle
  <2>2. db \in [Key -> Cell]
    BY ConstantsAssumption DEF Init, Cell
  <2> QED
    BY <2>1, <2>2, ConstantsAssumption DEF Init, TypeOK
<1>2. HandleInv /\ OwnsEntry /\ GuardInv /\ TxsInv /\ ReadOnlyInv
  BY DEF Init, HandleInv, OwnsEntry, GuardInv, TxsInv, ReadOnlyInv, NoHandle,
         Live, HasGuard
<1>3. MutexInv /\ CountInv /\ NothingLeft
  BY DEF Init, MutexInv, CountInv, NothingLeft
<1> QED
  BY <1>1, <1>2, <1>3 DEF IInv, Core

-----------------------------------------------------------------------------
(* The handle of an update transaction names an update key, and its mutex is
   counted at least twice: once for the handle, once for the entry. *)
LEMMA UpdateHandle ==
    ASSUME TypeOK, Core, NEW t \in Thread, handle[t].st # "none", is_update_tx(t)
    PROVE  LET uk == handle[t].update_key IN
           /\ uk \in UpdateKey
           /\ t \in Users(uk)
           /\ mutex[uk] = handle[t].mutex
           /\ mutex[uk] \in TxId
           /\ Counts(strong[mutex[uk]] - 1, Users(uk))
           /\ strong[mutex[uk]] \in Nat /\ strong[mutex[uk]] >= 2
<1> DEFINE uk == handle[t].update_key
<1>1. uk \in UpdateKey
  BY DEF TypeOK, Handle, is_update_tx
<1>2. Live(t, uk) /\ t \in Users(uk)
  BY DEF Live, Users
<1>3. mutex[uk] # 0 /\ mutex[uk] = handle[t].mutex
  BY <1>1, <1>2 DEF Core, OwnsEntry
<1>4. mutex[uk] \in TxId
  BY <1>1, <1>3, ConstantsAssumption DEF TypeOK
<1>5. Counts(strong[mutex[uk]] - 1, Users(uk))
  BY <1>1, <1>3, Zenon DEF Core, CountInv
<1>6. strong[mutex[uk]] \in Nat /\ strong[mutex[uk]] - 1 >= 1
  BY <1>2, <1>4, <1>5, CountsEmpty DEF TypeOK
<1>7. strong[mutex[uk]] >= 2
  BY <1>6
<1> QED
  BY <1>1, <1>2, <1>3, <1>4, <1>5, <1>6, <1>7, Zenon

(* A begun transaction has its entry in `txs`. *)
LEMMA BegunTx ==
    ASSUME TypeOK, Core, NEW t \in Thread, handle[t].st = "begun"
    PROVE  /\ handle[t].id \in TxId
           /\ txs[handle[t].id] \in StoreTransaction
           /\ txs[handle[t].id].kind = "Update" <=> is_update_tx(t)
<1>1. handle[t].id \in 1..latest_tx_id /\ txs[handle[t].id] # NoTx
  BY DEF Core, HandleInv, TxsInv
<1>2. handle[t].id \in TxId
  BY <1>1, ConstantsAssumption DEF TypeOK
<1> QED
  BY <1>1, <1>2 DEF TypeOK, Core, TxsInv, is_update_tx

(* finalize_tx of an update transaction removes the entry of its key exactly when
   the count is 2, and the count loses the handle and the removed entry. *)
LEMMA FinalizeEffect ==
    ASSUME TypeOK, Core, NEW t \in Thread, finalize_tx(t), is_update_tx(t)
    PROVE  LET uk == handle[t].update_key
               m  == mutex[uk]
           IN  /\ uk \in UpdateKey /\ m \in TxId /\ handle[t].mutex = m
               /\ strong[m] \in Nat /\ strong[m] >= 2
               /\ mutex' = IF strong[m] = 2 THEN [mutex EXCEPT ![uk] = 0] ELSE mutex
               /\ strong' = [strong EXCEPT ![m] = IF strong[m] = 2 THEN 0 ELSE @ - 1]
<1> DEFINE uk == handle[t].update_key
           m  == mutex[uk]
<1>1. /\ uk \in UpdateKey /\ m \in TxId /\ handle[t].mutex = m
      /\ strong[m] \in Nat /\ strong[m] >= 2
  BY UpdateHandle DEF TypeOK, finalize_tx, LastUser
<1>2. /\ mutex' = IF strong[m] = 2 THEN [mutex EXCEPT ![uk] = 0] ELSE mutex
      /\ strong' = [strong EXCEPT ![m] = IF strong[m] = 2 THEN 0 ELSE @ - 1]
  <2>1. /\ mutex' = IF LastUser(m) THEN [mutex EXCEPT ![uk] = 0] ELSE mutex
        /\ strong' = [i \in TxId |-> strong[i] - (IF i = m /\ LastUser(m) THEN 1 ELSE 0)
                                              - (IF i = m THEN 1 ELSE 0)]
    BY <1>1, Zenon DEF finalize_tx
  <2>2. strong \in [TxId -> Nat]
    BY DEF TypeOK
  <2> HIDE DEF uk, m
  <2>3. strong' = [strong EXCEPT ![m] = IF strong[m] = 2 THEN 0 ELSE @ - 1]
    <3>1. \A i \in TxId \ {m} : strong'[i] = strong[i]
      BY <2>1, <2>2
    <3>2. strong'[m] = IF strong[m] = 2 THEN 0 ELSE strong[m] - 1
      BY <1>1, <2>1 DEF LastUser
    <3>3. strong' = [i \in TxId |-> strong'[i]]
      BY <2>1, Zenon
    <3> QED
      BY <1>1, <2>2, <3>1, <3>2, <3>3
  <2> QED
    BY <2>1, <2>3, Zenon DEF LastUser
<1> QED
  BY <1>1, <1>2, Zenon

(* The calls a thread makes of the store, but for a write that RocksDB refuses. *)
StoreCall(t) ==
    \/ create_transaction(t)
    \/ prepare(t)
    \/ begin(t)
    \/ \E k \in Key, v \in Data : tx_write(t, k, v)
    \/ commit(t)
    \/ commit_error(t)
    \/ rollback(t)

\* No call returns once the RwLock is poisoned, and none poisons it.
LEMMA CallsNeedRwLock ==
    ASSUME NEW t \in Thread, StoreCall(t) PROVE rwlock = "usable" /\ rwlock' = "usable"
BY Zenon DEF StoreCall, create_transaction, create_read_tx, create_update_tx, create_invalid_key,
     create_overflow, vars, prepare, begin, tx_write, commit, commit_error, rollback, finalize_tx

(* The calls but commit leave the data alone, and commit writes typed data. *)
LEMMA StoreCallData ==
    ASSUME TypeOK, Core, NEW t \in Thread, StoreCall(t)
    PROVE  /\ db' \in [Key -> Cell]
           /\ db' # db => commit(t)
<1>1. CASE commit(t)
  <2>1. handle[t].st = "begun"
    BY <1>1 DEF commit, finalize_tx
  <2>2. \A k \in Key : txs[handle[t].id].buffer[k] \in Data \cup {Unwritten}
    BY <2>1, BegunTx DEF StoreTransaction
  <2>3. Committed(handle[t].id, txs[handle[t].id]) \in [Key -> Cell]
    BY <2>1, <2>2, BegunTx, ConstantsAssumption DEF Committed, TypeOK, Cell
  <2> QED
    BY <1>1, <2>3 DEF commit, TypeOK
<1>2. CASE ~commit(t)
  BY <1>2, Zenon DEF StoreCall, create_transaction, create_read_tx, create_update_tx,
       create_invalid_key, create_overflow, vars, prepare, begin, tx_write,
       commit_error, rollback, TypeOK
<1> QED
  BY <1>1, <1>2

(* A call keeps the types of the store's fields. *)
LEMMA StoreCallType ==
    ASSUME TypeOK, Core, NEW t \in Thread, StoreCall(t)
    PROVE  TypeOK'
<1> USE ConstantsAssumption
<1>0. db' \in [Key -> Cell]
  BY StoreCallData
<1>1. ASSUME NEW uk \in UpdateKey \cup {NoKey}, create_read_tx(t, uk)
      PROVE  TypeOK'
  BY <1>1 DEF create_read_tx, TypeOK, Handle
<1>2. ASSUME NEW uk \in UpdateKey \cup {NoKey}, create_update_tx(t, uk)
      PROVE  TypeOK'
  BY <1>2 DEF create_update_tx, TypeOK, Handle
<1>3. CASE create_invalid_key(t) \/ create_overflow(t)
  BY <1>3 DEF create_invalid_key, create_overflow, TypeOK, vars
<1>4. CASE prepare(t)
  BY <1>4, ZenonT(60) DEF prepare, TypeOK, Handle
<1>5. CASE begin(t)
  BY <1>5, ZenonT(60) DEF begin, TypeOK, Handle, StoreTransaction
<1>6. ASSUME NEW k \in Key, NEW v \in Data, tx_write(t, k, v)
      PROVE  TypeOK'
  <2>1. handle[t].st = "begun"
    BY <1>6 DEF tx_write
  <2>2. [txs[handle[t].id] EXCEPT !.buffer = [@ EXCEPT ![k] = v]] \in StoreTransaction
    BY <2>1, BegunTx, Zenon DEF StoreTransaction
  <2>3. txs' \in [TxId -> StoreTransaction \cup {NoTx}]
    BY <1>6, <2>1, <2>2, BegunTx, Zenon DEF tx_write, TypeOK
  <2> QED
    BY <1>6, <2>3, Zenon DEF tx_write, TypeOK
<1>7. CASE finalize_tx(t)
  <2>1. strong' \in [TxId -> Nat] /\ mutex' \in [UpdateKey -> 0..MaxTxId]
    <3>1. CASE is_update_tx(t)
      <4>1. /\ handle[t].update_key \in UpdateKey
            /\ mutex' = mutex \/ mutex' = [mutex EXCEPT ![handle[t].update_key] = 0]
        BY <1>7, <3>1, FinalizeEffect, Zenon
      <4>2. PICK m \in TxId : /\ strong[m] \in Nat /\ strong[m] >= 2
                              /\ strong' = [strong EXCEPT ![m] =
                                     IF strong[m] = 2 THEN 0 ELSE strong[m] - 1]
        BY <1>7, <3>1, FinalizeEffect
      <4>3. strong' \in [TxId -> Nat]
        BY <4>2 DEF TypeOK
      <4>4. mutex' \in [UpdateKey -> 0..MaxTxId]
        <5>1. CASE mutex' = mutex
          BY <5>1 DEF TypeOK
        <5>2. CASE mutex' = [mutex EXCEPT ![handle[t].update_key] = 0]
          BY <4>1, <5>2 DEF TypeOK
        <5> QED
          BY <4>1, <5>1, <5>2
      <4> QED
        BY <4>3, <4>4
    <3>2. CASE ~is_update_tx(t)
      BY <1>7, <3>2 DEF finalize_tx, TypeOK
    <3> QED
      BY <3>1, <3>2
  <2>2. handle' \in [Thread -> Handle]
    BY <1>7 DEF finalize_tx, TypeOK, NoHandle, Handle
  <2>3. txs' \in [TxId -> StoreTransaction \cup {NoTx}]
    BY <1>7, Zenon DEF finalize_tx, TypeOK
  <2> QED
    BY <1>0, <1>7, <2>1, <2>2, <2>3, Zenon DEF finalize_tx, TypeOK
<1> QED
  BY <1>1, <1>2, <1>3, <1>4, <1>5, <1>6, <1>7
     DEF StoreCall, create_transaction, commit, commit_error, rollback

(* A refused write and a restart keep the types of the store's fields. *)
LEMMA PanicType ==
    ASSUME TypeOK, Core, NEW t \in Thread, NEW k \in Key, tx_write_panic(t, k)
    PROVE  TypeOK'
<1>1. handle[t].st = "begun" /\ is_update_tx(t)
  BY BegunTx DEF tx_write_panic
<1>2. strong' \in [TxId -> Nat]
  BY <1>1, UpdateHandle DEF tx_write_panic, TypeOK
<1>3. handle' \in [Thread -> Handle]
  BY ConstantsAssumption DEF tx_write_panic, TypeOK, NoHandle, Handle
<1> QED
  BY <1>2, <1>3 DEF tx_write_panic, TypeOK

\* A reopened store has the data it had and nothing else.
LEMMA CrashType == ASSUME TypeOK, crash PROVE TypeOK'
BY ConstantsAssumption DEF crash, TypeOK, Handle, NoHandle, Cell

(* No operation leaves the types of the store's fields. *)
LEMMA TypeStep == ASSUME IInv, [Next]_vars PROVE TypeOK'
<1>1. ASSUME NEW t \in Thread, StoreCall(t)
      PROVE  TypeOK'
  BY <1>1, CallsNeedRwLock, StoreCallType DEF IInv
<1>2. ASSUME NEW t \in Thread, NEW k \in Key, tx_write_panic(t, k)
      PROVE  TypeOK'
  BY <1>2, PanicType, Zenon DEF IInv, tx_write_panic
<1>3. CASE UNCHANGED vars
  BY <1>3 DEF vars, IInv, TypeOK
<1> QED
  BY <1>1, <1>2, <1>3, CrashType DEF Next, StoreCall, poisoned_call, IInv

-----------------------------------------------------------------------------
(* create_transaction preserves the core when it returns a read transaction. *)
LEMMA CreateReadCore ==
    ASSUME TypeOK, Core, NEW t \in Thread, NEW uk \in UpdateKey \cup {NoKey},
           create_read_tx(t, uk)
    PROVE  Core'
<1> USE ConstantsAssumption
<1>0. handle[t] = NoHandle /\ handle'[t].update_key = NoKey
      /\ handle'[t].st = "created" /\ handle'[t].id = latest_tx_id + 1
      /\ handle'[t].mutex = 0
      /\ \A u \in Thread \ {t} : handle'[u] = handle[u]
      /\ latest_tx_id \in Nat
  BY DEF create_read_tx, TypeOK, Core, HandleInv
<1>1. HandleInv'
  BY <1>0 DEF create_read_tx, TypeOK, Core, HandleInv
<1>2. \A k \in UpdateKey, u \in Thread : Live(u, k)' <=> Live(u, k)
  BY <1>0 DEF Live, NoHandle
<1>3. \A k \in UpdateKey : Users(k)' = Users(k)
  BY <1>2 DEF Users
<1>4. MutexInv'
  BY <1>0 DEF create_read_tx, TypeOK, Core, MutexInv
<1>5. OwnsEntry'
  BY <1>0, <1>2 DEF create_read_tx, Core, OwnsEntry, Live
<1>6. CountInv'
  BY <1>3 DEF create_read_tx, Core, CountInv
<1>7. GuardInv'
  BY <1>0 DEF Core, GuardInv, HasGuard
<1>8. TxsInv' /\ ReadOnlyInv'
  BY <1>0 DEF create_read_tx, Core, TxsInv, ReadOnlyInv, NoHandle
<1> QED
  BY <1>1, <1>4, <1>5, <1>6, <1>7, <1>8 DEF Core

(* create_transaction preserves the core when it returns an update transaction:
   the new handle is counted, in a mutex that only handles of its key own. *)
LEMMA CreateUpdateCore ==
    ASSUME TypeOK, Core, NEW t \in Thread, NEW uk \in UpdateKey \cup {NoKey},
           create_update_tx(t, uk)
    PROVE  Core'
<1> USE ConstantsAssumption
<1> DEFINE id == latest_tx_id + 1
           m  == IF mutex[uk] = 0 THEN id ELSE mutex[uk]
<1>0. /\ uk \in UpdateKey
      /\ handle[t] = NoHandle
      /\ handle'[t] = [st |-> "created", id |-> id, update_key |-> uk, mutex |-> m]
      /\ \A u \in Thread \ {t} : handle'[u] = handle[u]
      /\ latest_tx_id \in Nat /\ latest_tx_id' = id /\ id \in TxId
      /\ mutex' = [mutex EXCEPT ![uk] = m]
      /\ strong' = [strong EXCEPT ![m] = IF mutex[uk] = 0 THEN 2 ELSE @ + 1]
      /\ m \in TxId
  BY DEF create_update_tx, TypeOK, Core, HandleInv
<1>1. HandleInv'
  <2>1. \A u \in Thread \ {t} :
           /\ handle'[u].st = "none" => handle'[u] = NoHandle
           /\ handle'[u].st # "none" => handle'[u].id \in 1..latest_tx_id
           /\ handle'[u].update_key = NoKey => handle'[u].mutex = 0
    BY <1>0, Zenon DEF Core, HandleInv
  <2>2. /\ handle'[t].st # "none" /\ handle'[t].id = id
        /\ handle'[t].update_key = uk /\ uk # NoKey
    BY <1>0
  <2>3. \A i \in 1..latest_tx_id : i \in 1..latest_tx_id' /\ i # id
    BY <1>0
  <2>4. id \in 1..latest_tx_id'
    BY <1>0
  <2>5. \A u, w \in Thread \ {t} :
           handle'[u].st # "none" /\ handle'[w].st # "none"
           /\ handle'[u].id = handle'[w].id => u = w
    <3>1. HandleInv /\ \A u \in Thread \ {t} : handle'[u] = handle[u]
      BY <1>0 DEF Core
    <3> QED
      BY <3>1 DEF HandleInv
  <2> HIDE DEF id, m
  <2> QED
    BY <2>1, <2>2, <2>3, <2>4, <2>5, Zenon DEF HandleInv
<1>2. MutexInv'
  <2>1. mutex \in [UpdateKey -> 0..MaxTxId] /\ MutexInv
    BY DEF TypeOK, Core
  <2>2. /\ mutex'[uk] = m
        /\ \A k \in UpdateKey \ {uk} : mutex'[k] = mutex[k]
    BY <1>0, <2>1
  <2>3. /\ \A k \in UpdateKey : mutex[k] \in Nat /\ mutex[k] <= latest_tx_id
        /\ m = id \/ m = mutex[uk]
    BY <2>1 DEF MutexInv
  <2> HIDE DEF m
  <2> QED
    BY <1>0, <2>1, <2>2, <2>3 DEF MutexInv
<1>3. \A k \in UpdateKey, u \in Thread :
         Live(u, k)' <=> Live(u, k) \/ (u = t /\ k = uk)
  BY <1>0 DEF Live, NoHandle
<1>4. /\ Users(uk)' = Users(uk) \cup {t} /\ t \notin Users(uk)
      /\ \A k \in UpdateKey \ {uk} : Users(k)' = Users(k)
  BY <1>0, <1>3 DEF Users, Live, NoHandle
<1>5. OwnsEntry'
  <2> SUFFICES ASSUME NEW u \in Thread, NEW k \in UpdateKey, Live(u, k)'
               PROVE  mutex'[k] # 0 /\ handle'[u].mutex = mutex'[k]
    BY DEF OwnsEntry
  <2>1. CASE u = t
    BY <1>0, <2>1 DEF TypeOK, Live
  <2>2. CASE u # t
    <3>1. Live(u, k) /\ handle'[u] = handle[u]
      BY <1>0, <1>3, <2>2
    <3>2. mutex[k] # 0 /\ handle[u].mutex = mutex[k]
      BY <3>1 DEF Core, OwnsEntry
    <3>3. mutex'[k] = mutex[k]
      BY <1>0, <3>2 DEF TypeOK
    <3> QED
      BY <3>1, <3>2, <3>3
  <2> QED
    BY <2>1, <2>2
<1>6. CountInv'
  <2>1. mutex[uk] = 0 => Users(uk) = {}
    BY <1>0, ZenonT(30) DEF Core, OwnsEntry, Users
  <2>2. Counts(strong'[m] - 2, Users(uk)) /\ strong'[m] - 2 + 1 = strong'[m] - 1
    <3>1. CASE mutex[uk] = 0
      <4>1. strong'[m] = 2
        BY <1>0, <3>1 DEF TypeOK
      <4> QED
        BY <2>1, <3>1, <4>1, CountsEmpty
    <3>2. CASE mutex[uk] # 0
      <4>1. Counts(strong[m] - 1, Users(uk))
        <5>1. m = mutex[uk]
          BY <3>2, Zenon
        <5>2. CountInv
          BY Zenon DEF Core
        <5> HIDE DEF m, id
        <5>3. Counts(strong[mutex[uk]] - 1, Users(uk))
          BY <1>0, <3>2, <5>2, Zenon DEF CountInv
        <5> QED
          BY <5>1, <5>3, Zenon
      <4>2. strong[m] \in Nat /\ strong'[m] = strong[m] + 1
        BY <1>0, <3>2 DEF TypeOK
      <4>3. strong'[m] - 2 = strong[m] - 1 /\ strong'[m] - 2 + 1 = strong'[m] - 1
        BY <4>2
      <4> QED
        BY <4>1, <4>3, Zenon
    <3> QED
      BY <3>1, <3>2, Zenon
  <2>3. Counts(strong'[m] - 1, Users(uk)')
    <3>1. Counts(strong'[m] - 2 + 1, Users(uk) \cup {t})
      BY <1>4, <2>2, CountsMore, Zenon
    <3> QED
      BY <1>4, <2>2, <3>1, Zenon
  <2>4. ASSUME NEW k \in UpdateKey \ {uk}, mutex[k] # 0
        PROVE  mutex[k] # m /\ mutex'[k] = mutex[k] /\ strong'[mutex[k]] = strong[mutex[k]]
    <3>1. mutex[k] \in TxId /\ mutex[k] <= latest_tx_id /\ mutex[k] # mutex[uk]
      BY <1>0, <2>4 DEF TypeOK, Core, MutexInv
    <3>2. mutex[k] # m
      BY <1>0, <3>1
    <3> QED
      BY <1>0, <3>1, <3>2 DEF TypeOK
  <2>5. ASSUME NEW k \in UpdateKey, mutex'[k] # 0
        PROVE  Counts(strong'[mutex'[k]] - 1, Users(k)')
    <3>1. CASE k = uk
      BY <1>0, <1>4, <2>3, <3>1, Zenon DEF TypeOK
    <3>2. CASE k # uk
      <4>1. mutex[k] # 0
        BY <1>0, <2>5, <3>2 DEF TypeOK
      <4> QED
        BY <1>4, <2>4, <3>2, <4>1 DEF Core, CountInv
    <3> QED
      BY <3>1, <3>2
  <2> QED
    BY <2>5 DEF CountInv
<1>7. GuardInv'
  BY <1>0 DEF Core, GuardInv, HasGuard
<1>8. TxsInv' /\ ReadOnlyInv'
  BY <1>0 DEF create_update_tx, Core, TxsInv, ReadOnlyInv, NoHandle
<1> QED
  BY <1>1, <1>2, <1>5, <1>6, <1>7, <1>8 DEF Core

(* prepare and begin preserve the core: a thread locks the mutex of its key only
   when no other handle has the guard, and begins the transaction it prepared. *)
LEMMA PrepareCore ==
    ASSUME TypeOK, Core, NEW t \in Thread, prepare(t)
    PROVE  Core'
<1> USE ConstantsAssumption
<1>0. /\ handle[t].st = "created"
      /\ handle'[t] = [handle[t] EXCEPT !.st = "prepared"]
      /\ handle[t] \in Handle
      /\ \A u \in Thread \ {t} : handle'[u] = handle[u]
  BY DEF prepare, TypeOK
<1>1. \A u \in Thread :
         /\ handle'[u].id = handle[u].id
         /\ handle'[u].mutex = handle[u].mutex
         /\ handle'[u].update_key = handle[u].update_key
         /\ handle'[u].st = "none" <=> handle[u].st = "none"
         /\ handle'[u].st = "begun" <=> handle[u].st = "begun"
  BY <1>0 DEF Handle
<1>2. HandleInv'
  BY <1>0, <1>1 DEF prepare, Core, HandleInv
<1>3. \A k \in UpdateKey : Users(k)' = Users(k)
  BY <1>1 DEF Users, Live
<1>4. MutexInv' /\ OwnsEntry' /\ CountInv'
  BY <1>1, <1>3 DEF prepare, Core, MutexInv, OwnsEntry, CountInv, Live
<1>5. GuardInv'
  <2>1. ASSUME NEW u \in Thread, NEW uk \in UpdateKey, HasGuard(u),
               handle[u].update_key = uk, handle[t].update_key = uk
        PROVE  FALSE
    <3>1. Live(u, uk) /\ Live(t, uk)
      BY <1>0, <2>1 DEF Live, HasGuard
    <3>2. handle[u].mutex = handle[t].mutex
      BY <3>1 DEF Core, OwnsEntry
    <3> QED
      BY <2>1, <3>2 DEF prepare, Locked, HasGuard, is_update_tx
  <2>2. \A u \in Thread : HasGuard(u)' => HasGuard(u) \/ u = t
    BY <1>0 DEF HasGuard
  <2> QED
    BY <1>1, <2>1, <2>2 DEF Core, GuardInv
<1>6. TxsInv' /\ ReadOnlyInv'
  BY <1>1 DEF prepare, Core, TxsInv, ReadOnlyInv
<1> QED
  BY <1>2, <1>4, <1>5, <1>6 DEF Core

\* begin keeps the invariant: the transaction it files under the id is the only
\* one of its update key.
LEMMA BeginCore ==
    ASSUME TypeOK, Core, NEW t \in Thread, begin(t)
    PROVE  Core'
<1> USE ConstantsAssumption
<1>0. /\ handle[t].st = "prepared"
      /\ handle'[t] = [handle[t] EXCEPT !.st = "begun"]
      /\ handle[t] \in Handle
      /\ \A u \in Thread \ {t} : handle'[u] = handle[u]
      /\ handle[t].id \in TxId
  BY DEF begin, TypeOK, Core, HandleInv
<1>1. \A u \in Thread :
         /\ handle'[u].id = handle[u].id
         /\ handle'[u].mutex = handle[u].mutex
         /\ handle'[u].update_key = handle[u].update_key
         /\ handle'[u].st = "none" <=> handle[u].st = "none"
         /\ handle'[u].st = "begun" <=> handle[u].st = "begun" \/ u = t
         /\ HasGuard(u)' <=> HasGuard(u)
  BY <1>0 DEF Handle, HasGuard
<1>2. HandleInv'
  BY <1>0, <1>1 DEF begin, Core, HandleInv
<1>3. \A k \in UpdateKey : Users(k)' = Users(k)
  BY <1>1 DEF Users, Live
<1>4. MutexInv' /\ OwnsEntry' /\ CountInv' /\ GuardInv' /\ ReadOnlyInv'
  BY <1>1, <1>3 DEF begin, Core, MutexInv, OwnsEntry, CountInv, Live, GuardInv,
                    ReadOnlyInv
<1>5. TxsInv'
  <2>1. /\ txs'[handle[t].id].kind = "Update" <=> handle[t].update_key # NoKey
        /\ txs'[handle[t].id] # NoTx
    <3>1. txs'[handle[t].id] \in StoreTransaction
      BY <1>0 DEF begin, TypeOK, StoreTransaction
    <3>2. txs'[handle[t].id].kind = "Update" <=> handle[t].update_key # NoKey
      BY <1>0 DEF begin, TypeOK, Core, ReadOnlyInv, is_update_tx
    <3> QED
      BY <3>1, <3>2
  <2>2. \A i \in TxId \ {handle[t].id} : txs'[i] = txs[i]
    BY DEF begin, TypeOK
  <2>3. \A u \in Thread \ {t} : handle[u].st = "begun" =>
           handle[u].id \in TxId \ {handle[t].id}
    BY <1>0, BegunTx DEF Core, HandleInv
  <2> QED
    BY <1>0, <1>1, <2>1, <2>2, <2>3 DEF Core, TxsInv
<1> QED
  BY <1>2, <1>4, <1>5 DEF Core

(* A write of a transaction changes only its buffer. *)
LEMMA WriteCore ==
    ASSUME TypeOK, Core, NEW t \in Thread, NEW k \in Key, NEW v \in Data,
           tx_write(t, k, v)
    PROVE  Core'
<1> USE ConstantsAssumption
<1>0. handle[t].st = "begun"
  BY DEF tx_write
<1>1. /\ txs'[handle[t].id] \in StoreTransaction
      /\ txs'[handle[t].id].kind = txs[handle[t].id].kind
      /\ \A i \in TxId \ {handle[t].id} : txs'[i] = txs[i]
  <2>1. txs'[handle[t].id] =
           [txs[handle[t].id] EXCEPT !.buffer = [@ EXCEPT ![k] = v]]
    BY <1>0, BegunTx, Zenon DEF tx_write, TypeOK
  <2>2. handle[t].id \in TxId /\ txs[handle[t].id] \in StoreTransaction
    BY <1>0, BegunTx
  <2>3. \A i \in TxId \ {handle[t].id} : txs'[i] = txs[i]
    BY Zenon DEF tx_write, TypeOK
  <2>4. \A s \in StoreTransaction :
           LET w == [s EXCEPT !.buffer = [@ EXCEPT ![k] = v]]
           IN  w \in StoreTransaction /\ w.kind = s.kind
    BY DEF StoreTransaction
  <2> QED
    BY <2>1, <2>2, <2>3, <2>4
<1>2. TxsInv'
  <2>1. handle' = handle /\ TxsInv /\ NoTx \notin StoreTransaction
    BY DEF tx_write, Core
  <2>2. \A u \in Thread : handle[u].st = "begun" => handle[u].id \in TxId
    BY BegunTx
  <2> QED
    BY <1>0, <1>1, <2>1, <2>2, ZenonT(60) DEF TxsInv
<1>3. \A uk \in UpdateKey : Users(uk)' = Users(uk)
  BY DEF tx_write, Users, Live
<1>4. HandleInv' /\ MutexInv' /\ OwnsEntry' /\ CountInv' /\ GuardInv' /\ ReadOnlyInv'
  BY <1>3 DEF tx_write, Core, HandleInv, MutexInv, OwnsEntry, CountInv, GuardInv,
              ReadOnlyInv, Live, HasGuard
<1> QED
  BY <1>2, <1>4 DEF Core

(* finalize_tx preserves the core: the entry of the key goes exactly when the
   thread is the key's last user. *)
LEMMA FinalizeCore ==
    ASSUME TypeOK, Core, NEW t \in Thread, finalize_tx(t)
    PROVE  Core'
<1> USE ConstantsAssumption
<1>0. /\ handle[t].st = "begun"
      /\ handle'[t] = NoHandle
      /\ \A u \in Thread \ {t} : handle'[u] = handle[u]
      /\ latest_tx_id' = latest_tx_id
      /\ inner' = inner
  BY DEF finalize_tx, TypeOK
<1>1. HandleInv'
  BY <1>0 DEF Core, HandleInv, NoHandle
<1>2. GuardInv' /\ ReadOnlyInv'
  BY <1>0 DEF Core, GuardInv, HasGuard, ReadOnlyInv, NoHandle
<1>3. TxsInv'
  <2>1. /\ txs'[handle[t].id] = NoTx
        /\ \A i \in TxId \ {handle[t].id} : txs'[i] = txs[i]
    BY <1>0, BegunTx, Zenon DEF finalize_tx, TypeOK
  <2>2. \A u \in Thread \ {t} : handle[u].st = "begun" =>
           handle[u].id \in TxId \ {handle[t].id}
    BY <1>0, BegunTx DEF Core, HandleInv
  <2> QED
    BY <1>0, <2>1, <2>2 DEF Core, TxsInv, NoHandle
<1>4. \A u \in Thread, k \in UpdateKey : Live(u, k)' <=> Live(u, k) /\ u # t
  BY <1>0 DEF Live, NoHandle
<1>5. \A k \in UpdateKey : Users(k)' = Users(k) \ {t}
  BY <1>4 DEF Users
<1>6. CASE ~is_update_tx(t)
  <2>1. mutex' = mutex /\ strong' = strong
    BY <1>6 DEF finalize_tx
  <2>2. \A k \in UpdateKey : Users(k)' = Users(k)
    BY <1>5, <1>6 DEF Users, Live, is_update_tx
  <2>3. MutexInv' /\ OwnsEntry' /\ CountInv'
    BY <1>0, <1>4, <2>1, <2>2 DEF Core, MutexInv, OwnsEntry, CountInv
  <2> QED
    BY <1>1, <1>2, <1>3, <2>3 DEF Core
<1>7. CASE is_update_tx(t)
  <2>0. PICK uk \in UpdateKey : handle[t].update_key = uk
    BY <1>7, FinalizeEffect
  <2> DEFINE m == mutex[uk]
  <2>1. /\ m \in TxId /\ handle[t].mutex = m
        /\ strong[m] \in Nat /\ strong[m] >= 2
        /\ mutex' = IF strong[m] = 2 THEN [mutex EXCEPT ![uk] = 0] ELSE mutex
        /\ strong' = [strong EXCEPT ![m] = IF strong[m] = 2 THEN 0 ELSE @ - 1]
    BY <1>7, <2>0, FinalizeEffect, Zenon
  <2>2. t \in Users(uk) /\ Counts(strong[m] - 1, Users(uk))
    BY <1>0, <1>7, <2>0, UpdateHandle
  <2>3. Counts(strong[m] - 1 - 1, Users(uk)')
    <3>1. Users(uk)' = Users(uk) \ {t}
      BY <1>5, Zenon
    <3> HIDE DEF m
    <3>2. \A n : Counts(n, Users(uk)) => Counts(n - 1, Users(uk) \ {t})
      BY <2>2, CountsLess, Zenon
    <3> QED
      BY <2>2, <3>1, <3>2, Zenon
  <2>4. \A k \in UpdateKey \ {uk} : Users(k)' = Users(k) /\ mutex'[k] = mutex[k]
    <3>1. \A k \in UpdateKey \ {uk} : t \notin Users(k)
      BY <2>0 DEF Users, Live
    <3>s. \A k \in UpdateKey \ {uk} : Users(k) \ {t} = Users(k)
      BY <3>1
    <3>2. \A k \in UpdateKey \ {uk} : Users(k)' = Users(k)
      BY <1>5, <3>s, Zenon
    <3>3. \A k \in UpdateKey \ {uk} : mutex'[k] = mutex[k]
      BY <2>1 DEF TypeOK
    <3> QED
      BY <3>2, <3>3
  <2>5. \A k \in UpdateKey \ {uk} : mutex[k] # 0 =>
           /\ mutex[k] \in TxId /\ mutex[k] # m
           /\ strong'[mutex[k]] = strong[mutex[k]]
    BY <2>1 DEF TypeOK, Core, MutexInv
  <2>6. CASE strong[m] = 2
    <3>1. Users(uk)' = {} /\ mutex'[uk] = 0
      <4>1. strong[m] - 1 - 1 = 0
        BY <2>6
      <4>2. mutex'[uk] = 0
        BY <2>1, <2>6 DEF TypeOK
      <4> QED
        BY <2>3, <4>1, <4>2, CountsEmpty, Zenon
    <3>2. MutexInv'
      BY <1>0, <2>1, <2>4, <3>1 DEF TypeOK, Core, MutexInv
    <3>3. OwnsEntry'
      <4>1. ASSUME NEW u \in Thread, NEW k \in UpdateKey, Live(u, k)'
            PROVE  k # uk /\ u # t /\ Live(u, k)
        BY <1>4, <3>1, <4>1 DEF Users
      <4> QED
        BY <1>0, <2>4, <4>1 DEF Core, OwnsEntry
    <3>4. CountInv'
      BY <2>4, <2>5, <3>1 DEF Core, CountInv
    <3> QED
      BY <1>1, <1>2, <1>3, <3>2, <3>3, <3>4 DEF Core
  <2>7. CASE strong[m] # 2
    <3>1. mutex' = mutex /\ strong'[m] = strong[m] - 1
      BY <2>1, <2>7 DEF TypeOK
    <3>2. MutexInv' /\ OwnsEntry'
      BY <1>0, <1>4, <3>1 DEF Core, MutexInv, OwnsEntry
    <3>3. Counts(strong'[m] - 1, Users(uk)')
      BY <2>3, <3>1, Zenon
    <3>4. CountInv'
      BY <2>1, <2>4, <2>5, <3>1, <3>3 DEF Core, CountInv
    <3> QED
      BY <1>1, <1>2, <1>3, <3>2, <3>4 DEF Core
  <2> QED
    BY <2>6, <2>7
<1> QED
  BY <1>6, <1>7

(* The core is about the variables of the store only. *)
LEMMA SameCore == ASSUME Core, UNCHANGED vars PROVE Core'
<1>1. /\ UNCHANGED <<inner, latest_tx_id, txs, mutex, strong, handle>>
      /\ \A uk \in UpdateKey : Users(uk)' = Users(uk)
  BY DEF vars, Users, Live
<1>2. HandleInv' /\ MutexInv'
  BY <1>1 DEF Core, HandleInv, MutexInv
<1>3. OwnsEntry' /\ CountInv' /\ GuardInv'
  BY <1>1 DEF Core, OwnsEntry, CountInv, GuardInv, Live, HasGuard
<1>4. TxsInv' /\ ReadOnlyInv'
  BY <1>1 DEF Core, TxsInv, ReadOnlyInv
<1> QED
  BY <1>2, <1>3, <1>4 DEF Core

(* Every call that returns preserves the core. *)
LEMMA StoreCallCore ==
    ASSUME TypeOK, Core, NEW t \in Thread, StoreCall(t)
    PROVE  Core'
<1>1. CASE create_invalid_key(t)
  <2>1. HandleInv' /\ MutexInv'
    BY <1>1, ConstantsAssumption
       DEF create_invalid_key, Core, TypeOK, HandleInv, MutexInv
  <2>2. OwnsEntry' /\ CountInv' /\ GuardInv' /\ TxsInv' /\ ReadOnlyInv'
    BY <1>1 DEF create_invalid_key, Core, OwnsEntry, CountInv, GuardInv,
           TxsInv, ReadOnlyInv, Users, Live, HasGuard
  <2> QED
    BY <2>1, <2>2 DEF Core
<1>2. CASE UNCHANGED vars
  BY <1>2, SameCore
<1> QED
  BY <1>1, <1>2, CreateReadCore, CreateUpdateCore, PrepareCore, BeginCore, WriteCore,
     FinalizeCore
     DEF StoreCall, create_transaction, create_overflow, commit, commit_error, rollback

(* A restarted store has no handles and no entries. *)
LEMMA CrashCore == ASSUME crash PROVE Core' /\ NothingLeft'
BY DEF crash, Core, HandleInv, MutexInv, OwnsEntry, CountInv, GuardInv,
       TxsInv, ReadOnlyInv, NothingLeft, Live, HasGuard, NoHandle

(* Calls leave nothing behind: finalize_tx removes what begin and the first
   create_transaction of the key have entered. *)
LEMMA StoreCallNothingLeft ==
    ASSUME TypeOK, Core, NothingLeft, NEW t \in Thread, StoreCall(t)
    PROVE  NothingLeft'
<1> USE ConstantsAssumption
<1>1. CASE create_transaction(t)
  <2>1. ASSUME NEW uk \in UpdateKey, mutex'[uk] # 0
        PROVE  \E u \in Thread : Live(u, uk)'
    <3>1. handle[t].st = "none" /\ \A u \in Thread \ {t} : handle'[u] = handle[u]
      BY <1>1 DEF create_transaction, create_read_tx, create_update_tx,
         create_invalid_key, create_overflow, vars, TypeOK
    <3>2. mutex[uk] # 0 \/ Live(t, uk)'
      BY <1>1, <2>1 DEF create_transaction, create_read_tx, create_update_tx,
         create_invalid_key, create_overflow, vars, TypeOK, Live
    <3>3. ASSUME NEW u \in Thread, Live(u, uk) PROVE Live(u, uk)'
      BY <3>1, <3>3 DEF Live
    <3> QED
      BY <3>2, <3>3 DEF NothingLeft, Users
  <2>2. ASSUME NEW u \in Thread, handle[u].st = "begun"
        PROVE  handle'[u] = handle[u]
    BY <1>1, <2>2 DEF create_transaction, create_read_tx, create_update_tx,
       create_invalid_key, create_overflow, vars, TypeOK
  <2>3. txs' = txs
    BY <1>1 DEF create_transaction, create_read_tx, create_update_tx,
       create_invalid_key, create_overflow, vars
  <2> QED
    BY <2>1, <2>2, <2>3 DEF NothingLeft, Users
<1>2. CASE prepare(t) \/ begin(t)
  <2>1. /\ mutex' = mutex /\ handle[t] \in Handle
        /\ handle[t].id \in TxId
        /\ \A i \in TxId \ {handle[t].id} : txs'[i] = txs[i]
        /\ begin(t) \/ txs' = txs
        /\ \A u \in Thread \ {t} : handle'[u] = handle[u]
    BY <1>2 DEF prepare, begin, TypeOK, Core, HandleInv
  <2>2. /\ handle[t].st \in {"created", "prepared"}
        /\ handle'[t].st # "none"
        /\ begin(t) => handle'[t].st = "begun"
        /\ handle'[t].id = handle[t].id
        /\ handle'[t].update_key = handle[t].update_key
    BY <1>2, <2>1 DEF prepare, begin, TypeOK, Handle
  <2> QED
    BY <2>1, <2>2 DEF NothingLeft, Users, Live
<1>3. ASSUME NEW k \in Key, NEW v \in Data, tx_write(t, k, v)
      PROVE  NothingLeft'
  <2>1. /\ handle[t].st = "begun" /\ handle' = handle /\ mutex' = mutex
        /\ \A i \in TxId \ {handle[t].id} : txs'[i] = txs[i]
    BY <1>3, BegunTx, Zenon DEF tx_write, TypeOK
  <2> QED
    BY <2>1 DEF NothingLeft, Users, Live
<1>4. CASE finalize_tx(t)
  <2>1. /\ handle'[t] = NoHandle /\ handle[t].id \in TxId
        /\ \A u \in Thread \ {t} : handle'[u] = handle[u]
        /\ txs'[handle[t].id] = NoTx
        /\ \A i \in TxId \ {handle[t].id} : txs'[i] = txs[i]
    BY <1>4, BegunTx, ZenonT(60) DEF finalize_tx, TypeOK
  <2>2. ASSUME NEW uk \in UpdateKey, mutex'[uk] # 0, Users(uk)' = {}
        PROVE  FALSE
    <3>1. mutex[uk] # 0 /\ Users(uk) # {}
      <4>1. mutex \in [UpdateKey -> 0..MaxTxId] /\ NothingLeft
        BY DEF TypeOK
      <4>2. \/ mutex' = mutex
            \/ mutex' = [mutex EXCEPT ![handle[t].update_key] = 0]
        BY <1>4, Zenon DEF finalize_tx
      <4>3. mutex[uk] # 0
        BY <2>2, <4>1, <4>2
      <4> QED
        BY <4>1, <4>3 DEF NothingLeft
    <3>2. Users(uk) = {t}
      BY <2>1, <2>2, <3>1 DEF Users, Live
    <3>3. handle[t].update_key = uk /\ is_update_tx(t)
      BY <3>2 DEF Users, Live, is_update_tx
    <3>4. Counts(strong[mutex[uk]] - 1, {t})
      BY <3>1, <3>2, Zenon DEF Core, CountInv
    <3>5. strong[mutex[uk]] = 2
      <4>1. strong[mutex[uk]] - 1 = 1
        BY <3>4, CountsOne, Zenon
      <4>2. mutex[uk] \in TxId /\ strong \in [TxId -> Nat]
        BY <3>1, ConstantsAssumption DEF TypeOK
      <4> QED
        BY <4>1, <4>2
    <3> QED
      BY <1>4, <2>2, <3>3, <3>5, FinalizeEffect, ZenonT(60) DEF TypeOK
  <2> QED
    BY <2>1, <2>2 DEF NothingLeft
<1> QED
  BY <1>1, <1>2, <1>3, <1>4 DEF StoreCall, commit, commit_error, rollback

(* Every step preserves the inductive invariant. *)
LEMMA NextIInv == IInv /\ [Next]_vars => IInv'
<1> SUFFICES ASSUME IInv, [Next]_vars, (rwlock = "usable")'
             PROVE  Core' /\ NothingLeft'
  BY TypeStep DEF IInv
<1>1. ASSUME NEW t \in Thread, StoreCall(t)
      PROVE  Core' /\ NothingLeft'
  BY <1>1, CallsNeedRwLock, StoreCallCore, StoreCallNothingLeft DEF IInv
<1>2. ASSUME UNCHANGED vars PROVE Core' /\ NothingLeft'
  BY <1>2, SameCore, Zenon DEF IInv, vars, NothingLeft, Users, Live
<1>3. ASSUME NEW t \in Thread, NEW k \in Key, tx_write_panic(t, k) PROVE FALSE
  BY <1>3 DEF tx_write_panic
<1> QED
  BY <1>1, <1>2, <1>3, CrashCore
     DEF Next, StoreCall, poisoned_call

-----------------------------------------------------------------------------
(* The threads a step leaves alone keep their handle, snapshot and buffer. *)
LEMMA OthersUntouched ==
    ASSUME TypeOK, Core, NEW t \in Thread, StoreCall(t), NEW u \in Thread \ {t}
    PROVE  /\ handle'[u] = handle[u]
           /\ handle[u].st = "begun" => txs'[handle[u].id] = txs[handle[u].id]
<1> USE ConstantsAssumption
<1>1. ASSUME create_transaction(t) \/ prepare(t)
      PROVE  handle'[u] = handle[u] /\ txs' = txs
  BY <1>1 DEF create_transaction, create_read_tx, create_update_tx,
       create_invalid_key, create_overflow, vars, prepare, TypeOK
<1>2. handle[t].st # "none" /\ handle[u].st = "begun" =>
         handle[u].id \in TxId \ {handle[t].id}
  BY BegunTx DEF Core, HandleInv
<1>3. CASE begin(t)
  BY <1>2, <1>3 DEF begin, TypeOK
<1>4. ASSUME NEW k \in Key, NEW v \in Data, tx_write(t, k, v)
      PROVE  /\ handle'[u] = handle[u]
             /\ handle[u].st = "begun" => txs'[handle[u].id] = txs[handle[u].id]
  BY <1>2, <1>4 DEF tx_write, TypeOK
<1>5. CASE finalize_tx(t)
  BY <1>2, <1>5 DEF finalize_tx, TypeOK
<1> QED
  BY <1>1, <1>3, <1>4, <1>5, Zenon DEF StoreCall, commit, commit_error, rollback

(* tx_write changes one entry of the buffer of the thread's own transaction. *)
LEMMA WriteEffect ==
    ASSUME TypeOK, Core, NEW t \in Thread, NEW k \in Key, NEW v \in Data, tx_write(t, k, v)
    PROVE  LET i == handle[t].id IN
           /\ i \in TxId /\ txs[i] \in StoreTransaction /\ txs[i] # NoTx
           /\ txs'[i].kind = txs[i].kind
           /\ txs'[i].snapshot = txs[i].snapshot
           /\ txs'[i].buffer = [txs[i].buffer EXCEPT ![k] = v]
           /\ \A x \in Key \ {k} : txs'[i].buffer[x] = txs[i].buffer[x]
           /\ \A j \in TxId \ {i} : txs'[j] = txs[j]
<1> DEFINE i == handle[t].id
<1>1. i \in TxId /\ txs[i] \in StoreTransaction
  BY BegunTx DEF tx_write
<1>2. txs' = [txs EXCEPT ![i] = [txs[i] EXCEPT !.buffer = [txs[i].buffer EXCEPT ![k] = v]]]
  BY <1>1 DEF tx_write, TypeOK
<1>3. txs'[i] = [txs[i] EXCEPT !.buffer = [txs[i].buffer EXCEPT ![k] = v]]
  BY <1>1, <1>2, Zenon DEF TypeOK
<1>4. /\ txs'[i].kind = txs[i].kind
      /\ txs'[i].snapshot = txs[i].snapshot
      /\ txs'[i].buffer = [txs[i].buffer EXCEPT ![k] = v]
      /\ txs[i].buffer \in [Key -> Data \cup {Unwritten}]
  BY <1>1, <1>3 DEF StoreTransaction
<1>5. \A x \in Key \ {k} : txs'[i].buffer[x] = txs[i].buffer[x]
  BY <1>4, Zenon
<1> QED
  BY <1>1, <1>2, <1>4, <1>5, ConstantsAssumption, Zenon DEF TypeOK

-----------------------------------------------------------------------------
(* Row locks.  A transaction that has written a key holds RocksDB's lock on it:
   no other transaction has written the key, and the database still has the
   key as the transaction's snapshot does. *)
HasWritten(i, k) == txs[i] # NoTx /\ txs[i].kind = "Update" /\ txs[i].buffer[k] # Unwritten

RowLocks ==
    /\ \A i, j \in TxId, k \in Key : HasWritten(i, k) /\ HasWritten(j, k) => i = j
    /\ \A i \in TxId, k \in Key : HasWritten(i, k) => db[k].by = txs[i].snapshot[k].by

LockedInv == IInv /\ (rwlock = "usable" => RowLocks)

(* Every step preserves the row locks, whatever the footprints are. *)
LEMMA NextLockedInv == LockedInv /\ [Next]_vars => LockedInv'
<1> SUFFICES ASSUME LockedInv, [Next]_vars, (rwlock = "usable")'
             PROVE  RowLocks'
  BY NextIInv DEF LockedInv
<1> USE ConstantsAssumption
<1>0. TypeOK /\ (rwlock = "usable" => Core /\ RowLocks)
  BY DEF LockedInv, IInv
<1>1. ASSUME NEW t \in Thread, create_transaction(t) \/ prepare(t)
      PROVE  RowLocks'
  <2>1. rwlock = "usable" /\ UNCHANGED <<db, txs>>
    BY <1>1 DEF create_transaction, create_read_tx, create_update_tx,
         create_invalid_key, create_overflow, vars, prepare
  <2> QED
    BY <1>0, <2>1 DEF RowLocks, HasWritten
<1>2. ASSUME NEW t \in Thread, begin(t)
      PROVE  RowLocks'
  <2>1. /\ Core /\ RowLocks /\ db' = db /\ handle[t].id \in TxId
        /\ \A j \in TxId \ {handle[t].id} : txs'[j] = txs[j]
        /\ \A k \in Key : txs'[handle[t].id].buffer[k] = Unwritten
    BY <1>0, <1>2 DEF begin, TypeOK, Core, HandleInv
  <2> QED
    BY <2>1 DEF RowLocks, HasWritten
<1>3. ASSUME NEW t \in Thread, NEW k \in Key, NEW v \in Data, tx_write(t, k, v)
      PROVE  RowLocks'
  <2> DEFINE i == handle[t].id
  <2>1. Core /\ RowLocks /\ db' = db /\ (txs[i].kind = "Update" => ~Conflict(i, k))
    BY <1>0, <1>3, Zenon DEF tx_write
  <2>2. /\ i \in TxId /\ txs[i] # NoTx
        /\ txs'[i].kind = txs[i].kind
        /\ txs'[i].snapshot = txs[i].snapshot
        /\ \A x \in Key \ {k} : txs'[i].buffer[x] = txs[i].buffer[x]
        /\ \A j \in TxId \ {i} : txs'[j] = txs[j]
    BY <1>0, <1>3, <2>1, WriteEffect, ZenonT(60)
  <2>3. ASSUME NEW j \in TxId, NEW x \in Key, HasWritten(j, x)'
        PROVE  HasWritten(j, x) \/ (j = i /\ x = k /\ txs[i].kind = "Update")
    BY <2>2, <2>3, Zenon DEF HasWritten
  <2>4. txs[i].kind = "Update" =>
           /\ \A j \in TxId \ {i} : ~HasWritten(j, k)
           /\ db[k].by = txs[i].snapshot[k].by
    BY <2>1, ZenonT(60) DEF Conflict, HasWritten
  <2>5. ASSUME NEW a \in TxId, NEW b \in TxId, NEW x \in Key, HasWritten(a, x)', HasWritten(b, x)'
        PROVE  a = b
    BY <2>1, <2>3, <2>4, <2>5 DEF RowLocks
  <2>6. ASSUME NEW j \in TxId, NEW x \in Key, HasWritten(j, x)'
        PROVE  db'[x].by = txs'[j].snapshot[x].by
    <3>1. HasWritten(j, x) => db[x].by = txs[j].snapshot[x].by
      BY <2>1 DEF RowLocks
    <3>2. db[x].by = txs[j].snapshot[x].by
      BY <2>3, <2>4, <2>6, <3>1
    <3> QED
      BY <2>1, <2>2, <3>2, ZenonT(60)
  <2> QED
    BY <2>5, <2>6 DEF RowLocks
<1>4. ASSUME NEW t \in Thread, commit(t) \/ commit_error(t) \/ rollback(t)
      PROVE  RowLocks'
  <2> DEFINE i == handle[t].id
  <2>1. finalize_tx(t) /\ Core /\ RowLocks
    BY <1>0, <1>4, ZenonT(60) DEF commit, commit_error, rollback, finalize_tx
  <2>2. i \in TxId /\ txs[i] \in StoreTransaction
    BY <1>0, <2>1, BegunTx DEF finalize_tx
  <2>3. txs'[i] = NoTx /\ \A j \in TxId \ {i} : txs'[j] = txs[j]
    BY <1>0, <2>1, <2>2 DEF finalize_tx, TypeOK
  <2>4. ASSUME NEW k \in Key, db'[k] # db[k]
        PROVE  HasWritten(i, k)
    BY <1>4, <2>2, <2>4, ZenonT(60) DEF commit, commit_error, rollback, Committed, HasWritten
  <2>5. ASSUME NEW j \in TxId, NEW k \in Key, HasWritten(j, k)'
        PROVE  j # i /\ HasWritten(j, k) /\ txs'[j] = txs[j] /\ db'[k] = db[k]
    BY <2>1, <2>2, <2>3, <2>4, <2>5 DEF HasWritten, RowLocks
  <2> QED
    BY <2>1, <2>5 DEF RowLocks
<1>5. ASSUME crash PROVE RowLocks'
  BY <1>5 DEF crash, RowLocks, HasWritten
<1>6. ASSUME UNCHANGED vars PROVE RowLocks'
  BY <1>0, <1>6 DEF vars, RowLocks, HasWritten
<1>7. ASSUME NEW t \in Thread, NEW k \in Key, tx_write_panic(t, k) PROVE FALSE
  BY <1>7 DEF tx_write_panic
<1> QED
  BY <1>1, <1>2, <1>3, <1>4, <1>5, <1>6, <1>7 DEF Next, poisoned_call

-----------------------------------------------------------------------------
(* TypeOK holds in every state the store can reach. *)
THEOREM TypeCorrect == Spec => []TypeOK
<1>1. IInv => TypeOK
  BY DEF IInv
<1> QED
  BY InitIInv, NextIInv, <1>1, PTL DEF Spec

(* However many threads create, finalize and re-create the mutex of an update
   key, two transactions of the key are never begun at the same time. *)
THEOREM MutualExclusionHolds == Spec => []MutualExclusion
<1>1. IInv => MutualExclusion
  BY DEF IInv, Core, GuardInv, MutualExclusion, Running, HasGuard
<1> QED
  BY InitIInv, NextIInv, <1>1, PTL DEF Spec

(* finalize_tx always finds the entry it expects: the `expect("invariant
   violation")` of the code is an invariant of the code. *)
THEOREM EntryPresentHolds == Spec => []EntryPresent
<1>1. IInv => EntryPresent
  BY DEF IInv, Core, OwnsEntry, EntryPresent
<1> QED
  BY InitIInv, NextIInv, <1>1, PTL DEF Spec

(* When the last handle is finalized, `mutex` and `txs` are empty. *)
THEOREM NoLeftoversHolds == Spec => []NoLeftovers
<1>1. IInv => NoLeftovers
  BY Zenon DEF IInv, NothingLeft, NoLeftovers, Users
<1> QED
  BY InitIInv, NextIInv, <1>1, PTL DEF Spec

(* Whatever the footprints are, a commit overwrites only what its transaction has
   seen: RocksDB validates a write against the snapshot and holds the row's lock
   until the transaction ends. *)
THEOREM NoLostUpdateHolds == Spec => NoLostUpdate
<1>1. Init => LockedInv
  BY InitIInv DEF Init, LockedInv, RowLocks, HasWritten
<1>2. ASSUME LockedInv, NEW t \in Thread, commit(t), NEW k \in Key, db'[k] # db[k]
      PROVE  db[k].by = txs[handle[t].id].snapshot[k].by
  <2>1. TypeOK /\ Core /\ RowLocks /\ handle[t].st = "begun"
    BY <1>2 DEF LockedInv, IInv, commit, finalize_tx
  <2>2. handle[t].id \in TxId /\ txs[handle[t].id] # NoTx
    BY <2>1, BegunTx, ConstantsAssumption, Zenon
  <2>3. HasWritten(handle[t].id, k)
    BY <1>2, <2>2, Zenon DEF commit, Committed, HasWritten
  <2> QED
    BY <2>1, <2>2, <2>3 DEF RowLocks
<1>3. LockedInv /\ [Next]_vars =>
         [\A t \in Thread : commit(t) =>
            \A k \in Key :
               db'[k] # db[k] => db[k].by = txs[handle[t].id].snapshot[k].by]_vars
  BY <1>2
<1> QED
  BY <1>1, <1>3, NextLockedInv, PTL DEF Spec, NoLostUpdate

(* A transaction reads one moment of the database and its own writes: no step but
   its own write of the key changes what tx_get returns. *)
THEOREM ReadsRepeatableHolds == Spec => ReadsRepeatable
<1> DEFINE Repeats(t, k) ==
      LET i == handle[t].id IN
      /\ handle[t].st = "begun" /\ handle'[t] = handle[t]
      /\ \A v \in Data : ~tx_write(t, k, v)
      => tx_get(txs[i], k)' = tx_get(txs[i], k)
<1>1. ASSUME IInv, [Next]_vars, NEW t \in Thread, NEW k \in Key
      PROVE  Repeats(t, k)
  <2> SUFFICES ASSUME handle[t].st = "begun", handle'[t] = handle[t],
                      \A v \in Data : ~tx_write(t, k, v)
               PROVE  tx_get(txs[handle[t].id], k)' = tx_get(txs[handle[t].id], k)
    OBVIOUS
  <2> USE ConstantsAssumption
  <2>1. TypeOK /\ (rwlock = "usable" => Core)
    BY <1>1 DEF IInv
  <2>2. CASE txs'[handle[t].id] = txs[handle[t].id]
    BY <2>2 DEF tx_get
  <2>3. ASSUME NEW u \in Thread, StoreCall(u)
        PROVE  tx_get(txs[handle[t].id], k)' = tx_get(txs[handle[t].id], k)
    <3>1. Core
      BY <2>1, <2>3, CallsNeedRwLock
    <3>2. CASE u # t
      BY <2>1, <2>2, <2>3, <3>1, <3>2, OthersUntouched
    <3>3. CASE u = t
      <4>1. ASSUME create_transaction(t) \/ prepare(t) \/ begin(t) \/ finalize_tx(t)
            PROVE  handle'[t] # handle[t]
        BY <2>1, <4>1 DEF create_transaction, create_read_tx, create_update_tx,
           create_invalid_key, create_overflow, prepare, begin, finalize_tx, TypeOK, NoHandle
      <4>2. ASSUME NEW x \in Key, NEW v \in Data, tx_write(t, x, v)
            PROVE  tx_get(txs[handle[t].id], k)' = tx_get(txs[handle[t].id], k)
        <5>1. x # k
          BY <4>2
        <5> QED
          <6>1. handle' = handle
            BY <4>2, Zenon DEF tx_write
          <6>2. /\ txs'[handle[t].id].snapshot = txs[handle[t].id].snapshot
                /\ \A y \in Key \ {x} :
                      txs'[handle[t].id].buffer[y] = txs[handle[t].id].buffer[y]
            BY <2>1, <3>1, <4>2, WriteEffect, ZenonT(60)
          <6> QED
            BY <5>1, <6>1, <6>2, Zenon DEF tx_get
      <4> QED
        BY <2>3, <3>3, <4>1, <4>2, Zenon DEF StoreCall, commit, commit_error, rollback
    <3> QED
      BY <3>2, <3>3, Zenon
  <2>4. CASE crash
    <3>1. handle'[t] = NoHandle
      BY <2>4, Zenon DEF crash
    <3>2. NoHandle.st # "begun"
      BY DEF NoHandle
    <3> QED
      BY <3>1, <3>2, Zenon
  <2>5. CASE UNCHANGED vars
    BY <2>2, <2>5, Zenon DEF vars
  <2>6. ASSUME NEW u \in Thread, NEW x \in Key, tx_write_panic(u, x)
        PROVE  tx_get(txs[handle[t].id], k)' = tx_get(txs[handle[t].id], k)
    BY <2>2, <2>6, ZenonT(60) DEF tx_write_panic
  <2> QED
    BY <1>1, <2>3, <2>4, <2>5, <2>6, ZenonT(60) DEF Next, StoreCall, poisoned_call
<1>2. IInv /\ [Next]_vars => [\A t \in Thread, k \in Key : Repeats(t, k)]_vars
  BY <1>1
<1> QED
  BY <1>2, InitIInv, NextIInv, PTL, Zenon DEF Spec, ReadsRepeatable

-----------------------------------------------------------------------------
(***************************************************************************)
(* When the footprints of the update keys are disjoint, the store isolates *)
(* update transactions: no write is refused, what a transaction has seen   *)
(* of its footprint stays true until it commits, and the store implements  *)
(* CommitStore.                                                            *)
(***************************************************************************)

\* A transaction has only written keys of its footprint.
WritesInFootprint ==
    \A t \in Thread, uk \in UpdateKey : Running(t, uk) =>
        \A k \in Key : txs[handle[t].id].buffer[k] # Unwritten => k \in Footprint[uk]

Stable ==
    \A t \in Thread, uk \in UpdateKey : Running(t, uk) =>
        \A k \in Footprint[uk] : txs[handle[t].id].snapshot[k] = db[k]

Isolation == TypeOK /\ Core /\ rwlock = "usable" /\ WritesInFootprint /\ Stable

IsolationInv == Isolation /\ NothingLeft

(* RocksDB refuses no write inside the footprint: another transaction that had
   written the key would run under the same update key, if it still has a handle. *)
LEMMA NoConflict ==
    ASSUME DisjointFootprints, Isolation,
           NEW t \in Thread, NEW uk \in UpdateKey, Running(t, uk),
           NEW k \in Footprint[uk],
           \A j \in TxId : HasWritten(j, k) =>
              \E u \in Thread : handle[u].st = "begun" /\ handle[u].id = j
    PROVE  ~Conflict(handle[t].id, k)
<1> USE ConstantsAssumption
<1>0. k \in Key /\ Core /\ TypeOK
  BY ZenonT(60) DEF Isolation
<1>1. txs[handle[t].id].snapshot[k] = db[k]
  BY DEF Isolation, Stable
<1>2. ASSUME NEW j \in TxId \ {handle[t].id}, txs[j] # NoTx,
             txs[j].kind = "Update", txs[j].buffer[k] # Unwritten
      PROVE  FALSE
  <2>1. PICK u \in Thread : handle[u].st = "begun" /\ handle[u].id = j
    BY <1>2 DEF HasWritten
  <2>2. PICK b \in UpdateKey : handle[u].update_key = b
    BY <1>0, <1>2, <2>1 DEF Core, TxsInv, TypeOK, Handle
  <2>3. k \in Footprint[b]
    BY <1>0, <1>2, <2>1, <2>2, ZenonT(60) DEF Isolation, WritesInFootprint, Running
  <2>4. b = uk
    BY <2>3 DEF DisjointFootprints
  <2>5. u = t
    BY <1>0, <2>1, <2>2, <2>4 DEF Core, GuardInv, HasGuard, Running
  <2> QED
    BY <2>1, <2>5
<1> QED
  BY <1>1, <1>2, ZenonT(60) DEF Conflict

\* A freshly opened store, without transactions, satisfies the invariant.
LEMMA InitIsolation == Init => IsolationInv
BY InitIInv DEF IInv, Init, IsolationInv, Isolation, WritesInFootprint, Stable, Running, NoHandle

(* A commit changes the database only in the footprint of its update key. *)
LEMMA CommitInFootprint ==
    ASSUME Isolation, NEW t \in Thread, commit(t), NEW k \in Key, db'[k] # db[k]
    PROVE  \E uk \in UpdateKey : Running(t, uk) /\ k \in Footprint[uk]
<1>0. TypeOK /\ Core /\ handle[t].st = "begun"
  BY Zenon DEF Isolation, commit, finalize_tx
<1>1. txs[handle[t].id].kind = "Update" /\ txs[handle[t].id].buffer[k] # Unwritten
  BY Zenon DEF commit, Committed
<1>2. PICK uk \in UpdateKey : handle[t].update_key = uk
  BY <1>0, <1>1, BegunTx, Zenon DEF is_update_tx, TypeOK, Handle
<1> QED
  BY <1>0, <1>1, <1>2, Zenon DEF Isolation, WritesInFootprint, Running

\* Isolation of the transaction that thread u runs.
Isolated(u) ==
    \A uk \in UpdateKey : Running(u, uk) =>
        /\ \A k \in Key : txs[handle[u].id].buffer[k] # Unwritten => k \in Footprint[uk]
        /\ \A k \in Footprint[uk] : txs[handle[u].id].snapshot[k] = db[k]

(* A call of another thread leaves a transaction isolated: the keys that the other
   commits are in another footprint. *)
LEMMA OthersIsolated ==
    ASSUME DisjointFootprints, Isolation, NEW t \in Thread, StoreCall(t),
           NEW u \in Thread \ {t}, Isolated(u)
    PROVE  Isolated(u)'
<1>0. TypeOK /\ Core
  BY Zenon DEF Isolation
<1>1. ASSUME NEW uk \in UpdateKey, Running(u, uk), NEW k \in Footprint[uk]
      PROVE  db'[k] = db[k]
  <2>0. k \in Key
    BY ConstantsAssumption
  <2>1. ASSUME commit(t), db'[k] # db[k] PROVE FALSE
    <3>1. PICK b \in UpdateKey : Running(t, b) /\ k \in Footprint[b]
      BY <2>0, <2>1, CommitInFootprint, Zenon
    <3>2. b = uk
      BY <1>1, <3>1 DEF DisjointFootprints
    <3> QED
      BY <1>0, <1>1, <3>1, <3>2, Zenon DEF Core, GuardInv, HasGuard, Running
  <2> QED
    BY <1>0, <2>1, StoreCallData, Zenon
<1>2. /\ handle'[u] = handle[u]
      /\ handle[u].st = "begun" => txs'[handle[u].id] = txs[handle[u].id]
  BY <1>0, OthersUntouched, Zenon
<1>3. \A uk \in UpdateKey : Running(u, uk)' => Running(u, uk)
  BY <1>2, Zenon DEF Running
<1>4. ASSUME NEW uk \in UpdateKey, Running(u, uk)
      PROVE  txs'[handle'[u].id] = txs[handle[u].id]
  BY <1>2, <1>4, Zenon DEF Running
<1> QED
  BY <1>1, <1>3, <1>4, Zenon DEF Isolated

(* A transaction that begins sees the database as it is and has written nothing. *)
LEMMA BeginIsolated ==
    ASSUME TypeOK, Core, NEW t \in Thread, begin(t)
    PROVE  Isolated(t)'
<1>1. handle[t].id \in TxId /\ handle[t] \in Handle
  <2>1. handle[t] \in Handle /\ handle[t].st # "none"
    BY DEF begin, TypeOK
  <2>2. handle[t].id \in 1..latest_tx_id
    BY <2>1, Zenon DEF Core, HandleInv
  <2>3. latest_tx_id \in 0..MaxTxId
    BY Zenon DEF TypeOK
  <2> QED
    BY <2>1, <2>2, <2>3, ConstantsAssumption DEF TxId
<1>2. handle'[t].id = handle[t].id /\ db' = db
  BY <1>1 DEF begin, TypeOK, Handle
<1>3. /\ txs'[handle[t].id].snapshot = db
      /\ txs'[handle[t].id].buffer = [k \in Key |-> Unwritten]
  BY <1>1 DEF begin, TypeOK
<1>4. \A uk \in UpdateKey : Footprint[uk] \subseteq Key
  BY ConstantsAssumption, Zenon
<1> QED
  BY <1>2, <1>3, <1>4, Zenon DEF Isolated

(* A write of a transaction is in its footprint. *)
LEMMA WriteIsolated ==
    ASSUME TypeOK, Core, NEW t \in Thread, Isolated(t),
           NEW k \in Key, NEW v \in Data, tx_write(t, k, v)
    PROVE  Isolated(t)'
<1>1. /\ txs'[handle[t].id].snapshot = txs[handle[t].id].snapshot
      /\ \A x \in Key \ {k} : txs'[handle[t].id].buffer[x] = txs[handle[t].id].buffer[x]
  BY WriteEffect, Zenon
<1>2. handle' = handle /\ db' = db
  BY Zenon DEF tx_write
<1>3. \A uk \in UpdateKey : Running(t, uk) => k \in Footprint[uk]
  <2>1. handle[t].update_key # NoKey => k \in Footprint[handle[t].update_key]
    BY Zenon DEF tx_write, is_update_tx
  <2>2. NoKey \notin UpdateKey
    BY ConstantsAssumption, Zenon
  <2> QED
    BY <2>1, <2>2, Zenon DEF Running
<1>4. \A uk \in UpdateKey : Running(t, uk)' => Running(t, uk)
  BY <1>2, Zenon DEF Running
<1> QED
  BY <1>1, <1>2, <1>3, <1>4, Zenon DEF Isolated

(* After every other call the thread runs no transaction. *)
LEMMA NotBegun ==
    ASSUME TypeOK, NEW t \in Thread, create_transaction(t) \/ prepare(t) \/ finalize_tx(t)
    PROVE  handle'[t].st # "begun"
<1>1. handle \in [Thread -> Handle]
  BY Zenon DEF TypeOK
<1>2. CASE \E uk \in UpdateKey \cup {NoKey} : create_read_tx(t, uk) \/ create_update_tx(t, uk)
  <2>1. PICK uk \in UpdateKey \cup {NoKey} : create_read_tx(t, uk) \/ create_update_tx(t, uk)
    BY <1>2, Zenon
  <2>2. CASE create_read_tx(t, uk)
    BY <1>1, <2>2 DEF create_read_tx
  <2>3. CASE create_update_tx(t, uk)
    BY <1>1, <2>3 DEF create_update_tx
  <2> QED
    BY <2>1, <2>2, <2>3, Zenon
<1>3. CASE create_invalid_key(t) \/ create_overflow(t)
  <2>1. handle' = handle /\ handle[t].st = "none"
    BY <1>3 DEF create_invalid_key, create_overflow, vars
  <2> QED
    BY <2>1
<1>4. CASE prepare(t)
  BY <1>1, <1>4 DEF prepare, Handle
<1>5. CASE finalize_tx(t)
  BY <1>1, <1>5 DEF finalize_tx, NoHandle
<1> QED
  BY <1>2, <1>3, <1>4, <1>5, Zenon DEF create_transaction

(* With disjoint footprints, every call preserves isolation. *)
LEMMA StoreCallIsolation ==
    ASSUME DisjointFootprints, Isolation, NEW t \in Thread, StoreCall(t)
    PROVE  Isolation'
<1>0. TypeOK /\ Core /\ TypeOK' /\ Core' /\ rwlock' = "usable"
  BY StoreCallType, StoreCallCore, CallsNeedRwLock DEF Isolation
<1>1. SUFFICES \A u \in Thread : Isolated(u)'
  BY <1>0, Zenon DEF Isolation, WritesInFootprint, Stable, Isolated
<1>2. \A u \in Thread : Isolated(u)
  BY Zenon DEF Isolation, WritesInFootprint, Stable, Isolated
<1>3. \A u \in Thread \ {t} : Isolated(u)'
  BY <1>2, OthersIsolated, Zenon
<1>4. ASSUME create_transaction(t) \/ prepare(t) \/ finalize_tx(t)
      PROVE  Isolated(t)'
  BY <1>0, <1>4, NotBegun, Zenon DEF Isolated, Running
<1>5. Isolated(t)'
  BY <1>0, <1>2, <1>4, BeginIsolated, WriteIsolated, Zenon
     DEF StoreCall, commit, commit_error, rollback
<1> QED
  BY <1>3, <1>5, Zenon

(* With disjoint footprints, every step preserves isolation: no write is refused. *)
LEMMA NextIsolation ==
    ASSUME DisjointFootprints, IsolationInv, [Next]_vars
    PROVE  IsolationInv'
<1> USE ConstantsAssumption
<1>0. TypeOK /\ Core /\ rwlock = "usable"
  BY DEF IsolationInv, Isolation
<1>1. ASSUME NEW t \in Thread, StoreCall(t)
      PROVE  IsolationInv'
  BY <1>0, <1>1, StoreCallIsolation, StoreCallNothingLeft DEF IsolationInv
<1>2. ASSUME NEW t \in Thread, NEW k \in Key, tx_write_panic(t, k)
      PROVE  FALSE
  <2>1. PICK uk \in UpdateKey : handle[t].update_key = uk
    BY <1>0, <1>2, BegunTx, Zenon DEF tx_write_panic, is_update_tx, TypeOK, Handle
  <2>2. Running(t, uk) /\ k \in Footprint[uk]
    BY <1>2, <2>1, ZenonT(60) DEF tx_write_panic, Running, is_update_tx
  <2>3. \A j \in TxId : HasWritten(j, k) =>
           \E u \in Thread : handle[u].st = "begun" /\ handle[u].id = j
    BY DEF IsolationInv, NothingLeft, HasWritten
  <2> QED
    BY <1>2, <2>2, <2>3, NoConflict, ZenonT(60) DEF tx_write_panic, IsolationInv
<1>3. CASE crash
  BY <1>0, <1>3, CrashType, CrashCore, Zenon
     DEF crash, IsolationInv, Isolation, WritesInFootprint, Stable, Running, NoHandle
<1>4. CASE UNCHANGED vars
  <2>1. TypeOK' /\ rwlock' = "usable"
    BY <1>0, <1>4 DEF vars, TypeOK
  <2>2. Core'
    BY <1>0, <1>4, SameCore
  <2>3. WritesInFootprint' /\ Stable'
    BY <1>4, ZenonT(60) DEF vars, IsolationInv, Isolation, WritesInFootprint, Stable, Running
  <2>4. NothingLeft'
    BY <1>4, Zenon DEF vars, IsolationInv, NothingLeft, Users, Live
  <2> QED
    BY <2>1, <2>2, <2>3, <2>4 DEF IsolationInv, Isolation
<1> QED
  BY <1>1, <1>2, <1>3, <1>4 DEF Next, StoreCall, poisoned_call

-----------------------------------------------------------------------------
(* With disjoint footprints no command ever makes the store panic under its
   RwLock: RocksDB refuses no write. *)
THEOREM NeverPoisonedHolds ==
    ASSUME DisjointFootprints PROVE Spec => []NeverPoisoned
<1>1. IsolationInv => NeverPoisoned
  BY DEF IsolationInv, Isolation, NeverPoisoned
<1>2. IsolationInv /\ [Next]_vars => IsolationInv'
  BY NextIsolation
<1> QED
  BY InitIsolation, <1>1, <1>2, PTL DEF Spec

(* With disjoint footprints what a transaction has seen of its footprint is
   still in the database when it commits. *)
THEOREM FootprintStableHolds ==
    ASSUME DisjointFootprints PROVE Spec => []FootprintStable
<1>1. IsolationInv => FootprintStable
  BY DEF IsolationInv, Isolation, Stable, FootprintStable
<1>2. IsolationInv /\ [Next]_vars => IsolationInv'
  BY NextIsolation
<1> QED
  BY InitIsolation, <1>1, <1>2, PTL DEF Spec

-----------------------------------------------------------------------------
(* The refinement mapping, for a thread that runs and for a key nobody uses. *)
MappedSeen ==
    \A uk \in UpdateKey :
        /\ \A t \in Thread : Running(t, uk) =>
              /\ RunningThreads[uk] = {t}
              /\ SeenData[uk] = [k \in Key |-> txs[handle[t].id].snapshot[k].val]
        /\ (\A t \in Thread : ~Running(t, uk)) =>
              /\ RunningThreads[uk] = {}
              /\ SeenData[uk] = [k \in Key |-> None]

\* The guard of the update key makes the running thread unique, so the mapping's
\* choice of a thread is the thread that runs.
LEMMA MappingOfIsolation == Isolation => MappedSeen
<1> SUFFICES ASSUME Isolation, NEW uk \in UpdateKey
             PROVE  /\ \A t \in Thread : Running(t, uk) =>
                       /\ RunningThreads[uk] = {t}
                       /\ SeenData[uk] = [k \in Key |-> txs[handle[t].id].snapshot[k].val]
                    /\ (\A t \in Thread : ~Running(t, uk)) =>
                       /\ RunningThreads[uk] = {}
                       /\ SeenData[uk] = [k \in Key |-> None]
  BY DEF MappedSeen
<1>1. ASSUME NEW t \in Thread, Running(t, uk)
      PROVE  /\ RunningThreads[uk] = {t}
             /\ SeenData[uk] = [k \in Key |-> txs[handle[t].id].snapshot[k].val]
  <2>1. \A u \in Thread : Running(u, uk) => u = t
    BY <1>1 DEF Isolation, Core, GuardInv, HasGuard, Running
  <2>2. (CHOOSE u \in Thread : Running(u, uk)) = t
    BY <1>1, <2>1
  <2> QED
    BY <1>1, <2>1, <2>2, Zenon DEF RunningThreads, SeenData
<1>2. ASSUME \A t \in Thread : ~Running(t, uk)
      PROVE  RunningThreads[uk] = {} /\ SeenData[uk] = [k \in Key |-> None]
  BY <1>2 DEF RunningThreads, SeenData
<1> QED
  BY <1>1, <1>2, ZenonT(60)

(* Two states whose running transactions of a key agree have the same abstract
   state for the key. *)
LEMMA OtherSeen ==
    ASSUME MappedSeen, MappedSeen', NEW uk \in UpdateKey,
           \A t \in Thread : Running(t, uk)' <=> Running(t, uk),
           \A t \in Thread : Running(t, uk) =>
              txs'[handle'[t].id].snapshot = txs[handle[t].id].snapshot
    PROVE  SeenData'[uk] = SeenData[uk]
<1>1. CASE \E t \in Thread : Running(t, uk)
  <2>1. PICK t \in Thread : Running(t, uk)
    BY <1>1
  <2>2. SeenData[uk] = [k \in Key |-> txs[handle[t].id].snapshot[k].val]
    BY <2>1, Zenon DEF MappedSeen
  <2>3. SeenData'[uk] = [k \in Key |-> txs'[handle'[t].id].snapshot[k].val]
    BY <2>1, Zenon DEF MappedSeen
  <2> QED
    BY <2>1, <2>2, <2>3, Zenon
<1>2. CASE \A t \in Thread : ~Running(t, uk)
  BY <1>2, Zenon DEF MappedSeen
<1> QED
  BY <1>1, <1>2

\* A call that leaves the running transactions and their snapshots alone leaves
\* the mapped variables alone.
LEMMA SameMapping ==
    ASSUME MappedSeen, MappedSeen',
           \A t \in Thread, uk \in UpdateKey :
              /\ Running(t, uk)' <=> Running(t, uk)
              /\ Running(t, uk) =>
                    txs'[handle'[t].id].snapshot = txs[handle[t].id].snapshot
    PROVE  RunningThreads' = RunningThreads /\ SeenData' = SeenData
<1>1. RunningThreads' = RunningThreads
  BY DEF RunningThreads
<1>2. \A uk \in UpdateKey : SeenData'[uk] = SeenData[uk]
  BY OtherSeen
<1>3. SeenData' = SeenData
  BY <1>2, ZenonT(30) DEF SeenData
<1> QED
  BY <1>1, <1>3

\* A freshly opened store is an initial state of CommitStore.
LEMMA InitMapped == Init => CS!Init
<1> SUFFICES ASSUME Init PROVE CS!Init
  OBVIOUS
<1>1. \A t \in Thread, uk \in UpdateKey : ~Running(t, uk)
  BY DEF Init, Running, NoHandle
<1>2. /\ RunningThreads = [uk \in UpdateKey |-> {}]
      /\ SeenData = [uk \in UpdateKey |-> [k \in Key |-> None]]
  BY <1>1 DEF RunningThreads, SeenData
<1>3. [k \in Key |-> db[k].val] \in [Key -> Data]
  BY DEF Init
<1> QED
  BY <1>2, <1>3 DEF CS!Init, CS!Nothing, CS!Data, Data

(* A call that begins or ends no update transaction and keeps the data is a
   stutter; begin, commit and rollback of an update transaction are the steps of
   the same names. *)
LEMMA StoreCallMapped ==
    ASSUME Isolation, Isolation', NEW t \in Thread, StoreCall(t)
    PROVE  [CS!Next]_(CS!vars)
<1> USE ConstantsAssumption
<1> DEFINE data == [k \in Key |-> db[k].val]
<1>0. TypeOK /\ Core /\ MappedSeen /\ MappedSeen'
  <2>1. Isolation' => MappedSeen'
    BY MappingOfIsolation, PTL
  <2> QED
    BY <2>1, MappingOfIsolation DEF Isolation
<1>others. \A u \in Thread \ {t} :
              /\ handle'[u] = handle[u]
              /\ handle[u].st = "begun" => txs'[handle[u].id] = txs[handle[u].id]
  BY <1>0, OthersUntouched
<1>1. ASSUME data' = data, RunningThreads' = RunningThreads, SeenData' = SeenData
      PROVE  UNCHANGED CS!vars
  BY <1>1 DEF CS!vars
<1>2. ASSUME create_transaction(t) \/ prepare(t)
      PROVE  UNCHANGED CS!vars
  <2>1. handle[t].st # "begun" /\ handle'[t].st # "begun" /\ data' = data
    BY <1>0, <1>2 DEF create_transaction, create_read_tx, create_update_tx,
         create_invalid_key, create_overflow, vars, prepare, TypeOK, Handle
  <2>2. \A u \in Thread, uk \in UpdateKey :
           /\ Running(u, uk)' <=> Running(u, uk)
           /\ Running(u, uk) =>
                 txs'[handle'[u].id].snapshot = txs[handle[u].id].snapshot
    BY <1>2, <2>1, <1>others DEF Running
  <2> QED
    BY <1>0, <1>1, <2>1, <2>2, SameMapping
<1>3. ASSUME NEW k \in Key, NEW v \in Data, tx_write(t, k, v)
      PROVE  UNCHANGED CS!vars
  <2>1. /\ handle[t].id \in TxId /\ handle' = handle /\ data' = data
        /\ txs[handle[t].id] \in StoreTransaction
        /\ txs'[handle[t].id] = [txs[handle[t].id] EXCEPT !.buffer = [@ EXCEPT ![k] = v]]
    BY <1>0, <1>3, BegunTx, Zenon DEF tx_write, TypeOK
  <2>2. txs'[handle[t].id].snapshot = txs[handle[t].id].snapshot
    BY <2>1 DEF StoreTransaction
  <2>3. \A u \in Thread, uk \in UpdateKey :
           /\ Running(u, uk)' <=> Running(u, uk)
           /\ Running(u, uk) =>
                 txs'[handle'[u].id].snapshot = txs[handle[u].id].snapshot
    <3>1. \A u \in Thread \ {t} :
             handle[u].st = "begun" => txs'[handle[u].id] = txs[handle[u].id]
      BY <1>3, <1>others
    <3> QED
      BY <2>1, <2>2, <3>1, ZenonT(30) DEF Running
  <2> QED
    BY <1>0, <1>1, <2>1, <2>3, SameMapping, Zenon
<1>4. ASSUME begin(t)
      PROVE  UNCHANGED CS!vars \/ \E uk \in UpdateKey : CS!Begin(t, uk)
  <2>1. /\ handle[t] \in Handle /\ handle[t].id \in TxId
        /\ handle[t].st = "prepared"
        /\ handle'[t].st = "begun" /\ handle'[t].id = handle[t].id
        /\ handle'[t].update_key = handle[t].update_key
        /\ data' = data
    <3>1. handle[t] \in Handle /\ handle[t].id \in TxId /\ handle[t].st = "prepared"
      BY <1>0, <1>4 DEF begin, TypeOK, Core, HandleInv, TxId
    <3>2. handle'[t] = [handle[t] EXCEPT !.st = "begun"] /\ data' = data
      BY <1>0, <1>4 DEF begin, TypeOK
    <3> QED
      BY <3>1, <3>2 DEF Handle
  <2>2. txs'[handle[t].id].snapshot = db
    BY <1>0, <1>4, <2>1 DEF begin, TypeOK
  <2>3. CASE handle[t].update_key = NoKey
    <3>1. \A u \in Thread, uk \in UpdateKey :
             /\ Running(u, uk)' <=> Running(u, uk)
             /\ Running(u, uk) =>
                   txs'[handle'[u].id].snapshot = txs[handle[u].id].snapshot
      BY <1>4, <2>1, <2>3, <1>others DEF Running
    <3> QED
      BY <1>0, <1>1, <2>1, <3>1, SameMapping
  <2>4. CASE handle[t].update_key # NoKey
    <3>1. PICK uk \in UpdateKey : handle[t].update_key = uk
      BY <2>1, <2>4 DEF Handle
    <3>2. \A u \in Thread : ~Running(u, uk)
      BY <1>0, <2>1, <3>1 DEF Core, GuardInv, HasGuard, Running
    <3>3. Running(t, uk)'
      BY <2>1, <3>1 DEF Running
    <3>4. \A u \in Thread, b \in UpdateKey \ {uk} :
             /\ Running(u, b)' <=> Running(u, b)
             /\ Running(u, b) =>
                   txs'[handle'[u].id].snapshot = txs[handle[u].id].snapshot
      BY <1>4, <2>1, <3>1, <1>others DEF Running
    <3>5. RunningThreads' = [RunningThreads EXCEPT ![uk] = {t}]
      <4>1. RunningThreads'[uk] = {t}
        BY <1>0, <3>3, ZenonT(60) DEF MappedSeen
      <4>2. \A b \in UpdateKey \ {uk} : RunningThreads'[b] = RunningThreads[b]
        BY <3>4 DEF RunningThreads
      <4> QED
        BY <4>1, <4>2, Zenon DEF RunningThreads
    <3>6. SeenData' = [SeenData EXCEPT ![uk] = data]
      <4>1. SeenData'[uk] = [k \in Key |-> txs'[handle'[t].id].snapshot[k].val]
        BY <1>0, <3>3, Zenon DEF MappedSeen
      <4>2. handle'[t].id = handle[t].id
        BY <2>1
      <4>3. SeenData'[uk] = data
        BY <2>2, <4>1, <4>2, ZenonT(60)
      <4>4. ASSUME NEW b \in UpdateKey \ {uk} PROVE SeenData'[b] = SeenData[b]
        BY <1>0, <3>4, OtherSeen
      <4> QED
        BY <4>3, <4>4, ZenonT(30) DEF SeenData
    <3>7. RunningThreads[uk] = {}
      BY <3>2 DEF RunningThreads
    <3> QED
      BY <2>1, <3>5, <3>6, <3>7, ZenonT(60) DEF CS!Begin
  <2> QED
    BY <2>3, <2>4
<1>5. ASSUME commit(t) \/ commit_error(t) \/ rollback(t)
      PROVE  \/ UNCHANGED CS!vars
             \/ \E uk \in UpdateKey : CS!Commit(t, uk) \/ CS!Rollback(t, uk)
  <2>1. /\ finalize_tx(t)
        /\ handle[t].st = "begun" /\ handle'[t].st = "none"
    <3>1. finalize_tx(t)
      BY <1>5 DEF commit, commit_error, rollback
    <3>2. handle[t].st = "begun" /\ handle' = [handle EXCEPT ![t] = NoHandle]
      BY <3>1 DEF finalize_tx
    <3>3. handle \in [Thread -> Handle]
      BY <1>0 DEF TypeOK
    <3> QED
      BY <3>1, <3>2, <3>3 DEF NoHandle
  <2>2. CASE handle[t].update_key = NoKey
    <3>1. txs[handle[t].id].kind # "Update"
      BY <1>0, <2>1, <2>2, BegunTx DEF is_update_tx
    <3>2. data' = data
      BY <1>5, <3>1 DEF commit, commit_error, rollback
    <3>3. \A u \in Thread, uk \in UpdateKey :
             /\ Running(u, uk)' <=> Running(u, uk)
             /\ Running(u, uk) =>
                   txs'[handle'[u].id].snapshot = txs[handle[u].id].snapshot
      BY <2>1, <2>2, <1>others DEF Running
    <3> QED
      BY <1>0, <1>1, <3>2, <3>3, SameMapping
  <2>3. CASE handle[t].update_key # NoKey
    <3>1. PICK uk \in UpdateKey : handle[t].update_key = uk
      BY <1>0, <2>3 DEF TypeOK, Handle
    <3>2. Running(t, uk) /\ RunningThreads[uk] = {t}
          /\ SeenData[uk] = [k \in Key |-> txs[handle[t].id].snapshot[k].val]
      <4>1. Running(t, uk)
        BY <2>1, <3>1 DEF Running
      <4> QED
        BY <1>0, <4>1, Zenon DEF MappedSeen
    <3>3. \A u \in Thread : ~Running(u, uk)'
      <4>1. \A u \in Thread \ {t} : ~Running(u, uk)
        BY <3>2 DEF RunningThreads
      <4>2. ~Running(t, uk)'
        BY <2>1 DEF Running
      <4>3. ASSUME NEW u \in Thread \ {t} PROVE ~Running(u, uk)'
        BY <4>1, <1>others, Zenon DEF Running
      <4> QED
        BY <4>2, <4>3, ZenonT(60)
    <3>4. \A u \in Thread, b \in UpdateKey \ {uk} :
             /\ Running(u, b)' <=> Running(u, b)
             /\ Running(u, b) =>
                   txs'[handle'[u].id].snapshot = txs[handle[u].id].snapshot
      BY <2>1, <3>1, <1>others DEF Running
    <3>5. RunningThreads' = [RunningThreads EXCEPT ![uk] = {}]
      <4>1. RunningThreads'[uk] = {}
        BY <1>0, <3>3, Zenon DEF MappedSeen
      <4>2. \A b \in UpdateKey \ {uk} : RunningThreads'[b] = RunningThreads[b]
        BY <3>4 DEF RunningThreads
      <4> QED
        BY <4>1, <4>2, ZenonT(30) DEF RunningThreads
    <3>6. SeenData' = [SeenData EXCEPT ![uk] = [k \in Key |-> None]]
      <4>1. SeenData'[uk] = [k \in Key |-> None]
        BY <1>0, <3>3, ZenonT(60) DEF MappedSeen
      <4>2. ASSUME NEW b \in UpdateKey \ {uk} PROVE SeenData'[b] = SeenData[b]
        BY <1>0, <3>4, OtherSeen
      <4> QED
        BY <4>1, <4>2, Zenon DEF SeenData
    <3>7. CS!End(t, uk)
      BY <3>2, <3>5, <3>6 DEF CS!End, CS!Nothing
    <3>8. CASE ~commit(t)
      BY <1>5, <3>7, <3>8 DEF commit_error, rollback, CS!Rollback
    <3>9. CASE commit(t)
      <4>1. \A k \in Footprint[uk] : SeenData[uk][k] = data[k]
        <5>1. \A k \in Footprint[uk] : k \in Key /\ txs[handle[t].id].snapshot[k] = db[k]
          <6>1. Stable
            BY DEF Isolation
          <6> QED
            BY <3>2, <6>1 DEF Stable
        <5> QED
          BY <3>2, <5>1, ZenonT(60)
      <4>2. db' \in [Key -> Cell]
        BY DEF Isolation, TypeOK
      <4>3. \A k \in Key \ Footprint[uk] : db'[k] = db[k]
        BY <3>1, <3>9, CommitInFootprint DEF Running
      <4> DEFINE w == [k \in Footprint[uk] |-> db'[k].val]
      <4>4. w \in [Footprint[uk] -> Data]
        BY <4>2 DEF Cell
      <4>5. data' = [k \in Key |-> IF k \in Footprint[uk] THEN w[k] ELSE data[k]]
        BY <4>3
      <4> QED
        BY <3>7, <4>1, <4>4, <4>5, ZenonT(60) DEF CS!Commit, CS!Data, Data
    <3> QED
      BY <3>8, <3>9
  <2> QED
    BY <2>2, <2>3
<1> QED
  BY <1>2, <1>3, <1>4, <1>5 DEF StoreCall, CS!Next

\* A restart of the store is a crash of CommitStore.
LEMMA CrashMapped == ASSUME crash PROVE CS!Crash
<1>1. \A u \in Thread, uk \in UpdateKey : ~Running(u, uk)'
  BY DEF crash, Running, NoHandle
<1>2. /\ RunningThreads' = [uk \in UpdateKey |-> {}]
      /\ SeenData' = [uk \in UpdateKey |-> [k \in Key |-> None]]
  BY <1>1 DEF RunningThreads, SeenData
<1>3. [k \in Key |-> db[k].val]' = [k \in Key |-> db[k].val]
  BY DEF crash
<1> QED
  BY <1>2, <1>3 DEF CS!Crash, CS!Nothing

(* Every step of the store is a step or a stutter of CommitStore. *)
LEMMA NextMapped ==
    ASSUME IsolationInv, IsolationInv', [Next]_vars
    PROVE  [CS!Next]_(CS!vars)
<1>1. ASSUME NEW t \in Thread, StoreCall(t) PROVE [CS!Next]_(CS!vars)
  BY <1>1, StoreCallMapped DEF IsolationInv
<1>2. ASSUME UNCHANGED vars PROVE UNCHANGED CS!vars
  BY <1>2 DEF vars, CS!vars, RunningThreads, SeenData, Running
<1>3. ASSUME NEW t \in Thread, NEW k \in Key, tx_write_panic(t, k) PROVE FALSE
  BY <1>3 DEF tx_write_panic, IsolationInv, Isolation
<1> QED
  BY <1>1, <1>2, <1>3, CrashMapped DEF Next, StoreCall, poisoned_call, CS!Next

(* With disjoint footprints the store keeps the promise of the trait CommitStore:
   the update transactions of a key run one at a time and take effect at once. *)
THEOREM StoreImplementsCommitStore ==
    ASSUME DisjointFootprints PROVE Spec => ImplementsCommitStore
<1>1. IsolationInv /\ [Next]_vars => IsolationInv'
  BY NextIsolation
<1>2. IsolationInv /\ IsolationInv' /\ [Next]_vars => [CS!Next]_(CS!vars)
  BY NextMapped
<1> QED
  BY InitIsolation, InitMapped, <1>1, <1>2, PTL DEF Spec, ImplementsCommitStore, CS!Spec
=============================================================================
