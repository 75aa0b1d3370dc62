------------------------ MODULE ExecuteCommand_proofs ------------------------
(***************************************************************************)
(* Theorems about commands that panic or drop their handle, for every      *)
(* number of threads, update keys, keys and transactions.                  *)
(*                                                                         *)
(* A dropped handle leaves its entries in `txs` and `mutex`, so that the   *)
(* NothingLeft of RocksDBStore_proofs is lost; its Core is not.  What      *)
(* replaces NothingLeft is that a transaction left with writes is fenced   *)
(* by a poisoned mutex, which no thread that has its guard can own.        *)
(***************************************************************************)
EXTENDS ExecuteCommand, RocksDBStore_proofs

\* The provers a leaf that names none is given to, in this order.
USE SMTT(10), ZenonT(10), SMTT(30), SMTT(60)

Call == [at : {"none", "running", "returned"}, ok : {"yes", "no"}, len : Nat]

CallInv ==
    /\ call \in [Thread -> Call]
    /\ poisoned \subseteq TxId
    /\ \A t \in Thread : call[t].at # "none" => handle[t].st = "begun"

\* The inductive invariant for any footprints.
CommandInv == TypeOK /\ Core /\ CallInv

\* Nobody holds the guard of a poisoned mutex: the panic that poisons it drops the
\* guard, and prepare does not get another.
GuardsClean ==
    \A t \in Thread : HasGuard(t) /\ is_update_tx(t) => handle[t].mutex \notin poisoned

\* A transaction has no writes before its command enters the enclave.
NoEarlyWrites ==
    \A t \in Thread : handle[t].st = "begun" /\ call[t].at = "none" =>
        \A k \in Key : txs[handle[t].id].buffer[k] = Unwritten

\* The inductive invariant for disjoint footprints.
FencedInv ==
    /\ Isolation
    /\ CallInv
    /\ GuardsClean
    /\ NoEarlyWrites
    /\ LeftLocksAreFenced

-----------------------------------------------------------------------------
\* What a dropped handle does to the store, but for the RwLock.
Dropped(t) ==
    /\ handle' = [handle EXCEPT ![t] = NoHandle]
    /\ strong' = IF is_update_tx(t)
                 THEN [strong EXCEPT ![handle[t].mutex] = @ - 1] ELSE strong
    /\ UNCHANGED <<inner, db, latest_tx_id, txs, mutex>>

\* drop_handle drops the handle, and so does a write that panics.
LEMMA DropsHandle ==
    ASSUME TypeOK, Core, NEW t \in Thread
    PROVE  /\ drop_handle(t) => Dropped(t) /\ rwlock' = rwlock
           /\ \A k \in Key : tx_write_panic(t, k) =>
                 Dropped(t) /\ rwlock' = "poisoned" /\ is_update_tx(t)
BY BegunTx DEF drop_handle, tx_write_panic, Dropped

(* A dropped handle takes its reference of the mutex with it: the count of the
   entry that stays in the map is right for the handles that are left. *)
LEMMA DropCore ==
    ASSUME TypeOK, Core, NEW t \in Thread, Dropped(t), rwlock' \in {"usable", "poisoned"}
    PROVE  TypeOK' /\ Core'
<1> USE ConstantsAssumption
<1>0. /\ handle'[t] = NoHandle
      /\ \A u \in Thread \ {t} : handle'[u] = handle[u]
      /\ UNCHANGED <<inner, latest_tx_id, txs, mutex>>
  BY DEF Dropped, TypeOK
<1>1. HandleInv' /\ GuardInv' /\ TxsInv' /\ ReadOnlyInv' /\ MutexInv'
  BY <1>0 DEF Core, HandleInv, NoHandle, GuardInv, HasGuard, TxsInv, ReadOnlyInv, MutexInv
<1>2. \A u \in Thread, k \in UpdateKey : Live(u, k)' <=> Live(u, k) /\ u # t
  BY <1>0 DEF Live, NoHandle
<1>3. OwnsEntry'
  BY <1>0, <1>2 DEF Core, OwnsEntry
<1>4. \A k \in UpdateKey : Users(k)' = Users(k) \ {t}
  BY <1>2 DEF Users
<1>5. handle' \in [Thread -> Handle]
  BY DEF Dropped, TypeOK, NoHandle, Handle
<1>6. CASE ~is_update_tx(t)
  <2>1. strong' = strong
    BY <1>6 DEF Dropped
  <2>2. \A k \in UpdateKey : Users(k)' = Users(k)
    BY <1>4, <1>6 DEF Users, Live, is_update_tx
  <2>3. CountInv'
    BY <1>0, <2>1, <2>2 DEF Core, CountInv
  <2> QED
    BY <1>1, <1>3, <1>5, <2>1, <2>3, ZenonT(60) DEF Dropped, TypeOK, Core
<1>7. CASE is_update_tx(t)
  <2>0. handle[t].st # "none"
    BY <1>7 DEF Core, HandleInv, NoHandle, is_update_tx
  <2>1. PICK uk \in UpdateKey : handle[t].update_key = uk
    BY <1>7, <2>0, UpdateHandle
  <2> DEFINE m == mutex[uk]
  <2>2. /\ t \in Users(uk) /\ m \in TxId /\ handle[t].mutex = m
        /\ Counts(strong[m] - 1, Users(uk)) /\ strong[m] \in Nat /\ strong[m] >= 2
    BY <1>7, <2>0, <2>1, UpdateHandle
  <2>3. Counts(strong[m] - 1 - 1, Users(uk)')
    <3>1. Users(uk)' = Users(uk) \ {t}
      BY <1>4, Zenon
    <3> HIDE DEF m
    <3>2. \A n : Counts(n, Users(uk)) => Counts(n - 1, Users(uk) \ {t})
      BY <2>2, CountsLess, Zenon
    <3> QED
      BY <2>2, <3>1, <3>2, Zenon
  <2>4. strong' = [strong EXCEPT ![m] = strong[m] - 1]
    BY <1>7, <2>2 DEF Dropped
  <2>5. strong' \in [TxId -> Nat] /\ strong'[m] = strong[m] - 1
    BY <2>2, <2>4 DEF TypeOK
  <2>6. \A k \in UpdateKey \ {uk} : Users(k)' = Users(k)
    <3>1. \A k \in UpdateKey \ {uk} : t \notin Users(k)
      BY <2>1 DEF Users, Live
    <3>2. \A k \in UpdateKey \ {uk} : Users(k) \ {t} = Users(k)
      BY <3>1
    <3> QED
      BY <1>4, <3>2, Zenon
  <2>7. \A k \in UpdateKey \ {uk} : mutex[k] # 0 =>
           mutex[k] # m /\ strong'[mutex[k]] = strong[mutex[k]]
    BY <2>2, <2>4 DEF TypeOK, Core, MutexInv
  <2>8. ASSUME NEW k \in UpdateKey, mutex[k] # 0
        PROVE  Counts(strong'[mutex[k]] - 1, Users(k)')
    <3>1. CASE k = uk
      BY <2>2, <2>3, <2>5, <3>1
    <3>2. CASE k # uk
      BY <2>6, <2>7, <2>8, <3>2 DEF Core, CountInv
    <3> QED
      BY <3>1, <3>2
  <2>9. CountInv'
    BY <1>0, <2>8 DEF CountInv
  <2> QED
    BY <1>1, <1>3, <1>5, <2>5, <2>9 DEF Dropped, TypeOK, Core
<1> QED
  BY <1>6, <1>7

\* The steps of a command that drop its handle.
DropStep(t) ==
    prepare_panic(t) \/ load_error(t) \/ ocall_panic(t) \/ output_panic(t) \/ store_panic(t)

(* Every step of a command calls the store, drops the handle or leaves the store
   alone. *)
LEMMA StepKinds ==
    ASSUME TypeOK, Core, NEW t \in Thread, execute_command(t)
    PROVE  \/ StoreCall(t) /\ (issue(t) \/ begin_tx(t) \/ ocall(t) \/ return(t))
           \/ DropStep(t) /\ Dropped(t) /\ rwlock' \in {"usable", "poisoned"}
           \/ UNCHANGED vars /\ (enter_enclave(t) \/ enclave_returns(t))
<1>1. ASSUME issue(t) \/ begin_tx(t) \/ ocall(t) \/ return(t)
      PROVE  StoreCall(t)
  BY <1>1 DEF issue, begin_tx, ocall, return, StoreCall
<1>2. ASSUME DropStep(t)
      PROVE  Dropped(t) /\ rwlock' \in {"usable", "poisoned"}
  BY <1>2, DropsHandle
     DEF DropStep, prepare_panic, load_error, ocall_panic, output_panic, store_panic, TypeOK
<1>3. ASSUME enter_enclave(t) \/ enclave_returns(t)
      PROVE  UNCHANGED vars
  BY <1>3 DEF enter_enclave, enclave_returns, ecall_execute_command, sgx_error
<1> QED
  BY <1>1, <1>2, <1>3, Zenon DEF execute_command, DropStep

(* The handles of the other threads stay as they are, and so do their
   transactions. *)
LEMMA OthersInCommand ==
    ASSUME TypeOK, Core, NEW t \in Thread, execute_command(t), NEW u \in Thread \ {t}
    PROVE  /\ handle'[u] = handle[u]
           /\ handle[u].st = "begun" => txs'[handle[u].id] = txs[handle[u].id]
           /\ call \in [Thread -> Call] => call'[u] = call[u]
<1>1. call \in [Thread -> Call] => call'[u] = call[u]
  BY DEF execute_command, issue, begin_tx, prepare_panic, load_error, enter_enclave, ocall,
     ocall_panic, enclave_returns, ecall_execute_command, sgx_error, output_panic, return,
     store_panic
<1>2. CASE StoreCall(t)
  BY <1>1, <1>2, OthersUntouched
<1>3. CASE Dropped(t)
  BY <1>1, <1>3 DEF Dropped, TypeOK
<1>4. CASE UNCHANGED vars
  BY <1>1, <1>4 DEF vars
<1> QED
  BY <1>2, <1>3, <1>4, StepKinds

(* The call of the enclave of a thread that makes a step. *)
LEMMA CallStep ==
    ASSUME CommandInv, NEW t \in Thread, execute_command(t)
    PROVE  /\ call' \in [Thread -> Call]
           /\ poisoned' \subseteq TxId
           /\ call'[t].at # "none" => handle'[t].st = "begun"
<1> USE ConstantsAssumption
<1>0. TypeOK /\ Core /\ call \in [Thread -> Call] /\ poisoned \subseteq TxId
      /\ (call[t].at # "none" => handle[t].st = "begun")
  BY DEF CommandInv, CallInv
<1>1. NoCall \in Call /\ NoCall.at = "none"
  BY DEF NoCall, Call
<1>2. CASE begin_tx(t) \/ ocall(t)
  <2>1. call' = call /\ poisoned' = poisoned
    BY <1>2 DEF begin_tx, ocall
  <2>2. handle[t].st = "begun" => handle'[t].st = "begun"
    BY <1>0, <1>2, Zenon DEF begin_tx, ocall, prepare, begin, tx_write
  <2> QED
    BY <1>0, <2>1, <2>2
<1>3. CASE issue(t) \/ return(t)
  <2>1. Answered \in Call /\ Answered.at = "none"
    BY DEF Answered, NoCall, Call
  <2>2. /\ call' = [call EXCEPT ![t] = NoCall] \/ call' = [call EXCEPT ![t] = Answered]
        /\ poisoned' = poisoned
    BY <1>3 DEF issue, return
  <2> QED
    BY <1>0, <1>1, <2>1, <2>2
<1>4. CASE prepare_panic(t) \/ load_error(t)
  BY <1>0, <1>4 DEF prepare_panic, load_error
<1>5. CASE ocall_panic(t) \/ output_panic(t) \/ store_panic(t)
  <2>1. call'= [call EXCEPT ![t] = NoCall]
    BY <1>5 DEF ocall_panic, output_panic, store_panic
  <2>2. is_update_tx(t) => handle[t].mutex \in TxId
    <3>1. is_update_tx(t) => handle[t].st # "none"
      BY <1>0 DEF Core, HandleInv, NoHandle, is_update_tx
    <3> QED
      BY <1>0, <3>1, UpdateHandle
  <2>3. ocall_panic(t) => is_update_tx(t)
    BY <1>0, DropsHandle DEF ocall_panic
  <2>4. poisoned' \subseteq TxId
    BY <1>0, <1>5, <2>2, <2>3 DEF ocall_panic, output_panic, store_panic
  <2> QED
    BY <1>0, <1>1, <2>1, <2>4
<1>6. CASE enter_enclave(t)
  <2>1. /\ call' = [call EXCEPT ![t] = [call[t] EXCEPT !.at = "running"]]
        /\ handle' = handle /\ handle[t].st = "begun" /\ poisoned' = poisoned
    BY <1>6 DEF enter_enclave, vars
  <2>2. [call[t] EXCEPT !.at = "running"] \in Call
    BY <1>0 DEF Call
  <2> QED
    BY <1>0, <2>1, <2>2
<1>7. CASE enclave_returns(t)
  <2>1. \E c \in Call : call' = [call EXCEPT ![t] = c]
    <3>1. ASSUME NEW status \in {"yes", "no"}, NEW res_len \in 1..(OutputMaxLen + 1),
                 ecall_execute_command(t, status, res_len)
          PROVE  \E c \in Call : call' = [call EXCEPT ![t] = c]
      <4> DEFINE c == IF res_len > OutputMaxLen
                      THEN [at |-> "returned", ok |-> "no", len |-> 0]
                      ELSE [at |-> "returned", ok |-> status, len |-> res_len]
      <4>1. c \in Call
        BY OutputAssumption DEF Call
      <4> QED
        BY <3>1, <4>1, Zenon DEF ecall_execute_command
    <3>2. [at |-> "returned", ok |-> "no", len |-> 0] \in Call
      BY DEF Call
    <3> QED
      BY <1>7, <3>1, <3>2 DEF enclave_returns, sgx_error
  <2>2. call[t].at = "running" /\ handle' = handle /\ poisoned' = poisoned
    BY <1>7 DEF enclave_returns, ecall_execute_command, sgx_error, vars
  <2> QED
    BY <1>0, <2>1, <2>2
<1> QED
  BY <1>2, <1>3, <1>4, <1>5, <1>6, <1>7, Zenon DEF execute_command

(* Whatever commands do, and whatever their footprints are, the core holds. *)
LEMMA NextCommandInv == CommandInv /\ [CNext]_cvars => CommandInv'
<1> SUFFICES ASSUME CommandInv, [CNext]_cvars PROVE CommandInv'
  OBVIOUS
<1>0. TypeOK /\ Core /\ CallInv
  BY DEF CommandInv
<1>1. ASSUME NEW t \in Thread, execute_command(t) PROVE CommandInv'
  <2>1. TypeOK' /\ Core'
    <3>1. CASE StoreCall(t)
      BY <1>0, <3>1, StoreCallType, StoreCallCore
    <3>2. CASE Dropped(t) /\ rwlock' \in {"usable", "poisoned"}
      BY <1>0, <3>2, DropCore
    <3>3. CASE UNCHANGED vars
      BY <1>0, <3>3, SameCore DEF vars, TypeOK
    <3> QED
      BY <1>0, <1>1, <3>1, <3>2, <3>3, StepKinds
  <2>2. CallInv'
    BY <1>0, <1>1, CallStep, OthersInCommand DEF CallInv
  <2> QED
    BY <2>1, <2>2 DEF CommandInv
<1>2. CASE restart
  BY <1>0, <1>2, CrashType, CrashCore DEF restart, CommandInv, CallInv, NoCall, Call
<1>3. CASE UNCHANGED cvars
  <2>1. UNCHANGED vars /\ UNCHANGED <<call, poisoned>>
    BY <1>3 DEF cvars, vars
  <2>2. TypeOK' /\ CallInv'
    BY <1>0, <2>1 DEF vars, TypeOK, CallInv
  <2> QED
    BY <1>0, <2>1, <2>2, SameCore DEF CommandInv
<1> QED
  BY <1>1, <1>2, <1>3 DEF CNext

\* No command is running when the store has just been opened.
LEMMA InitCommandInv == CInit => CommandInv
BY InitIInv DEF CInit, Init, IInv, CommandInv, CallInv, NoCall, Call

-----------------------------------------------------------------------------
\* A transaction without a handle that has written the key, and so holds its row
\* lock.
LeftLock(i, k) ==
    HasWritten(i, k) /\ ~\E t \in Thread : handle[t].st = "begun" /\ handle[t].id = i

(* A thread that has its guard meets no row lock of a transaction left behind:
   such a lock is under a poisoned mutex, and the thread's mutex is not. *)
LEMMA NoPanic ==
    ASSUME DisjointFootprints, FencedInv, NEW t \in Thread, NEW k \in Key
    PROVE  ~tx_write_panic(t, k)
<1> SUFFICES ASSUME tx_write_panic(t, k) PROVE FALSE
  OBVIOUS
<1>0. TypeOK /\ Core
  BY DEF FencedInv, Isolation
<1>1. PICK uk \in UpdateKey : handle[t].update_key = uk
  BY <1>0, BegunTx DEF tx_write_panic, is_update_tx, TypeOK, Handle
<1>2. Running(t, uk) /\ k \in Footprint[uk] /\ is_update_tx(t)
  BY <1>0, <1>1, DropsHandle, Zenon DEF tx_write_panic, Running
<1>3. mutex[uk] \notin poisoned
  BY <1>0, <1>1, <1>2 DEF FencedInv, GuardsClean, HasGuard, Running, Core, OwnsEntry, Live
<1>4. \A j \in TxId : HasWritten(j, k) =>
         \E u \in Thread : handle[u].st = "begun" /\ handle[u].id = j
  BY <1>2, <1>3 DEF FencedInv, LeftLocksAreFenced, HasWritten
<1> QED
  BY <1>2, <1>4, NoConflict DEF tx_write_panic, FencedInv

(* The entry of an update key whose mutex is poisoned stays in the map: no call
   replaces it, and nobody who could remove it has its guard. *)
LEMMA PoisonedEntryStays ==
    ASSUME TypeOK, Core, CallInv, GuardsClean, NEW t \in Thread, StoreCall(t),
           NEW uk \in UpdateKey, mutex[uk] \in poisoned
    PROVE  mutex'[uk] = mutex[uk]
<1> USE ConstantsAssumption
<1>1. mutex[uk] # 0
  BY DEF CallInv, TxId
<1>2. CASE create_transaction(t)
  BY <1>1, <1>2 DEF create_transaction, create_read_tx, create_update_tx,
     create_invalid_key, create_overflow, vars, TypeOK
<1>3. CASE finalize_tx(t)
  <2>1. CASE handle[t].update_key = uk
    <3>1. handle[t].mutex = mutex[uk] /\ HasGuard(t) /\ is_update_tx(t)
      BY <1>3, <2>1 DEF finalize_tx, HasGuard, is_update_tx, Core, OwnsEntry, Live
    <3> QED
      BY <3>1 DEF GuardsClean
  <2>2. CASE handle[t].update_key # uk
    BY <1>3, <2>2 DEF finalize_tx, TypeOK
  <2> QED
    BY <2>1, <2>2
<1> QED
  BY <1>2, <1>3, Zenon DEF StoreCall, prepare, begin, tx_write, commit, commit_error, rollback

(* A call that returns leaves no new row lock behind. *)
LEMMA CallLeavesNoLock ==
    ASSUME TypeOK, Core, NEW t \in Thread, StoreCall(t),
           NEW i \in TxId, NEW k \in Key, LeftLock(i, k)'
    PROVE  LeftLock(i, k)
<1> USE ConstantsAssumption
<1>1. \A u \in Thread \ {t} :
         /\ handle'[u] = handle[u]
         /\ handle[u].st = "begun" => txs'[handle[u].id] = txs[handle[u].id]
  BY OthersUntouched
<1>2. \A u \in Thread \ {t} : ~(handle[u].st = "begun" /\ handle[u].id = i)
  BY <1>1 DEF LeftLock
<1>3. CASE create_transaction(t) \/ prepare(t)
  BY <1>2, <1>3 DEF create_transaction, create_read_tx, create_update_tx,
     create_invalid_key, create_overflow, vars, prepare, LeftLock, HasWritten
<1>4. CASE begin(t)
  <2>1. /\ handle[t].id \in TxId /\ handle[t].st = "prepared"
        /\ \A j \in TxId \ {handle[t].id} : txs'[j] = txs[j]
        /\ txs'[handle[t].id].buffer = [x \in Key |-> Unwritten]
    BY <1>4 DEF begin, TypeOK, Core, HandleInv, TxId
  <2>2. i # handle[t].id
    BY <2>1 DEF LeftLock, HasWritten
  <2> QED
    BY <1>2, <2>1, <2>2 DEF LeftLock, HasWritten
<1>5. ASSUME NEW x \in Key, NEW v \in Data, tx_write(t, x, v)
      PROVE  LeftLock(i, k)
  <2>1. /\ handle' = handle /\ handle[t].st = "begun"
        /\ \A j \in TxId \ {handle[t].id} : txs'[j] = txs[j]
    BY <1>5, WriteEffect, Zenon DEF tx_write
  <2> QED
    BY <2>1 DEF LeftLock, HasWritten
<1>6. CASE finalize_tx(t)
  <2>1. /\ handle[t].id \in TxId
        /\ txs'[handle[t].id] = NoTx
        /\ \A j \in TxId \ {handle[t].id} : txs'[j] = txs[j]
    BY <1>6, BegunTx DEF finalize_tx, TypeOK
  <2>2. i # handle[t].id
    BY <2>1 DEF LeftLock, HasWritten
  <2> QED
    BY <1>2, <2>1, <2>2 DEF LeftLock, HasWritten
<1> QED
  BY <1>3, <1>4, <1>5, <1>6 DEF StoreCall, commit, commit_error, rollback

(* A step that drops a handle poisons the mutex of the row locks it leaves. *)
LEMMA DropFences ==
    ASSUME DisjointFootprints, FencedInv, NEW t \in Thread, DropStep(t), Dropped(t),
           NEW i \in TxId, NEW k \in Key, LeftLock(i, k)',
           NEW uk \in UpdateKey, k \in Footprint[uk]
    PROVE  mutex'[uk] \in poisoned'
<1>0. TypeOK /\ Core /\ CallInv /\ NoEarlyWrites /\ rwlock = "usable" /\ WritesInFootprint
  BY DEF FencedInv, Isolation
<1>1. /\ \A u \in Thread \ {t} : handle'[u] = handle[u]
      /\ txs' = txs /\ mutex' = mutex
  BY <1>0 DEF Dropped, TypeOK
<1>2. poisoned \subseteq poisoned'
  BY DEF DropStep, prepare_panic, load_error, ocall_panic, output_panic, store_panic
<1>3. CASE LeftLock(i, k)
  BY <1>1, <1>2, <1>3 DEF FencedInv, LeftLocksAreFenced, LeftLock, HasWritten
<1>4. CASE ~LeftLock(i, k)
  <2>1. handle[t].st = "begun" /\ handle[t].id = i /\ HasWritten(i, k)
    BY <1>1, <1>4 DEF LeftLock, HasWritten
  <2>2. output_panic(t)
    BY <1>0, <2>1, NoPanic
       DEF DropStep, prepare_panic, load_error, ocall_panic, store_panic, NoEarlyWrites, HasWritten
  <2>3. is_update_tx(t)
    BY <1>0, <2>1, BegunTx DEF HasWritten
  <2>4. PICK b \in UpdateKey : handle[t].update_key = b
    BY <1>0, <2>3 DEF is_update_tx, TypeOK, Handle
  <2>5. k \in Footprint[b]
    BY <1>0, <2>1, <2>4 DEF WritesInFootprint, Running, HasWritten
  <2>6. b = uk
    BY <2>5 DEF DisjointFootprints
  <2>7. handle[t].mutex = mutex[uk]
    BY <1>0, <2>1, <2>4, <2>6 DEF Core, OwnsEntry, Live
  <2> QED
    BY <1>1, <2>2, <2>3, <2>7 DEF output_panic
<1> QED
  BY <1>3, <1>4

(* A step of a command keeps the guards clean: the thread that poisons a mutex is
   the one that held its guard. *)
LEMMA GuardsStayClean ==
    ASSUME TypeOK, Core, CallInv, GuardsClean, \A k \in Key, u \in Thread : ~tx_write_panic(u, k),
           rwlock = "usable", NEW t \in Thread, execute_command(t)
    PROVE  GuardsClean'
<1> SUFFICES ASSUME NEW u \in Thread, HasGuard(u)', is_update_tx(u)'
             PROVE  handle'[u].mutex \notin poisoned'
  BY DEF GuardsClean
<1>1. CASE u # t
  <2>1. handle'[u] = handle[u] /\ HasGuard(u) /\ is_update_tx(u)
    BY <1>1, OthersInCommand, Zenon DEF HasGuard, is_update_tx
  <2>2. CASE poisoned' = poisoned
    BY <2>1, <2>2 DEF GuardsClean
  <2>3. CASE poisoned' # poisoned
    <3>1. /\ output_panic(t) /\ is_update_tx(t) /\ handle[t].st = "begun"
          /\ poisoned' = poisoned \cup {handle[t].mutex}
      BY <2>3 DEF execute_command, issue, begin_tx, prepare_panic, load_error, enter_enclave,
         ocall, ocall_panic, enclave_returns, ecall_execute_command, sgx_error, output_panic,
         return, store_panic, CallInv
    <3>2. PICK a \in UpdateKey : handle[u].update_key = a
      BY <2>1 DEF is_update_tx, TypeOK, Handle
    <3>3. PICK b \in UpdateKey : handle[t].update_key = b
      BY <3>1 DEF is_update_tx, TypeOK, Handle
    <3>4. a # b
      BY <1>1, <2>1, <3>1, <3>2, <3>3, Zenon DEF Core, GuardInv, HasGuard
    <3>5. handle[u].mutex = mutex[a] /\ handle[t].mutex = mutex[b] /\ mutex[a] # 0
      BY <2>1, <3>1, <3>2, <3>3 DEF Core, OwnsEntry, Live, HasGuard
    <3>6. handle[u].mutex # handle[t].mutex
      BY <3>4, <3>5 DEF Core, MutexInv
    <3> QED
      BY <2>1, <3>1, <3>6 DEF GuardsClean
  <2> QED
    BY <2>2, <2>3
<1>2. CASE u = t
  <2>1. ASSUME DropStep(t), Dropped(t) PROVE FALSE
    BY <1>2, <2>1 DEF Dropped, TypeOK, NoHandle, HasGuard
  <2>2. CASE enter_enclave(t) \/ enclave_returns(t)
    BY <1>2, <2>2 DEF enter_enclave, enclave_returns, ecall_execute_command, sgx_error, vars,
       HasGuard, is_update_tx, GuardsClean
  <2>3. CASE begin_tx(t)
    <3>1. /\ poisoned' = poisoned
          /\ handle[t].mutex \notin poisoned \/ handle[t].st = "prepared"
          /\ handle' = [handle EXCEPT ![t] = [handle[t] EXCEPT !.st = "prepared"]]
             \/ handle' = [handle EXCEPT ![t] = [handle[t] EXCEPT !.st = "begun"]]
      BY <2>3 DEF begin_tx, prepare, begin
    <3>2. /\ handle'[t].mutex = handle[t].mutex
          /\ handle'[t].update_key = handle[t].update_key
      BY <3>1 DEF TypeOK, Handle
    <3> QED
      BY <1>2, <3>1, <3>2 DEF GuardsClean, HasGuard, is_update_tx
  <2>4. CASE issue(t)
    <3>1. handle'[t].st \in {"none", "created"}
      BY <2>4 DEF issue, create_transaction, create_read_tx, create_update_tx,
         create_invalid_key, create_overflow, vars, TypeOK
    <3> QED
      BY <1>2, <3>1 DEF HasGuard
  <2>5. CASE ocall(t)
    BY <1>2, <2>5 DEF ocall, tx_write, GuardsClean, HasGuard, is_update_tx
  <2>6. CASE return(t)
    <3>1. handle'[t] = NoHandle
      BY <2>6, Zenon DEF return, commit, commit_error, rollback, finalize_tx, TypeOK
    <3> QED
      BY <1>2, <3>1 DEF NoHandle, HasGuard
  <2> QED
    BY <2>1, <2>2, <2>3, <2>4, <2>5, <2>6, StepKinds
<1> QED
  BY <1>1, <1>2

(* A step of a command writes only inside the enclave. *)
LEMMA StillNoEarlyWrites ==
    ASSUME TypeOK, Core, CallInv, NoEarlyWrites, CallInv', NEW t \in Thread, execute_command(t)
    PROVE  NoEarlyWrites'
<1> SUFFICES ASSUME NEW u \in Thread, handle'[u].st = "begun", call'[u].at = "none", NEW k \in Key
             PROVE  txs'[handle'[u].id].buffer[k] = Unwritten
  BY DEF NoEarlyWrites
<1>1. CASE u # t
  <2>1. handle'[u] = handle[u] /\ call'[u] = call[u]
    BY <1>1, OthersInCommand DEF CallInv
  <2>2. txs'[handle[u].id] = txs[handle[u].id]
    BY <1>1, <2>1, OthersInCommand
  <2> QED
    BY <2>1, <2>2 DEF NoEarlyWrites
<1>2. CASE u = t
  <2>1. ~DropStep(t) /\ ~return(t) /\ ~issue(t)
    <3>1. ASSUME DropStep(t), Dropped(t) PROVE FALSE
      BY <1>2, <3>1 DEF Dropped, TypeOK, NoHandle
    <3>2. ASSUME return(t) PROVE FALSE
      <4>1. handle \in [Thread -> Handle] /\ handle' = [handle EXCEPT ![t] = NoHandle]
        BY <3>2, Zenon DEF return, commit, commit_error, rollback, finalize_tx, TypeOK
      <4> QED
        BY <1>2, <4>1 DEF NoHandle
    <3>3. ASSUME issue(t) PROVE FALSE
      <4>1. handle \in [Thread -> Handle] /\ handle[t].st = "none"
        BY <3>3, Zenon DEF issue, create_transaction, create_read_tx, create_update_tx,
           create_invalid_key, create_overflow, TypeOK
      <4>2. handle' = handle \/ \E h : h.st = "created" /\ handle' = [handle EXCEPT ![t] = h]
        <5>1. CASE create_invalid_key(t) \/ create_overflow(t)
          BY <5>1 DEF create_invalid_key, create_overflow, vars
        <5>2. ASSUME NEW uk, create_read_tx(t, uk) \/ create_update_tx(t, uk)
              PROVE  \E h : h.st = "created" /\ handle' = [handle EXCEPT ![t] = h]
          BY <5>2, Zenon DEF create_read_tx, create_update_tx
        <5> QED
          BY <3>3, <5>1, <5>2, Zenon DEF issue, create_transaction
      <4> QED
        BY <1>2, <4>1, <4>2
    <3>4. DropStep(t) => Dropped(t)
      BY DropsHandle DEF DropStep, prepare_panic, load_error, ocall_panic, output_panic,
         store_panic
    <3> QED
      BY <3>1, <3>2, <3>3, <3>4
  <2>2. ~ocall(t) /\ ~enter_enclave(t) /\ ~enclave_returns(t)
    BY <1>2 DEF ocall, enter_enclave, enclave_returns, ecall_execute_command, sgx_error, CallInv, Call
  <2>3. begin_tx(t)
    BY <2>1, <2>2 DEF execute_command, DropStep
  <2>4. begin(t)
    BY <1>2, <2>3, Zenon DEF begin_tx, prepare, TypeOK, Handle
  <2>5. handle[t].id \in TxId /\ handle'[t] = [handle[t] EXCEPT !.st = "begun"]
        /\ handle[t] \in Handle
    BY <2>4, ConstantsAssumption DEF begin, TypeOK, Core, HandleInv, TxId
  <2>6. handle'[t].id = handle[t].id
    BY <2>5 DEF Handle
  <2>7. txs'[handle[t].id].buffer = [x \in Key |-> Unwritten]
    BY <2>4, <2>5 DEF begin, TypeOK
  <2> QED
    BY <1>2, <2>6, <2>7, Zenon
<1> QED
  BY <1>1, <1>2, Zenon

(* A dropped handle leaves what the other transactions see as it is. *)
LEMMA DropIsolation ==
    ASSUME Isolation, NEW t \in Thread, Dropped(t), rwlock' = "usable"
    PROVE  Isolation'
<1>0. TypeOK /\ Core
  BY DEF Isolation
<1>1. TypeOK' /\ Core'
  BY <1>0, DropCore
<1>2. /\ \A u \in Thread, uk \in UpdateKey :
            Running(u, uk)' => Running(u, uk) /\ handle'[u] = handle[u]
      /\ txs' = txs /\ db' = db
  BY <1>0, Zenon DEF Dropped, TypeOK, NoHandle, Running
<1> QED
  BY <1>1, <1>2 DEF Isolation, WritesInFootprint, Stable

(* With disjoint footprints every step of the commands preserves the fence. *)
LEMMA NextFencedInv ==
    ASSUME DisjointFootprints, FencedInv, [CNext]_cvars
    PROVE  FencedInv'
<1>0. /\ TypeOK /\ Core /\ CallInv /\ Isolation /\ GuardsClean /\ NoEarlyWrites
      /\ rwlock = "usable"
      /\ \A u \in Thread, k \in Key : ~tx_write_panic(u, k)
  BY NoPanic DEF FencedInv, Isolation
<1>1. TypeOK' /\ Core' /\ CallInv'
  BY <1>0, NextCommandInv DEF CommandInv
<1>2. ASSUME NEW t \in Thread, execute_command(t)
      PROVE  FencedInv'
  <2>1. GuardsClean' /\ NoEarlyWrites'
    BY <1>0, <1>1, <1>2, GuardsStayClean, StillNoEarlyWrites
  <2>2. CASE StoreCall(t) /\ (issue(t) \/ begin_tx(t) \/ ocall(t) \/ return(t))
    <3>1. Isolation'
      BY <1>0, <2>2, StoreCallIsolation
    <3>2. poisoned' = poisoned
      BY <2>2 DEF issue, begin_tx, ocall, return
    <3>3. ASSUME NEW i \in TxId, NEW k \in Key, LeftLock(i, k)',
                 NEW uk \in UpdateKey, k \in Footprint[uk]
          PROVE  mutex'[uk] \in poisoned'
      <4>1. LeftLock(i, k)
        BY <1>0, <2>2, <3>3, CallLeavesNoLock
      <4>2. mutex[uk] \in poisoned
        BY <3>3, <4>1 DEF FencedInv, LeftLocksAreFenced, LeftLock, HasWritten
      <4> QED
        BY <1>0, <2>2, <3>2, <4>2, PoisonedEntryStays, ZenonT(60)
    <3>4. LeftLocksAreFenced'
      BY <3>3 DEF LeftLocksAreFenced, LeftLock, HasWritten
    <3> QED
      BY <1>1, <2>1, <3>1, <3>4 DEF FencedInv
  <2>3. CASE DropStep(t) /\ Dropped(t)
    <3>1. rwlock' = "usable"
      BY <1>0, <2>3, DropsHandle
         DEF DropStep, prepare_panic, load_error, ocall_panic, output_panic, store_panic
    <3>2. Isolation'
      BY <1>0, <2>3, <3>1, DropIsolation
    <3>3. LeftLocksAreFenced'
      BY <2>3, DropFences DEF LeftLocksAreFenced, LeftLock, HasWritten
    <3> QED
      BY <1>1, <2>1, <3>2, <3>3 DEF FencedInv
  <2>4. CASE UNCHANGED vars /\ (enter_enclave(t) \/ enclave_returns(t))
    <3>1. UNCHANGED <<handle, txs, db, mutex, rwlock, poisoned>>
      BY <2>4 DEF vars, enter_enclave, enclave_returns, ecall_execute_command, sgx_error
    <3>2. Isolation'
      BY <1>0, <1>1, <3>1, Zenon DEF Isolation, WritesInFootprint, Stable, Running
    <3>3. LeftLocksAreFenced'
      BY <3>1 DEF FencedInv, LeftLocksAreFenced
    <3> QED
      BY <1>1, <2>1, <3>2, <3>3 DEF FencedInv
  <2> QED
    BY <1>0, <1>2, <2>2, <2>3, <2>4, StepKinds
<1>3. CASE restart
  <2>1. /\ handle' = [t \in Thread |-> NoHandle] /\ txs' = [i \in TxId |-> NoTx]
        /\ rwlock' = "usable"
    BY <1>3 DEF restart, crash
  <2>2. Isolation'
    BY <1>1, <2>1 DEF Isolation, WritesInFootprint, Stable, Running, NoHandle
  <2>3. GuardsClean' /\ NoEarlyWrites' /\ LeftLocksAreFenced'
    BY <2>1 DEF GuardsClean, NoEarlyWrites, LeftLocksAreFenced, HasGuard, NoHandle
  <2> QED
    BY <1>1, <2>2, <2>3 DEF FencedInv
<1>4. CASE UNCHANGED cvars
  <2>1. UNCHANGED <<handle, txs, db, mutex, rwlock, poisoned, call>>
    BY <1>4 DEF cvars, vars
  <2>2. Isolation'
    BY <1>0, <1>1, <2>1 DEF Isolation, WritesInFootprint, Stable, Running
  <2>3. GuardsClean' /\ NoEarlyWrites' /\ LeftLocksAreFenced'
    BY <2>1 DEF FencedInv, GuardsClean, NoEarlyWrites, LeftLocksAreFenced, HasGuard, is_update_tx
  <2> QED
    BY <1>1, <2>2, <2>3 DEF FencedInv
<1> QED
  BY <1>2, <1>3, <1>4 DEF CNext

\* A store that has just been opened has nothing to fence.
LEMMA InitFencedInv == CInit => FencedInv
<1>1. CInit => Isolation /\ CallInv
  BY InitIsolation, InitCommandInv DEF CInit, IsolationInv, CommandInv
<1> QED
  BY <1>1 DEF CInit, Init, FencedInv, GuardsClean, NoEarlyWrites, LeftLocksAreFenced,
     HasGuard, NoHandle

-----------------------------------------------------------------------------
(* Although commands drop handles without finalizing them, finalize_tx always
   finds the entry it expects, whatever the footprints are. *)
THEOREM EntryPresentAfterDropsHolds == CSpec => []EntryPresentAfterDrops
<1>1. CommandInv => EntryPresentAfterDrops
  BY DEF CommandInv, Core, OwnsEntry, EntryPresentAfterDrops, EntryPresent
<1> QED
  BY InitCommandInv, NextCommandInv, <1>1, PTL DEF CSpec

(* Handles dropped without finalize_tx, and mutexes that stay in the map for it,
   do not let two update transactions of a key run at the same time. *)
THEOREM CommandsMutuallyExclude == CSpec => []MutualExclusion
<1>1. CommandInv => MutualExclusion
  BY DEF CommandInv, Core, GuardInv, MutualExclusion, Running, HasGuard
<1> QED
  BY InitCommandInv, NextCommandInv, <1>1, PTL DEF CSpec

(* With disjoint footprints a transaction that a panic leaves in `txs` holds row
   locks only under a poisoned mutex that is still in the map. *)
THEOREM LeftLocksAreFencedHolds ==
    ASSUME DisjointFootprints PROVE CSpec => []LeftLocksAreFenced
<1>1. FencedInv => LeftLocksAreFenced
  BY DEF FencedInv
<1>2. FencedInv /\ [CNext]_cvars => FencedInv'
  BY NextFencedInv
<1> QED
  BY InitFencedInv, <1>1, <1>2, PTL DEF CSpec

(* With disjoint footprints no command that panics or drops its handle makes a
   later one poison the store's RwLock. *)
THEOREM StoreUsableHolds ==
    ASSUME DisjointFootprints PROVE CSpec => []StoreUsable
<1>1. FencedInv => StoreUsable
  BY DEF FencedInv, Isolation, StoreUsable
<1>2. FencedInv /\ [CNext]_cvars => FencedInv'
  BY NextFencedInv
<1> QED
  BY InitFencedInv, <1>1, <1>2, PTL, Zenon DEF CSpec

(* The data changes only when a command returns Ok, and then to what the enclave
   wrote: no panic, failed load, refused output, failed commit or restart touches it.
   A command that returns Ok has committed all that the enclave wrote. *)
THEOREM AnswersMatchDataHolds == CSpec => AnswersMatchData
<1> DEFINE Success(k) ==
      db'[k].val # db[k].val =>
         \E t \in Thread :
            /\ call[t].at = "returned" /\ call[t].ok = "yes"
            /\ call'[t] = Answered
            /\ db'[k].val = tx_get(txs[handle[t].id], k)
    Stored(t) ==
      call[t].at = "returned" /\ call'[t] = Answered =>
         LET stx == txs[handle[t].id] IN
         \A k \in Key : stx.kind = "Update" /\ stx.buffer[k] # Unwritten =>
            db'[k].val = stx.buffer[k]
<1>0. /\ Answered.at = "none" /\ Answered.ok = "yes" /\ NoCall.ok = "no"
  BY DEF Answered, NoCall
<1>1. ASSUME CommandInv, [CNext]_cvars, NEW k \in Key
      PROVE  Success(k)
  <2> SUFFICES ASSUME db'[k].val # db[k].val
               PROVE  \E t \in Thread :
                         /\ call[t].at = "returned" /\ call[t].ok = "yes"
                         /\ call'[t] = Answered
                         /\ db'[k].val = tx_get(txs[handle[t].id], k)
    OBVIOUS
  <2>0. TypeOK /\ Core /\ call \in [Thread -> Call]
    BY <1>1 DEF CommandInv, CallInv
  <2>1. ~restart /\ ~UNCHANGED cvars
    BY DEF restart, crash, cvars, vars
  <2>2. PICK t \in Thread : execute_command(t)
    BY <1>1, <2>1, Zenon DEF CNext
  <2>3. StoreCall(t) /\ (issue(t) \/ begin_tx(t) \/ ocall(t) \/ return(t))
    BY <2>0, <2>2, StepKinds, Zenon DEF Dropped, vars
  <2>4. commit(t)
    BY <2>0, <2>3, StoreCallData
  <2>5. handle[t].st = "begun" /\ handle'[t].st = "none"
    BY <2>0, <2>4, Zenon DEF commit, finalize_tx, TypeOK, NoHandle
  <2>6. return(t)
    <3>1. ~issue(t) /\ ~ocall(t)
      BY <2>0, <2>5, Zenon DEF issue, create_transaction, create_read_tx, create_update_tx,
         create_invalid_key, create_overflow, ocall, tx_write
    <3>2. ~begin_tx(t)
      BY <2>5 DEF begin_tx, prepare, begin
    <3> QED
      BY <2>3, <3>1, <3>2
  <2>7. ~rollback(t) /\ ~commit_error(t)
    BY DEF rollback, commit_error
  <2>8. call[t].at = "returned" /\ call[t].ok = "yes" /\ call'[t] = Answered
    BY <2>0, <2>6, <2>7 DEF return
  <2>9. db'[k] = Committed(handle[t].id, txs[handle[t].id])[k]
        /\ db'[k] # db[k]
    BY <2>4, Zenon DEF commit
  <2>10. db'[k].val = tx_get(txs[handle[t].id], k)
    <3>1. /\ txs[handle[t].id].buffer[k] # Unwritten
          /\ db'[k] = [val |-> txs[handle[t].id].buffer[k], by |-> handle[t].id]
      BY <2>9, Zenon DEF Committed
    <3> QED
      BY <3>1 DEF tx_get
  <2> QED
    BY <2>8, <2>10
<1>2. ASSUME CommandInv, [CNext]_cvars, NEW t \in Thread
      PROVE  Stored(t)
  <2> SUFFICES ASSUME call[t].at = "returned", call'[t] = Answered, NEW k \in Key,
                      txs[handle[t].id].kind = "Update",
                      txs[handle[t].id].buffer[k] # Unwritten
               PROVE  db'[k].val = txs[handle[t].id].buffer[k]
    OBVIOUS
  <2>0. TypeOK /\ Core /\ call \in [Thread -> Call]
    BY <1>2 DEF CommandInv, CallInv
  <2>1. call'[t] # NoCall /\ call'[t] # call[t] /\ call'[t].at # "returned"
    BY <1>0
  <2>2. ~restart /\ ~UNCHANGED cvars
    BY <2>1 DEF restart, cvars
  <2>3. PICK u \in Thread : execute_command(u)
    BY <1>2, <2>2, Zenon DEF CNext
  <2>4. u = t
    BY <2>0, <2>1, <2>3, OthersInCommand
  <2>5. return(t)
    <3>1. ~(call' = call) /\ ~(call' = [call EXCEPT ![t] = NoCall])
      BY <2>0, <2>1
    <3>2. ~enter_enclave(t) /\ ~enclave_returns(t)
      BY <2>0, <2>1 DEF enter_enclave, enclave_returns, ecall_execute_command, sgx_error
    <3> QED
      BY <2>3, <2>4, <3>1, <3>2, Zenon
         DEF execute_command, issue, begin_tx, prepare_panic, load_error, ocall, ocall_panic,
             output_panic, store_panic
  <2>6. commit(t)
    BY <2>0, <2>1, <2>5 DEF return
  <2>7. db'[k] = [val |-> txs[handle[t].id].buffer[k], by |-> handle[t].id]
    BY <2>6 DEF commit, Committed
  <2> QED
    BY <2>7
<1>3. CommandInv /\ [CNext]_cvars =>
          [(\A k \in Key : Success(k)) /\ (\A t \in Thread : Stored(t))]_cvars
  BY <1>1, <1>2, Zenon
<1> QED
  BY <1>3, InitCommandInv, NextCommandInv, PTL, Zenon DEF CSpec, AnswersMatchData

-----------------------------------------------------------------------------
(* A handle dropped while its update transaction runs is a rollback; any other
   dropped handle is a stutter. *)
LEMMA DropMapped ==
    ASSUME Isolation, Isolation', NEW t \in Thread, Dropped(t)
    PROVE  [CS!Next]_(CS!vars)
<1> USE ConstantsAssumption
<1> DEFINE data == [k \in Key |-> db[k].val]
<1>0. TypeOK /\ Core /\ MappedSeen /\ MappedSeen'
  <2>1. Isolation' => MappedSeen'
    BY MappingOfIsolation, PTL
  <2> QED
    BY <2>1, MappingOfIsolation DEF Isolation
<1>1. /\ handle'[t].st = "none" /\ txs' = txs /\ data' = data
      /\ \A u \in Thread \ {t} : handle'[u] = handle[u]
  BY <1>0 DEF Dropped, TypeOK, NoHandle
<1>2. CASE \A uk \in UpdateKey : ~Running(t, uk)
  <2>1. \A u \in Thread, uk \in UpdateKey :
           /\ Running(u, uk)' <=> Running(u, uk)
           /\ Running(u, uk) =>
                 txs'[handle'[u].id].snapshot = txs[handle[u].id].snapshot
    BY <1>1, <1>2 DEF Running
  <2> QED
    BY <1>0, <1>1, <2>1, SameMapping, ZenonT(60) DEF CS!vars
<1>3. ASSUME NEW uk \in UpdateKey, Running(t, uk)
      PROVE  CS!Rollback(t, uk)
  <2>1. RunningThreads[uk] = {t}
    BY <1>0, <1>3, Zenon DEF MappedSeen
  <2>2. \A u \in Thread : ~Running(u, uk)'
    BY <1>1, <2>1 DEF Running, RunningThreads
  <2>3. \A u \in Thread, b \in UpdateKey \ {uk} :
           /\ Running(u, b)' <=> Running(u, b)
           /\ Running(u, b) =>
                 txs'[handle'[u].id].snapshot = txs[handle[u].id].snapshot
    BY <1>1, <1>3 DEF Running
  <2>4. RunningThreads' = [RunningThreads EXCEPT ![uk] = {}]
    <3>1. RunningThreads'[uk] = {}
      BY <1>0, <2>2 DEF MappedSeen
    <3>2. \A b \in UpdateKey \ {uk} : RunningThreads'[b] = RunningThreads[b]
      BY <2>3 DEF RunningThreads
    <3> QED
      BY <3>1, <3>2, ZenonT(60) DEF RunningThreads
  <2>5. SeenData' = [SeenData EXCEPT ![uk] = [k \in Key |-> None]]
    <3>1. SeenData'[uk] = [k \in Key |-> None]
      BY <1>0, <2>2, Zenon DEF MappedSeen
    <3>2. ASSUME NEW b \in UpdateKey \ {uk} PROVE SeenData'[b] = SeenData[b]
      BY <1>0, <2>3, OtherSeen, Zenon
    <3> QED
      BY <3>1, <3>2, Zenon DEF SeenData
  <2> QED
    BY <1>1, <2>1, <2>4, <2>5 DEF CS!Rollback, CS!End, CS!Nothing
<1> QED
  BY <1>2, <1>3 DEF CS!Next

(* With disjoint footprints commands that panic or drop their handle still keep
   the promise of CommitStore: to the others they look like rollbacks. *)
THEOREM CommandsImplementCommitStore ==
    ASSUME DisjointFootprints PROVE CSpec => ImplementsCommitStore
<1>1. FencedInv /\ [CNext]_cvars => FencedInv'
  BY NextFencedInv
<1>2. ASSUME FencedInv, FencedInv', [CNext]_cvars
      PROVE  [CS!Next]_(CS!vars)
  <2>0. TypeOK /\ Core /\ Isolation /\ Isolation'
    BY <1>2 DEF FencedInv, Isolation
  <2>1. ASSUME NEW t \in Thread, execute_command(t) PROVE [CS!Next]_(CS!vars)
    <3>1. CASE StoreCall(t)
      BY <2>0, <3>1, StoreCallMapped
    <3>2. CASE Dropped(t)
      BY <2>0, <3>2, DropMapped
    <3>3. CASE UNCHANGED vars
      BY <3>3 DEF vars, CS!vars, RunningThreads, SeenData, Running
    <3> QED
      BY <2>0, <2>1, <3>1, <3>2, <3>3, StepKinds
  <2>2. CASE restart
    BY <2>2, CrashMapped DEF restart, CS!Next
  <2>3. CASE UNCHANGED cvars
    BY <2>3 DEF cvars, vars, CS!vars, RunningThreads, SeenData, Running
  <2> QED
    BY <1>2, <2>1, <2>2, <2>3 DEF CNext
<1>3. CInit => CS!Init
  BY InitMapped DEF CInit
<1>4. FencedInv /\ FencedInv' /\ [CNext]_cvars => [CS!Next]_(CS!vars)
  BY <1>2
<1> QED
  BY InitFencedInv, <1>1, <1>3, <1>4, PTL DEF CSpec, ImplementsCommitStore, CS!Spec
=============================================================================
