----------------------------- MODULE CommitStore -----------------------------
(***************************************************************************)
(* What the trait CommitStore (modules/store/src/transaction.rs) promises  *)
(* a command that names an update key: the update transactions of one key  *)
(* run one at a time, and each one takes effect at once when it commits,   *)
(* on data that is still what the transaction saw when it began.           *)
(***************************************************************************)
CONSTANTS Thread, UpdateKey, Key, Value, Footprint, None

Data == Value \cup {None}

VARIABLES
    data,     \* the committed content
    running,  \* the threads whose transaction under the key has begun
    seen      \* what the running transaction of the key saw when it began

vars == <<data, running, seen>>

Nothing == [k \in Key |-> None]

Init ==
    /\ data \in [Key -> Data]
    /\ running = [uk \in UpdateKey |-> {}]
    /\ seen = [uk \in UpdateKey |-> Nothing]

Begin(t, uk) ==
    /\ running[uk] = {}
    /\ running' = [running EXCEPT ![uk] = {t}]
    /\ seen' = [seen EXCEPT ![uk] = data]
    /\ UNCHANGED data

End(t, uk) ==
    /\ running[uk] = {t}
    /\ running' = [running EXCEPT ![uk] = {}]
    /\ seen' = [seen EXCEPT ![uk] = Nothing]

Commit(t, uk) ==
    /\ End(t, uk)
    /\ \A k \in Footprint[uk] : seen[uk][k] = data[k]
    /\ \E w \in [Footprint[uk] -> Data] :
          data' = [k \in Key |-> IF k \in Footprint[uk] THEN w[k] ELSE data[k]]

Rollback(t, uk) ==
    /\ End(t, uk)
    /\ UNCHANGED data

Crash ==
    /\ running' = [uk \in UpdateKey |-> {}]
    /\ seen' = [uk \in UpdateKey |-> Nothing]
    /\ UNCHANGED data

Next ==
    \/ \E t \in Thread, uk \in UpdateKey :
          Begin(t, uk) \/ Commit(t, uk) \/ Rollback(t, uk)
    \/ Crash

Spec == Init /\ [][Next]_vars
=============================================================================
