--------------------------- MODULE LCPSystem_proofs ---------------------------
(***************************************************************************)
(* Proofs about LCPSystem, for any threads, keys, upstream states, client  *)
(* messages, queries, reports and clock.                                   *)
(*                                                                         *)
(* The enclave's part is the invariant of ELC_proofs.  To it comes what    *)
(* the signatures stand for: at any time at which a signed message is      *)
(* valid, its transition is a path of verified ones that are valid too.    *)
(* This is inductive because aggregate_messages validates each part before *)
(* it merges their contexts, which makes the merged one the stricter.      *)
(***************************************************************************)
EXTENDS LCPSystem, ELC_proofs

\* The provers a leaf that names none is given to, in this order.
USE SMTT(10), ZenonT(10), SMTT(30), SMTT(60)

Prev(p) == <<p.message.prev_height, p.message.prev_state_id>>

Post(p) == <<p.message.post_height, p.message.post_state_id>>

ValidAt(E, time) == {e \in E : context_validate(e.context, time)}

(* Whenever the message of p is valid, so is a path of transitions in E that leads from its
   previous to its posterior state. *)
Derived(p, E) ==
    \A time \in Nat : context_validate(p.message.context, time) =>
        Descends(Post(p), Prev(p), ValidAt(E, time))

SignedDerived == \A p \in UpdateProofs : Derived(p, verified)

ResultsDerived ==
    \A t \in Thread : Executed(t) => \A p \in response(job[t].res) :
        p.type = "UpdateState" => Derived(p, verified \cup job[t].res.edges)

(* The LCP client: it has accepted nothing as long as its latest height is zero, its
   states above height zero were accepted, and they have one ancestor. *)
ClientInv ==
    /\ \E S, K : client \in [latest_height : Height, frozen : {"yes", "no"},
                             consensus : [Height -> S], keys : K]
    /\ client.latest_height = 0 => accepted = {}
    /\ \A h \in Height : h # 0 /\ client.consensus[h] # None =>
          <<h, client.consensus[h].state_id>> \in accepted
    /\ OneLineage

SInv ==
    /\ EInv
    /\ SignedDerived /\ ResultsDerived
    /\ ClientInv
    /\ now \in Nat

-----------------------------------------------------------------------------
(* Every set that is closed under the transitions may be cut down to the states that
   Descends speaks of. *)
LEMMA DescendsIn ==
  ASSUME NEW s, NEW r, NEW E, Descends(s, r, E), NEW S, r \in S, \A e \in E : e.from \in S => e.to \in S
  PROVE  s \in S
  <1> DEFINE T == S \cap ({r} \cup {e.to : e \in E})
  <1>1. T \in SUBSET ({r} \cup {e.to : e \in E}) /\ r \in T
    OBVIOUS
  <1>2. \A e \in E : e.from \in T => e.to \in T
    OBVIOUS
  <1>3. s \in T
    BY <1>1, <1>2, Zenon DEF Descends
  <1> QED
    BY <1>3

(* A state descends from itself. *)
LEMMA DescendsFromItself ==
  ASSUME NEW s, NEW E
  PROVE  Descends(s, s, E)
  BY DEF Descends

(* A verified transition leads to a descendant. *)
LEMMA DescendsAlong ==
  ASSUME NEW E, NEW e \in E
  PROVE  Descends(e.to, e.from, E)
  BY DEF Descends

(* A descendant of a descendant is one. *)
LEMMA DescendsFurther ==
  ASSUME NEW s, NEW q, NEW r, NEW E, Descends(s, q, E), Descends(q, r, E)
  PROVE  Descends(s, r, E)
  <1>1. ASSUME NEW T, r \in T, \A e \in E : e.from \in T => e.to \in T PROVE q \in T
    BY <1>1, DescendsIn, Zenon
  <1>2. ASSUME NEW T, q \in T, \A e \in E : e.from \in T => e.to \in T PROVE s \in T
    BY <1>2, DescendsIn, Zenon
  <1> QED
    BY <1>1, <1>2, Zenon DEF Descends

(* More transitions lose no descendant. *)
LEMMA DescendsInMore ==
  ASSUME NEW s, NEW r, NEW E, NEW F, E \subseteq F, Descends(s, r, E)
  PROVE  Descends(s, r, F)
  <1>1. ASSUME NEW T, r \in T, \A e \in E : e.from \in T => e.to \in T PROVE s \in T
    BY <1>1, DescendsIn, Zenon
  <1>2. \A T : (\A e \in F : e.from \in T => e.to \in T)
                  => \A e \in E : e.from \in T => e.to \in T
    OBVIOUS
  <1> QED
    BY <1>1, <1>2, Zenon DEF Descends

(* A message stays derived when transitions are added. *)
LEMMA DerivedInMore ==
  ASSUME NEW p, NEW E, NEW F, E \subseteq F, Derived(p, E)
  PROVE  Derived(p, F)
  <1> SUFFICES ASSUME NEW time \in Nat, context_validate(p.message.context, time)
               PROVE  Descends(Post(p), Prev(p), ValidAt(F, time))
    BY DEF Derived
  <1>1. Descends(Post(p), Prev(p), ValidAt(E, time)) /\ ValidAt(E, time) \subseteq ValidAt(F, time)
    BY DEF Derived, ValidAt
  <1> QED
    BY <1>1, DescendsInMore, Zenon

-----------------------------------------------------------------------------
(* A light client verified what update_client signs, in the same context. *)
LEMMA UpdateDerived ==
  ASSUME NEW p, NEW E, Transition(p.message) \in E
  PROVE  Derived(p, E)
  <1> SUFFICES ASSUME NEW time \in Nat, context_validate(p.message.context, time)
               PROVE  Descends(Post(p), Prev(p), ValidAt(E, time))
    BY DEF Derived
  <1> DEFINE e == Transition(p.message)
  <1>1. e.from = Prev(p) /\ e.to = Post(p) /\ e.context = p.message.context
    BY DEF Transition, Prev, Post
  <1>2. e \in ValidAt(E, time)
    BY <1>1, Zenon DEF ValidAt
  <1> HIDE DEF e
  <1>3. Descends(e.to, e.from, ValidAt(E, time))
    BY <1>2, DescendsAlong, Zenon
  <1> QED
    BY <1>1, <1>3, Zenon

(* When an aggregated message is valid, both its parts are, and their paths meet. *)
LEMMA AggregateDerived ==
  ASSUME NEW kv, NEW c, NEW p, NEW q, c.proofs = <<p, q>>,
         p.message \in Message, q.message \in Message,
         NEW time, NEW res, res = elc_aggregate_messages(kv, c, time), res # Err,
         NEW E, Derived(p, E), Derived(q, E)
  PROVE  Derived(res.proof, E)
  <1> DEFINE m == res.proof.message
  <1>1. /\ m.prev_height = p.message.prev_height /\ m.prev_state_id = p.message.prev_state_id
        /\ m.post_height = q.message.post_height /\ m.post_state_id = q.message.post_state_id
        /\ p.message.post_height = q.message.prev_height
        /\ p.message.post_state_id = q.message.prev_state_id
        /\ m.context = context_aggregate(p.message.context, q.message.context) /\ m.context # Err
        /\ ContextFits(p.message.context) /\ ContextFits(q.message.context)
    <2>1. Aggregated(res, p, q)
      BY AggregateResult, Zenon
    <2> QED
      BY <2>1, Zenon DEF Aggregated
  <1> HIDE DEF m
  <1> SUFFICES ASSUME NEW at \in Nat, context_validate(res.proof.message.context, at)
               PROVE  Descends(Post(res.proof), Prev(res.proof), ValidAt(E, at))
    BY Zenon DEF Derived
  <1>2. p.message.context \in ValidationContext /\ q.message.context \in ValidationContext
    BY DEF Message
  <1>3. context_validate(p.message.context, at) /\ context_validate(q.message.context, at)
    BY <1>1, <1>2, MergedContext, CommitmentsAssumption, Zenon DEF m
  <1>4. /\ Descends(Post(p), Prev(p), ValidAt(E, at))
        /\ Descends(Post(q), Prev(q), ValidAt(E, at))
    BY <1>3 DEF Derived
  <1>5. Prev(res.proof) = Prev(p) /\ Post(res.proof) = Post(q) /\ Post(p) = Prev(q)
    BY <1>1, Zenon DEF Prev, Post, m
  <1> QED
    BY <1>4, <1>5, DescendsFurther

(* The proof in the answer of a command is derived from the transitions verified before
   and the one that the command verified. *)
LEMMA DispatchDerived ==
  ASSUME SInv, NEW c, CommandOK(store, signed, c), NEW time,
         NEW res, res = dispatch(store, c, time), res # Err,
         NEW p \in response(res), p.type = "UpdateState"
  PROVE  Derived(p, verified \cup res.edges)
  <1>1. StoreOK(store) /\ p = res.proof /\ p # NoSignature
    BY DEF SInv, EInv, response
  <1>2. ResultOK(store, c, res)
    BY DispatchResult DEF SInv, EInv, SignedOK
  <1>3. CASE c.op = "InitClient"
    BY <1>1, <1>2, <1>3, Zenon DEF ResultOK, Created
  <1>4. CASE c.op = "UpdateClient"
    <2>1. c.client_id \in ClientIds(store) /\ c.message \in ClientMessage
          /\ res = update_client(store, c, time)
      BY <1>4 DEF CommandOK, dispatch
    <2>2. \/ res.proof.type = "Misbehaviour" /\ res.edges = {}
          \/ res.proof.type = "UpdateState" /\ res.edges = {Transition(res.proof.message)}
      BY <1>1, <2>1, UpdateResult
    <2>3. Transition(p.message) \in verified \cup res.edges
      BY <1>1, <2>2, Zenon
    <2> QED
      BY <2>3, UpdateDerived
  <1>5. CASE c.op = "AggregateMessages"
    <2>1. PICK q \in signed, r \in signed :
             c.proofs = <<q, r>> /\ q.type = "UpdateState" /\ r.type = "UpdateState"
      BY <1>5, Zenon DEF CommandOK
    <2>2. /\ q.message \in Message /\ r.message \in Message
          /\ Derived(q, verified) /\ Derived(r, verified)
      BY <2>1 DEF SInv, EInv, SignedOK, ProofOK, SignedDerived, UpdateProofs
    <2>3. res = elc_aggregate_messages(store, c, time)
      BY <1>5 DEF dispatch
    <2>4. Derived(res.proof, verified)
      BY <2>1, <2>2, <2>3, AggregateDerived, ZenonT(60)
    <2> QED
      BY <1>1, <2>4, DerivedInMore
  <1>6. CASE c.op = "VerifyMembership"
    <2>1. c.client_id \in ClientIds(store) /\ res = verify_membership(store, c, time)
      BY <1>6 DEF CommandOK, dispatch
    <2>2. res.proof.type = "VerifyMembership"
      BY <1>1, <2>1, MembershipResult, Zenon
    <2> QED
      BY <1>1, <2>2
  <1> QED
    BY <1>3, <1>4, <1>5, <1>6, Zenon DEF CommandOK

(* A command that executes keeps its transition beside the proof until the commit. *)
LEMMA ExecuteDerived ==
  ASSUME SInv, NEW t \in Thread, execute(t)
  PROVE  SignedDerived' /\ ResultsDerived'
  <1> DEFINE c   == job[t].command
             res == dispatch(store, c, job[t].time)
             r   == IF Refused(t, res) THEN Err ELSE res
  <1>1. /\ job[t] # NoJob /\ signed' = signed /\ verified' = verified
        /\ job' = [job EXCEPT ![t] = [at |-> "executed", command |-> c, res |-> r]]
    BY DEF execute
  <1>2. DOMAIN job = Thread /\ CommandOK(store, signed, c)
    BY <1>1 DEF SInv, EInv, JobsOK
  <1> HIDE DEF c, res, r
  <1>3. job'[t].res = r /\ \A u \in Thread \ {t} : job'[u] = job[u]
    BY <1>1, <1>2
  <1>4. SignedDerived'
    BY <1>1 DEF SInv, SignedDerived, UpdateProofs
  <1>5. ASSUME NEW u \in Thread, Executed(u)', NEW p \in response(job'[u].res), p.type = "UpdateState"
        PROVE  Derived(p, verified' \cup job'[u].res.edges)
    <2>1. CASE u = t
      <3>1. r = res /\ res # Err
        BY <1>3, <1>5, <2>1 DEF Executed, r
      <3>2. Derived(p, verified \cup res.edges)
        BY <1>2, <1>3, <1>5, <2>1, <3>1, DispatchDerived DEF res
      <3> QED
        BY <1>1, <1>3, <2>1, <3>1, <3>2
    <2>2. CASE u # t
      <3>1. Executed(u) /\ job'[u] = job[u]
        BY <1>3, <1>5, <2>2 DEF Executed, Running
      <3> QED
        BY <1>1, <1>5, <3>1 DEF SInv, ResultsDerived
    <2> QED
      BY <2>1, <2>2
  <1>6. ResultsDerived'
    BY <1>5 DEF ResultsDerived
  <1> QED
    BY <1>4, <1>6

(* commit_tx releases a proof together with the transition it stands for. *)
LEMMA CommitDerived ==
  ASSUME SInv, NEW t \in Thread, commit_tx(t)
  PROVE  SignedDerived' /\ ResultsDerived'
  <1> DEFINE res == job[t].res
  <1>1. /\ Executed(t) /\ job' = [job EXCEPT ![t] = NoJob]
        /\ signed' = signed \cup response(res) /\ verified' = verified \cup res.edges
    BY DEF commit_tx, Executed
  <1>2. job'[t] = NoJob /\ \A u \in Thread \ {t} : job'[u] = job[u]
    BY <1>1, EndsJob, Zenon DEF SInv
  <1>3. \A p \in response(res) : p.type = "UpdateState" => Derived(p, verified')
    BY <1>1 DEF SInv, ResultsDerived
  <1> HIDE DEF res
  <1>4. SignedDerived'
    <2> SUFFICES ASSUME NEW p \in signed', p.type = "UpdateState"
                 PROVE  Derived(p, verified')
      BY DEF SignedDerived, UpdateProofs
    <2>1. CASE p \in signed
      <3>1. Derived(p, verified) /\ verified \subseteq verified'
        BY <1>1, <2>1 DEF SInv, SignedDerived, UpdateProofs
      <3> QED
        BY <3>1, DerivedInMore
    <2> QED
      BY <1>1, <1>3, <2>1
  <1>5. ASSUME NEW u \in Thread, Executed(u)', NEW p \in response(job'[u].res), p.type = "UpdateState"
        PROVE  Derived(p, verified' \cup job'[u].res.edges)
    <2>1. u # t /\ job'[u] = job[u]
      BY <1>2, <1>5 DEF Executed, Running
    <2>2. Executed(u)
      BY <1>5, <2>1 DEF Executed, Running
    <2>3. Derived(p, verified \cup job[u].res.edges)
      BY <1>5, <2>1, <2>2 DEF SInv, ResultsDerived
    <2>4. verified \cup job[u].res.edges \subseteq verified' \cup job'[u].res.edges
      BY <1>1, <2>1
    <2> QED
      BY <2>3, <2>4, DerivedInMore
  <1>6. ResultsDerived'
    BY <1>5 DEF ResultsDerived
  <1> QED
    BY <1>4, <1>6

(* The other steps finish no command. *)
LEMMA OtherDerived ==
  ASSUME SInv, signed' = signed, verified' = verified,
         \A u \in Thread : Executed(u)' => Executed(u) /\ job'[u] = job[u]
  PROVE  SignedDerived' /\ ResultsDerived'
  <1>1. SignedDerived'
    BY DEF SInv, SignedDerived, UpdateProofs
  <1>2. ASSUME NEW u \in Thread, Executed(u)', NEW p \in response(job'[u].res), p.type = "UpdateState"
        PROVE  Derived(p, verified' \cup job'[u].res.edges)
    <2>1. Executed(u) /\ job'[u] = job[u]
      BY <1>2
    <2> QED
      BY <1>2, <2>1 DEF SInv, ResultsDerived
  <1>3. ResultsDerived'
    BY <1>2 DEF ResultsDerived
  <1> QED
    BY <1>1, <1>3

(* Every step of the enclave's service keeps what signatures stand for, and forgets no
   transition. *)
LEMMA EnclaveDerived ==
  ASSUME SInv, ENext
  PROVE  SignedDerived' /\ ResultsDerived' /\ verified \subseteq verified' /\ now' = now
  <1>1. DOMAIN job = Thread
    BY DEF SInv, EInv, JobsOK
  <1>2. ASSUME NEW t \in Thread, request(t)
        PROVE  /\ signed' = signed /\ verified' = verified /\ now' = now
               /\ \A u \in Thread : Executed(u)' => Executed(u) /\ job'[u] = job[u]
    BY <1>1, <1>2 DEF request, Executed, Running
  <1>3. ASSUME NEW t \in Thread, rollback_tx(t)
        PROVE  /\ signed' = signed /\ verified' = verified /\ now' = now
               /\ \A u \in Thread : Executed(u)' => Executed(u) /\ job'[u] = job[u]
    BY <1>1, <1>3 DEF rollback_tx, Executed, Running
  <1>4. ASSUME crash
        PROVE  /\ signed' = signed /\ verified' = verified /\ now' = now
               /\ \A u \in Thread : Executed(u)' => Executed(u) /\ job'[u] = job[u]
    BY <1>4 DEF crash, Executed, Running
  <1>5. ASSUME NEW t \in Thread, execute(t)
        PROVE  SignedDerived' /\ ResultsDerived' /\ verified' = verified /\ now' = now
    BY <1>5, ExecuteDerived, Zenon DEF execute
  <1>6. ASSUME NEW t \in Thread, commit_tx(t)
        PROVE  SignedDerived' /\ ResultsDerived' /\ verified \subseteq verified' /\ now' = now
    BY <1>6, CommitDerived, Zenon DEF commit_tx
  <1>7. CASE \E t \in Thread : request(t) \/ rollback_tx(t)
    BY <1>2, <1>3, <1>7, OtherDerived
  <1>8. CASE crash
    BY <1>4, <1>8, OtherDerived
  <1>9. CASE \E t \in Thread : execute(t) \/ commit_tx(t)
    BY <1>5, <1>6, <1>9
  <1> QED
    BY <1>7, <1>8, <1>9 DEF ENext

-----------------------------------------------------------------------------
(* A lineage stays one when transitions are verified. *)
LEMMA LineageStays ==
  ASSUME OneLineage, accepted' = accepted, verified \subseteq verified'
  PROVE  OneLineage'
  <1>1. CASE accepted = {}
    BY <1>1 DEF OneLineage
  <1>2. CASE accepted # {}
    <2>1. PICK r \in accepted : \A s \in accepted : Descends(s, r, verified)
      BY <1>2 DEF OneLineage
    <2>2. \A s \in accepted : Descends(s, r, verified')
      BY <2>1, DescendsInMore
    <2> QED
      BY <2>1, <2>2 DEF OneLineage
  <1> QED
    BY <1>1, <1>2

(* The enclave does not touch the LCP client, and registrations, misbehaviour and the
   clock leave its heights and states. *)
LEMMA ClientStays ==
  ASSUME ClientInv, accepted' = accepted, verified \subseteq verified',
         \/ client' = client
         \/ \E y : client' = [client EXCEPT !.keys = y]
         \/ client' = [client EXCEPT !.frozen = "yes"]
  PROVE  ClientInv'
  <1>1. PICK S, K : client \in [latest_height : Height, frozen : {"yes", "no"},
                                consensus : [Height -> S], keys : K]
    BY DEF ClientInv
  <1>2. \E L : client' \in [latest_height : Height, frozen : {"yes", "no"},
                           consensus : [Height -> S], keys : L]
    <2>1. CASE client' = client \/ client' = [client EXCEPT !.frozen = "yes"]
      BY <1>1, <2>1
    <2>2. ASSUME NEW y, client' = [client EXCEPT !.keys = y]
          PROVE  client' \in [latest_height : Height, frozen : {"yes", "no"},
                              consensus : [Height -> S], keys : {y}]
      BY <1>1, <2>2
    <2> QED
      BY <2>1, <2>2, Zenon
  <1>3. client'.latest_height = client.latest_height /\ client'.consensus = client.consensus
    BY <1>1
  <1>4. OneLineage'
    BY LineageStays DEF ClientInv
  <1> QED
    BY <1>2, <1>3, <1>4 DEF ClientInv

(* The LCP client reads messages and contexts as the enclave does. *)
LEMMA SameCommitments ==
  ASSUME NEW x, NEW time
  PROVE  /\ LCP!ethabi_decode(x) = ethabi_decode(x)
         /\ LCP!context_validate(x, time) <=> context_validate(x, time)
  BY DEF LCP!ethabi_decode, LCP!OrNone, ethabi_decode, OrNone, LCP!context_validate, context_validate,
     LCP!ensure_within_trust_period, ensure_within_trust_period, LCP!ensure_header_from_past,
     ensure_header_from_past, LCP!Fits, Fits

(* update_state accepts a first message, or one whose previous state has been accepted. *)
LEMMA UpdateClientInv ==
  ASSUME SInv, NEW p \in UpdateProofs, verified' = verified,
         LCP!update_client(p.message, p.signer, p.signed_by)
  PROVE  ClientInv' /\ now' = now
  <1> DEFINE m     == ethabi_decode(p.message)
             post  == p.message.post_height
             state == [state_id  |-> p.message.post_state_id,
                       timestamp |-> LCP!secs(p.message.timestamp) * NanosPerSec]
             top   == IF client.latest_height < post THEN post ELSE client.latest_height
  <1>1. p.message \in Message /\ Derived(p, verified)
    BY DEF SInv, EInv, SignedOK, ProofOK, SignedDerived, UpdateProofs
  <1>2. /\ m.prev_height = OrNone(p.message.prev_height, 0)
        /\ m.prev_state_id = OrNone(p.message.prev_state_id, ZeroID)
        /\ m.post_height = post /\ m.post_state_id = p.message.post_state_id
        /\ m.timestamp = p.message.timestamp /\ m.context = p.message.context
    BY <1>1 DEF ethabi_decode, Message
  <1>3. post \in Height \ {0} /\ post \in Nat
    BY <1>1, CommitmentsAssumption, Zenon DEF Message
  <1>4. LCP!update_state(client, m, p.signer, p.signed_by, now) # Err
    BY SameCommitments DEF LCP!update_client
  <1> HIDE DEF m
  <1>5. LCP!links(client, m) /\ context_validate(m.context, now)
    BY <1>4, SameCommitments DEF LCP!update_state
  <1>6. /\ client' = [client EXCEPT !.latest_height = LCP!with_header(@, m),
                       !.consensus[m.post_height] =
                           [state_id  |-> m.post_state_id,
                            timestamp |-> LCP!secs(m.timestamp) * NanosPerSec]]
        /\ accepted' = accepted \cup {<<m.post_height, m.post_state_id>>} /\ now' = now
    BY <1>4, SameCommitments, Zenon DEF LCP!update_client, LCP!update_state, m
  <1>7. PICK S, K : client \in [latest_height : Height, frozen : {"yes", "no"},
                                consensus : [Height -> S], keys : K]
    BY DEF SInv, ClientInv
  <1>8. client.latest_height \in Height /\ client.latest_height \in Nat
        /\ client.consensus \in [Height -> S]
    BY <1>7, CommitmentsAssumption, Zenon
  <1>9. client' = [client EXCEPT !.latest_height = top,
                                 !.consensus = [client.consensus EXCEPT ![post] = state]]
    BY <1>2, <1>6, <1>7 DEF LCP!with_header
  <1>10. accepted' = accepted \cup {Post(p)}
    BY <1>2, <1>6 DEF Post
  <1>11. top \in Height /\ top # 0
    BY <1>3, <1>8
  <1>12. \A h \in Height : [client.consensus EXCEPT ![post] = state][h] =
            IF h = post THEN state ELSE client.consensus[h]
    BY <1>3, <1>8
  <1>13. state.state_id = p.message.post_state_id
    OBVIOUS
  <1> HIDE DEF top, state, post
  <1>14. /\ client'.latest_height = top
         /\ client'.consensus = [client.consensus EXCEPT ![post] = state]
         /\ client' \in [latest_height : Height, frozen : {"yes", "no"},
                         consensus : [Height -> S \cup {state}], keys : K]
    BY <1>3, <1>7, <1>9, <1>11, Zenon
  <1>15. ASSUME NEW h \in Height, h # 0, client'.consensus[h] # None
         PROVE  <<h, client'.consensus[h].state_id>> \in accepted'
    <2>1. CASE h = post
      BY <1>10, <1>12, <1>13, <1>14, <2>1 DEF Post, post
    <2>2. CASE h # post
      <3>1. client'.consensus[h] = client.consensus[h]
        BY <1>12, <1>14, <2>2
      <3>2. <<h, client.consensus[h].state_id>> \in accepted
        BY <1>15, <3>1 DEF SInv, ClientInv
      <3> QED
        BY <1>10, <3>1, <3>2
    <2> QED
      BY <2>1, <2>2
  <1>16. OneLineage'
    <2>1. CASE client.latest_height = 0
      <3>1. accepted' = {Post(p)}
        BY <1>10, <2>1 DEF SInv, ClientInv
      <3> QED
        BY <3>1, DescendsFromItself DEF OneLineage
    <2>2. CASE client.latest_height # 0
      <3>1. /\ m.prev_height # None /\ m.prev_state_id # None
            /\ client.consensus[m.prev_height] # None
            /\ client.consensus[m.prev_height].state_id = m.prev_state_id
        BY <1>5, <2>2 DEF LCP!links, LCP!HasState
      <3>2. Prev(p) = <<m.prev_height, m.prev_state_id>> /\ m.prev_height \in Height \ {0}
        BY <1>1, <1>2, <3>1 DEF OrNone, Prev, Message
      <3>3. Prev(p) \in accepted
        BY <3>1, <3>2 DEF SInv, ClientInv
      <3>4. PICK r \in accepted : \A s \in accepted : Descends(s, r, verified)
        BY <3>3 DEF SInv, ClientInv, OneLineage
      <3>5. Descends(Post(p), Prev(p), ValidAt(verified, now))
        BY <1>1, <1>2, <1>5 DEF SInv, Derived
      <3>6. ValidAt(verified, now) \subseteq verified
        BY DEF ValidAt
      <3>7. Descends(Post(p), r, verified)
        BY <3>3, <3>4, <3>5, <3>6, DescendsInMore, DescendsFurther
      <3>8. r \in accepted' /\ \A s \in accepted' : Descends(s, r, verified')
        BY <1>10, <3>4, <3>7
      <3> QED
        BY <3>8 DEF OneLineage
    <2> QED
      BY <2>1, <2>2
  <1>17. client'.latest_height # 0
    BY <1>11, <1>14
  <1> QED
    BY <1>6, <1>14, <1>15, <1>16, <1>17, Zenon DEF ClientInv

-----------------------------------------------------------------------------
(* At first nothing is signed and the LCP client has accepted nothing. *)
LEMMA InitSInv == SInit => SInv
  <1> SUFFICES ASSUME SInit
               PROVE  SInv
    OBVIOUS
  <1>1. EInv
    BY InitEInv DEF SInit
  <1>2. SignedDerived
    BY DEF SInit, EInit, SignedDerived, UpdateProofs
  <1>3. ResultsDerived
    BY DEF SInit, EInit, ResultsDerived, Executed, Running
  <1>4. ClientInv
    <2> DEFINE first(h) == IF h = 0 THEN [state_id |-> ZeroID, timestamp |-> 0] ELSE None
               keys     == [a \in Key |-> None]
    <2>1. PICK frozen \in {"yes", "no"} :
             client = [latest_height |-> 0, frozen |-> frozen,
                       consensus |-> [h \in Height |-> first(h)], keys |-> keys]
      BY DEF SInit, LCP!LInit
    <2>2. accepted = {} /\ 0 \in Height
      BY CommitmentsAssumption DEF SInit, LCP!LInit
    <2>3. client \in [latest_height : Height, frozen : {"yes", "no"},
                      consensus : [Height -> {first(h) : h \in Height}], keys : {keys}]
      BY <2>1, <2>2
    <2>4. \A h \in Height : h # 0 => client.consensus[h] = None
      BY <2>1
    <2> HIDE DEF first, keys
    <2> QED
      BY <2>2, <2>3, <2>4, Zenon DEF ClientInv, OneLineage
  <1>5. now \in Nat
    BY ELCAssumption DEF SInit, EInit
  <1> QED
    BY <1>1, <1>2, <1>3, <1>4, <1>5, Zenon DEF SInv

(* A step outside the enclave keeps its part of the invariant. *)
LEMMA OutsideSInv ==
  ASSUME SInv, UNCHANGED <<store, job, signed, verified>>, ClientInv', now' \in Nat
  PROVE  SInv'
  <1>1. EInv'
    BY IdleEInv DEF SInv
  <1>2. SignedDerived' /\ ResultsDerived'
    BY OtherDerived DEF Executed, Running
  <1> QED
    BY <1>1, <1>2 DEF SInv

(* Every step of the system keeps the invariant. *)
LEMMA NextSInv ==
  ASSUME SInv, [SNext]_svars
  PROVE  SInv'
  <1>1. CASE elc_step
    <2>1. ENext /\ client' = client /\ accepted' = accepted
      BY <1>1 DEF elc_step
    <2>2. EInv'
      BY <2>1, NextEInv DEF SInv
    <2>3. SignedDerived' /\ ResultsDerived' /\ verified \subseteq verified' /\ now' = now
      BY <2>1, EnclaveDerived
    <2>4. ClientInv'
      BY <2>1, <2>3, ClientStays DEF SInv
    <2> QED
      BY <2>2, <2>3, <2>4 DEF SInv
  <1>2. CASE deliver_update
    <2>1. PICK p \in UpdateProofs : LCP!update_client(p.message, p.signer, p.signed_by)
      BY <1>2 DEF deliver_update
    <2>2. UNCHANGED <<store, job, signed, verified>>
      BY <1>2 DEF deliver_update
    <2>3. ClientInv' /\ now' = now
      BY <2>1, <2>2, UpdateClientInv
    <2> QED
      BY <2>2, <2>3, OutsideSInv DEF SInv
  <1>3. CASE deliver_misbehaviour
    <2>1. /\ UNCHANGED <<store, job, signed, verified>> /\ accepted' = accepted /\ now' = now
          /\ client' = [client EXCEPT !.frozen = "yes"]
      BY <1>3 DEF deliver_misbehaviour, LCP!submit_misbehaviour
    <2>2. ClientInv'
      BY <2>1, ClientStays DEF SInv
    <2> QED
      BY <2>1, <2>2, OutsideSInv DEF SInv
  <1>4. CASE deliver_report
    <2>1. PICK r \in Report : LCP!register_enclave_key(r)
      BY <1>4 DEF deliver_report
    <2> DEFINE keys == [client.keys EXCEPT ![r.address] =
                           LCP!secs(r.attestation_time + KeyExpiration * NanosPerSec)]
    <2>2. /\ UNCHANGED <<store, job, signed, verified>> /\ accepted' = accepted /\ now' = now
          /\ client' = [client EXCEPT !.keys = keys]
      <3>1. PICK S, K : client \in [latest_height : Height, frozen : {"yes", "no"},
                                    consensus : [Height -> S], keys : K]
        BY DEF SInv, ClientInv
      <3> QED
        BY <1>4, <2>1, <3>1 DEF deliver_report, LCP!register_enclave_key
    <2> HIDE DEF keys
    <2>3. ClientInv'
      BY <2>2, ClientStays, Zenon DEF SInv
    <2> QED
      BY <2>2, <2>3, OutsideSInv DEF SInv
  <1>5. CASE clock
    <2>1. /\ UNCHANGED <<store, job, signed, verified>> /\ accepted' = accepted /\ client' = client
          /\ now' \in Nat
      BY <1>5 DEF clock, LCP!tick, SInv
    <2>2. ClientInv'
      BY <2>1, ClientStays DEF SInv
    <2> QED
      BY <2>1, <2>2, OutsideSInv
  <1>6. CASE UNCHANGED svars
    <2>1. /\ UNCHANGED <<store, job, signed, verified>> /\ accepted' = accepted /\ client' = client
          /\ now' = now
      BY <1>6 DEF svars
    <2>2. ClientInv'
      BY <2>1, ClientStays DEF SInv
    <2> QED
      BY <2>1, <2>2, OutsideSInv DEF SInv
  <1> QED
    BY <1>1, <1>2, <1>3, <1>4, <1>5, <1>6 DEF SNext

(* The invariant of the whole system. *)
THEOREM SystemInvariant == SSpec => []SInv
  BY InitSInv, NextSInv, PTL DEF SSpec

-----------------------------------------------------------------------------
(* The guarantees of the enclave's clients hold in the whole system, with deliveries and
   the clock between their steps. *)
THEOREM ClientsHold == SSpec => [](FreshClientIds /\ ClientsQueryable /\ SignedStatesAreStored)
  <1>1. SInv => FreshClientIds /\ ClientsQueryable /\ SignedStatesAreStored
    BY FreshClientIdsInv, ClientsQueryableInv, SignedStatesInv DEF SInv
  <1> QED
    BY <1>1, SystemInvariant, PTL

(* The store keeps frozen clients in the whole system. *)
THEOREM FreezeIsFinalInSystem == SSpec => FreezeIsFinal
  <1>1. ASSUME SInv, [SNext]_svars, NEW id \in ClientIds(store),
               client_state(store, id).frozen_height # 0
        PROVE  client_state(store', id) = client_state(store, id)
    <2>1. CASE ENext
      BY <1>1, <2>1, FreezeStep DEF SInv
    <2>2. CASE store' = store
      BY <2>2
    <2> QED
      BY <1>1, <2>1, <2>2 DEF SNext, elc_step, deliver_update, deliver_misbehaviour, deliver_report,
         clock, svars
  <1>2. SInv /\ [SNext]_svars =>
          [ \A id \in ClientIds(store) : client_state(store, id).frozen_height # 0 =>
              client_state(store', id) = client_state(store, id) ]_evars
    BY <1>1
  <1> QED
    BY <1>2, SystemInvariant, PTL DEF SSpec, FreezeIsFinal

(* A message that update_state of the LCP client would accept now stands for transitions
   that light clients verified and that are still within their trusting periods. *)
THEOREM AcceptedIsVerifiedHolds == SSpec => []AcceptedIsVerified
  <1>1. ASSUME SInv
        PROVE  AcceptedIsVerified
    <2> SUFFICES ASSUME NEW p \in UpdateProofs,
                        LCP!update_state(client, ethabi_decode(p.message), p.signer, p.signed_by, now)
                            # Err
                 PROVE  Descends(Post(p), Prev(p), ValidAt(verified, now))
      BY DEF AcceptedIsVerified, Post, Prev, ValidAt
    <2>1. context_validate(ethabi_decode(p.message).context, now)
      BY SameCommitments DEF LCP!update_state
    <2>2. p.message \in Message /\ Derived(p, verified) /\ now \in Nat
      BY <1>1 DEF SInv, EInv, SignedOK, ProofOK, SignedDerived, UpdateProofs
    <2>3. ethabi_decode(p.message).context = p.message.context
      BY <2>2 DEF ethabi_decode, Message
    <2> QED
      BY <2>1, <2>2, <2>3 DEF Derived
  <1> QED
    BY <1>1, SystemInvariant, PTL

(* All states that the LCP client accepts descend from one of them. *)
THEOREM OneLineageHolds == SSpec => []OneLineage
  <1>1. SInv => OneLineage
    BY DEF SInv, ClientInv
  <1> QED
    BY <1>1, SystemInvariant, PTL

(* A proof of membership that the LCP client would accept now is true of the state that it
   has at that height. *)
THEOREM MembershipHoldsHolds == SSpec => []MembershipHolds
  <1>1. ASSUME SInv
        PROVE  MembershipHolds
    <2> SUFFICES ASSUME NEW p \in signed, p.type = "VerifyMembership",
                        LCP!verify_membership(p.message.height, p.message.state_id,
                                              p.signer, p.signed_by)
                 PROVE  merkle_value(client.consensus[p.message.height].state_id[2].root,
                                     p.message.path) = p.message.value
      BY DEF MembershipHolds
    <2>1. client.consensus[p.message.height].state_id = p.message.state_id
      BY DEF LCP!verify_membership, LCP!HasState
    <2>2. merkle_value(p.message.state_id[2].root, p.message.path) = p.message.value
      BY <1>1 DEF SInv, EInv, SignedOK, ProofOK
    <2> QED
      BY <2>1, <2>2
  <1> QED
    BY <1>1, SystemInvariant, PTL
=============================================================================
