------------------------------ MODULE ELC_proofs ------------------------------
(***************************************************************************)
(* Proofs about ELC, for any threads, keys, client and consensus states,   *)
(* client messages and queries.                                            *)
(*                                                                         *)
(* The argument looks at one client at a time: its client state and its    *)
(* consensus states.  An executed command has computed its writes from     *)
(* these, and no other command that may commit before it writes them: a    *)
(* second update of the client waits for its update key, and a client that *)
(* is being created has a number that no client in the store has.          *)
(***************************************************************************)
EXTENDS ELC, Commitments_proofs, TLAPS

\* The provers a leaf that names none is given to, in this order.
USE SMTT(10), ZenonT(10), SMTT(30), SMTT(60)

(* The paths that commands write. *)
Path ==
    {ClientTypePath(id) : id \in ClientId}
    \cup {ClientStatePath(id) : id \in ClientId}
    \cup {ClientConsensusStatePath(id, h) : id \in ClientId, h \in Height}
    \cup {NEXT_CLIENT_SEQUENCE}

(* The consensus states of a client in a store. *)
States(kv, id) == [h \in Height |-> consensus_state(kv, id, h)]

(* A client state and the consensus states that go with it.  The mock client has
   none above its latest height. *)
Sound(id, c, states) ==
    /\ c \in ClientState /\ c.type_url = id[1]
    /\ states \in [Height -> ConsensusState \cup {Err}]
    /\ states[c.latest_height] # Err
    /\ id[1] = MOCK => \A h \in Height : h > c.latest_height => states[h] = Err

(* What an update may do to a client: consensus states are added, and only the two
   heights of the client state change. *)
Advances(id, c, states, d, next) ==
    /\ Sound(id, d, next)
    /\ canonicalize_state(d) = canonicalize_state(c)
    /\ \A h \in Height : states[h] # Err => next[h] = states[h]

(* The id that the client signs for its state at a height. *)
StateIdOf(id, c, states, h) ==
    IF id[1] = TM THEN gen_state_id(c, states[h])
    ELSE mock_gen_state_id([c EXCEPT !.latest_height = h, !.frozen_height = 0], states[h])

(* The client has a state at a height, and this is its id. *)
Known(id, c, states, s) ==
    s[1] \in Height /\ states[s[1]] # Err /\ StateIdOf(id, c, states, s[1]) = s[2]

KnownIn(kv, s) ==
    \E id \in ClientIds(kv) : Known(id, client_state(kv, id), States(kv, id), s)

StoreOK(kv) ==
    /\ kv = [p \in DOMAIN kv |-> kv[p]] /\ DOMAIN kv \subseteq Path
    /\ client_counter(kv) \in Nat
    /\ \A id \in ClientIds(kv) :
          /\ id[1] \in Registered /\ id[2] < client_counter(kv)
          /\ Sound(id, client_state(kv, id), States(kv, id))
    /\ \A id \in ClientId \ ClientIds(kv), h \in Height : consensus_state(kv, id, h) = Err

(* The messages of light clients about updates, which are also their encodings. *)
Message ==
    [prev_height : Height, prev_state_id : ClientState \X ConsensusState,
     post_height : Height \ {0}, post_state_id : ClientState \X ConsensusState,
     timestamp : Nat, context : ValidationContext, emitted_states : Nat]

(* A proof of the enclave; one of membership holds in the state that it names. *)
ProofOK(p) ==
    /\ p.type \in {"UpdateState", "Misbehaviour", "VerifyMembership"}
    /\ p.type = "UpdateState" => p.message \in Message
    /\ p.type = "VerifyMembership" =>
          merkle_value(p.message.state_id[2].root, p.message.path) = p.message.value

(* A command that a request became when the store was kv and these proofs were signed. *)
CommandOK(kv, proofs, c) ==
    /\ c.op \in {"InitClient", "UpdateClient", "AggregateMessages", "VerifyMembership"}
    /\ c.op = "InitClient" =>
          \E s \in InitialState : c.client_state = s[1] /\ c.consensus_state = s[2]
    /\ c.op = "UpdateClient" => c.client_id \in ClientIds(kv) /\ c.message \in ClientMessage
    /\ c.op = "AggregateMessages" =>
          \E p, q \in proofs : /\ c.proofs = <<p, q>>
                               /\ p.type = "UpdateState" /\ q.type = "UpdateState"
    /\ c.op = "VerifyMembership" => c.client_id \in ClientIds(kv)

(* What init_client leaves when the counter is n. *)
Created(c, res, n) ==
    LET id   == <<c.client_state.type_url, n>>
        cons == ClientConsensusStatePath(id, c.client_state.latest_height)
    IN  /\ id[1] \in Registered
        /\ c.client_state \in ClientState /\ c.consensus_state \in ConsensusState
        /\ DOMAIN res.writes = {ClientTypePath(id), ClientStatePath(id), cons, NEXT_CLIENT_SEQUENCE}
        /\ res.writes[ClientStatePath(id)] = c.client_state
        /\ res.writes[cons] = c.consensus_state
        /\ res.writes[NEXT_CLIENT_SEQUENCE] = n + 1
        /\ res.proof = NoSignature /\ res.edges = {}

(* The writes of an update leave the client d with the consensus states next. *)
Writes(id, writes, states, d, next) ==
    \/ writes = store_any_client_state(id, d) /\ next = states
    \/ \E h \in Height, x \in ConsensusState :
          /\ writes = over(store_any_client_state(id, d), store_any_consensus_state(id, h, x))
          /\ next = [states EXCEPT ![h] = x]

(* What update_client leaves when the client is c with these consensus states: its
   proof speaks of states that the client has after the update. *)
Updated(id, res, c, states) ==
    /\ c.frozen_height = 0
    /\ ProofOK(res.proof)
    /\ \E d, next :
          /\ Writes(id, res.writes, states, d, next)
          /\ Advances(id, c, states, d, next)
          /\ \A s \in Mentions(res.proof) : Known(id, d, next, s)

(* What a command that writes nothing leaves: its proof speaks of committed states. *)
Told(kv, res) ==
    /\ res.writes = <<>> /\ res.edges = {}
    /\ ProofOK(res.proof)
    /\ \A s \in Mentions(res.proof) : KnownIn(kv, s)

ResultOK(kv, c, res) ==
    CASE c.op = "InitClient"   -> Created(c, res, client_counter(kv))
      [] c.op = "UpdateClient" ->
            Updated(c.client_id, res, client_state(kv, c.client_id), States(kv, c.client_id))
      [] OTHER                 -> Told(kv, res)

Executed(t) == Running(t) /\ job[t].res # Err

JobsOK ==
    /\ DOMAIN job = Thread
    /\ \A t \in Thread : job[t] # NoJob => CommandOK(store, signed, job[t].command)
    /\ \A t \in Thread : Executed(t) => ResultOK(store, job[t].command, job[t].res)

(* execute_command runs one command of an update key at a time. *)
KeysExclude ==
    \A t, u \in Thread :
        /\ t # u /\ Running(t) /\ Running(u) /\ update_key(job[t].command) # None
        => update_key(job[t].command) # update_key(job[u].command)

(* RocksDB lets one transaction at a time write a path. *)
WritesExclude ==
    \A t, u \in Thread : t # u /\ Executed(t) /\ Executed(u) =>
        DOMAIN job[t].res.writes \cap DOMAIN job[u].res.writes = {}

SignedOK == \A p \in signed : ProofOK(p) /\ \A s \in Mentions(p) : KnownIn(store, s)

EInv == StoreOK(store) /\ SignedOK /\ JobsOK /\ KeysExclude /\ WritesExclude

-----------------------------------------------------------------------------
(* Paths of different entries differ. *)
LEMMA Paths ==
  ASSUME NEW id, NEW jd
  PROVE  /\ ClientStatePath(id) = ClientStatePath(jd) => id = jd
         /\ \A h, k : ClientConsensusStatePath(id, h) = ClientConsensusStatePath(jd, k)
               => id = jd /\ h = k
         /\ ClientStatePath(id) # ClientTypePath(jd)
         /\ ClientStatePath(id) # NEXT_CLIENT_SEQUENCE
         /\ ClientTypePath(id) # NEXT_CLIENT_SEQUENCE
         /\ \A h : /\ ClientConsensusStatePath(id, h) # ClientStatePath(jd)
                   /\ ClientConsensusStatePath(id, h) # ClientTypePath(jd)
                   /\ ClientConsensusStatePath(id, h) # NEXT_CLIENT_SEQUENCE
  BY DEF ClientStatePath, ClientConsensusStatePath, ClientTypePath, NEXT_CLIENT_SEQUENCE

(* The client ids of a store are those with a client state. *)
LEMMA ClientIdsOf ==
  ASSUME NEW kv, DOMAIN kv \subseteq Path
  PROVE  /\ ClientIds(kv) \subseteq ClientId
         /\ \A id : id \in ClientIds(kv) <=> ClientStatePath(id) \in DOMAIN kv
  <1>1. ASSUME NEW path \in DOMAIN kv, path[1] = "clientState"
        PROVE  path = ClientStatePath(path[2]) /\ path[2] \in ClientId
    <2>1. path \in {ClientStatePath(id) : id \in ClientId}
      <3>1. \A id : ClientTypePath(id)[1] = "clientType"
        BY DEF ClientTypePath
      <3>2. \A id, h : ClientConsensusStatePath(id, h)[1] = "consensusState"
        BY DEF ClientConsensusStatePath
      <3>3. NEXT_CLIENT_SEQUENCE[1] = "nextClientSequence"
        BY DEF NEXT_CLIENT_SEQUENCE
      <3>4. "clientType" # "clientState" /\ "consensusState" # "clientState"
            /\ "nextClientSequence" # "clientState"
        OBVIOUS
      <3>5. path \in Path
        OBVIOUS
      <3> QED
        BY <1>1, <3>1, <3>2, <3>3, <3>5 DEF Path
    <2>2. PICK id \in ClientId : path = ClientStatePath(id)
      BY <2>1
    <2> QED
      BY <2>2 DEF ClientStatePath
  <1>2. \A id : ClientStatePath(id)[1] = "clientState" /\ ClientStatePath(id)[2] = id
    BY DEF ClientStatePath
  <1> QED
    BY <1>1, <1>2, Zenon DEF ClientIds

(* A height with a consensus state is a height. *)
LEMMA StoredHeight ==
  ASSUME NEW kv, DOMAIN kv \subseteq Path, NEW id, NEW h, consensus_state(kv, id, h) # Err
  PROVE  h \in Height /\ id \in ClientId /\ States(kv, id)[h] = consensus_state(kv, id, h)
  <1>1. ClientConsensusStatePath(id, h) \in Path
    BY DEF consensus_state, get
  <1>2. PICK jd \in ClientId, k \in Height :
           ClientConsensusStatePath(id, h) = ClientConsensusStatePath(jd, k)
    <2>1. /\ \A jd : /\ ClientConsensusStatePath(id, h) # ClientTypePath(jd)
                     /\ ClientConsensusStatePath(id, h) # ClientStatePath(jd)
          /\ ClientConsensusStatePath(id, h) # NEXT_CLIENT_SEQUENCE
      BY Paths
    <2> QED
      BY <1>1, <2>1 DEF Path
  <1>3. h \in Height /\ id \in ClientId
    BY <1>2, Paths
  <1> QED
    BY <1>3 DEF States

(* Reading what was written over a store. *)
LEMMA ReadOver ==
  ASSUME NEW w, NEW kv, NEW path, NEW absent
  PROVE  /\ DOMAIN over(w, kv) = DOMAIN w \cup DOMAIN kv
         /\ over(w, kv) = [p \in DOMAIN over(w, kv) |-> over(w, kv)[p]]
         /\ get(over(w, kv), path, absent) =
               IF path \in DOMAIN w THEN w[path] ELSE get(kv, path, absent)
  BY DEF over, get

(* KVStore::set writes one entry. *)
LEMMA ReadSet ==
  ASSUME NEW path, NEW value
  PROVE  DOMAIN set(path, value) = {path} /\ set(path, value)[path] = value
  BY DEF set

-----------------------------------------------------------------------------
(* The records of clients: the heights of a client state are all that canonicalize_state
   forgets. *)
LEMMA ClientRecords ==
  ASSUME NEW c \in ClientState
  PROVE  /\ c.type_url \in {TM, MOCK} /\ c.latest_height \in Height /\ c.frozen_height \in Height
         /\ canonicalize_state(c) \in ClientState
         /\ \A h \in Height :
               /\ [c EXCEPT !.latest_height = h] \in ClientState
               /\ [c EXCEPT !.frozen_height = h] \in ClientState
               /\ [c EXCEPT !.latest_height = h, !.frozen_height = 0] \in ClientState
               /\ [c EXCEPT !.latest_height = h, !.frozen_height = 0]
                   = [canonicalize_state(c) EXCEPT !.latest_height = h]
               /\ [c EXCEPT !.latest_height = h].latest_height = h
               /\ [c EXCEPT !.latest_height = h].type_url = c.type_url
               /\ [c EXCEPT !.frozen_height = h].latest_height = c.latest_height
               /\ [c EXCEPT !.frozen_height = h].type_url = c.type_url
               /\ canonicalize_state([c EXCEPT !.latest_height = h]) = canonicalize_state(c)
               /\ canonicalize_state([c EXCEPT !.frozen_height = h]) = canonicalize_state(c)
         /\ c.frozen_height = 0 =>
               [c EXCEPT !.latest_height = c.latest_height, !.frozen_height = 0] = c
  <1> USE CommitmentsAssumption
  <1>1. CASE c \in TmClientState
    BY <1>1, Zenon DEF ClientState, TmClientState, canonicalize_state
  <1>2. CASE c \in MockClientState
    BY <1>2, Zenon DEF ClientState, MockClientState, canonicalize_state
  <1> QED
    BY <1>1, <1>2, Zenon DEF ClientState

(* An update keeps what is known of the client. *)
LEMMA KnownAdvances ==
  ASSUME NEW id, NEW c \in ClientState, NEW states, NEW d, NEW next, NEW s,
         Advances(id, c, states, d, next), Known(id, c, states, s)
  PROVE  Known(id, d, next, s)
  <1>1. d \in ClientState /\ canonicalize_state(d) = canonicalize_state(c)
        /\ s[1] \in Height /\ next[s[1]] = states[s[1]]
    BY DEF Advances, Sound, Known
  <1>2. [d EXCEPT !.latest_height = s[1], !.frozen_height = 0]
        = [c EXCEPT !.latest_height = s[1], !.frozen_height = 0]
    <2>1. \A x \in ClientState, h \in Height :
             [x EXCEPT !.latest_height = h, !.frozen_height = 0]
             = [canonicalize_state(x) EXCEPT !.latest_height = h]
      BY ClientRecords, ZenonT(60)
    <2> DEFINE h == s[1]
    <2>2. h \in Height
      BY <1>1
    <2> HIDE DEF h
    <2>3. [d EXCEPT !.latest_height = h, !.frozen_height = 0]
          = [canonicalize_state(d) EXCEPT !.latest_height = h]
      BY <1>1, <2>1, <2>2, Zenon
    <2>4. [c EXCEPT !.latest_height = h, !.frozen_height = 0]
          = [canonicalize_state(c) EXCEPT !.latest_height = h]
      BY <2>1, <2>2, Zenon
    <2>5. [canonicalize_state(d) EXCEPT !.latest_height = h]
          = [canonicalize_state(c) EXCEPT !.latest_height = h]
      BY <1>1
    <2> QED
      BY <2>3, <2>4, <2>5, Zenon DEF h
  <1>3. StateIdOf(id, d, next, s[1]) = StateIdOf(id, c, states, s[1])
    <2>1. gen_state_id(d, next[s[1]]) = gen_state_id(c, states[s[1]])
      BY <1>1 DEF gen_state_id
    <2>2. mock_gen_state_id([d EXCEPT !.latest_height = s[1], !.frozen_height = 0], next[s[1]])
          = mock_gen_state_id([c EXCEPT !.latest_height = s[1], !.frozen_height = 0], states[s[1]])
      BY <1>1, <1>2 DEF mock_gen_state_id
    <2> QED
      BY <2>1, <2>2, Zenon DEF StateIdOf
  <1> QED
    BY <1>1, <1>3 DEF Known

-----------------------------------------------------------------------------
(* What update_client of a light client computes for a client c with these consensus
   states. *)
Outcome(id, c, states, data) ==
    LET next == [states EXCEPT ![data.height] = data.consensus_state] IN
    /\ c.frozen_height = 0
    /\ data.result \in {"UpdateState", "Misbehaviour"}
    /\ data.result = "Misbehaviour" =>
          /\ Advances(id, c, states, data.client_state, states)
          /\ \A s \in data.message.prev_states : Known(id, c, states, s)
    /\ data.result = "UpdateState" =>
          /\ data.prove
          /\ data.height \in Height \ {0} /\ data.consensus_state \in ConsensusState
          /\ Advances(id, c, states, data.client_state, next)
          /\ data.message \in Message
          /\ Known(id, c, states, <<data.message.prev_height, data.message.prev_state_id>>)
          /\ data.message.post_height = data.height
          /\ data.message.post_state_id = StateIdOf(id, data.client_state, next, data.height)

(* The client of a store that a command names. *)
LEMMA StoredClient ==
  ASSUME NEW kv, StoreOK(kv), NEW id \in ClientIds(kv)
  PROVE  /\ id \in ClientId /\ id[1] \in Registered
         /\ Sound(id, client_state(kv, id), States(kv, id))
         /\ client_state(kv, id) \in ClientState /\ client_state(kv, id) # Err
         /\ client_state(kv, id).type_url = id[1]
         /\ get_light_client_by_client_id(kv, id) = id[1]
  <1>1. Sound(id, client_state(kv, id), States(kv, id)) /\ id[1] \in Registered /\ id \in ClientId
    BY ClientIdsOf DEF StoreOK
  <1>2. client_state(kv, id) \in ClientState /\ client_state(kv, id).type_url = id[1]
    BY <1>1 DEF Sound
  <1>3. client_state(kv, id) # Err
    BY <1>2, OptionAssumption
  <1> QED
    BY <1>1, <1>2, <1>3 DEF get_light_client_by_client_id, get_light_client

(* The Tendermint client, for a header: an installed header changes nothing, a
   contradicting one freezes the client and leaves its states, a new one is added. *)
LEMMA TmUpdateState ==
  ASSUME NEW kv, StoreOK(kv), NEW id \in ClientIds(kv), id[1] = TM,
         NEW m \in Headers, NEW time, NEW data,
         data = tm_update_state(kv, id, m, time), data # Err
  PROVE  Outcome(id, client_state(kv, id), States(kv, id), data)
  <1> DEFINE c         == client_state(kv, id)
             states    == States(kv, id)
             trusted   == consensus_state(kv, id, m.trusted_height)
             installed == consensus_state(kv, id, m.height)
             new       == check_header_and_update_state(kv, id, c, m, time)
             next      == [states EXCEPT ![m.height] = new.consensus_state]
  <1>1. /\ Sound(id, c, states) /\ c \in ClientState /\ c # Err /\ c.type_url = TM
        /\ DOMAIN kv \subseteq Path
    BY StoredClient DEF StoreOK
  <1>2. tm_client_state(c) = c
    BY <1>1 DEF tm_client_state, try_into
  <1>3. /\ m.height \in Height \ {0} /\ m.trusted_height \in Height
        /\ m.consensus \in ConsensusState /\ m.consensus # Err /\ m.consensus.timestamp \in Nat
    BY InputAssumption, OptionAssumption DEF ConsensusState
  <1>4. /\ tm_usable(kv, id, time) /\ tm_consensus_state(trusted) # Err /\ new # Err
        /\ data = [result          |-> "UpdateState",
                   client_state    |-> new.client_state,
                   consensus_state |-> new.consensus_state,
                   height          |-> m.height,
                   prove           |-> TRUE,
                   message         |->
                     [prev_height    |-> m.trusted_height,
                      prev_state_id  |-> gen_state_id(c, tm_consensus_state(trusted)),
                      post_height    |-> m.height,
                      post_state_id  |-> gen_state_id(new.client_state, new.consensus_state),
                      timestamp      |-> m.consensus.timestamp,
                      context        |-> TrustingPeriodContext(
                                            c.trusting_period, c.clock_drift, m.consensus.timestamp,
                                            tm_consensus_state(trusted).timestamp),
                      emitted_states |-> 0]]
    BY <1>2, Zenon DEF tm_update_state
  <1>5. c.frozen_height = 0
    BY <1>2, <1>4, Zenon DEF tm_usable, is_frozen
  <1>6. tm_consensus_state(trusted) = trusted /\ trusted # Err
    BY <1>4, Zenon DEF tm_consensus_state, try_into
  <1>7. /\ states[m.trusted_height] = trusted /\ trusted \in ConsensusState
        /\ trusted.timestamp \in Nat
    <2>1. states[m.trusted_height] = trusted /\ states \in [Height -> ConsensusState \cup {Err}]
      BY <1>1, <1>3, <1>6, StoredHeight DEF Sound
    <2> QED
      BY <2>1, <1>3, <1>6, InputAssumption
  <1>8. /\ new.consensus_state \in ConsensusState
        /\ installed # Err => new.consensus_state = installed
        /\ new.client_state \in ClientState /\ new.client_state.type_url = TM
        /\ new.client_state.latest_height \in {c.latest_height, m.height}
        /\ canonicalize_state(new.client_state) = canonicalize_state(c)
    <2>1. CASE installed = m.consensus
      <3>1. new = [client_state |-> c, consensus_state |-> installed]
        BY <2>1 DEF check_header_and_update_state
      <3> QED
        BY <1>1, <1>3, <2>1, <3>1
    <2>2. CASE installed # m.consensus /\ installed # Err
      <3>1. new = [client_state    |-> [c EXCEPT !.frozen_height = m.height],
                   consensus_state |-> installed]
        BY <1>4, <2>2, Zenon DEF check_header_and_update_state
      <3>2. installed \in ConsensusState
        BY <1>1, <1>3, <2>2, StoredHeight DEF Sound
      <3> HIDE DEF c, new
      <3>3. new.client_state = [c EXCEPT !.frozen_height = m.height]
            /\ new.consensus_state = installed
        BY <3>1
      <3>4. /\ [c EXCEPT !.frozen_height = m.height] \in ClientState
            /\ [c EXCEPT !.frozen_height = m.height].type_url = c.type_url
            /\ [c EXCEPT !.frozen_height = m.height].latest_height = c.latest_height
            /\ canonicalize_state([c EXCEPT !.frozen_height = m.height]) = canonicalize_state(c)
        BY <1>1, <1>3, ClientRecords, Zenon
      <3> QED
        BY <1>1, <2>2, <3>2, <3>3, <3>4, Zenon
    <2>3. CASE installed # m.consensus /\ installed = Err
      <3> DEFINE h == IF c.latest_height < m.height THEN m.height ELSE c.latest_height
      <3>1. new = [client_state    |-> [c EXCEPT !.latest_height = h],
                   consensus_state |-> m.consensus]
        BY <1>4, <2>3 DEF check_header_and_update_state
      <3>2. h \in Height /\ h \in {c.latest_height, m.height}
        BY <1>1, <1>3, ClientRecords, Zenon
      <3> HIDE DEF c, new, h
      <3>3. new.client_state = [c EXCEPT !.latest_height = h] /\ new.consensus_state = m.consensus
        BY <3>1
      <3>4. /\ [c EXCEPT !.latest_height = h] \in ClientState
            /\ [c EXCEPT !.latest_height = h].type_url = c.type_url
            /\ [c EXCEPT !.latest_height = h].latest_height = h
            /\ canonicalize_state([c EXCEPT !.latest_height = h]) = canonicalize_state(c)
        BY <1>1, <3>2, ClientRecords, Zenon
      <3> QED
        BY <1>1, <1>3, <2>3, <3>2, <3>3, <3>4, Zenon
    <2> QED
      BY <2>1, <2>2, <2>3, Zenon
  <1>9. states[m.height] = installed
    BY <1>3 DEF States
  <1> HIDE DEF c, states, trusted, installed, new
  <1>10. Advances(id, c, states, new.client_state, next)
    <2>1. states \in [Height -> ConsensusState \cup {Err}] /\ states[c.latest_height] # Err
      BY <1>1 DEF Sound
    <2>2. /\ next \in [Height -> ConsensusState \cup {Err}]
          /\ next[m.height] = new.consensus_state /\ new.consensus_state # Err
          /\ \A h \in Height : h # m.height => next[h] = states[h]
      BY <1>3, <1>8, <2>1, OptionAssumption
    <2> HIDE DEF next
    <2>3. \A h \in Height : states[h] # Err => next[h] = states[h]
      BY <1>8, <1>9, <2>2
    <2>4. next[new.client_state.latest_height] # Err
      <3>1. c.latest_height \in Height
        BY <1>1, ClientRecords, Zenon
      <3> QED
        BY <1>3, <1>8, <2>1, <2>2, <2>3, <3>1, Zenon
    <2>5. TM # MOCK
      BY DEF TM, MOCK
    <2> QED
      BY <1>8, <2>2, <2>3, <2>4, <2>5 DEF Advances, Sound
  <1>11. /\ Known(id, c, states, <<m.trusted_height, gen_state_id(c, trusted)>>)
         /\ gen_state_id(new.client_state, new.consensus_state)
             = StateIdOf(id, new.client_state, next, m.height)
    <2>1. next[m.height] = new.consensus_state
      BY <1>1, <1>3 DEF Sound
    <2> HIDE DEF next
    <2> QED
      BY <1>3, <1>6, <1>7, <2>1 DEF Known, StateIdOf
  <1>12. data.message \in Message
    <2>1. /\ gen_state_id(c, trusted) \in ClientState \X ConsensusState
          /\ gen_state_id(new.client_state, new.consensus_state) \in ClientState \X ConsensusState
      BY <1>1, <1>7, <1>8, ClientRecords, Zenon DEF gen_state_id, gen_state_id_from_any
    <2>2. c.trusting_period \in Nat /\ c.clock_drift \in Nat
      BY <1>1 DEF ClientState, TmClientState, MockClientState, TM, MOCK
    <2>3. TrustingPeriodContext(c.trusting_period, c.clock_drift, m.consensus.timestamp,
                                trusted.timestamp) \in ValidationContext
      BY <1>3, <1>7, <2>2 DEF TrustingPeriodContext, ValidationContext, TrustingPeriod
    <2> QED
      BY <1>3, <1>4, <1>6, <2>1, <2>3 DEF Message
  <1> HIDE DEF next
  <1>13. /\ data.result = "UpdateState" /\ data.prove /\ data.height = m.height
         /\ data.client_state = new.client_state /\ data.consensus_state = new.consensus_state
         /\ data.message.prev_height = m.trusted_height
         /\ data.message.prev_state_id = gen_state_id(c, trusted)
         /\ data.message.post_height = m.height
         /\ data.message.post_state_id = gen_state_id(new.client_state, new.consensus_state)
    BY <1>4, <1>6
  <1>14. next = [states EXCEPT ![data.height] = data.consensus_state]
    BY <1>13 DEF next
  <1> QED
    BY <1>3, <1>5, <1>8, <1>10, <1>11, <1>12, <1>13, <1>14, Zenon DEF Outcome, c, states

(* A frozen client differs from the client in its frozen height only. *)
LEMMA Freezing ==
  ASSUME NEW id, NEW c, NEW states, Sound(id, c, states), NEW h \in Height
  PROVE  Advances(id, c, states, [c EXCEPT !.frozen_height = h], states)
  <1> DEFINE d == [c EXCEPT !.frozen_height = h]
  <1>1. c \in ClientState
    BY DEF Sound
  <1>2. /\ d \in ClientState /\ d.type_url = c.type_url /\ d.latest_height = c.latest_height
        /\ canonicalize_state(d) = canonicalize_state(c)
    BY <1>1, ClientRecords, Zenon
  <1> HIDE DEF d
  <1>3. Advances(id, c, states, d, states)
    BY <1>2 DEF Advances, Sound
  <1> QED
    BY <1>3 DEF d

(* The Tendermint client, for misbehaviour: it freezes, and the proof speaks of the
   trusted states of the two headers. *)
LEMMA TmMisbehaviour ==
  ASSUME NEW kv, StoreOK(kv), NEW id \in ClientIds(kv), id[1] = TM,
         NEW m \in ClientMessage \ Headers, NEW time, NEW data,
         data = tm_submit_misbehaviour(kv, id, m, time), data # Err
  PROVE  Outcome(id, client_state(kv, id), States(kv, id), data)
  <1> DEFINE c       == client_state(kv, id)
             states  == States(kv, id)
             heights == {m.header1.trusted_height, m.header2.trusted_height}
             new     == check_misbehaviour_and_update_state(kv, id, c, m, time)
             prev    == make_prev_states(kv, id, c, heights)
  <1>1. /\ Sound(id, c, states) /\ c \in ClientState /\ c # Err /\ c.type_url = TM
        /\ DOMAIN kv \subseteq Path
    BY StoredClient DEF StoreOK
  <1>2. tm_client_state(c) = c
    BY <1>1 DEF tm_client_state, try_into
  <1>3. /\ ~is_frozen(c) /\ new # Err /\ prev # Err
        /\ data = [result |-> "Misbehaviour", client_state |-> new,
                   message |-> [prev_states |-> prev, context |-> EmptyContext]]
    BY <1>2, Zenon DEF tm_submit_misbehaviour
  <1>4. new = [c EXCEPT !.frozen_height = m.header1.height] /\ m.header1.height \in Height
    BY <1>3, InputAssumption DEF check_misbehaviour_and_update_state
  <1>5. \A s \in prev : Known(id, c, states, s)
    <2> SUFFICES ASSUME NEW s \in prev PROVE Known(id, c, states, s)
      OBVIOUS
    <2> HIDE DEF c, heights
    <2>1. PICK h \in heights : s = <<h, gen_state_id(c, consensus_state(kv, id, h))>>
                              /\ tm_consensus_state(consensus_state(kv, id, h)) # Err
      BY <1>3 DEF make_prev_states
    <2>2. consensus_state(kv, id, h) # Err
      BY <2>1 DEF tm_consensus_state, try_into
    <2>3. h \in Height /\ states[h] = consensus_state(kv, id, h)
      BY <1>1, <2>2, StoredHeight, Zenon
    <2>4. s[1] = h /\ s[2] = gen_state_id(c, states[h])
      BY <2>1, <2>3
    <2> HIDE DEF states
    <2> QED
      BY <2>2, <2>3, <2>4 DEF Known, StateIdOf
  <1>6. Advances(id, c, states, new, states)
    <2>1. Advances(id, c, states, [c EXCEPT !.frozen_height = m.header1.height], states)
      BY <1>1, <1>4, Freezing, Zenon
    <2> HIDE DEF new
    <2> QED
      BY <1>4, <2>1, Zenon
  <1> HIDE DEF c, states, new, prev
  <1>7. /\ data.result = "Misbehaviour" /\ data.client_state = new
        /\ data.message.prev_states = prev /\ c.frozen_height = 0
    BY <1>3 DEF is_frozen
  <1> QED
    BY <1>5, <1>6, <1>7 DEF Outcome, c, states

(* The mock client signs its latest state as it is. *)
LEMMA MockLatest ==
  ASSUME NEW kv, StoreOK(kv), NEW id \in ClientIds(kv), id[1] = MOCK, mock_latest(kv, id) # Err
  PROVE  LET c      == client_state(kv, id)
             states == States(kv, id)
             latest == mock_latest(kv, id)
         IN  /\ c.frozen_height = 0 /\ c.latest_height \in Height
             /\ latest = states[c.latest_height] /\ latest \in ConsensusState
             /\ Known(id, c, states, <<c.latest_height, mock_gen_state_id(c, latest)>>)
             /\ mock_gen_state_id(c, latest) \in ClientState \X ConsensusState
  <1> DEFINE c      == client_state(kv, id)
             states == States(kv, id)
             latest == mock_latest(kv, id)
             height == c.latest_height
  <1>1. /\ Sound(id, c, states) /\ c \in ClientState /\ c # Err /\ c.type_url = MOCK
        /\ DOMAIN kv \subseteq Path
    BY StoredClient DEF StoreOK
  <1>2. mock_client_state(c) = c
    BY <1>1 DEF mock_client_state, try_into
  <1>3. ~mock_is_frozen(c) /\ latest = mock_consensus_state(consensus_state(kv, id, height))
    BY <1>1, <1>2 DEF mock_latest
  <1>4. latest = consensus_state(kv, id, height)
    BY <1>3 DEF mock_consensus_state, try_into
  <1>5. height \in Height /\ latest = states[height] /\ latest \in ConsensusState
    BY <1>1, <1>4, StoredHeight DEF Sound
  <1>6. c.frozen_height = 0
    BY <1>3 DEF mock_is_frozen
  <1>7. [c EXCEPT !.latest_height = c.latest_height, !.frozen_height = 0] = c
    BY <1>1, <1>6, ClientRecords, Zenon
  <1>8. TM # MOCK
    BY DEF TM, MOCK
  <1> HIDE DEF c, states, latest
  <1>9. StateIdOf(id, c, states, height) = mock_gen_state_id(c, latest)
    BY <1>5, <1>7, <1>8, Zenon DEF StateIdOf
  <1>10. Known(id, c, states, <<height, mock_gen_state_id(c, latest)>>)
    BY <1>5, <1>9 DEF Known, latest
  <1>11. mock_gen_state_id(c, latest) \in ClientState \X ConsensusState
    BY <1>1, <1>5 DEF mock_gen_state_id, gen_state_id_from_any
  <1> QED
    BY <1>5, <1>6, <1>10, <1>11, Zenon DEF c, states, latest

(* The mock client, for a header: a state above all others is added. *)
LEMMA MockUpdateState ==
  ASSUME NEW kv, StoreOK(kv), NEW id \in ClientIds(kv), id[1] = MOCK,
         NEW m \in Headers, NEW data, data = mock_update_state(kv, id, m), data # Err
  PROVE  Outcome(id, client_state(kv, id), States(kv, id), data)
  <1> DEFINE c      == client_state(kv, id)
             states == States(kv, id)
             latest == mock_latest(kv, id)
             new    == [c EXCEPT !.latest_height = m.height]
             next   == [states EXCEPT ![m.height] = m.consensus]
  <1>1. Sound(id, c, states) /\ c \in ClientState
    BY StoredClient
  <1>2. /\ m.height \in Height \ {0} /\ m.height \in Nat
        /\ m.consensus \in ConsensusState /\ m.consensus # Err /\ m.consensus.timestamp \in Nat
    BY InputAssumption, OptionAssumption, CommitmentsAssumption, Zenon DEF ConsensusState
  <1>3. latest # Err /\ mock_check_header(c, m) # Err
    BY Zenon DEF mock_update_state
  <1>4. ~(m.height <= c.latest_height) /\ mock_check_header(c, m) = new
    BY <1>3 DEF mock_check_header
  <1>5. data = [result          |-> "UpdateState",
                client_state    |-> new,
                consensus_state |-> m.consensus,
                height          |-> m.height,
                prove           |-> TRUE,
                message         |->
                  [prev_height    |-> c.latest_height,
                   prev_state_id  |-> mock_gen_state_id(c, latest),
                   post_height    |-> m.height,
                   post_state_id  |-> mock_gen_state_id(new, m.consensus),
                   timestamp      |-> m.consensus.timestamp,
                   context        |-> EmptyContext,
                   emitted_states |-> 1]]
    BY <1>3, <1>4, Zenon DEF mock_update_state
  <1>6. /\ c.frozen_height = 0 /\ c.latest_height \in Height
        /\ Known(id, c, states, <<c.latest_height, mock_gen_state_id(c, latest)>>)
        /\ mock_gen_state_id(c, latest) \in ClientState \X ConsensusState
    BY <1>3, MockLatest
  <1>7. /\ new \in ClientState /\ new.type_url = c.type_url /\ new.latest_height = m.height
        /\ canonicalize_state(new) = canonicalize_state(c)
    BY <1>1, <1>2, ClientRecords, ZenonT(60)
  <1>8. [new EXCEPT !.latest_height = m.height, !.frozen_height = 0] = new
    <2>1. new.frozen_height = 0
      BY <1>1, <1>6 DEF ClientState, TmClientState, MockClientState
    <2> HIDE DEF new
    <2>2. [new EXCEPT !.latest_height = new.latest_height, !.frozen_height = 0] = new
      BY <1>7, <2>1, ClientRecords, Zenon
    <2> QED
      BY <1>7, <2>2, Zenon
  <1>9. /\ next \in [Height -> ConsensusState \cup {Err}] /\ next[m.height] = m.consensus
        /\ \A h \in Height : h # m.height => next[h] = states[h]
    BY <1>1, <1>2 DEF Sound
  <1>10. \A h \in Height : h > c.latest_height => states[h] = Err
    BY <1>1 DEF Sound
  <1>11. TM # MOCK
    BY DEF TM, MOCK
  <1> HIDE DEF c, states, latest, new, next
  <1>12. Advances(id, c, states, new, next)
    <2>1. c.latest_height \in Nat /\ m.height > c.latest_height /\ Height \subseteq Nat
      <3>1. Height \subseteq Nat
        BY CommitmentsAssumption
      <3>2. c.latest_height \in Nat
        BY <1>6, <3>1, Zenon
      <3>3. ~(m.height <= c.latest_height)
        BY <1>4
      <3> QED
        BY <1>2, <3>1, <3>2, <3>3
    <2>2. \A h \in Height : states[h] # Err => next[h] = states[h]
      BY <1>2, <1>9, <1>10, <2>1, Zenon
    <2>3. \A h \in Height : h > new.latest_height => next[h] = Err
      BY <1>2, <1>7, <1>9, <1>10, <2>1
    <2> QED
      BY <1>1, <1>2, <1>7, <1>9, <2>2, <2>3, Zenon DEF Advances, Sound
  <1>13. mock_gen_state_id(new, m.consensus) = StateIdOf(id, new, next, m.height)
    BY <1>8, <1>9, <1>11, Zenon DEF StateIdOf
  <1>14. data.message \in Message
    <2>1. mock_gen_state_id(new, m.consensus) \in ClientState \X ConsensusState
      BY <1>2, <1>7 DEF mock_gen_state_id, gen_state_id_from_any
    <2> QED
      BY <1>2, <1>5, <1>6, <2>1 DEF Message, ValidationContext
  <1>15. /\ data.result = "UpdateState" /\ data.prove /\ data.height = m.height
         /\ data.client_state = new /\ data.consensus_state = m.consensus
         /\ data.message.prev_height = c.latest_height
         /\ data.message.prev_state_id = mock_gen_state_id(c, latest)
         /\ data.message.post_height = m.height
         /\ data.message.post_state_id = mock_gen_state_id(new, m.consensus)
    BY <1>5
  <1>16. next = [states EXCEPT ![data.height] = data.consensus_state]
    BY <1>15 DEF next
  <1> QED
    BY <1>2, <1>6, <1>12, <1>13, <1>14, <1>15, <1>16, Zenon DEF Outcome, c, states

(* The mock client, for misbehaviour. *)
LEMMA MockMisbehaviour ==
  ASSUME NEW kv, StoreOK(kv), NEW id \in ClientIds(kv), id[1] = MOCK,
         NEW m \in ClientMessage \ Headers, NEW data,
         data = mock_submit_misbehaviour(kv, id, m), data # Err
  PROVE  Outcome(id, client_state(kv, id), States(kv, id), data)
  <1> DEFINE c      == client_state(kv, id)
             states == States(kv, id)
             latest == mock_latest(kv, id)
             new    == [c EXCEPT !.frozen_height = m.header1.height]
             prev   == {<<c.latest_height, mock_gen_state_id(c, latest)>>}
  <1>1. Sound(id, c, states) /\ m.header1.height \in Height
    BY StoredClient, InputAssumption
  <1>2. /\ latest # Err
        /\ data = [result |-> "Misbehaviour", client_state |-> new,
                   message |-> [prev_states |-> prev, context |-> EmptyContext]]
    BY DEF mock_submit_misbehaviour, mock_check_misbehaviour
  <1>3. /\ c.frozen_height = 0
        /\ Known(id, c, states, <<c.latest_height, mock_gen_state_id(c, latest)>>)
    BY <1>2, MockLatest
  <1>4. Advances(id, c, states, new, states)
    BY <1>1, Freezing, Zenon
  <1>5. \A s \in prev : Known(id, c, states, s)
    BY <1>3
  <1> HIDE DEF c, states, new, prev
  <1>6. data.result = "Misbehaviour" /\ data.client_state = new /\ data.message.prev_states = prev
    BY <1>2
  <1> QED
    BY <1>3, <1>4, <1>5, <1>6 DEF Outcome, c, states

(* update_client of the registered light clients. *)
LEMMA LightClientUpdate ==
  ASSUME NEW kv, StoreOK(kv), NEW id \in ClientIds(kv), NEW m \in ClientMessage, NEW time, NEW data,
         data = lc_update_client(get_light_client_by_client_id(kv, id), kv, id, m, time), data # Err
  PROVE  Outcome(id, client_state(kv, id), States(kv, id), data)
  <1>1. get_light_client_by_client_id(kv, id) = id[1] /\ id[1] \in {TM, MOCK} /\ TM # MOCK
    BY StoredClient, ELCAssumption, Zenon DEF TM, MOCK
  <1>2. m.message = "Header" <=> m \in Headers
    BY DEF Headers
  <1>3. CASE id[1] = TM
    <2>1. data = tm_update_client(kv, id, m, time)
      BY <1>1, <1>3 DEF lc_update_client
    <2>2. \/ m \in Headers /\ data = tm_update_state(kv, id, m, time)
          \/ m \notin Headers /\ data = tm_submit_misbehaviour(kv, id, m, time)
      BY <1>2, <2>1, Zenon DEF tm_update_client
    <2> QED
      BY <1>3, <2>2, TmUpdateState, TmMisbehaviour
  <1>4. CASE id[1] = MOCK
    <2>1. data = mock_update_client(kv, id, m)
      BY <1>1, <1>4 DEF lc_update_client
    <2>2. \/ m \in Headers /\ data = mock_update_state(kv, id, m)
          \/ m \notin Headers /\ data = mock_submit_misbehaviour(kv, id, m)
      BY <1>2, <2>1, Zenon DEF mock_update_client
    <2> QED
      BY <1>4, <2>2, MockUpdateState, MockMisbehaviour
  <1> QED
    BY <1>1, <1>3, <1>4

-----------------------------------------------------------------------------
(* init_client writes a client of a registered type under the counter's number. *)
LEMMA InitResult ==
  ASSUME NEW kv, NEW c, NEW s \in InitialState, c.client_state = s[1], c.consensus_state = s[2],
         NEW time, NEW res, res = init_client(kv, c, time), res # Err
  PROVE  Created(c, res, client_counter(kv))
  <1> DEFINE type == c.client_state.type_url
             n    == client_counter(kv)
             id   == <<type, n>>
             made == create_client(get_light_client(type), c.client_state, c.consensus_state)
             cons == ClientConsensusStatePath(id, c.client_state.latest_height)
  <1>1. made # Err
    BY DEF init_client
  <1>2. type \in Registered /\ get_light_client(type) = type
    BY <1>1, OptionAssumption DEF create_client, get_light_client
  <1>3. c.client_state \in ClientState /\ c.consensus_state \in ConsensusState
    BY <1>2, InputAssumption DEF ConsensusState
  <1>4. made.height = c.client_state.latest_height
    <2>1. CASE type = TM
      <3>1. made = tm_create_client(c.client_state, c.consensus_state)
        BY <1>2, <2>1 DEF create_client, TM, MOCK
      <3> QED
        BY <1>1, <3>1 DEF tm_create_client, tm_client_state, try_into
    <2>2. CASE type = MOCK
      <3>1. made = mock_create_client(c.client_state, c.consensus_state)
        BY <1>2, <2>2 DEF create_client, TM, MOCK
      <3> QED
        BY <1>1, <3>1 DEF mock_create_client, mock_client_state, try_into
    <2> QED
      BY <1>2, <2>1, <2>2, ELCAssumption
  <1> DEFINE w1 == store_client_type(id, type)
             w2 == store_any_client_state(id, c.client_state)
             w3 == store_any_consensus_state(id, c.client_state.latest_height, c.consensus_state)
             w4 == increase_client_counter(kv)
             w  == over(w1, over(w2, over(w3, w4)))
  <1>5. res = Done(w, NoSignature, {})
    <2> HIDE DEF made
    <2>1. res = Done(over(w1, over(w2, over(
                     store_any_consensus_state(id, made.height, c.consensus_state), w4))),
                     NoSignature, {})
      BY <1>1, <1>2 DEF init_client, gen_client_id, made
    <2> QED
      BY <1>4, <2>1
  <1>6. /\ DOMAIN w1 = {ClientTypePath(id)}
        /\ DOMAIN w2 = {ClientStatePath(id)} /\ w2[ClientStatePath(id)] = c.client_state
        /\ DOMAIN w3 = {cons} /\ w3[cons] = c.consensus_state
        /\ DOMAIN w4 = {NEXT_CLIENT_SEQUENCE} /\ w4[NEXT_CLIENT_SEQUENCE] = n + 1
    BY ReadSet, ZenonT(60) DEF store_client_type, store_any_client_state, store_any_consensus_state,
       increase_client_counter
  <1> HIDE DEF w1, w2, w3, w4, cons, id
  <1>7. /\ DOMAIN w = {ClientTypePath(id), ClientStatePath(id), cons, NEXT_CLIENT_SEQUENCE}
        /\ w[ClientStatePath(id)] = c.client_state
        /\ w[cons] = c.consensus_state
        /\ w[NEXT_CLIENT_SEQUENCE] = n + 1
    <2>1. /\ ClientStatePath(id) # ClientTypePath(id) /\ ClientStatePath(id) # cons
          /\ cons # ClientTypePath(id) /\ cons # NEXT_CLIENT_SEQUENCE
          /\ ClientStatePath(id) # NEXT_CLIENT_SEQUENCE /\ ClientTypePath(id) # NEXT_CLIENT_SEQUENCE
      BY Paths DEF cons
    <2> QED
      BY <1>6, <2>1 DEF over
  <1> HIDE DEF w
  <1>8. res.writes = w /\ res.proof = NoSignature /\ res.edges = {}
    BY <1>5 DEF Done
  <1>9. id[1] = type
    BY DEF id
  <1> QED
    BY <1>2, <1>3, <1>7, <1>8, <1>9, Zenon DEF Created, id, cons, type, n

(* The encoding keeps a message that mentions two states. *)
LEMMA EncodedMessage ==
  ASSUME NEW m \in Message
  PROVE  /\ ethabi_encode(m) = m
         /\ ethabi_decode(m) = [m EXCEPT !.prev_height = OrNone(m.prev_height, 0),
                                         !.prev_state_id = OrNone(m.prev_state_id, ZeroID)]
         /\ m.prev_height # None /\ m.prev_state_id # None
         /\ \A b : with_state(m, b) \in Message
         /\ \A b : /\ with_state(m, b).prev_height = m.prev_height
                   /\ with_state(m, b).prev_state_id = m.prev_state_id
                   /\ with_state(m, b).post_height = m.post_height
                   /\ with_state(m, b).post_state_id = m.post_state_id
  <1>1. m.prev_height # None /\ m.prev_state_id # None
    BY CommitmentsAssumption, OptionAssumption DEF Message
  <1>2. ethabi_encode(m) = m
    BY <1>1, Zenon DEF ethabi_encode, OrDefault, Message
  <1>3. \A b : with_state(m, b) = m \/ with_state(m, b) = [m EXCEPT !.emitted_states = 1]
    BY DEF with_state
  <1>4. /\ [m EXCEPT !.emitted_states = 1] \in Message
        /\ [m EXCEPT !.emitted_states = 1].prev_height = m.prev_height
        /\ [m EXCEPT !.emitted_states = 1].prev_state_id = m.prev_state_id
        /\ [m EXCEPT !.emitted_states = 1].post_height = m.post_height
        /\ [m EXCEPT !.emitted_states = 1].post_state_id = m.post_state_id
    BY DEF Message
  <1>5. ethabi_decode(m) = [m EXCEPT !.prev_height = OrNone(m.prev_height, 0),
                                     !.prev_state_id = OrNone(m.prev_state_id, ZeroID)]
    BY DEF ethabi_decode
  <1> QED
    BY <1>1, <1>2, <1>3, <1>4, <1>5, Zenon

(* update_client stores what the light client computed, and its transition is the one
   that it signs. *)
LEMMA UpdateResult ==
  ASSUME NEW kv, StoreOK(kv), NEW c, c.client_id \in ClientIds(kv), c.message \in ClientMessage,
         NEW time, NEW res, res = update_client(kv, c, time), res # Err
  PROVE  /\ Updated(c.client_id, res, client_state(kv, c.client_id), States(kv, c.client_id))
         /\ \/ res.proof.type = "Misbehaviour" /\ res.edges = {}
            \/ res.proof.type = "UpdateState" /\ res.edges = {Transition(res.proof.message)}
  <1> DEFINE id     == c.client_id
             old    == client_state(kv, id)
             states == States(kv, id)
             lc     == get_light_client_by_client_id(kv, id)
             data   == lc_update_client(lc, kv, id, c.message, time)
             d      == data.client_state
  <1>1. data # Err
    BY Zenon DEF update_client
  <1>2. Outcome(id, old, states, data)
    BY <1>1, LightClientUpdate
  <1>3. old.frozen_height = 0 /\ old \in ClientState
    BY <1>2, StoredClient, Zenon DEF Outcome
  <1>4. CASE data.result = "Misbehaviour"
    <2> DEFINE p == prove_commitment(c.signer, "Misbehaviour", data.message)
               w == store_any_client_state(id, d)
    <2>1. res = Done(w, p, {})
      BY <1>1, <1>4 DEF update_client
    <2>2. /\ p.type = "Misbehaviour" /\ p.message = data.message
          /\ res.writes = w /\ res.proof = p /\ res.edges = {}
      BY <2>1 DEF Done, prove_commitment
    <2>3. /\ Advances(id, old, states, d, states)
          /\ \A s \in data.message.prev_states : Known(id, old, states, s)
      BY <1>2, <1>4, Zenon DEF Outcome
    <2> HIDE DEF data, p, w, old, states
    <2>4. Mentions(p) = data.message.prev_states /\ ProofOK(p)
      BY <2>2 DEF Mentions, ProofOK
    <2>5. \A s \in Mentions(p) : Known(id, d, states, s)
      BY <1>3, <2>3, <2>4, KnownAdvances, Zenon
    <2>6. Writes(id, w, states, d, states)
      BY DEF Writes, w
    <2>7. Updated(id, res, old, states)
      BY <1>3, <2>2, <2>3, <2>4, <2>5, <2>6 DEF Updated
    <2> QED
      BY <2>2, <2>7 DEF old, states
  <1>5. CASE data.result = "UpdateState"
    <2> DEFINE m    == with_state(data.message, c.include_state)
               x    == data.consensus_state
               next == [states EXCEPT ![data.height] = x]
               p    == prove_commitment(c.signer, "UpdateState", m)
               w    == update_writes(id, data)
    <2>1. /\ data.prove
          /\ data.height \in Height /\ x \in ConsensusState
          /\ Advances(id, old, states, d, next)
          /\ data.message \in Message
          /\ Known(id, old, states, <<data.message.prev_height, data.message.prev_state_id>>)
          /\ data.message.post_height = data.height
          /\ data.message.post_state_id = StateIdOf(id, d, next, data.height)
      BY <1>2, <1>5, Zenon DEF Outcome
    <2> HIDE DEF data, old, states, next
    <2>2. /\ m \in Message /\ ethabi_encode(m) = m
          /\ m.prev_height = data.message.prev_height
          /\ m.prev_state_id = data.message.prev_state_id
          /\ m.post_height = data.message.post_height
          /\ m.post_state_id = data.message.post_state_id
      BY <2>1, EncodedMessage, ZenonT(60)
    <2> HIDE DEF m
    <2>3. res = Done(w, p, {Transition(m)})
      <3>1. res = Done(w, IF data.prove
                          THEN prove_commitment(c.signer, "UpdateState", ethabi_encode(m))
                          ELSE NoSignature, {Transition(m)})
        BY <1>1, <1>5, Zenon DEF update_client, data, m
      <3> QED
        BY <2>1, <2>2, <3>1
    <2>4. /\ p.type = "UpdateState" /\ p.message = m
          /\ res.writes = w /\ res.proof = p /\ res.edges = {Transition(m)}
      BY <2>3 DEF Done, prove_commitment
    <2> HIDE DEF p, w
    <2>5. /\ Mentions(p) = {<<m.prev_height, m.prev_state_id>>, <<m.post_height, m.post_state_id>>}
          /\ ProofOK(p)
      BY <2>2, <2>4 DEF Mentions, ProofOK
    <2>6. Known(id, d, next, <<m.prev_height, m.prev_state_id>>)
      BY <1>3, <2>1, <2>2, KnownAdvances
    <2>7. Known(id, d, next, <<m.post_height, m.post_state_id>>)
      <3>1. states \in [Height -> ConsensusState \cup {Err}]
        BY StoredClient DEF Sound, states
      <3>2. next[data.height] = x /\ x # Err
        BY <2>1, <3>1, OptionAssumption DEF next
      <3> QED
        BY <2>1, <2>2, <3>2 DEF Known
    <2>8. Writes(id, w, states, d, next)
      BY <2>1 DEF Writes, w, update_writes, next
    <2>9. Updated(id, res, old, states)
      <3>1. \A s \in Mentions(p) : Known(id, d, next, s)
        BY <2>5, <2>6, <2>7
      <3> QED
        BY <1>3, <2>1, <2>4, <2>5, <2>8, <3>1 DEF Updated
    <2> QED
      BY <2>4, <2>9 DEF old, states
  <1> QED
    BY <1>2, <1>4, <1>5, Zenon DEF Outcome

\* A result that joins the messages of p and q where the one ends and the other starts.
Aggregated(res, p, q) ==
    LET m == res.proof.message IN
    /\ res.writes = <<>> /\ res.edges = {} /\ res.proof.type = "UpdateState"
    /\ m \in Message
    /\ m.prev_height = p.message.prev_height /\ m.prev_state_id = p.message.prev_state_id
    /\ m.post_height = q.message.post_height /\ m.post_state_id = q.message.post_state_id
    /\ p.message.post_height = q.message.prev_height
    /\ p.message.post_state_id = q.message.prev_state_id
    /\ m.context = context_aggregate(p.message.context, q.message.context) /\ m.context # Err
    /\ ContextFits(p.message.context) /\ ContextFits(q.message.context)

(* aggregate_messages signs a message from the first state of its first part to the last
   state of its second, with the merged context; both parts were valid. *)
LEMMA AggregateResult ==
  ASSUME NEW kv, NEW c, NEW p, NEW q, c.proofs = <<p, q>>,
         p.message \in Message, q.message \in Message,
         NEW time, NEW res, res = elc_aggregate_messages(kv, c, time), res # Err
  PROVE  Aggregated(res, p, q)
  <1> DEFINE m1 == ethabi_decode(p.message)
             m2 == ethabi_decode(q.message)
             ms == [i \in 1..Len(c.proofs) |-> ethabi_decode(c.proofs[i].message)]
             m  == aggregate_messages(ms)
             n  == ethabi_encode(m)
  <1>1. ms = <<m1, m2>> /\ Len(c.proofs) = 2 /\ c.proofs[1] = p /\ c.proofs[2] = q
    <2>1. Len(c.proofs) = 2 /\ c.proofs[1] = p /\ c.proofs[2] = q
      OBVIOUS
    <2>2. ms = [i \in 1..2 |-> ethabi_decode(c.proofs[i].message)]
      BY <2>1
    <2> QED
      BY <2>1, <2>2
  <1>2. /\ m # Err /\ may_aggregate(p, c.signer, time) /\ may_aggregate(q, c.signer, time)
        /\ res = Done(<<>>, prove_commitment(c.signer, "UpdateState", n), {})
    <2>1. /\ ~\E i \in 1..Len(c.proofs) : ~may_aggregate(c.proofs[i], c.signer, time)
          /\ m # Err
          /\ res = Done(<<>>, prove_commitment(c.signer, "UpdateState", n), {})
      BY Zenon DEF elc_aggregate_messages
    <2>2. 1 \in 1..Len(c.proofs) /\ 2 \in 1..Len(c.proofs)
      BY <1>1
    <2> QED
      BY <1>1, <2>1, <2>2, Zenon
  <1>3. ContextFits(p.message.context) /\ ContextFits(q.message.context)
    BY <1>2 DEF may_aggregate, context_validate, ensure_within_trust_period, ContextFits
  <1>4. /\ m1.prev_height = OrNone(p.message.prev_height, 0)
        /\ m1.prev_state_id = OrNone(p.message.prev_state_id, ZeroID)
        /\ m1.post_height = p.message.post_height /\ m1.post_state_id = p.message.post_state_id
        /\ m1.context = p.message.context /\ m1.emitted_states \in Nat
    BY DEF ethabi_decode, Message
  <1>5. /\ m2.prev_height = OrNone(q.message.prev_height, 0)
        /\ m2.prev_state_id = OrNone(q.message.prev_state_id, ZeroID)
        /\ m2.post_height = q.message.post_height /\ m2.post_state_id = q.message.post_state_id
        /\ m2.context = q.message.context /\ m2.emitted_states \in Nat
        /\ m2.timestamp \in Nat
    BY DEF ethabi_decode, Message
  <1> HIDE DEF m1, m2
  <1>6. m = aggregate(m1, m2)
    BY <1>1, <1>2, AggregateTwo
  <1>7. /\ m = [prev_height    |-> m1.prev_height,
                prev_state_id  |-> m1.prev_state_id,
                post_height    |-> m2.post_height,
                post_state_id  |-> m2.post_state_id,
                timestamp      |-> m2.timestamp,
                context        |-> context_aggregate(m1.context, m2.context),
                emitted_states |-> m1.emitted_states + m2.emitted_states]
        /\ context_aggregate(m1.context, m2.context) # Err
        /\ m1.post_state_id = OrDefault(m2.prev_state_id, ZeroID)
        /\ m1.post_height = OrDefault(m2.prev_height, 0)
    BY <1>2, <1>6 DEF aggregate
  <1> HIDE DEF m
  <1>8. /\ n = [m EXCEPT !.prev_height = OrDefault(m1.prev_height, 0),
                         !.prev_state_id = OrDefault(m1.prev_state_id, ZeroID)]
        /\ n.prev_height = OrDefault(m1.prev_height, 0)
        /\ n.prev_state_id = OrDefault(m1.prev_state_id, ZeroID)
        /\ n.post_height = m2.post_height /\ n.post_state_id = m2.post_state_id
        /\ n.context = context_aggregate(m1.context, m2.context)
    BY <1>7 DEF ethabi_encode
  <1>9. /\ OrDefault(m1.prev_height, 0) = p.message.prev_height
        /\ OrDefault(m1.prev_state_id, ZeroID) = p.message.prev_state_id
        /\ OrDefault(m2.prev_height, 0) = q.message.prev_height
        /\ OrDefault(m2.prev_state_id, ZeroID) = q.message.prev_state_id
    BY <1>4, <1>5, EncodedMessage, ZenonT(60) DEF OrDefault, OrNone
  <1>10. context_aggregate(m1.context, m2.context) \in ValidationContext
    BY <1>4, <1>5, <1>7, MergedContext, CommitmentsAssumption, Zenon DEF Message
  <1>11. n \in Message
    <2>1. /\ p.message.prev_height \in Height
          /\ p.message.prev_state_id \in ClientState \X ConsensusState
          /\ m2.post_height \in Height \ {0}
          /\ m2.post_state_id \in ClientState \X ConsensusState
          /\ m1.emitted_states + m2.emitted_states \in Nat
      BY <1>4, <1>5 DEF Message
    <2>2. n = [m EXCEPT !.prev_height = p.message.prev_height,
                        !.prev_state_id = p.message.prev_state_id]
      BY <1>8, <1>9, Zenon
    <2> HIDE DEF n
    <2> QED
      BY <1>5, <1>7, <1>10, <2>1, <2>2, ZenonT(60) DEF Message
  <1> HIDE DEF n
  <1>12. res.writes = <<>> /\ res.edges = {} /\ res.proof.type = "UpdateState" /\ res.proof.message = n
    BY <1>2 DEF Done, prove_commitment
  <1>13. /\ n.prev_height = p.message.prev_height /\ n.prev_state_id = p.message.prev_state_id
         /\ n.post_height = q.message.post_height /\ n.post_state_id = q.message.post_state_id
         /\ n.context = context_aggregate(p.message.context, q.message.context)
         /\ n.context # Err
    BY <1>4, <1>5, <1>7, <1>8, <1>9
  <1> QED
    BY <1>3, <1>4, <1>7, <1>9, <1>11, <1>12, <1>13, Zenon DEF Aggregated

(* verify_membership signs what holds in a stored state of a Tendermint client, and
   names that state. *)
LEMMA MembershipResult ==
  ASSUME NEW kv, StoreOK(kv), NEW c, c.client_id \in ClientIds(kv),
         NEW time, NEW res, res = verify_membership(kv, c, time), res # Err
  PROVE  LET m  == res.proof.message
             id == c.client_id
         IN  /\ res.writes = <<>> /\ res.edges = {} /\ res.proof.type = "VerifyMembership"
             /\ merkle_value(m.state_id[2].root, m.path) = m.value
             /\ Known(id, client_state(kv, id), States(kv, id), <<m.height, m.state_id>>)
  <1> DEFINE id     == c.client_id
             client == client_state(kv, id)
             cons   == consensus_state(kv, id, c.proof_height)
             root   == tm_verified_root(kv, id, c.proof_height)
             lc     == get_light_client_by_client_id(kv, id)
             m      == lc_verify_membership(lc, kv, id, c.path, c.value, c.proof_height)
  <1>1. lc = id[1] /\ id[1] \in {TM, MOCK} /\ TM # MOCK /\ DOMAIN kv \subseteq Path
    BY StoredClient, ELCAssumption DEF TM, MOCK, StoreOK
  <1>2. m # Err /\ res = Done(<<>>, prove_commitment(c.signer, "VerifyMembership", m), {})
    BY DEF verify_membership
  <1>3. id[1] = TM /\ m = tm_verify_membership(kv, id, c.path, c.value, c.proof_height)
    BY <1>1, <1>2 DEF lc_verify_membership, mock_verify_membership
  <1>4. /\ root # Err /\ merkle_value(root, c.path) = c.value
        /\ m = [height   |-> c.proof_height, path |-> c.path, value |-> c.value,
                state_id |-> gen_state_id(client, cons)]
    BY <1>2, <1>3, ZenonT(60) DEF tm_verify_membership
  <1>5. tm_consensus_state(cons) # Err /\ root = tm_consensus_state(cons).root
    BY <1>4, ZenonT(60) DEF tm_verified_root
  <1>6. cons # Err /\ root = cons.root
    BY <1>5 DEF tm_consensus_state, try_into
  <1>7. c.proof_height \in Height /\ States(kv, id)[c.proof_height] = cons
    BY <1>1, <1>6, StoredHeight, ZenonT(60)
  <1> HIDE DEF client, cons, m, root
  <1>8. /\ m.height = c.proof_height /\ m.path = c.path /\ m.value = c.value
        /\ m.state_id = gen_state_id(client, cons) /\ m.state_id[2] = cons
    BY <1>4 DEF gen_state_id, gen_state_id_from_any
  <1>9. /\ res.writes = <<>> /\ res.edges = {} /\ res.proof.type = "VerifyMembership"
        /\ res.proof.message = m
    BY <1>2 DEF Done, prove_commitment
  <1>10. Known(id, client, States(kv, id), <<m.height, m.state_id>>)
    BY <1>3, <1>6, <1>7, <1>8 DEF Known, StateIdOf
  <1> QED
    BY <1>4, <1>6, <1>8, <1>9, <1>10 DEF client

(* The commands that the service makes of requests. *)
LEMMA Requests ==
  ASSUME NEW c \in Input
  PROVE  CommandOK(store, signed, c)
  <1>1. PICK req \in Request : c = serve(req) /\ c # Err
    BY DEF Input
  <1>2. CASE req \in {stub_create_client(m) : m \in MsgCreateClient}
    <2>1. PICK s \in InitialState \cup {<<None, None>>}, k \in Key \cup {None} :
             req = stub_create_client([client_state |-> s[1], consensus_state |-> s[2], signer |-> k])
      BY <1>2 DEF MsgCreateClient
    <2> DEFINE msg == [client_state |-> s[1], consensus_state |-> s[2], signer |-> k]
    <2>2. c = init_client_input(msg)
      BY <1>1, <2>1 DEF serve, stub_create_client, Route, MsgRoute, EnclaveProtoAPI
    <2>3. /\ s[1] # None
          /\ c = [op |-> "InitClient", client_state |-> s[1], consensus_state |-> s[2], signer |-> k]
      BY <1>1, <2>2 DEF init_client_input
    <2>4. s \in InitialState
      BY <2>3
    <2>5. c.op = "InitClient" /\ c.client_state = s[1] /\ c.consensus_state = s[2]
      BY <2>3
    <2> QED
      BY <2>4, <2>5 DEF CommandOK
  <1>3. CASE req \in {stub_update_client(m) : m \in MsgUpdateClient}
    <2>1. PICK id \in ClientIds(store) \cup {None}, m \in ClientMessage, b \in BOOLEAN, k \in Key :
             req = stub_update_client([client_id |-> id, header |-> m, include_state |-> b, signer |-> k])
      BY <1>3 DEF MsgUpdateClient
    <2> DEFINE msg == [client_id |-> id, header |-> m, include_state |-> b, signer |-> k]
    <2>2. c = update_client_input(msg)
      BY <1>1, <2>1 DEF serve, stub_update_client, Route, MsgRoute, EnclaveProtoAPI
    <2>3. /\ id # None
          /\ c = [op |-> "UpdateClient", client_id |-> id, message |-> m, include_state |-> b,
                  signer |-> k]
      BY <1>1, <2>2 DEF update_client_input
    <2>4. c.op = "UpdateClient" /\ c.client_id = id /\ c.message = m /\ id \in ClientIds(store)
      BY <2>3
    <2> QED
      BY <2>4 DEF CommandOK
  <1>4. CASE req \in {stub_aggregate_messages(m) : m \in MsgAggregateMessages}
    <2>1. PICK p \in {r \in signed : r.type = "UpdateState"},
               q \in {r \in signed : r.type = "UpdateState"}, k \in Key :
             req = stub_aggregate_messages([proofs |-> <<p, q>>, signer |-> k])
      BY <1>4 DEF MsgAggregateMessages
    <2> DEFINE msg == [proofs |-> <<p, q>>, signer |-> k]
    <2>2. c = aggregate_messages_input(msg)
      BY <1>1, <2>1 DEF serve, stub_aggregate_messages, Route, MsgRoute, EnclaveProtoAPI
    <2>3. c = [op |-> "AggregateMessages", proofs |-> <<p, q>>, signer |-> k]
      BY <1>1, <2>2 DEF aggregate_messages_input
    <2>4. /\ c.op = "AggregateMessages" /\ c.proofs = <<p, q>>
          /\ p \in signed /\ q \in signed /\ p.type = "UpdateState" /\ q.type = "UpdateState"
      BY <2>3
    <2> QED
      BY <2>4, Zenon DEF CommandOK
  <1>5. CASE req \in {stub_verify_membership(m) : m \in {q \in MsgVerifyMembership : q.value # None}}
    <2>1. PICK id \in ClientIds(store), q \in Query, k \in Key :
             req = stub_verify_membership([client_id |-> id, proof_height |-> q.height,
                       path |-> q.path, value |-> q.value, signer |-> k])
      BY <1>5 DEF MsgVerifyMembership
    <2> DEFINE msg == [client_id |-> id, proof_height |-> q.height, path |-> q.path,
                       value |-> q.value, signer |-> k]
    <2>2. c = verify_membership_input(msg)
      BY <1>1, <2>1 DEF serve, stub_verify_membership, Route, MsgRoute, EnclaveProtoAPI
    <2>3. c.op = "VerifyMembership" /\ c.client_id = id
      BY <1>1, <2>2 DEF verify_membership_input
    <2> QED
      BY <2>3 DEF CommandOK
  <1>6. CASE req \in {stub_verify_non_membership(m) :
                         m \in {q \in MsgVerifyMembership : q.value = None}}
    <2>1. PICK id \in ClientIds(store), q \in Query, k \in Key :
             req = stub_verify_non_membership([client_id |-> id, proof_height |-> q.height,
                       path |-> q.path, value |-> q.value, signer |-> k])
      BY <1>6 DEF MsgVerifyMembership
    <2> DEFINE msg == [client_id |-> id, proof_height |-> q.height, path |-> q.path,
                       value |-> q.value, signer |-> k]
    <2>2. c = verify_non_membership_input(msg)
      BY <1>1, <2>1 DEF serve, stub_verify_non_membership, Route, MsgRoute, EnclaveProtoAPI
    <2>3. c.op = "VerifyMembership" /\ c.client_id = id
      BY <1>1, <2>2 DEF verify_non_membership_input
    <2> QED
      BY <2>3 DEF CommandOK
  <1> QED
    BY <1>2, <1>3, <1>4, <1>5, <1>6, Zenon DEF Request

-----------------------------------------------------------------------------
(* A store in which every client has advanced, or stayed as it was. *)
Grows(kv, next) ==
    /\ StoreOK(next)
    /\ \A id \in ClientIds(kv) :
          /\ id \in ClientIds(next)
          /\ Advances(id, client_state(kv, id), States(kv, id),
                      client_state(next, id), States(next, id))

Keeps(kv, next, id) ==
    client_state(next, id) = client_state(kv, id) /\ States(next, id) = States(kv, id)

(* What was known of a client before a commit is known after it. *)
LEMMA KnownGrows ==
  ASSUME NEW kv, StoreOK(kv), NEW next, Grows(kv, next), NEW s, KnownIn(kv, s)
  PROVE  KnownIn(next, s)
  <1>1. PICK id \in ClientIds(kv) : Known(id, client_state(kv, id), States(kv, id), s)
    BY DEF KnownIn
  <1>2. /\ id \in ClientIds(next)
        /\ Advances(id, client_state(kv, id), States(kv, id),
                    client_state(next, id), States(next, id))
        /\ client_state(kv, id) \in ClientState
    BY StoredClient DEF Grows
  <1>3. Known(id, client_state(next, id), States(next, id), s)
    BY <1>1, <1>2, KnownAdvances
  <1> QED
    BY <1>2, <1>3 DEF KnownIn

(* The commit of a created client adds it beside the others. *)
LEMMA CreatedStore ==
  ASSUME NEW kv, StoreOK(kv), NEW c, NEW res, Created(c, res, client_counter(kv))
  PROVE  LET next == over(res.writes, kv)
             new  == <<c.client_state.type_url, client_counter(kv)>>
         IN  /\ Grows(kv, next)
             /\ \A id \in ClientIds(kv) : Keeps(kv, next, id)
             /\ new \notin ClientIds(kv) /\ ClientIds(res.writes) = {new}
  <1> DEFINE w    == res.writes
             next == over(w, kv)
             n    == client_counter(kv)
             new  == <<c.client_state.type_url, n>>
             h0   == c.client_state.latest_height
             cons == ClientConsensusStatePath(new, h0)
  <1>1. /\ new[1] \in Registered
        /\ c.client_state \in ClientState /\ c.consensus_state \in ConsensusState
        /\ DOMAIN w = {ClientTypePath(new), ClientStatePath(new), cons, NEXT_CLIENT_SEQUENCE}
        /\ w[ClientStatePath(new)] = c.client_state
        /\ w[cons] = c.consensus_state
        /\ w[NEXT_CLIENT_SEQUENCE] = n + 1
    BY Zenon DEF Created
  <1>2. n \in Nat /\ DOMAIN kv \subseteq Path /\ kv = [p \in DOMAIN kv |-> kv[p]]
    BY DEF StoreOK
  <1>3. /\ new \in ClientId /\ new[1] = c.client_state.type_url /\ new[2] = n /\ h0 \in Height
        /\ c.consensus_state # Err /\ c.client_state # Err
    BY <1>1, <1>2, ClientRecords, ELCAssumption, OptionAssumption, Zenon DEF ClientId
  <1>4. new \notin ClientIds(kv)
    <2>1. \A id \in ClientIds(kv) : id[2] < n
      BY DEF StoreOK
    <2> QED
      BY <1>2, <1>3, <2>1
  <1> HIDE DEF w, new, n
  <1>5. DOMAIN w \subseteq Path
    <2>1. /\ ClientTypePath(new) \in Path /\ ClientStatePath(new) \in Path /\ cons \in Path
          /\ NEXT_CLIENT_SEQUENCE \in Path
      BY <1>3 DEF Path
    <2> QED
      BY <1>1, <2>1
  <1>6. DOMAIN next = DOMAIN w \cup DOMAIN kv /\ next = [p \in DOMAIN next |-> next[p]]
    BY ReadOver, ZenonT(60)
  <1>7. DOMAIN next \subseteq Path
    BY <1>2, <1>5, <1>6
  <1>8. \A path, absent : get(next, path, absent) =
           IF path \in DOMAIN w THEN w[path] ELSE get(kv, path, absent)
    BY DEF over, get
  <1> HIDE DEF next
  <1>9. client_counter(next) = n + 1
    BY <1>1, <1>8 DEF client_counter
  <1>10. /\ client_state(next, new) = c.client_state
         /\ \A id : id # new => client_state(next, id) = client_state(kv, id)
    <2>1. ClientStatePath(new) \in DOMAIN w
      BY <1>1
    <2>2. \A id : id # new => ClientStatePath(id) \notin DOMAIN w
      BY <1>1, Paths
    <2> QED
      BY <1>1, <1>8, <2>1, <2>2 DEF client_state
  <1>11. /\ consensus_state(next, new, h0) = c.consensus_state
         /\ \A id, h : id # new \/ h # h0 =>
               consensus_state(next, id, h) = consensus_state(kv, id, h)
    <2>1. cons \in DOMAIN w
      BY <1>1
    <2>2. \A id, h : id # new \/ h # h0 => ClientConsensusStatePath(id, h) \notin DOMAIN w
      BY <1>1, Paths
    <2> QED
      BY <1>1, <1>8, <2>1, <2>2 DEF consensus_state
  <1>12. \A id : id \in ClientIds(next) <=> id = new \/ id \in ClientIds(kv)
    <2>1. \A id : ClientStatePath(id) \in DOMAIN w <=> id = new
      BY <1>1, Paths
    <2> QED
      BY <1>2, <1>6, <1>7, <2>1, ClientIdsOf
  <1>13. \A id \in ClientIds(kv) : Keeps(kv, next, id)
    BY <1>4, <1>10, <1>11 DEF Keeps, States
  <1>14. Sound(new, c.client_state, States(next, new))
    <2>1. \A h \in Height : consensus_state(next, new, h) = IF h = h0 THEN c.consensus_state ELSE Err
      BY <1>3, <1>4, <1>11 DEF StoreOK
    <2>2. States(next, new) = [h \in Height |-> IF h = h0 THEN c.consensus_state ELSE Err]
      BY <2>1 DEF States
    <2>3. h0 \in Nat /\ Height \subseteq Nat
      BY <1>3, CommitmentsAssumption, Zenon
    <2> QED
      BY <1>1, <1>3, <2>2, <2>3 DEF Sound
  <1>15. StoreOK(next)
    <2>1. ASSUME NEW id \in ClientIds(next)
          PROVE  /\ id[1] \in Registered /\ id[2] < n + 1
                 /\ Sound(id, client_state(next, id), States(next, id))
      <3>1. CASE id = new
        BY <1>1, <1>2, <1>3, <1>10, <1>14, <3>1 DEF n
      <3>2. CASE id \in ClientIds(kv)
        <4>1. id[1] \in Registered /\ id[2] < n /\ Sound(id, client_state(kv, id), States(kv, id))
          BY <3>2 DEF StoreOK, n
        <4>2. id[2] \in Nat
          BY <1>2, <3>2, ClientIdsOf DEF ClientId
        <4> QED
          BY <1>2, <1>13, <3>2, <4>1, <4>2 DEF Keeps, n
      <3> QED
        BY <1>12, <2>1, <3>1, <3>2
    <2>2. ASSUME NEW id \in ClientId \ ClientIds(next), NEW h \in Height
          PROVE  consensus_state(next, id, h) = Err
      BY <1>11, <1>12, <2>2 DEF StoreOK
    <2> QED
      BY <1>2, <1>6, <1>7, <1>9, <2>1, <2>2 DEF StoreOK, n
  <1>16. Grows(kv, next)
    <2>1. ASSUME NEW id \in ClientIds(kv)
          PROVE  Advances(id, client_state(kv, id), States(kv, id),
                          client_state(next, id), States(next, id))
      BY <1>13, <2>1, StoredClient DEF Keeps, Advances
    <2> QED
      BY <1>12, <1>15, <2>1 DEF Grows
  <1>17. ClientIds(w) = {new}
    <2>1. \A id : id \in ClientIds(w) <=> id = new
      BY <1>1, <1>5, ClientIdsOf, Paths
    <2> QED
      BY <2>1
  <1> QED
    BY <1>4, <1>13, <1>16, <1>17 DEF next, new, n, w

(* The writes of an update: the client state and at most one consensus state of the
   client, so that the store has d and its consensus states there. *)
LEMMA UpdateWrites ==
  ASSUME NEW kv, StoreOK(kv), NEW id \in ClientIds(kv), NEW w, NEW d, NEW states,
         Writes(id, w, States(kv, id), d, states)
  PROVE  LET next == over(w, kv) IN
         /\ DOMAIN w \subseteq Path
         /\ client_counter(next) = client_counter(kv)
         /\ ClientIds(next) = ClientIds(kv)
         /\ client_state(next, id) = d /\ States(next, id) = states
         /\ \A jd : jd # id => client_state(next, jd) = client_state(kv, jd)
         /\ \A jd, h : jd # id => consensus_state(next, jd, h) = consensus_state(kv, jd, h)
  <1> DEFINE next == over(w, kv)
             w1   == store_any_client_state(id, d)
  <1>1. id \in ClientId /\ DOMAIN kv \subseteq Path
    BY ClientIdsOf DEF StoreOK
  <1>2. DOMAIN w1 = {ClientStatePath(id)} /\ w1[ClientStatePath(id)] = d
    BY ReadSet, Zenon DEF store_any_client_state
  <1>3. \A path, absent : get(next, path, absent) =
           IF path \in DOMAIN w THEN w[path] ELSE get(kv, path, absent)
    BY DEF over, get
  <1>4. DOMAIN next = DOMAIN w \cup DOMAIN kv
    BY DEF over
  <1>5. PICK H \in SUBSET Height :
          /\ DOMAIN w = {ClientStatePath(id)} \cup {ClientConsensusStatePath(id, h) : h \in H}
          /\ w[ClientStatePath(id)] = d
          /\ \A h \in Height : states[h] =
                IF h \in H THEN w[ClientConsensusStatePath(id, h)] ELSE consensus_state(kv, id, h)
          /\ states = [h \in Height |-> states[h]]
    <2>1. CASE w = w1 /\ states = States(kv, id)
      <3> WITNESS {} \in SUBSET Height
      <3> QED
        BY <1>2, <2>1 DEF States
    <2>2. ASSUME NEW h \in Height, NEW x \in ConsensusState,
                 w = over(w1, store_any_consensus_state(id, h, x)),
                 states = [States(kv, id) EXCEPT ![h] = x]
          PROVE  \E H \in SUBSET Height :
                    /\ DOMAIN w = {ClientStatePath(id)} \cup {ClientConsensusStatePath(id, k) : k \in H}
                    /\ w[ClientStatePath(id)] = d
                    /\ \A k \in Height : states[k] =
                          IF k \in H THEN w[ClientConsensusStatePath(id, k)] ELSE consensus_state(kv, id, k)
                    /\ states = [k \in Height |-> states[k]]
      <3> DEFINE w2   == store_any_consensus_state(id, h, x)
                 cons == ClientConsensusStatePath(id, h)
      <3>1. DOMAIN w2 = {cons} /\ w2[cons] = x
        BY ReadSet, Zenon DEF store_any_consensus_state
      <3>2. cons # ClientStatePath(id)
        BY Paths
      <3> HIDE DEF w1, w2, cons
      <3>3. DOMAIN w = {ClientStatePath(id), cons} /\ w[ClientStatePath(id)] = d /\ w[cons] = x
        BY <1>2, <2>2, <3>1, <3>2 DEF over, w2
      <3>4. /\ \A k \in Height : states[k] = IF k = h THEN x ELSE consensus_state(kv, id, k)
            /\ states = [k \in Height |-> states[k]]
        BY <2>2 DEF States
      <3>5. {ClientConsensusStatePath(id, k) : k \in {h}} = {cons}
        BY DEF cons
      <3> WITNESS {h} \in SUBSET Height
      <3> QED
        BY <3>3, <3>4, <3>5 DEF cons
    <2> QED
      BY <2>1, <2>2, Zenon DEF Writes, w1
  <1> HIDE DEF next, w1
  <1>6. DOMAIN w \subseteq Path
    <2>1. ClientStatePath(id) \in Path /\ \A h \in Height : ClientConsensusStatePath(id, h) \in Path
      BY <1>1 DEF Path
    <2> QED
      BY <1>5, <2>1
  <1>7. /\ NEXT_CLIENT_SEQUENCE \notin DOMAIN w
        /\ \A jd : ClientStatePath(jd) \in DOMAIN w <=> jd = id
        /\ \A jd, h : ClientConsensusStatePath(jd, h) \in DOMAIN w <=> jd = id /\ h \in H
    <2>1. NEXT_CLIENT_SEQUENCE \notin DOMAIN w
      BY <1>5, Paths
    <2>2. \A jd : ClientStatePath(jd) \in DOMAIN w <=> jd = id
      BY <1>5, Paths
    <2>3. \A jd, h : ClientConsensusStatePath(jd, h) \in DOMAIN w <=> jd = id /\ h \in H
      BY <1>5, Paths
    <2> QED
      BY <2>1, <2>2, <2>3
  <1>8. client_counter(next) = client_counter(kv)
    BY <1>3, <1>7 DEF client_counter
  <1>9. client_state(next, id) = d /\ \A jd : jd # id => client_state(next, jd) = client_state(kv, jd)
    BY <1>3, <1>5, <1>7 DEF client_state
  <1>10. \A jd, h : consensus_state(next, jd, h) =
            IF jd = id /\ h \in H THEN w[ClientConsensusStatePath(jd, h)] ELSE consensus_state(kv, jd, h)
    BY <1>3, <1>7 DEF consensus_state
  <1>11. States(next, id) = states
    BY <1>5, <1>10 DEF States
  <1>12. ClientIds(next) = ClientIds(kv)
    <2>1. DOMAIN next \subseteq Path
      BY <1>1, <1>4, <1>6
    <2>2. \A jd : jd \in ClientIds(next) <=> jd \in ClientIds(kv)
      BY <1>1, <1>4, <1>7, <2>1, ClientIdsOf
    <2> QED
      BY <2>2
  <1> QED
    BY <1>6, <1>8, <1>9, <1>10, <1>11, <1>12 DEF next

(* The commit of an update changes its client only. *)
LEMMA UpdatedStore ==
  ASSUME NEW kv, StoreOK(kv), NEW id \in ClientIds(kv), NEW res,
         Updated(id, res, client_state(kv, id), States(kv, id))
  PROVE  LET next == over(res.writes, kv) IN
         /\ Grows(kv, next)
         /\ ClientIds(next) = ClientIds(kv)
         /\ client_counter(next) = client_counter(kv)
         /\ \A jd \in ClientIds(kv) \ {id} : Keeps(kv, next, jd)
         /\ \A s \in Mentions(res.proof) : KnownIn(next, s)
  <1> DEFINE w    == res.writes
             next == over(w, kv)
             c    == client_state(kv, id)
  <1>1. PICK d, states :
          /\ Writes(id, w, States(kv, id), d, states)
          /\ Advances(id, c, States(kv, id), d, states)
          /\ \A s \in Mentions(res.proof) : Known(id, d, states, s)
    BY Zenon DEF Updated
  <1>2. /\ DOMAIN w \subseteq Path
        /\ client_counter(next) = client_counter(kv)
        /\ ClientIds(next) = ClientIds(kv)
        /\ client_state(next, id) = d /\ States(next, id) = states
        /\ \A jd : jd # id => client_state(next, jd) = client_state(kv, jd)
        /\ \A jd, h : jd # id => consensus_state(next, jd, h) = consensus_state(kv, jd, h)
    BY <1>1, UpdateWrites
  <1>3. DOMAIN next = DOMAIN w \cup DOMAIN kv /\ next = [p \in DOMAIN next |-> next[p]]
    BY ReadOver, ZenonT(60)
  <1>4. DOMAIN next \subseteq Path
    BY <1>2, <1>3 DEF StoreOK
  <1> HIDE DEF next, w
  <1>5. \A jd \in ClientIds(kv) \ {id} : Keeps(kv, next, jd)
    BY <1>2 DEF Keeps, States
  <1>6. ASSUME NEW jd \in ClientIds(kv)
        PROVE  /\ Advances(jd, client_state(kv, jd), States(kv, jd),
                           client_state(next, jd), States(next, jd))
               /\ Sound(jd, client_state(next, jd), States(next, jd))
    <2>1. CASE jd = id
      BY <1>1, <1>2, <2>1 DEF Advances
    <2>2. CASE jd # id
      BY <1>5, <1>6, <2>2, StoredClient, ZenonT(60) DEF Keeps, Advances
    <2> QED
      BY <2>1, <2>2
  <1>7. StoreOK(next)
    <2>1. \A jd \in ClientId \ ClientIds(next), h \in Height : consensus_state(next, jd, h) = Err
      BY <1>2 DEF StoreOK
    <2>2. \A jd \in ClientIds(next) :
             /\ jd[1] \in Registered /\ jd[2] < client_counter(next)
             /\ Sound(jd, client_state(next, jd), States(next, jd))
      BY <1>2, <1>6 DEF StoreOK
    <2>3. client_counter(next) \in Nat
      BY <1>2 DEF StoreOK
    <2> QED
      BY <1>3, <1>4, <2>1, <2>2, <2>3 DEF StoreOK
  <1>8. \A s \in Mentions(res.proof) : KnownIn(next, s)
    BY <1>1, <1>2 DEF KnownIn
  <1>9. Grows(kv, next)
    BY <1>2, <1>6, <1>7 DEF Grows
  <1> QED
    BY <1>2, <1>5, <1>8, <1>9 DEF next, w

(* A command that writes nothing leaves the store as it is. *)
LEMMA OverNothing ==
  ASSUME NEW kv, kv = [p \in DOMAIN kv |-> kv[p]]
  PROVE  over(<<>>, kv) = kv
  BY DEF over

(* light_client::dispatch: what a command that succeeds leaves. *)
LEMMA DispatchResult ==
  ASSUME NEW kv, StoreOK(kv), NEW proofs,
         \A p \in proofs : ProofOK(p) /\ \A s \in Mentions(p) : KnownIn(kv, s),
         NEW c, CommandOK(kv, proofs, c), NEW time, NEW res, res = dispatch(kv, c, time), res # Err
  PROVE  ResultOK(kv, c, res)
  <1>1. CASE c.op = "InitClient"
    <2>1. PICK s \in InitialState : c.client_state = s[1] /\ c.consensus_state = s[2]
      BY <1>1 DEF CommandOK
    <2>2. res = init_client(kv, c, time)
      BY <1>1 DEF dispatch
    <2> QED
      BY <1>1, <2>1, <2>2, InitResult DEF ResultOK
  <1>2. CASE c.op = "UpdateClient"
    <2>1. c.client_id \in ClientIds(kv) /\ c.message \in ClientMessage
      BY <1>2 DEF CommandOK
    <2>2. res = update_client(kv, c, time)
      BY <1>2 DEF dispatch
    <2>3. Updated(c.client_id, res, client_state(kv, c.client_id), States(kv, c.client_id))
      BY <2>1, <2>2, UpdateResult, Zenon
    <2> QED
      BY <1>2, <2>3 DEF ResultOK
  <1>3. CASE c.op = "AggregateMessages"
    <2>1. PICK p \in proofs, q \in proofs :
             c.proofs = <<p, q>> /\ p.type = "UpdateState" /\ q.type = "UpdateState"
      BY <1>3, Zenon DEF CommandOK
    <2>2. p.message \in Message /\ q.message \in Message
      BY <2>1 DEF ProofOK
    <2>3. res = elc_aggregate_messages(kv, c, time)
      BY <1>3 DEF dispatch
    <2> DEFINE m == res.proof.message
    <2>4. /\ res.writes = <<>> /\ res.edges = {} /\ res.proof.type = "UpdateState"
          /\ m \in Message
          /\ m.prev_height = p.message.prev_height /\ m.prev_state_id = p.message.prev_state_id
          /\ m.post_height = q.message.post_height /\ m.post_state_id = q.message.post_state_id
      <3>1. c.proofs = <<p, q>>
        BY <2>1
      <3>2. Aggregated(res, p, q)
        BY <2>2, <2>3, <3>1, AggregateResult, Zenon
      <3> QED
        BY <3>2, Zenon DEF Aggregated
    <2> HIDE DEF m
    <2>5. /\ KnownIn(kv, <<m.prev_height, m.prev_state_id>>)
          /\ KnownIn(kv, <<m.post_height, m.post_state_id>>)
      BY <2>1, <2>4 DEF Mentions
    <2>6. \A s \in Mentions(res.proof) : KnownIn(kv, s)
      BY <2>4, <2>5 DEF Mentions, m
    <2>7. ProofOK(res.proof)
      BY <2>4, Zenon DEF ProofOK, m
    <2> QED
      BY <1>3, <2>4, <2>6, <2>7 DEF ResultOK, Told
  <1>4. CASE c.op = "VerifyMembership"
    <2>1. c.client_id \in ClientIds(kv)
      BY <1>4 DEF CommandOK
    <2>2. res = verify_membership(kv, c, time)
      BY <1>4 DEF dispatch
    <2> DEFINE m  == res.proof.message
               id == c.client_id
    <2>3. /\ res.writes = <<>> /\ res.edges = {} /\ res.proof.type = "VerifyMembership"
          /\ merkle_value(m.state_id[2].root, m.path) = m.value
          /\ Known(id, client_state(kv, id), States(kv, id), <<m.height, m.state_id>>)
      BY <2>1, <2>2, MembershipResult, ZenonT(60)
    <2> HIDE DEF m, id
    <2>4. Mentions(res.proof) = {<<m.height, m.state_id>>}
      BY <2>3, Zenon DEF Mentions, m
    <2>5. \A s \in Mentions(res.proof) : KnownIn(kv, s)
      BY <2>1, <2>3, <2>4, ZenonT(60) DEF KnownIn, id
    <2>6. ProofOK(res.proof)
      BY <2>3, Zenon DEF ProofOK, m
    <2> QED
      BY <1>4, <2>3, <2>5, <2>6 DEF ResultOK, Told
  <1> QED
    BY <1>1, <1>2, <1>3, <1>4, Zenon DEF CommandOK

(* What a command has computed stays right while the client it updates, or the counter
   it takes a number from, stays as it was. *)
LEMMA ResultStays ==
  ASSUME NEW kv, StoreOK(kv), NEW next, Grows(kv, next), NEW c, NEW res, ResultOK(kv, c, res),
         c.op = "InitClient" => client_counter(next) = client_counter(kv),
         c.op = "UpdateClient" => Keeps(kv, next, c.client_id)
  PROVE  ResultOK(next, c, res)
  <1>1. CASE c.op = "InitClient"
    BY <1>1 DEF ResultOK
  <1>2. CASE c.op = "UpdateClient"
    BY <1>2 DEF ResultOK, Keeps
  <1>3. CASE c.op \notin {"InitClient", "UpdateClient"}
    <2>1. Told(kv, res)
      BY <1>3 DEF ResultOK
    <2>2. Told(next, res)
      BY <2>1, KnownGrows, ZenonT(60) DEF Told
    <2> QED
      BY <1>3, <2>2 DEF ResultOK
  <1> QED
    BY <1>1, <1>2, <1>3

(* The commit of a command: the clients advance, only the client that the command
   updates changes, and the proof that is released speaks of committed states. *)
LEMMA CommittedStore ==
  ASSUME NEW kv, StoreOK(kv), NEW proofs, NEW c, CommandOK(kv, proofs, c),
         NEW res, ResultOK(kv, c, res)
  PROVE  LET next == over(res.writes, kv) IN
         /\ Grows(kv, next)
         /\ \A p \in response(res) : ProofOK(p) /\ \A s \in Mentions(p) : KnownIn(next, s)
         /\ c.op # "InitClient" => client_counter(next) = client_counter(kv)
         /\ \A id \in ClientIds(kv) :
               Keeps(kv, next, id) \/ (c.op = "UpdateClient" /\ c.client_id = id)
  <1> DEFINE next == over(res.writes, kv)
  <1>1. CASE c.op = "InitClient"
    <2>1. Created(c, res, client_counter(kv))
      BY <1>1 DEF ResultOK
    <2>2. Grows(kv, next) /\ \A id \in ClientIds(kv) : Keeps(kv, next, id)
      BY <2>1, CreatedStore, ZenonT(60)
    <2>3. response(res) = {}
      BY <2>1, ZenonT(60) DEF Created, response
    <2> QED
      BY <1>1, <2>2, <2>3
  <1>2. CASE c.op = "UpdateClient"
    <2>1. c.client_id \in ClientIds(kv)
      BY <1>2 DEF CommandOK
    <2>2. Updated(c.client_id, res, client_state(kv, c.client_id), States(kv, c.client_id))
      BY <1>2 DEF ResultOK
    <2>3. /\ Grows(kv, next) /\ client_counter(next) = client_counter(kv)
          /\ \A jd \in ClientIds(kv) \ {c.client_id} : Keeps(kv, next, jd)
          /\ \A s \in Mentions(res.proof) : KnownIn(next, s)
      BY <2>1, <2>2, UpdatedStore
    <2>4. ProofOK(res.proof) /\ response(res) \subseteq {res.proof}
      BY <2>2 DEF Updated, response
    <2> HIDE DEF next
    <2>5. QED
      BY <1>2, <2>3, <2>4 DEF next
  <1>3. CASE c.op \notin {"InitClient", "UpdateClient"}
    <2>1. Told(kv, res)
      BY <1>3 DEF ResultOK
    <2>2. next = kv
      BY <2>1, OverNothing DEF Told, StoreOK
    <2>3. Grows(kv, kv)
      BY StoredClient, ZenonT(60) DEF Grows, Advances
    <2>4. \A id : Keeps(kv, kv, id)
      BY DEF Keeps
    <2>5. \A p \in response(res) : ProofOK(p) /\ \A s \in Mentions(p) : KnownIn(kv, s)
      BY <2>1, ZenonT(60) DEF Told, response
    <2> HIDE DEF next
    <2> QED
      BY <2>2, <2>3, <2>4, <2>5 DEF next
  <1> QED
    BY <1>1, <1>2, <1>3, ZenonT(60)

-----------------------------------------------------------------------------
(* The invariant holds in an empty store with idle threads. *)
LEMMA InitEInv == EInit => EInv
  <1> SUFFICES ASSUME EInit
               PROVE  EInv
    OBVIOUS
  <1>1. store = <<>> /\ signed = {} /\ DOMAIN job = Thread /\ \A t \in Thread : job[t] = NoJob
    BY DEF EInit
  <1>2. DOMAIN store = {} /\ store = [p \in DOMAIN store |-> store[p]]
    BY <1>1
  <1>3. client_counter(store) = 0 /\ \A id, h : consensus_state(store, id, h) = Err
    BY <1>2 DEF client_counter, consensus_state, get
  <1>4. ClientIds(store) = {}
    BY <1>2 DEF ClientIds
  <1>5. StoreOK(store)
    BY <1>2, <1>3, <1>4 DEF StoreOK
  <1>6. \A t \in Thread : ~Running(t) /\ ~Executed(t)
    BY <1>1 DEF Running, Executed
  <1> QED
    BY <1>1, <1>5, <1>6 DEF EInv, SignedOK, JobsOK, KeysExclude, WritesExclude

(* A thread that starts to wait holds no update key and has written nothing. *)
LEMMA RequestEInv ==
  ASSUME EInv, NEW t \in Thread, request(t)
  PROVE  EInv'
  <1>1. PICK c \in Input : job' = [job EXCEPT ![t] = [at |-> "waiting", command |-> c, time |-> now]]
    BY Zenon DEF request
  <1>2. store' = store /\ signed' = signed
    BY DEF request
  <1>3. DOMAIN job = Thread /\ DOMAIN job' = Thread
    BY <1>1 DEF EInv, JobsOK
  <1>4. job'[t].at = "waiting" /\ job'[t].command = c /\ \A u \in Thread \ {t} : job'[u] = job[u]
    BY <1>1, <1>3
  <1>5. \A u \in Thread \ {t} : /\ Running(u)' <=> Running(u)
                                /\ Executed(u)' <=> Executed(u)
    BY <1>4 DEF Running, Executed
  <1>6. JobsOK'
    <2>1. CommandOK(store, signed, c)
      BY Requests
    <2>2. \A u \in Thread : job'[u] # NoJob => CommandOK(store', signed', job'[u].command)
      BY <1>2, <1>4, <2>1 DEF EInv, JobsOK
    <2>3. ASSUME NEW u \in Thread, Executed(u)'
          PROVE  ResultOK(store', job'[u].command, job'[u].res)
      <3>1. u # t
        BY <1>4, <2>3 DEF Executed, Running
      <3> QED
        BY <1>2, <1>4, <1>5, <2>3, <3>1, ZenonT(60) DEF EInv, JobsOK
    <2> QED
      BY <1>3, <2>2, <2>3 DEF JobsOK
  <1>7. KeysExclude'
    <2> SUFFICES ASSUME NEW u \in Thread, NEW v \in Thread, u # v, Running(u)', Running(v)',
                        update_key(job'[u].command) # None
                 PROVE  update_key(job'[u].command) # update_key(job'[v].command)
      BY DEF KeysExclude
    <2>1. u # t /\ v # t
      BY <1>4 DEF Running
    <2> QED
      BY <1>4, <1>5, <2>1 DEF EInv, KeysExclude
  <1>8. WritesExclude'
    <2> SUFFICES ASSUME NEW u \in Thread, NEW v \in Thread, u # v, Executed(u)', Executed(v)'
                 PROVE  DOMAIN job'[u].res.writes \cap DOMAIN job'[v].res.writes = {}
      BY DEF WritesExclude
    <2>1. u # t /\ v # t
      BY <1>4 DEF Executed, Running
    <2> QED
      BY <1>4, <1>5, <2>1 DEF EInv, WritesExclude
  <1> QED
    BY <1>2, <1>6, <1>7, <1>8 DEF EInv, SignedOK

(* execute_command: nothing else runs under the update key, and RocksDB refuses a write
   to a path that another transaction has written. *)
LEMMA ExecuteEInv ==
  ASSUME EInv, NEW t \in Thread, execute(t)
  PROVE  EInv'
  <1> DEFINE c   == job[t].command
             res == dispatch(store, c, job[t].time)
             r   == IF Refused(t, res) THEN Err ELSE res
  <1>1. job[t] # NoJob /\ job[t].at = "waiting" /\ ~Blocked(t)
    BY DEF execute
  <1>2. job' = [job EXCEPT ![t] = [at |-> "executed", command |-> c, res |-> r]]
        /\ store' = store /\ signed' = signed
    BY DEF execute
  <1>3. DOMAIN job = Thread /\ DOMAIN job' = Thread
    BY <1>2 DEF EInv, JobsOK
  <1> HIDE DEF c, res, r
  <1>4. /\ job'[t].at = "executed" /\ job'[t].command = c /\ job'[t].res = r
        /\ \A u \in Thread \ {t} : job'[u] = job[u]
    BY <1>2, <1>3
  <1>5. \A u \in Thread \ {t} : /\ Running(u)' <=> Running(u)
                                /\ Executed(u)' <=> Executed(u)
    BY <1>4 DEF Running, Executed
  <1>6. CommandOK(store, signed, c)
    BY <1>1 DEF EInv, JobsOK, c
  <1>7. JobsOK'
    <2>1. r # Err => ResultOK(store, c, r)
      BY <1>6, DispatchResult DEF EInv, SignedOK, r, res
    <2>2. \A u \in Thread : job'[u] # NoJob => CommandOK(store', signed', job'[u].command)
      BY <1>2, <1>4, <1>6 DEF EInv, JobsOK
    <2>3. \A u \in Thread : Executed(u)' => ResultOK(store', job'[u].command, job'[u].res)
      <3> SUFFICES ASSUME NEW u \in Thread, Executed(u)'
                   PROVE  ResultOK(store', job'[u].command, job'[u].res)
        OBVIOUS
      <3>1. CASE u = t
        BY <1>2, <1>4, <2>1, <3>1 DEF Executed
      <3>2. CASE u # t
        BY <1>2, <1>4, <1>5, <3>2 DEF EInv, JobsOK
      <3> QED
        BY <3>1, <3>2
    <2> QED
      BY <1>3, <2>2, <2>3 DEF JobsOK
  <1>8. KeysExclude'
    <2>1. \A u \in Thread \ {t} :
             Running(u) /\ update_key(c) # None => update_key(job[u].command) # update_key(c)
      BY <1>1 DEF Blocked, c
    <2> QED
      BY <1>4, <1>5, <2>1, ZenonT(60) DEF EInv, KeysExclude
  <1>9. WritesExclude'
    <2>1. r # Err => \A u \in Thread \ {t} :
             Executed(u) => DOMAIN job[u].res.writes \cap DOMAIN r.writes = {}
      BY DEF Refused, Executed, r
    <2>2. Executed(t)' => r # Err
      BY <1>4 DEF Executed
    <2> SUFFICES ASSUME NEW u \in Thread, NEW v \in Thread, u # v, Executed(u)', Executed(v)'
                 PROVE  DOMAIN job'[u].res.writes \cap DOMAIN job'[v].res.writes = {}
      BY DEF WritesExclude
    <2>3. CASE u = t
      BY <1>4, <1>5, <2>1, <2>2, <2>3
    <2>4. CASE v = t
      BY <1>4, <1>5, <2>1, <2>2, <2>4
    <2>5. CASE u # t /\ v # t
      BY <1>4, <1>5, <2>5 DEF EInv, WritesExclude
    <2> QED
      BY <2>3, <2>4, <2>5
  <1> QED
    BY <1>2, <1>7, <1>8, <1>9 DEF EInv, SignedOK

(* The thread whose job ends, and the others. *)
LEMMA EndsJob ==
  ASSUME EInv, NEW t \in Thread, job' = [job EXCEPT ![t] = NoJob]
  PROVE  /\ DOMAIN job' = Thread /\ job'[t] = NoJob
         /\ \A u \in Thread \ {t} : job'[u] = job[u]
         /\ KeysExclude' /\ WritesExclude'
  <1>1. DOMAIN job = Thread /\ DOMAIN job' = Thread
    BY DEF EInv, JobsOK
  <1>2. job'[t] = NoJob /\ \A u \in Thread \ {t} : job'[u] = job[u]
    BY <1>1
  <1>3. \A u \in Thread \ {t} : /\ Running(u)' <=> Running(u)
                                /\ Executed(u)' <=> Executed(u)
    BY <1>2 DEF Running, Executed
  <1>4. KeysExclude'
    <2> SUFFICES ASSUME NEW u \in Thread, NEW v \in Thread, u # v, Running(u)', Running(v)',
                        update_key(job'[u].command) # None
                 PROVE  update_key(job'[u].command) # update_key(job'[v].command)
      BY DEF KeysExclude
    <2>1. u # t /\ v # t
      BY <1>2 DEF Running
    <2> QED
      BY <1>2, <1>3, <2>1 DEF EInv, KeysExclude
  <1>5. WritesExclude'
    <2> SUFFICES ASSUME NEW u \in Thread, NEW v \in Thread, u # v, Executed(u)', Executed(v)'
                 PROVE  DOMAIN job'[u].res.writes \cap DOMAIN job'[v].res.writes = {}
      BY DEF WritesExclude
    <2>1. u # t /\ v # t
      BY <1>2 DEF Executed, Running
    <2> QED
      BY <1>2, <1>3, <2>1 DEF EInv, WritesExclude
  <1> QED
    BY <1>1, <1>2, <1>4, <1>5

(* What a thread that may commit knows: its command and its result. *)
LEMMA CommitsResult ==
  ASSUME EInv, NEW t \in Thread, commit_tx(t)
  PROVE  LET c   == job[t].command
             res == job[t].res
         IN  /\ StoreOK(store) /\ CommandOK(store, signed, c) /\ ResultOK(store, c, res)
             /\ store' = over(res.writes, store)
             /\ Grows(store, store')
             /\ \A p \in response(res) : ProofOK(p) /\ \A s \in Mentions(p) : KnownIn(store', s)
             /\ c.op # "InitClient" => client_counter(store') = client_counter(store)
             /\ \A id \in ClientIds(store) :
                   Keeps(store, store', id) \/ (c.op = "UpdateClient" /\ c.client_id = id)
  <1> DEFINE c   == job[t].command
             res == job[t].res
  <1>1. Executed(t) /\ job[t] # NoJob /\ store' = over(res.writes, store)
    BY DEF commit_tx, Executed, Running
  <1>2. StoreOK(store) /\ CommandOK(store, signed, c) /\ ResultOK(store, c, res)
    BY <1>1 DEF EInv, JobsOK
  <1> HIDE DEF c, res
  <1>3. /\ Grows(store, store')
        /\ \A p \in response(res) : ProofOK(p) /\ \A s \in Mentions(p) : KnownIn(store', s)
        /\ c.op # "InitClient" => client_counter(store') = client_counter(store)
        /\ \A id \in ClientIds(store) :
              Keeps(store, store', id) \/ (c.op = "UpdateClient" /\ c.client_id = id)
    BY <1>1, <1>2, CommittedStore
  <1> QED
    BY <1>1, <1>2, <1>3, ZenonT(60) DEF c, res

(* commit_tx: what the other threads have computed stays right.  No other update of the
   same client runs, and no other creation has been able to write the counter. *)
LEMMA CommitEInv ==
  ASSUME EInv, NEW t \in Thread, commit_tx(t)
  PROVE  EInv'
  <1> DEFINE c   == job[t].command
             res == job[t].res
  <1>1. /\ job' = [job EXCEPT ![t] = NoJob] /\ signed' = signed \cup response(res)
        /\ Executed(t) /\ Running(t)
    BY DEF commit_tx, Executed
  <1>2. /\ StoreOK(store) /\ CommandOK(store, signed, c) /\ ResultOK(store, c, res)
        /\ Grows(store, store')
        /\ \A p \in response(res) : ProofOK(p) /\ \A s \in Mentions(p) : KnownIn(store', s)
        /\ c.op # "InitClient" => client_counter(store') = client_counter(store)
        /\ \A id \in ClientIds(store) :
              Keeps(store, store', id) \/ (c.op = "UpdateClient" /\ c.client_id = id)
    BY CommitsResult, Zenon
  <1>3. /\ DOMAIN job' = Thread /\ job'[t] = NoJob
        /\ \A u \in Thread \ {t} : job'[u] = job[u]
        /\ KeysExclude' /\ WritesExclude'
    BY <1>1, EndsJob, Zenon
  <1> HIDE DEF c, res
  <1>4. StoreOK(store')
    BY <1>2 DEF Grows
  <1>5. SignedOK'
    <2> SUFFICES ASSUME NEW p \in signed'
                 PROVE  ProofOK(p) /\ \A s \in Mentions(p) : KnownIn(store', s)
      BY DEF SignedOK
    <2>1. CASE p \in signed
      <3>1. ProofOK(p) /\ \A s \in Mentions(p) : KnownIn(store, s)
        BY <2>1 DEF EInv, SignedOK
      <3> QED
        BY <1>2, <3>1, KnownGrows
    <2>2. CASE p \in response(res)
      BY <1>2, <2>2
    <2> QED
      BY <1>1, <2>1, <2>2
  <1>6. ASSUME NEW u \in Thread, job'[u] # NoJob
        PROVE  CommandOK(store', signed', job'[u].command)
    <2> DEFINE d == job[u].command
    <2>1. u # t /\ job'[u] = job[u] /\ CommandOK(store, signed, d)
      BY <1>3, <1>6 DEF EInv, JobsOK
    <2>2. signed \subseteq signed' /\ ClientIds(store) \subseteq ClientIds(store')
      BY <1>1, <1>2 DEF Grows
    <2> HIDE DEF d
    <2>3. CommandOK(store', signed', d)
      BY <2>1, <2>2, Zenon DEF CommandOK
    <2> QED
      BY <2>1, <2>3 DEF d
  <1>7. ASSUME NEW u \in Thread, Executed(u)'
        PROVE  ResultOK(store', job'[u].command, job'[u].res)
    <2> DEFINE d == job[u].command
    <2>1. u # t /\ job'[u] = job[u]
      BY <1>3, <1>7 DEF Executed, Running
    <2>2. Executed(u) /\ Running(u)
      BY <1>7, <2>1 DEF Executed, Running
    <2>3. CommandOK(store, signed, d) /\ ResultOK(store, d, job[u].res)
      BY <2>2 DEF EInv, JobsOK, Running
    <2>4. d.op = "InitClient" => client_counter(store') = client_counter(store)
      <3> SUFFICES ASSUME d.op = "InitClient", c.op = "InitClient"
                   PROVE  FALSE
        BY <1>2
      <3>1. /\ NEXT_CLIENT_SEQUENCE \in DOMAIN res.writes
            /\ NEXT_CLIENT_SEQUENCE \in DOMAIN job[u].res.writes
        BY <1>2, <2>3, ZenonT(60) DEF ResultOK, Created
      <3> QED
        BY <1>1, <2>1, <2>2, <3>1 DEF EInv, WritesExclude, res
    <2>5. d.op = "UpdateClient" => Keeps(store, store', d.client_id)
      <3> SUFFICES ASSUME d.op = "UpdateClient", c.op = "UpdateClient", c.client_id = d.client_id
                   PROVE  FALSE
        BY <1>2, <2>3, ZenonT(60) DEF CommandOK
      <3>1. d.client_id \in ClientIds(store)
        BY <2>3 DEF CommandOK
      <3>2. d.client_id # None
        BY <1>2, <3>1, StoredClient, OptionAssumption
      <3>3. update_key(d) = d.client_id /\ update_key(c) = d.client_id
        BY DEF update_key
      <3> QED
        BY <1>1, <2>1, <2>2, <3>2, <3>3 DEF EInv, KeysExclude, c
    <2> HIDE DEF d
    <2>6. ResultOK(store', d, job[u].res)
      BY <1>2, <2>3, <2>4, <2>5, ResultStays
    <2> QED
      BY <2>1, <2>6 DEF d
  <1>8. JobsOK'
    BY <1>3, <1>6, <1>7, ZenonT(60) DEF JobsOK
  <1> QED
    BY <1>3, <1>4, <1>5, <1>8 DEF EInv

(* rollback_tx leaves the store. *)
LEMMA RollbackEInv ==
  ASSUME EInv, NEW t \in Thread, rollback_tx(t)
  PROVE  EInv'
  <1>1. job' = [job EXCEPT ![t] = NoJob] /\ store' = store /\ signed' = signed
    BY DEF rollback_tx
  <1>2. /\ DOMAIN job' = Thread /\ job'[t] = NoJob
        /\ \A u \in Thread \ {t} : job'[u] = job[u]
        /\ KeysExclude' /\ WritesExclude'
    BY <1>1, EndsJob, Zenon
  <1>3. ASSUME NEW u \in Thread, job'[u] # NoJob
        PROVE  CommandOK(store', signed', job'[u].command)
    BY <1>1, <1>2, <1>3 DEF EInv, JobsOK
  <1>4. ASSUME NEW u \in Thread, Executed(u)'
        PROVE  ResultOK(store', job'[u].command, job'[u].res)
    <2>1. u # t /\ job'[u] = job[u]
      BY <1>2, <1>4 DEF Executed, Running
    <2>2. Executed(u)
      BY <1>4, <2>1 DEF Executed, Running
    <2> QED
      BY <1>1, <2>1, <2>2 DEF EInv, JobsOK
  <1>5. JobsOK'
    BY <1>2, <1>3, <1>4 DEF JobsOK
  <1> QED
    BY <1>1, <1>2, <1>5 DEF EInv, SignedOK

(* A restart ends all transactions. *)
LEMMA CrashEInv ==
  ASSUME EInv, crash
  PROVE  EInv'
  <1>1. job' = [t \in Thread |-> NoJob] /\ store' = store /\ signed' = signed
    BY DEF crash
  <1>2. DOMAIN job' = Thread /\ \A t \in Thread : job'[t] = NoJob
    BY <1>1
  <1>3. \A t \in Thread : ~Running(t)' /\ ~Executed(t)'
    BY <1>2 DEF Running, Executed
  <1>4. JobsOK' /\ KeysExclude' /\ WritesExclude'
    BY <1>2, <1>3 DEF JobsOK, KeysExclude, WritesExclude
  <1> QED
    BY <1>1, <1>4 DEF EInv, SignedOK

(* Every step of the service and the enclave keeps the invariant. *)
LEMMA NextEInv ==
  ASSUME EInv, ENext
  PROVE  EInv'
  BY RequestEInv, ExecuteEInv, CommitEInv, RollbackEInv, CrashEInv, ZenonT(60) DEF ENext

(* The invariant is about the store, the jobs and the proofs. *)
LEMMA IdleEInv ==
  ASSUME EInv, UNCHANGED <<store, job, signed>>
  PROVE  EInv'
  BY ZenonT(60) DEF EInv, SignedOK, JobsOK, Executed, KeysExclude, WritesExclude, Running

(* In every state, whatever threads have executed and not yet committed, the store is
   sound, what commands computed from it is still right, and signatures speak of it. *)
THEOREM ELCInvariant == ESpec => []EInv
  <1>1. EInv /\ [ENext]_evars => EInv'
    BY NextEInv, IdleEInv DEF evars
  <1> QED
    BY <1>1, InitEInv, PTL DEF ESpec

-----------------------------------------------------------------------------
(* A client that is being created has the counter's number, and all clients in the store
   have smaller ones. *)
LEMMA FreshClientIdsInv ==
  ASSUME EInv
  PROVE  FreshClientIds
  <1> SUFFICES ASSUME NEW t \in Thread, Running(t), job[t].command.op = "InitClient",
                      job[t].res # Err, NEW id \in ClientIds(job[t].res.writes)
               PROVE  client_state(store, id) = Err
    BY DEF FreshClientIds
  <1>1. StoreOK(store) /\ Created(job[t].command, job[t].res, client_counter(store))
    BY DEF EInv, JobsOK, Executed, ResultOK
  <1>2. id \notin ClientIds(store)
    <2> DEFINE new == <<job[t].command.client_state.type_url, client_counter(store)>>
    <2>1. new \notin ClientIds(store) /\ ClientIds(job[t].res.writes) = {new}
      BY <1>1, CreatedStore, Zenon
    <2> QED
      BY <2>1
  <1>3. ClientStatePath(id) \notin DOMAIN store
    BY <1>1, <1>2, ClientIdsOf DEF StoreOK
  <1> QED
    BY <1>3 DEF client_state, get

(* A client in the store is of a registered type and has a consensus state at its latest
   height, so that query_client finds both. *)
LEMMA ClientsQueryableInv ==
  ASSUME EInv
  PROVE  ClientsQueryable
  <1> SUFFICES ASSUME NEW id \in ClientIds(store)
               PROVE  grpc_client(store, stub_client([client_id |-> id])) # Err
    BY ZenonT(60) DEF ClientsQueryable
  <1> DEFINE c      == client_state(store, id)
             latest == consensus_state(store, id, c.latest_height)
             query  == [op |-> "QueryClient", client_id |-> id]
             answer == [client_state |-> c, consensus_state |-> latest]
  <1>1. /\ id \in ClientId /\ id[1] \in Registered /\ Sound(id, c, States(store, id))
        /\ get_light_client_by_client_id(store, id) = id[1]
    BY StoredClient DEF EInv
  <1>2. c \in ClientState /\ c.latest_height \in Height /\ id[1] # None /\ id # None
    BY <1>1, ClientRecords, ELCAssumption, OptionAssumption, Zenon DEF Sound
  <1>3. latest \in ConsensusState /\ latest # Err
    BY <1>1, <1>2 DEF Sound, States
  <1>4. query \in [op : {"QueryClient"}, client_id : ClientId] /\ query.client_id = id
    BY <1>1
  <1>5. answer \in [client_state : ClientState, consensus_state : ConsensusState]
    BY <1>2, <1>3
  <1> HIDE DEF query, answer, c, latest
  <1>6. query # Err /\ answer # Err
    BY <1>4, <1>5, OptionAssumption
  <1>7. serve(stub_client([client_id |-> id])) = query
    BY <1>2 DEF serve, stub_client, Route, QueryRoute, EnclaveProtoAPI, query_client_input, query
  <1>8. query_client(store, id) = answer
    BY <1>1, <1>2, <1>3 DEF query_client, answer, c, latest
  <1> QED
    BY <1>4, <1>6, <1>7, <1>8 DEF grpc_client

(* A signed state id is the one that StateIdAt computes from the store. *)
LEMMA SignedStatesInv ==
  ASSUME EInv
  PROVE  SignedStatesAreStored
  <1> SUFFICES ASSUME NEW p \in signed, NEW s \in Mentions(p)
               PROVE  \E id \in ClientIds(store) :
                         consensus_state(store, id, s[1]) # Err /\ StateIdAt(id, s[1]) = s[2]
    BY DEF SignedStatesAreStored
  <1>1. PICK id \in ClientIds(store) : Known(id, client_state(store, id), States(store, id), s)
    BY DEF EInv, SignedOK, KnownIn
  <1>2. /\ s[1] \in Height /\ States(store, id)[s[1]] = consensus_state(store, id, s[1])
        /\ consensus_state(store, id, s[1]) # Err
    BY <1>1 DEF Known, States
  <1>3. StateIdAt(id, s[1]) = s[2]
    BY <1>1, <1>2 DEF Known, StateIdAt, StateIdOf
  <1> QED
    BY <1>2, <1>3

(* Only an update changes a client, and it was computed from a client that was not frozen
   and has not changed since. *)
LEMMA FreezeStep ==
  ASSUME EInv, ENext, NEW id \in ClientIds(store), client_state(store, id).frozen_height # 0
  PROVE  client_state(store', id) = client_state(store, id)
  <1>1. CASE store' = store
    BY <1>1
  <1>2. ASSUME NEW t \in Thread, commit_tx(t)
        PROVE  client_state(store', id) = client_state(store, id)
    <2> DEFINE c == job[t].command
    <2>1. /\ ResultOK(store, c, job[t].res)
          /\ Keeps(store, store', id) \/ (c.op = "UpdateClient" /\ c.client_id = id)
      BY <1>2, CommitsResult, Zenon
    <2>2. ~(c.op = "UpdateClient" /\ c.client_id = id)
      BY <2>1 DEF ResultOK, Updated
    <2> QED
      BY <2>1, <2>2 DEF Keeps
  <1> QED
    BY <1>1, <1>2 DEF ENext, request, execute, rollback_tx, crash

(* init_client never gives a new client the id of an existing one. *)
THEOREM FreshClientIdsHolds == ESpec => []FreshClientIds
  BY ELCInvariant, FreshClientIdsInv, PTL

(* The query of a client that exists finds the client state and the consensus state at
   its latest height. *)
THEOREM ClientsQueryableHolds == ESpec => []ClientsQueryable
  BY ELCInvariant, ClientsQueryableInv, PTL

(* Whatever the enclave signed about a height names the state that a client has at that
   height in the committed store. *)
THEOREM SignedStatesAreStoredHolds == ESpec => []SignedStatesAreStored
  BY ELCInvariant, SignedStatesInv, PTL

(* No step writes a frozen client state back. *)
THEOREM FreezeIsFinalHolds == ESpec => FreezeIsFinal
  <1>1. EInv /\ [ENext]_evars =>
          [ \A id \in ClientIds(store) : client_state(store, id).frozen_height # 0 =>
              client_state(store', id) = client_state(store, id) ]_evars
    BY FreezeStep
  <1> QED
    BY <1>1, ELCInvariant, PTL DEF ESpec, FreezeIsFinal
=============================================================================
