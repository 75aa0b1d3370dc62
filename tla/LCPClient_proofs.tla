--------------------------- MODULE LCPClient_proofs ---------------------------
(***************************************************************************)
(* Proofs about LCPClient, for any heights, state ids, keys, contexts,     *)
(* reports and clock.                                                      *)
(***************************************************************************)
EXTENDS LCPClient, Commitments_proofs, TLAPS

\* The provers a leaf that names none is given to, in this order.
USE SMTT(10), ZenonT(10), SMTT(30), SMTT(60)

USE CommitmentsAssumption, LCPClientAssumption

(* Dividing by the nanoseconds of a second keeps the order of times. *)
LEMMA SecsMonotone ==
  ASSUME NEW x \in Nat, NEW y \in Nat, x <= y
  PROVE  secs(x) <= secs(y) /\ secs(x) \in Nat
  BY DEF secs

(* Every stored state but the empty one at height zero was accepted, and every
   key's expiry comes from a registered report. *)
StatesAccepted ==
    \A h \in Height : client.consensus[h] # None /\ h # 0 =>
        <<h, client.consensus[h].state_id>> \in accepted

KeysAttested ==
    \A a \in Address : client.keys[a] # None =>
        \E r \in attested : r[1] = a /\ client.keys[a] = secs(r[2] + KeyExpiration * NanosPerSec)

LInv == LTypeOK /\ LatestIsStored /\ StatesAccepted /\ KeysAttested

(* The states that update_state leaves when it accepts a message. *)
LEMMA UpdateEffect ==
  ASSUME LTypeOK, NEW bytes \in UpdateState, NEW signer \in Address, NEW signed_by \in Address,
         update_client(bytes, signer, signed_by)
  PROVE  /\ client.frozen = "no"
         /\ links(client, ethabi_decode(bytes))
         /\ client' = [client EXCEPT
                !.latest_height = IF client.latest_height < bytes.post_height
                                  THEN bytes.post_height ELSE client.latest_height,
                !.consensus = [client.consensus EXCEPT ![bytes.post_height] =
                    [state_id  |-> bytes.post_state_id,
                     timestamp |-> secs(bytes.timestamp) * NanosPerSec]]]
         /\ accepted' = accepted \cup {<<bytes.post_height, bytes.post_state_id>>}
         /\ UNCHANGED <<now, attested>>
  <1> DEFINE m == ethabi_decode(bytes)
  <1>1. /\ m.post_height = bytes.post_height /\ m.post_state_id = bytes.post_state_id
        /\ m.timestamp = bytes.timestamp
    BY DEF ethabi_decode, UpdateState
  <1>2. update_state(client, m, signer, signed_by, now) # Err
    BY DEF update_client
  <1>3. client.frozen = "no" /\ links(client, m)
    BY <1>2 DEF update_state
  <1>4. client' = [client EXCEPT
            !.latest_height = with_header(@, m),
            !.consensus[m.post_height] =
                [state_id  |-> m.post_state_id,
                 timestamp |-> secs(m.timestamp) * NanosPerSec]]
    BY <1>2 DEF update_client, update_state
  <1>5. client' = [client EXCEPT
            !.latest_height = IF client.latest_height < bytes.post_height
                              THEN bytes.post_height ELSE client.latest_height,
            !.consensus = [client.consensus EXCEPT ![bytes.post_height] =
                [state_id  |-> bytes.post_state_id,
                 timestamp |-> secs(bytes.timestamp) * NanosPerSec]]]
    BY <1>1, <1>4 DEF with_header, LTypeOK, Client
  <1> QED
    BY <1>1, <1>3, <1>5 DEF update_client

(* The client that initialise leaves satisfies the invariant. *)
LEMMA InitLInv == LInit => LInv
  <1> SUFFICES ASSUME LInit PROVE LInv
    OBVIOUS
  <1>1. LTypeOK
    BY DEF LInit, LTypeOK, Client, ConsensusState
  <1>2. [state_id |-> ZeroID, timestamp |-> 0] # None
    BY DEF ConsensusState
  <1>3. LatestIsStored
    BY <1>2 DEF LInit, LatestIsStored
  <1>4. StatesAccepted /\ KeysAttested
    BY DEF LInit, StatesAccepted, KeysAttested
  <1> QED
    BY <1>1, <1>3, <1>4 DEF LInv

(* An accepted update keeps the invariant. *)
LEMMA UpdateLInv ==
  ASSUME LInv, NEW bytes \in UpdateState, NEW signer \in Address, NEW signed_by \in Address,
         update_client(bytes, signer, signed_by)
  PROVE  LInv'
  <1> USE DEF LInv
  <1> DEFINE latest == IF client.latest_height < bytes.post_height
                       THEN bytes.post_height ELSE client.latest_height
             state  == [state_id  |-> bytes.post_state_id,
                        timestamp |-> secs(bytes.timestamp) * NanosPerSec]
  <1>1. /\ client' = [client EXCEPT !.latest_height = latest,
              !.consensus = [client.consensus EXCEPT ![bytes.post_height] = state]]
        /\ accepted' = accepted \cup {<<bytes.post_height, bytes.post_state_id>>}
        /\ UNCHANGED <<now, attested>>
    BY UpdateEffect, Zenon
  <1>2. bytes.post_height \in Height \ {0} /\ bytes.post_state_id \in StateID
        /\ bytes.timestamp \in Nat
    BY Zenon DEF UpdateState
  <1>3. state \in ConsensusState
    <2>1. secs(bytes.timestamp) \in Nat
      BY <1>2, SecsMonotone
    <2> QED
      BY <1>2, <2>1 DEF ConsensusState
  <1>4. /\ client'.latest_height = latest
        /\ client'.consensus = [client.consensus EXCEPT ![bytes.post_height] = state]
        /\ client'.keys = client.keys
        /\ client'.frozen = client.frozen
    BY <1>1 DEF LTypeOK, Client
  <1>5. LTypeOK'
    <2>1. client'.consensus \in [Height -> ConsensusState \cup {None}]
      BY <1>2, <1>3, <1>4 DEF LTypeOK, Client
    <2>2. latest \in Height
      BY <1>2 DEF LTypeOK, Client
    <2>3. client' \in [latest_height : Height, frozen : {"yes", "no"},
                       consensus : [Height -> ConsensusState \cup {None}],
                       keys : [Address -> Nat \cup {None}]]
      BY <1>1, <1>4, <2>1, <2>2, Zenon DEF LTypeOK, Client
    <2> QED
      BY <1>1, <1>2, <2>3 DEF LTypeOK, Client
  <1>6. state # None
    BY <1>3
  <1>7. LatestIsStored'
    <2> DEFINE old  == client.latest_height
               post == bytes.post_height
    <2>1. old \in Height /\ old \in Nat /\ post \in Height /\ post \in Nat
      BY <1>2, Zenon DEF LTypeOK, Client
    <2>2. \A h \in Height : client'.consensus[h] =
             IF h = post THEN state ELSE client.consensus[h]
      <3> HIDE DEF state
      <3> QED
        BY <1>4 DEF LTypeOK, Client
    <2> HIDE DEF state
    <2>3. client'.consensus[latest] # None
      BY <1>6, <2>1, <2>2 DEF LatestIsStored
    <2>4. ASSUME NEW h \in Height, h > latest PROVE client'.consensus[h] = None
      <3>1. h \in Nat /\ h > old /\ h # post
        BY <2>1, <2>4
      <3> QED
        BY <2>2, <3>1 DEF LatestIsStored
    <2> QED
      BY <1>4, <2>3, <2>4 DEF LatestIsStored
  <1>8. StatesAccepted'
    <2> SUFFICES ASSUME NEW h \in Height, client'.consensus[h] # None, h # 0
                 PROVE  <<h, client'.consensus[h].state_id>> \in accepted'
      BY DEF StatesAccepted
    <2>1. CASE h = bytes.post_height
      BY <1>1, <1>2, <1>4, <2>1 DEF LTypeOK, Client
    <2>2. CASE h # bytes.post_height
      BY <1>1, <1>2, <1>4, <2>2 DEF LTypeOK, Client, StatesAccepted
    <2> QED
      BY <2>1, <2>2
  <1>9. KeysAttested'
    BY <1>1, <1>4 DEF KeysAttested
  <1> QED
    BY <1>5, <1>7, <1>8, <1>9

(* A registration keeps the invariant, also when it moves the expiry of a key. *)
LEMMA RegisterLInv ==
  ASSUME LInv, NEW report \in Report, register_enclave_key(report)
  PROVE  LInv'
  <1> USE DEF LInv
  <1> DEFINE time   == report.attestation_time
             expiry == secs(time + KeyExpiration * NanosPerSec)
  <1>1. report.address \in Address /\ time \in Nat
    OBVIOUS
  <1>2. expiry \in Nat
    BY <1>1, SecsMonotone
  <1>3. /\ client'.latest_height = client.latest_height
        /\ client'.consensus = client.consensus
        /\ client'.frozen = client.frozen
        /\ client'.keys = [client.keys EXCEPT ![report.address] = expiry]
        /\ attested' = attested \cup {<<report.address, time>>}
        /\ UNCHANGED <<now, accepted>>
    BY DEF register_enclave_key, LTypeOK, Client
  <1>4. LTypeOK'
    <2>1. client'.keys \in [Address -> Nat \cup {None}]
      BY <1>1, <1>2, <1>3 DEF LTypeOK, Client
    <2>2. client' \in [latest_height : Height, frozen : {"yes", "no"},
                       consensus : [Height -> ConsensusState \cup {None}],
                       keys : [Address -> Nat \cup {None}]]
      BY <1>3, <2>1 DEF LTypeOK, Client, register_enclave_key
    <2> QED
      BY <1>1, <1>3, <2>2 DEF LTypeOK, Client
  <1>5. LatestIsStored' /\ StatesAccepted'
    BY <1>3, Zenon DEF LatestIsStored, StatesAccepted
  <1>6. KeysAttested'
    <2> SUFFICES ASSUME NEW a \in Address, client'.keys[a] # None
                 PROVE  \E r \in attested' : /\ r[1] = a
                            /\ client'.keys[a] = secs(r[2] + KeyExpiration * NanosPerSec)
      BY DEF KeysAttested, secs
    <2>1. CASE a = report.address
      <3>1. <<report.address, time>> \in attested'
        BY <1>3
      <3>2. client'.keys[a] = expiry
        BY <1>1, <1>3, <2>1 DEF LTypeOK, Client
      <3> QED
        BY <2>1, <3>1, <3>2
    <2>2. CASE a # report.address
      BY <1>1, <1>3, <2>2 DEF LTypeOK, Client, KeysAttested
    <2> QED
      BY <2>1, <2>2
  <1> QED
    BY <1>4, <1>5, <1>6

(* Every step keeps the invariant. *)
LEMMA NextLInv == LInv /\ [LNext]_lvars => LInv'
  <1> SUFFICES ASSUME LInv, [LNext]_lvars PROVE LInv'
    OBVIOUS
  <1>1. CASE \E bytes \in UpdateState, signer, signed_by \in Address :
                update_client(bytes, signer, signed_by)
    BY <1>1, UpdateLInv
  <1>2. CASE \E report \in Report : register_enclave_key(report)
    BY <1>2, RegisterLInv
  <1>3. CASE \E s1, s2 \in Height \X StateID, context \in Context, signer, signed_by \in Address :
                submit_misbehaviour({s1, s2}, context, signer, signed_by)
    <2>1. /\ client' = [client EXCEPT !.frozen = "yes"]
          /\ UNCHANGED <<now, accepted, attested>>
      BY <1>3 DEF submit_misbehaviour
    <2> QED
      BY <2>1 DEF LInv, LTypeOK, Client, LatestIsStored, StatesAccepted, KeysAttested
  <1>4. CASE tick
    BY <1>4 DEF tick, LInv, LTypeOK, Client, LatestIsStored, StatesAccepted, KeysAttested
  <1>5. CASE UNCHANGED lvars
    BY <1>5 DEF lvars, LInv, LTypeOK, Client, LatestIsStored, StatesAccepted, KeysAttested
  <1> QED
    BY <1>1, <1>2, <1>3, <1>4, <1>5, Zenon DEF LNext

(* The invariant holds in every behaviour of the client. *)
LEMMA InvariantHolds == LSpec => []LInv
  BY InitLInv, NextLInv, PTL DEF LSpec

-----------------------------------------------------------------------------
(* Every variable of the client keeps its type. *)
THEOREM LTypeCorrect == LSpec => []LTypeOK
  <1>1. LInv => LTypeOK
    BY DEF LInv
  <1> QED
    BY <1>1, InvariantHolds, PTL

(* The latest height always has a consensus state, and none is above it. *)
THEOREM LatestIsStoredHolds == LSpec => []LatestIsStored
  <1>1. LInv => LatestIsStored
    BY DEF LInv
  <1> QED
    BY <1>1, InvariantHolds, PTL

(* verify_membership trusts no key whose every report is older than the key
   expiration. *)
THEOREM VerifiesWithFreshKeysHolds == LSpec => []VerifiesWithFreshKeys
  <1>1. LInv => VerifiesWithFreshKeys
    <2> SUFFICES ASSUME LInv, NEW h \in Height, NEW id \in StateID,
                        NEW signer \in Address, NEW signed_by \in Address,
                        verify_membership(h, id, signer, signed_by)
                 PROVE  \E r \in attested :
                            r[1] = signed_by /\ now < r[2] + KeyExpiration * NanosPerSec
      BY DEF VerifiesWithFreshKeys
    <2>1. client.keys[signed_by] # None /\ secs(now) < client.keys[signed_by]
      BY DEF verify_membership, is_active_enclave_key
    <2>2. PICK r \in attested :
              /\ r[1] = signed_by
              /\ client.keys[signed_by] = secs(r[2] + KeyExpiration * NanosPerSec)
      BY <2>1 DEF LInv, KeysAttested
    <2>3. r[2] \in Nat /\ now \in Nat /\ r[2] + KeyExpiration * NanosPerSec \in Nat
      BY <2>2 DEF LInv, LTypeOK, Client
    <2>4. now < r[2] + KeyExpiration * NanosPerSec
      <3> SUFFICES ASSUME r[2] + KeyExpiration * NanosPerSec <= now PROVE FALSE
        BY <2>3
      <3>1. secs(r[2] + KeyExpiration * NanosPerSec) <= secs(now)
        BY <2>3, SecsMonotone
      <3>2. secs(now) \in Nat /\ secs(r[2] + KeyExpiration * NanosPerSec) \in Nat
        BY <2>3, SecsMonotone
      <3> QED
        BY <2>1, <2>2, <3>1, <3>2
    <2> QED
      BY <2>2, <2>4
  <1> QED
    BY <1>1, InvariantHolds, PTL

(* A key that is active by the stored expiration, in whole seconds, is within the one
   that initialise was given, at any time and for any expiration. *)
LEMMA RoundedExpiration ==
  ASSUME NEW given \in Nat, NEW attested_at \in Nat, NEW time \in Nat,
         secs(time) < secs(attested_at + (given \div NanosPerSec) * NanosPerSec)
  PROVE  time < attested_at + given
  <1> DEFINE kept == (given \div NanosPerSec) * NanosPerSec
  <1>1. kept \in Nat /\ kept <= given
    BY LCPClientAssumption
  <1> HIDE DEF kept
  <1>2. time < attested_at + kept
    BY <1>1, SecsMonotone DEF kept
  <1> QED
    BY <1>1, <1>2

(* The client state keeps whole seconds of the expiration; no key is active for longer
   than initialise was told. *)
THEOREM StoredExpirationIsNoLaterHolds == LSpec => []StoredExpirationIsNoLater
  <1>1. LInv => StoredExpirationIsNoLater
    <2> SUFFICES ASSUME LInv, NEW given \in 1..(2 * NanosPerSec + 1),
                        NEW attested_at \in 0..LastTime,
                        secs(now) < secs(attested_at + (given \div NanosPerSec) * NanosPerSec)
                 PROVE  now < attested_at + given
      BY DEF StoredExpirationIsNoLater, client_state_try_from, client_state_into_raw, expired_at
    <2>1. given \in Nat /\ attested_at \in Nat /\ now \in Nat
      BY LCPClientAssumption DEF LInv, LTypeOK
    <2> QED
      BY <2>1, RoundedExpiration, Zenon
  <1> QED
    BY <1>1, InvariantHolds, PTL

(* After the first update only messages that extend an accepted state are
   accepted. *)
THEOREM ExtendsAcceptedHolds == LSpec => []ExtendsAccepted
  <1>1. ASSUME LInv, client.latest_height # 0, NEW bytes \in UpdateState,
               NEW signer \in Address, NEW signed_by \in Address,
               update_state(client, ethabi_decode(bytes), signer, signed_by, now) # Err
        PROVE  <<bytes.prev_height, bytes.prev_state_id>> \in accepted
    <2> DEFINE m == ethabi_decode(bytes)
    <2>1. links(client, m)
      BY <1>1 DEF update_state
    <2>2. m.prev_height # None /\ m.prev_state_id # None
          /\ HasState(client, m.prev_height, m.prev_state_id)
      BY <1>1, <2>1 DEF links
    <2>3. m.prev_height = bytes.prev_height /\ m.prev_state_id = bytes.prev_state_id
          /\ bytes.prev_height # 0
      BY <1>1, <2>2 DEF ethabi_decode, OrNone, UpdateState
    <2> QED
      BY <1>1, <2>2, <2>3, ZenonT(30) DEF HasState, LInv, StatesAccepted, UpdateState
  <1>2. LInv => ExtendsAccepted
    BY <1>1 DEF ExtendsAccepted
  <1> QED
    BY <1>2, InvariantHolds, PTL

(* A frozen client's states never change again. *)
THEOREM FrozenIsFinalHolds == LSpec => FrozenIsFinal
  <1>1. ASSUME LInv, [LNext]_lvars, client.frozen = "yes"
        PROVE  /\ client'.frozen = "yes"
               /\ client'.latest_height = client.latest_height
               /\ client'.consensus = client.consensus
    <2>1. CASE \E bytes \in UpdateState, signer, signed_by \in Address :
                  update_client(bytes, signer, signed_by)
      BY <1>1, <2>1, UpdateEffect DEF LInv
    <2>2. CASE \E report \in Report : register_enclave_key(report)
      BY <1>1, <2>2 DEF register_enclave_key, LInv, LTypeOK, Client
    <2>3. CASE \E s1, s2 \in Height \X StateID, context \in Context, signer, signed_by \in Address :
                  submit_misbehaviour({s1, s2}, context, signer, signed_by)
      BY <1>1, <2>3 DEF submit_misbehaviour
    <2>4. CASE tick \/ UNCHANGED lvars
      BY <1>1, <2>4 DEF tick, lvars
    <2> QED
      BY <1>1, <2>1, <2>2, <2>3, <2>4, Zenon DEF LNext
  <1>2. LInv /\ [LNext]_lvars =>
          [ client.frozen = "yes" =>
              /\ client'.frozen = "yes"
              /\ client'.latest_height = client.latest_height
              /\ client'.consensus = client.consensus ]_lvars
    BY <1>1
  <1> QED
    BY <1>2, InvariantHolds, PTL DEF LSpec, FrozenIsFinal
-----------------------------------------------------------------------------
(* What the conversions of two consecutive messages and of their aggregate hold:
   only zeros are read as None, and the aggregate goes from the first state to the
   last. *)
LEMMA AggregateParts ==
  ASSUME NEW b1 \in Forward, NEW b2 \in Forward,
         b2.prev_height = b1.post_height, b2.prev_state_id = b1.post_state_id,
         NEW m, m = aggregate_messages(<<ethabi_decode(b1), ethabi_decode(b2)>>), m # Err
  PROVE  LET m1 == ethabi_decode(b1)
             m2 == ethabi_decode(b2)
             n  == ethabi_decode(ethabi_encode(m))
         IN  /\ m2.prev_height = b1.post_height /\ m2.prev_state_id = b1.post_state_id
             /\ m2.prev_height # None /\ m2.prev_state_id # None
             /\ m1.post_height = b1.post_height /\ m1.post_state_id = b1.post_state_id
             /\ m1.context = b1.context /\ m2.context = b2.context
             /\ m1.emitted_states \in Nat /\ m2.emitted_states \in Nat
             /\ m1.timestamp = b1.timestamp /\ m2.timestamp = b2.timestamp
             /\ m2.post_height = b2.post_height /\ m2.post_state_id = b2.post_state_id
             /\ n.prev_height = m1.prev_height /\ n.prev_state_id = m1.prev_state_id
             /\ n.post_height = b2.post_height /\ n.post_state_id = b2.post_state_id
             /\ n.timestamp = b2.timestamp
             /\ n.emitted_states = m1.emitted_states + m2.emitted_states
             /\ n.context = context_aggregate(b1.context, b2.context) /\ n.context # Err
  <1> DEFINE m1 == ethabi_decode(b1)
             m2 == ethabi_decode(b2)
             n  == ethabi_decode(ethabi_encode(m))
  <1>1. b1 \in UpdateState /\ b2 \in UpdateState
    BY DEF Forward
  <1>2. /\ m1 = [b1 EXCEPT !.prev_height = OrNone(b1.prev_height, 0),
                           !.prev_state_id = OrNone(b1.prev_state_id, ZeroID)]
        /\ m2 = [b2 EXCEPT !.prev_height = OrNone(b2.prev_height, 0),
                           !.prev_state_id = OrNone(b2.prev_state_id, ZeroID)]
    BY DEF ethabi_decode
  <1>3. /\ m1.prev_height = OrNone(b1.prev_height, 0)
        /\ m1.prev_state_id = OrNone(b1.prev_state_id, ZeroID)
        /\ m1.post_height = b1.post_height /\ m1.post_state_id = b1.post_state_id
        /\ m1.context = b1.context /\ m1.timestamp = b1.timestamp
        /\ m1.emitted_states \in Nat
    BY <1>1, <1>2 DEF UpdateState
  <1>4. /\ m2.prev_height = OrNone(b2.prev_height, 0)
        /\ m2.prev_state_id = OrNone(b2.prev_state_id, ZeroID)
        /\ m2.post_height = b2.post_height /\ m2.post_state_id = b2.post_state_id
        /\ m2.context = b2.context /\ m2.timestamp = b2.timestamp
        /\ m2.emitted_states \in Nat
    BY <1>1, <1>2 DEF UpdateState
  <1>5. /\ b1.post_height \in Nat \ {0} /\ b1.post_state_id \in StateID \ {ZeroID}
        /\ b1.prev_height \in Nat /\ b1.prev_state_id \in StateID
    BY <1>1, Zenon DEF UpdateState
  <1>6. /\ m2.prev_height = b1.post_height /\ m2.prev_height # None
        /\ m2.prev_state_id = b1.post_state_id /\ m2.prev_state_id # None
    BY <1>4, <1>5 DEF OrNone
  <1> HIDE DEF m1, m2
  <1>7. m = aggregate(m1, m2) /\ m # Err
    BY AggregateTwo DEF m1, m2
  <1>8. /\ m = [prev_height    |-> m1.prev_height,
                prev_state_id  |-> m1.prev_state_id,
                post_height    |-> m2.post_height,
                post_state_id  |-> m2.post_state_id,
                timestamp      |-> m2.timestamp,
                context        |-> context_aggregate(m1.context, m2.context),
                emitted_states |-> m1.emitted_states + m2.emitted_states]
        /\ context_aggregate(m1.context, m2.context) # Err
    BY <1>7 DEF aggregate
  <1>9. /\ n.prev_height = OrNone(OrDefault(m1.prev_height, 0), 0)
        /\ n.prev_state_id = OrNone(OrDefault(m1.prev_state_id, ZeroID), ZeroID)
        /\ n.post_height = m2.post_height /\ n.post_state_id = m2.post_state_id
        /\ n.timestamp = m2.timestamp
        /\ n.emitted_states = m1.emitted_states + m2.emitted_states
        /\ n.context = context_aggregate(m1.context, m2.context)
    BY <1>8 DEF ethabi_decode, ethabi_encode
  <1>10. n.prev_height = m1.prev_height /\ n.prev_state_id = m1.prev_state_id
    BY <1>9, <1>3, <1>5 DEF OrNone, OrDefault
  <1> HIDE DEF n
  <1> QED
    BY <1>3, <1>4, <1>6, <1>8, <1>9, <1>10 DEF m1, m2, n

\* The conditions of update_state on the message m, signed by a.
Accepts(c, m, a, time) ==
    /\ message_validate(m) /\ c.frozen = "no" /\ links(c, m)
    /\ contains_enclave_key(c, a) /\ context_validate(m.context, time)

\* The consensus state that update_state stores for the message m.
StateOf(m) == [state_id |-> m.post_state_id, timestamp |-> secs(m.timestamp) * NanosPerSec]

\* The result d of update_state on the client c and the message m.
Updated(d, c, m, a, time) ==
    /\ d # Err <=> Accepts(c, m, a, time)
    /\ d # Err =>
          /\ d \in Client /\ d.frozen = "no" /\ d.keys = c.keys
          /\ d.latest_height = with_header(c.latest_height, m)
          /\ d.consensus[m.post_height] = StateOf(m) /\ StateOf(m) # None

(* update_state changes the client exactly when it accepts the message, and then
   stores the message's state and the greater height. *)
LEMMA UpdatedClient ==
  ASSUME NEW c \in Client, NEW m, NEW a \in Address, NEW time,
         m.post_height \in Height, m.post_state_id \in StateID, m.timestamp \in Nat
  PROVE  Updated(update_state(c, m, a, a, time), c, m, a, time)
  <1> DEFINE d     == update_state(c, m, a, a, time)
             state == StateOf(m)
             e     == [c EXCEPT !.latest_height = with_header(c.latest_height, m),
                                !.consensus = [c.consensus EXCEPT ![m.post_height] = state]]
  <1>1. with_header(c.latest_height, m) \in Height
    BY DEF with_header, Client
  <1>2. state \in ConsensusState
    <2>1. secs(m.timestamp) \in Nat
      BY SecsMonotone
    <2> QED
      BY <2>1 DEF ConsensusState, StateOf
  <1>3. state # None
    BY <1>2
  <1>d. d = IF /\ message_validate(m) /\ c.frozen = "no" /\ links(c, m)
               /\ contains_enclave_key(c, a) /\ context_validate(m.context, time)
            THEN e ELSE Err
    BY DEF update_state, StateOf
  <1> HIDE DEF state
  <1>4. e \in Client /\ e.frozen = c.frozen /\ e.keys = c.keys
        /\ e.latest_height = with_header(c.latest_height, m)
        /\ e.consensus[m.post_height] = state
    <2>1. [c.consensus EXCEPT ![m.post_height] = state] \in [Height -> ConsensusState \cup {None}]
      BY <1>2 DEF Client
    <2> QED
      BY <1>1, <2>1, Zenon DEF Client
  <1>5. d = IF Accepts(c, m, a, time) THEN e ELSE Err
    BY <1>d, Zenon DEF Accepts
  <1>6. e # Err
    BY <1>4
  <1>7. Accepts(c, m, a, time) => c.frozen = "no"
    BY Zenon DEF Accepts
  <1> HIDE DEF d, e
  <1>8. Updated(d, c, m, a, time)
    BY <1>3, <1>4, <1>5, <1>6, <1>7, Zenon DEF Updated, state
  <1> QED
    BY <1>8, Zenon DEF d

(* The greater of the heights is the same, taken at once or one by one. *)
LEMMA SameHeight ==
  ASSUME NEW latest \in Nat, NEW m1, NEW m2, NEW n, m1.post_height \in Nat,
         m2.post_height \in Nat, m1.post_height < m2.post_height, n.post_height = m2.post_height
  PROVE  with_header(latest, n) = with_header(with_header(latest, m1), m2)
  BY DEF with_header

(* What the client does with an aggregated message is what it does with its parts
   one by one. *)
THEOREM AggregationAgreesHolds == LSpec => []AggregationAgrees
  <1>1. ASSUME LInv, NEW b1 \in Forward, NEW b2 \in Forward,
               b2.prev_height = b1.post_height, b2.prev_state_id = b1.post_state_id,
               ContextFits(b1.context), ContextFits(b2.context), Aggregate(b1, b2) # Err,
               NEW a \in Address, contains_enclave_key(client, a)
        PROVE  PartsAgree(ethabi_decode(b1), ethabi_decode(b2),
                          ethabi_decode(ethabi_encode(Aggregate(b1, b2))), a)
    <2> DEFINE m1     == ethabi_decode(b1)
               m2     == ethabi_decode(b2)
               m      == aggregate_messages(<<m1, m2>>)
               n      == ethabi_decode(ethabi_encode(m))
               one    == update_state(client, n, a, a, now)
               first  == update_state(client, m1, a, a, now)
               second == update_state(first, m2, a, a, now)
    <2>0. m # Err
      BY <1>1, Zenon DEF Aggregate
    <2> SUFFICES SameOutcome(one, IF first = Err THEN Err ELSE second, m2.post_height)
      BY Zenon DEF PartsAgree, Aggregate
    <2>1. /\ m2.prev_height = b1.post_height /\ m2.prev_state_id = b1.post_state_id
          /\ m2.prev_height # None /\ m2.prev_state_id # None
          /\ m1.post_height = b1.post_height /\ m1.post_state_id = b1.post_state_id
          /\ m1.context = b1.context /\ m2.context = b2.context
          /\ m1.emitted_states \in Nat /\ m2.emitted_states \in Nat
          /\ m1.timestamp = b1.timestamp /\ m2.timestamp = b2.timestamp
          /\ m2.post_height = b2.post_height /\ m2.post_state_id = b2.post_state_id
      BY <1>1, <2>0, AggregateParts
    <2>2. /\ n.prev_height = m1.prev_height /\ n.prev_state_id = m1.prev_state_id
          /\ n.post_height = b2.post_height /\ n.post_state_id = b2.post_state_id
          /\ n.timestamp = b2.timestamp
          /\ n.emitted_states = m1.emitted_states + m2.emitted_states
          /\ n.context = context_aggregate(b1.context, b2.context) /\ n.context # Err
      BY <1>1, <2>0, AggregateParts
    <2>3. /\ b1.post_height \in Height /\ b1.post_height \in Nat \ {0}
          /\ b1.post_state_id \in StateID /\ b1.timestamp \in Nat
          /\ b2.post_height \in Height /\ b2.post_height \in Nat
          /\ b2.post_state_id \in StateID /\ b2.timestamp \in Nat
          /\ b1.post_height < b2.post_height
          /\ b1.context \in ValidationContext /\ b2.context \in ValidationContext
      BY <1>1, Zenon DEF Forward, UpdateState
    <2>4. client \in Client /\ client.latest_height \in Nat /\ now \in Nat
      <3>1. client \in Client /\ now \in 0..LastTime
        BY <1>1 DEF LInv, LTypeOK
      <3>2. client.latest_height \in Height
        BY <3>1 DEF Client
      <3>3. Height \subseteq Nat /\ 0..LastTime \subseteq Nat
        OBVIOUS
      <3> QED
        BY <3>1, <3>2, <3>3, Zenon
    <2> HIDE DEF m1, m2, n
    <2>5. /\ context_validate(b1.context, now) /\ context_validate(b2.context, now)
                => context_validate(n.context, now)
          /\ context_validate(n.context, now)
                => context_validate(b1.context, now) /\ context_validate(b2.context, now)
      <3>1. /\ context_aggregate(b1.context, b2.context) # Err /\ MaxTime \in Nat
            /\ n.context = context_aggregate(b1.context, b2.context)
        BY <2>2, CommitmentsAssumption, Zenon
      <3> QED
        BY <1>1, <3>1, <2>3, <2>4, MergedContext, ZenonT(60)
    <2>6. (message_validate(n) = message_validate(m1)) /\ message_validate(m2)
      BY <2>1, <2>2 DEF message_validate
    <2>7. /\ links(client, m1) => links(client, n)
          /\ client.latest_height # 0 /\ links(client, n) => links(client, m1)
      BY <2>1, <2>2, <2>4 DEF links
    <2>8. Updated(one, client, n, a, now)
      BY <2>2, <2>3, <2>4, UpdatedClient, Zenon
    <2>9. Updated(first, client, m1, a, now)
      BY <2>1, <2>3, <2>4, UpdatedClient, Zenon
    <2>10. first # Err => Updated(second, first, m2, a, now)
      <3>1. first # Err => first \in Client
        BY <2>9, Zenon DEF Updated
      <3> QED
        BY <3>1, <2>1, <2>3, UpdatedClient, Zenon
    <2> HIDE DEF one, first, second
    <2>11. ASSUME first # Err
           PROVE  links(first, m2) /\ contains_enclave_key(first, a)
      <3>1. /\ first.keys = client.keys /\ first.latest_height = with_header(client.latest_height, m1)
            /\ first.consensus[b1.post_height] = StateOf(m1) /\ StateOf(m1) # None
        BY <2>1, <2>9, <2>11, Zenon DEF Updated
      <3>2. StateOf(m1).state_id = b1.post_state_id
        BY <2>1 DEF StateOf
      <3>3. contains_enclave_key(first, a)
        BY <1>1, <3>1, Zenon DEF contains_enclave_key
      <3>4. first.latest_height # 0
        BY <3>1, <2>1, <2>3, <2>4 DEF with_header
      <3> QED
        BY <3>1, <3>2, <3>3, <3>4, <2>1, <2>3 DEF links, HasState
    <2>12. first # Err /\ second # Err => one # Err
      BY <2>1, <2>5, <2>6, <2>7, <2>8, <2>9, <2>10, ZenonT(60) DEF Updated, Accepts
    <2>13. one # Err /\ client.latest_height # 0 => first # Err /\ second # Err
      BY <2>1, <2>5, <2>6, <2>7, <2>8, <2>9, <2>10, <2>11, ZenonT(60) DEF Updated, Accepts
    <2>14. one # Err /\ first # Err /\ second # Err =>
              /\ one.latest_height = second.latest_height
              /\ one.consensus[m2.post_height] = second.consensus[m2.post_height]
      <3>1. with_header(client.latest_height, n) =
               with_header(with_header(client.latest_height, m1), m2)
        BY <2>1, <2>2, <2>3, <2>4, SameHeight
      <3>2. n.post_height = m2.post_height /\ StateOf(n) = StateOf(m2)
        BY <2>1, <2>2, Zenon DEF StateOf
      <3> QED
        BY <3>1, <3>2, <2>8, <2>9, <2>10, Zenon DEF Updated
    <2> QED
      BY <2>12, <2>13, <2>14, Zenon DEF SameOutcome
  <1>2. ASSUME LInv, NEW a \in Address, contains_enclave_key(client, a), NEW g \in Aggregation
        PROVE  PartsAgree(g.first, g.second, g.whole, a)
    <2>1. PICK p \in Consecutive :
             g = [first |-> ethabi_decode(p[1]), second |-> ethabi_decode(p[2]),
                  whole |-> ethabi_decode(ethabi_encode(Aggregate(p[1], p[2])))]
      BY <1>2, Zenon DEF Aggregation
    <2>2. /\ p[1] \in Forward /\ p[2] \in Forward
          /\ p[2].prev_height = p[1].post_height /\ p[2].prev_state_id = p[1].post_state_id
          /\ ContextFits(p[1].context) /\ ContextFits(p[2].context)
          /\ Aggregate(p[1], p[2]) # Err
      BY DEF Consecutive
    <2>3. /\ g.first = ethabi_decode(p[1]) /\ g.second = ethabi_decode(p[2])
          /\ g.whole = ethabi_decode(ethabi_encode(Aggregate(p[1], p[2])))
      BY <2>1, Zenon
    <2> QED
      BY <1>1, <1>2, <2>2, <2>3, Zenon
  <1>3. LInv => AggregationAgrees
    BY <1>2, Zenon DEF AggregationAgrees
  <1> QED
    BY <1>3, InvariantHolds, PTL
=============================================================================
