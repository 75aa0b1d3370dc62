------------------------------ MODULE LCPClient ------------------------------
(***************************************************************************)
(* The LCP client (modules/lcp-client/src): the contract on the downstream *)
(* chain that follows an upstream chain through messages signed in an      *)
(* enclave.  It keeps the latest height, a state id per height, and the    *)
(* enclave keys that attestation reports vouch for.                        *)
(*                                                                         *)
(* Anyone may submit anything: a submission is the ABI encoding of a       *)
(* message, the signer it names, and the key that really signed it.  A     *)
(* failed assertion or an error leaves the chain's state as it was.        *)
(***************************************************************************)
EXTENDS Commitments

CONSTANTS
    Address,        \* enclave key addresses
    MrEnclave,      \* the enclave measurements
    mr_enclave,     \* the one the client state names
    NanosPerSec,
    KeyExpiration,  \* ClientState::key_expiration in seconds
    LastTime,       \* the bound on the host's clock
    Context,        \* the validation contexts of submitted messages
    Timestamp,      \* the upstream timestamps of submitted messages
    Report          \* the reports that attestation_report::verify_report passes

ConsensusState == [state_id : StateID, timestamp : Nat]

\* The client's entries in the host's store.
Client ==
    [latest_height : Height,
     frozen        : {"yes", "no"},
     consensus     : [Height -> ConsensusState \cup {None}],
     keys          : [Address -> Nat \cup {None}]]

ASSUME LCPClientAssumption ==
    /\ NanosPerSec \in Nat \ {0}
    /\ KeyExpiration \in Nat \ {0}
    /\ mr_enclave \in MrEnclave
    /\ LastTime \in Nat
    /\ Timestamp \subseteq Nat
    /\ Context \subseteq ValidationContext
    /\ None \notin ConsensusState /\ Err \notin Client
    /\ Report \subseteq [address : Address, mr_enclave : MrEnclave, attestation_time : Nat]

VARIABLES
    client,    \* the client's entries in the host's store
    now,       \* host_timestamp
    accepted,  \* history: the states of the accepted update messages
    attested   \* history: the registered keys with the times of their reports

lvars == <<client, now, accepted, attested>>

\* Encoded update-state messages.  No light client has a state at height zero.
UpdateState ==
    [prev_height : Height, prev_state_id : StateID,
     post_height : Height \ {0}, post_state_id : StateID \ {ZeroID},
     timestamp : Timestamp, context : Context, emitted_states : 0..1]

secs(time) == time \div NanosPerSec

\* Mutant of client_state_into_raw: the expiration is rounded up.
client_state_into_raw_up(cs) ==
    [cs EXCEPT !.key_expiration = (@ + NanosPerSec - 1) \div NanosPerSec]

\* The client state in the store: the expiration in whole seconds.
client_state_into_raw(cs) == [cs EXCEPT !.key_expiration = @ \div NanosPerSec]

client_state_try_from(raw) == [raw EXCEPT !.key_expiration = @ * NanosPerSec]

\* What register_enclave_key stores for a key attested at the time, and
\* is_active_enclave_key of it.
expired_at(cs, attestation_time) == secs(attestation_time + cs.key_expiration)

-----------------------------------------------------------------------------
\* initialise: an empty consensus state at height zero.  Nothing asks the client
\* state for frozen = false.
LInit ==
    /\ \E frozen \in {"yes", "no"} :
       client = [latest_height |-> 0,
                 frozen        |-> frozen,
                 consensus     |-> [h \in Height |->
                     IF h = 0 THEN [state_id |-> ZeroID, timestamp |-> 0] ELSE None],
                 keys          |-> [a \in Address |-> None]]
    /\ now \in 0..LastTime
    /\ accepted = {}
    /\ attested = {}

contains_enclave_key(c, a) == c.keys[a] # None

\* Mutant of is_active_enclave_key: the last second counts as active.
is_active_enclave_key_le(c, a, time) == c.keys[a] # None /\ secs(time) <= c.keys[a]

is_active_enclave_key(c, a, time) == c.keys[a] # None /\ secs(time) < c.keys[a]

\* Mutant of HasState: there is some consensus state at the height.
HasState_any(c, h, id) == c.consensus[h] # None

\* The consensus state stored at the height has the id.
HasState(c, h, id) == c.consensus[h] # None /\ c.consensus[h].state_id = id

\* The first message carries a state; a later one extends a stored state.
links(c, m) ==
    IF c.latest_height = 0
    THEN m.emitted_states > 0
    ELSE /\ m.prev_height # None /\ m.prev_state_id # None
         /\ HasState(c, m.prev_height, m.prev_state_id)

\* Mutant of with_header: the height of the previous state is taken.
with_header_prev(latest, m) == m.prev_height

\* Mutant of with_header: the latest height is the height of the last message.
with_header_last(latest, m) == m.post_height

\* ClientState::with_header.
with_header(latest, m) == IF latest < m.post_height THEN m.post_height ELSE latest

\* Mutant of update_state: a frozen client is updated.
update_state_frozen(c, m, signer, signed_by, time) ==
    IF /\ message_validate(m)
       /\ links(c, m)
       /\ contains_enclave_key(c, signer)
       /\ signer = signed_by
       /\ context_validate(m.context, time)
    THEN [c EXCEPT
            !.latest_height = with_header(@, m),
            !.consensus[m.post_height] =
                [state_id  |-> m.post_state_id,
                 timestamp |-> secs(m.timestamp) * NanosPerSec]]
    ELSE Err

\* The client after update_state, or Err.  The consensus state is stored through
\* its protobuf form, which keeps seconds.
update_state(c, m, signer, signed_by, time) ==
    IF /\ message_validate(m)
       /\ c.frozen = "no"
       /\ links(c, m)
       /\ contains_enclave_key(c, signer)
       /\ signer = signed_by
       /\ context_validate(m.context, time)
    THEN [c EXCEPT
            !.latest_height = with_header(@, m),
            !.consensus[m.post_height] =
                [state_id  |-> m.post_state_id,
                 timestamp |-> secs(m.timestamp) * NanosPerSec]]
    ELSE Err

\* ClientMessage::UpdateClient with an UpdateState message.
update_client(bytes, signer, signed_by) ==
    LET m == ethabi_decode(bytes)
        c == update_state(client, m, signer, signed_by, now)
    IN  /\ c # Err
        /\ client' = c
        /\ accepted' = accepted \cup {<<m.post_height, m.post_state_id>>}
        /\ UNCHANGED <<now, attested>>

\* verify_report: what its signature and certificates say is external.
verify_report(report) ==
    /\ Fits(report.attestation_time, KeyExpiration * NanosPerSec)
    /\ now <= report.attestation_time + KeyExpiration * NanosPerSec
    /\ report.mr_enclave = mr_enclave

register_enclave_key(report) ==
    /\ verify_report(report)
    /\ client' = [client EXCEPT !.keys[report.address] =
           secs(report.attestation_time + KeyExpiration * NanosPerSec)]
    /\ attested' = attested \cup {<<report.address, report.attestation_time>>}
    /\ UNCHANGED <<now, accepted>>

submit_misbehaviour(prev_states, context, signer, signed_by) ==
    /\ prev_states # {}
    /\ client.frozen = "no"
    /\ \A s \in prev_states : HasState(client, s[1], s[2])
    /\ contains_enclave_key(client, signer)
    /\ context_validate(context, now)
    /\ signer = signed_by
    /\ client' = [client EXCEPT !.frozen = "yes"]
    /\ UNCHANGED <<now, accepted, attested>>

\* verify_membership changes nothing; the result is what it returns for a proof
\* of the expected prefix, path and value.
verify_membership(h, state_id, signer, signed_by) ==
    /\ HasState(client, h, state_id)
    /\ signer = signed_by
    /\ is_active_enclave_key(client, signer, now)

\* The host's clock.
tick ==
    /\ now < LastTime
    /\ now' = now + 1
    /\ UNCHANGED <<client, accepted, attested>>

LNext ==
    \/ \E bytes \in UpdateState, signer, signed_by \in Address :
          update_client(bytes, signer, signed_by)
    \/ \E report \in Report : register_enclave_key(report)
    \/ \E s1, s2 \in Height \X StateID, context \in Context, signer, signed_by \in Address :
          submit_misbehaviour({s1, s2}, context, signer, signed_by)
    \/ tick

LSpec == LInit /\ [][LNext]_lvars

-----------------------------------------------------------------------------
LTypeOK ==
    /\ client \in Client
    /\ now \in 0..LastTime
    /\ accepted \subseteq Height \X StateID
    /\ attested \subseteq Address \X Nat

\* The client state and the consensus states agree: there is a consensus state at
\* the latest height and none above it, in whatever order messages arrive.
LatestIsStored ==
    /\ client.consensus[client.latest_height] # None
    /\ \A h \in Height : h > client.latest_height => client.consensus[h] = None

\* After the first update, update_state accepts only messages that extend a state
\* it accepted before.  The empty state that initialise stores at height zero is
\* never extended, because the ABI reads a zero height as None.
ExtendsAccepted ==
    client.latest_height # 0 =>
        \A bytes \in UpdateState, signer, signed_by \in Address :
            update_state(client, ethabi_decode(bytes), signer, signed_by, now) # Err
            => <<bytes.prev_height, bytes.prev_state_id>> \in accepted

\* Once submit_misbehaviour has frozen the client, its states never change again.
FrozenIsFinal ==
    [][ client.frozen = "yes" =>
          /\ client'.frozen = "yes"
          /\ client'.latest_height = client.latest_height
          /\ client'.consensus = client.consensus ]_lvars

\* verify_membership trusts a key only while some registered report about it is
\* younger than the key expiration, although expiry times are kept in seconds
\* and a later registration may move them.
VerifiesWithFreshKeys ==
    \A h \in Height, id \in StateID, signer, signed_by \in Address :
        verify_membership(h, id, signer, signed_by) =>
            \E r \in attested : r[1] = signed_by /\ now < r[2] + KeyExpiration * NanosPerSec

\* A key is never active longer than the expiration that initialise was given allows,
\* although the client state keeps only whole seconds of it: the stored form rounds
\* down, and an expiration below a second leaves no key active at all.  At every time
\* of the client's chain, for a key attested at any time.
StoredExpirationIsNoLater ==
    \A given \in 1..(2 * NanosPerSec + 1) : \A attested_at \in 0..LastTime :
       LET cs == client_state_try_from(client_state_into_raw([key_expiration |-> given]))
       IN  secs(now) < expired_at(cs, attested_at) => now < attested_at + given

\* The update-state messages of light clients, which only move forward.
Forward == {b \in UpdateState : b.prev_height < b.post_height}

\* What aggregate_messages makes of two messages b1 and b2.
Aggregate(b1, b2) == aggregate_messages(<<ethabi_decode(b1), ethabi_decode(b2)>>)

\* The pairs of them that are aggregated: the second starts where the first ends.
Consecutive ==
    {p \in Forward \X Forward :
        /\ p[2].prev_height = p[1].post_height /\ p[2].prev_state_id = p[1].post_state_id
        /\ ContextFits(p[1].context) /\ ContextFits(p[2].context)
        /\ Aggregate(p[1], p[2]) # Err}

\* Such messages as the client decodes them: one by one, and aggregated.
Aggregation ==
    {[first |-> ethabi_decode(p[1]), second |-> ethabi_decode(p[2]),
      whole |-> ethabi_decode(ethabi_encode(Aggregate(p[1], p[2])))] : p \in Consecutive}

\* The client one that took the aggregate of two messages, and the client both that
\* took the two: both exist when one of them does, and they hold the same state.
SameOutcome(one, both, height) ==
    /\ both # Err => one # Err
    /\ one # Err /\ client.latest_height # 0 => both # Err
    /\ one # Err /\ both # Err =>
          /\ one.latest_height = both.latest_height
          /\ one.consensus[height] = both.consensus[height]

\* The outcomes of the messages m1 and m2, signed by a, and of their aggregate m.
PartsAgree(m1, m2, m, a) ==
    LET one   == update_state(client, m, a, a, now)
        first == update_state(client, m1, a, a, now)
        both  == IF first = Err THEN Err ELSE update_state(first, m2, a, a, now)
    IN  SameOutcome(one, both, m2.post_height)

\* An aggregated message stands for its parts: what the client does with the
\* result of aggregate_messages is what it does with the messages one by one, at
\* the same time.  (The first message alone must carry a state; the aggregate may
\* take it from a later part.)
AggregationAgrees ==
    \A a \in {x \in Address : contains_enclave_key(client, x)} :
        \A g \in Aggregation : PartsAgree(g.first, g.second, g.whole, a)

Truncated(time) == secs(time) * NanosPerSec

\* TrustingPeriodContext's doc: its time precision is in seconds, nanoseconds are
\* truncated.  So the result of validate would not depend on them.
SecondPrecision ==
    \A c \in Context : c.type = "TrustingPeriod" =>
        context_validate(c, now) =
        context_validate(TrustingPeriodContext(c.trusting_period, c.clock_drift,
                             Truncated(c.untrusted_header_timestamp),
                             Truncated(c.trusted_state_timestamp)), Truncated(now))
=============================================================================
