----------------------------- MODULE Commitments -----------------------------
(***************************************************************************)
(* The messages that enclaves sign and the LCP client consumes             *)
(* (modules/commitments/src): validation contexts, update-state messages,  *)
(* their aggregation and their ABI encoding.                               *)
(*                                                                         *)
(* Times are numbers of nanoseconds.  A Height is a number: the code       *)
(* orders heights totally, with Height::zero() first.  The states a        *)
(* message emits are abstracted to how many they are.                      *)
(***************************************************************************)
EXTENDS Naturals, Sequences

CONSTANTS
    MaxTime,  \* MAX_UNIX_TIMESTAMP_NANOS
    Height,   \* a set of heights with 0
    StateID,  \* the state ids
    ZeroID,   \* StateID::default()
    None,     \* Option::None
    Err       \* Result::Err

ASSUME CommitmentsAssumption ==
    /\ MaxTime \in Nat
    /\ Height \subseteq Nat /\ 0 \in Height
    /\ ZeroID \in StateID
    /\ None \notin StateID \cup Nat

EmptyContext == [type |-> "Empty"]

TrustingPeriodContext(period, drift, header_time, trusted_time) ==
    [type |-> "TrustingPeriod", trusting_period |-> period, clock_drift |-> drift,
     untrusted_header_timestamp |-> header_time,
     trusted_state_timestamp |-> trusted_time]

TrustingPeriod ==
    [type : {"TrustingPeriod"}, trusting_period : Nat, clock_drift : Nat,
     untrusted_header_timestamp : Nat, trusted_state_timestamp : Nat]

ValidationContext == {EmptyContext} \cup TrustingPeriod

\* Time + Duration is an error past the largest time.
Fits(time, duration) == time + duration <= MaxTime

ensure_within_trust_period(now, trusted_time, period) ==
    Fits(trusted_time, period) /\ trusted_time + period > now

ensure_header_from_past(now, header_time, drift) ==
    Fits(now, drift) /\ now + drift > header_time

context_validate(c, now) ==
    c.type = "TrustingPeriod" =>
        /\ ensure_within_trust_period(now, c.trusted_state_timestamp, c.trusting_period)
        /\ ensure_header_from_past(now, c.untrusted_header_timestamp, c.clock_drift)

\* The end of the trusting period is no error.
ContextFits(c) ==
    c.type = "TrustingPeriod" => Fits(c.trusted_state_timestamp, c.trusting_period)

\* Mutant of merge_times: the youngest trusted state is kept.
merge_times_youngest(c1, c2) ==
    [c1 EXCEPT
       !.untrusted_header_timestamp =
           IF @ > c2.untrusted_header_timestamp THEN @ ELSE c2.untrusted_header_timestamp,
       !.trusted_state_timestamp =
           IF @ > c2.trusted_state_timestamp THEN @ ELSE c2.trusted_state_timestamp]

\* The latest header time and the earliest trusted time of the two contexts.
merge_times(c1, c2) ==
    [c1 EXCEPT
       !.untrusted_header_timestamp =
           IF @ > c2.untrusted_header_timestamp THEN @ ELSE c2.untrusted_header_timestamp,
       !.trusted_state_timestamp =
           IF @ < c2.trusted_state_timestamp THEN @ ELSE c2.trusted_state_timestamp]

context_aggregate(c1, c2) ==
    CASE c1.type = "Empty" -> c2
      [] c2.type = "Empty" -> c1
      [] OTHER -> IF /\ c1.trusting_period = c2.trusting_period
                     /\ c1.clock_drift = c2.clock_drift
                  THEN merge_times(c1, c2) ELSE Err

-----------------------------------------------------------------------------
OrDefault(option, default) == IF option = None THEN default ELSE option

OrNone(value, zero) == IF value = zero THEN None ELSE value

\* UpdateStateProxyMessage::validate.
message_validate(m) == (m.prev_height = None) = (m.prev_state_id = None)

\* UpdateStateProxyMessage::aggregate.
aggregate(m1, m2) ==
    LET context == context_aggregate(m1.context, m2.context) IN
    IF \/ m1.post_state_id # OrDefault(m2.prev_state_id, ZeroID)
       \/ m1.post_height # OrDefault(m2.prev_height, 0)
       \/ context = Err
    THEN Err
    ELSE [prev_height    |-> m1.prev_height,
          prev_state_id  |-> m1.prev_state_id,
          post_height    |-> m2.post_height,
          post_state_id  |-> m2.post_state_id,
          timestamp      |-> m2.timestamp,
          context        |-> context,
          emitted_states |-> m1.emitted_states + m2.emitted_states]

aggregate_messages(messages) ==
    LET message[i \in 1..Len(messages)] ==
            IF i = 1 THEN messages[1]
            ELSE IF message[i - 1] = Err THEN Err ELSE aggregate(message[i - 1], messages[i])
    IN  IF messages = <<>> THEN Err ELSE message[Len(messages)]

\* The ABI has no options: None is written as zero, and zero is read as None.
ethabi_encode(m) ==
    [m EXCEPT !.prev_height = OrDefault(@, 0), !.prev_state_id = OrDefault(@, ZeroID)]

\* Mutant of ethabi_decode: zero is read as a value.
ethabi_decode_some(m) == m

ethabi_decode(m) ==
    [m EXCEPT !.prev_height = OrNone(@, 0), !.prev_state_id = OrNone(@, ZeroID)]
=============================================================================
