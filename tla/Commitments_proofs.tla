-------------------------- MODULE Commitments_proofs --------------------------
(***************************************************************************)
(* Lemmas about the messages that enclaves sign, for any heights, state    *)
(* ids and times: what the aggregation of two messages is, and when its    *)
(* context is valid.                                                       *)
(***************************************************************************)
EXTENDS Commitments, TLAPS

\* The provers a leaf that names none is given to, in this order.
USE SMTT(10), ZenonT(10), SMTT(30), SMTT(60)

(* The aggregation of two messages is one call of aggregate: aggregate_messages
   starts from the first message and merges the rest into it. *)
LEMMA AggregateTwo ==
  ASSUME NEW m1, NEW m2
  PROVE  aggregate_messages(<<m1, m2>>) = IF m1 = Err THEN Err ELSE aggregate(m1, m2)
  <1> DEFINE ms          == <<m1, m2>>
             result      == IF m1 = Err THEN Err ELSE aggregate(m1, m2)
             step(f, i)  == IF i = 1 THEN ms[1]
                            ELSE IF f[i - 1] = Err THEN Err ELSE aggregate(f[i - 1], ms[i])
             steps(f)    == f = [i \in 1..Len(ms) |-> step(f, i)]
             message     == CHOOSE f : steps(f)
             witness     == [i \in 1..Len(ms) |-> IF i = 1 THEN m1 ELSE result]
  <1>1. Len(ms) = 2 /\ ms[1] = m1 /\ ms[2] = m2 /\ ms # <<>>
    OBVIOUS
  <1>2. aggregate_messages(ms) = message[Len(ms)]
    BY <1>1 DEF aggregate_messages
  <1> HIDE DEF ms
  <1>3. steps(witness)
    <2>1. 1..Len(ms) = {1, 2} /\ witness[1] = m1
      BY <1>1
    <2>2. step(witness, 1) = m1 /\ step(witness, 2) = result
      BY <1>1, <2>1
    <2> QED
      BY <2>1, <2>2
  <1>4. steps(message)
    BY <1>3, Zenon
  <1> HIDE DEF message
  <1>5. message[1] = m1 /\ message[2] = step(message, 2)
    BY <1>1, <1>4
  <1> QED
    BY <1>1, <1>2, <1>5 DEF ms

-----------------------------------------------------------------------------
(* ValidationContext::aggregate of two contexts is valid when both are, and only then,
   if their trusting periods end within the range of times: it keeps the earliest
   trusted state and the latest header. *)
LEMMA MergedContext ==
  ASSUME NEW c1 \in ValidationContext, NEW c2 \in ValidationContext, context_aggregate(c1, c2) # Err,
         MaxTime \in Nat
  PROVE  /\ context_aggregate(c1, c2) \in ValidationContext
         /\ \A time \in Nat : context_validate(c1, time) /\ context_validate(c2, time)
               => context_validate(context_aggregate(c1, c2), time)
         /\ \A time \in Nat :
               /\ context_validate(context_aggregate(c1, c2), time)
               /\ ContextFits(c1) /\ ContextFits(c2)
               => context_validate(c1, time) /\ context_validate(c2, time)
  <1> DEFINE c == context_aggregate(c1, c2)
  <1>1. CASE c1 = EmptyContext
    <2>1. c = c2
      BY <1>1 DEF context_aggregate, EmptyContext, ValidationContext, TrustingPeriod
    <2>2. \A time : context_validate(c1, time)
      BY <1>1 DEF context_validate, EmptyContext
    <2> QED
      BY <2>1, <2>2
  <1>2. CASE c1 \in TrustingPeriod /\ c2 = EmptyContext
    <2>1. c = c1
      BY <1>2 DEF context_aggregate, EmptyContext, TrustingPeriod
    <2>2. \A time : context_validate(c2, time)
      BY <1>2 DEF context_validate, EmptyContext
    <2> QED
      BY <2>1, <2>2
  <1>3. CASE c1 \in TrustingPeriod /\ c2 \in TrustingPeriod
    <2>1. /\ c = merge_times(c1, c2)
          /\ c1.trusting_period = c2.trusting_period /\ c1.clock_drift = c2.clock_drift
      BY <1>3 DEF context_aggregate, TrustingPeriod
    <2>2. /\ c.type = "TrustingPeriod"
          /\ c.trusting_period = c1.trusting_period /\ c.clock_drift = c1.clock_drift
          /\ c.untrusted_header_timestamp =
                IF c1.untrusted_header_timestamp > c2.untrusted_header_timestamp
                THEN c1.untrusted_header_timestamp ELSE c2.untrusted_header_timestamp
          /\ c.trusted_state_timestamp =
                IF c1.trusted_state_timestamp < c2.trusted_state_timestamp
                THEN c1.trusted_state_timestamp ELSE c2.trusted_state_timestamp
          /\ c \in TrustingPeriod
      BY <1>3, <2>1, Zenon DEF merge_times, TrustingPeriod
    <2> HIDE DEF c
    <2>3. ASSUME NEW time \in Nat, context_validate(c1, time), context_validate(c2, time)
          PROVE  context_validate(c, time)
      BY <1>3, <2>1, <2>2, <2>3 DEF context_validate, ensure_within_trust_period,
         ensure_header_from_past, Fits, TrustingPeriod
    <2>4. ASSUME NEW time \in Nat, context_validate(c, time), ContextFits(c1), ContextFits(c2)
          PROVE  context_validate(c1, time) /\ context_validate(c2, time)
      BY <1>3, <2>1, <2>2, <2>4 DEF context_validate, ensure_within_trust_period,
         ensure_header_from_past, ContextFits, Fits, TrustingPeriod
    <2> QED
      BY <2>2, <2>3, <2>4 DEF ValidationContext, c
  <1> QED
    BY <1>1, <1>2, <1>3 DEF ValidationContext
=============================================================================
