------------------------------ MODULE LCPSystem ------------------------------
(***************************************************************************)
(* The proxy end to end: enclave light clients follow an upstream chain    *)
(* (ELC), and the LCP client on the downstream chain follows them through  *)
(* the proofs they sign (LCPClient).  Relayers carry the proofs: they may  *)
(* lose, delay, repeat and reorder them, so any proof that has left the    *)
(* service may be delivered at any time and any number of times.           *)
(***************************************************************************)
EXTENDS ELC

CONSTANTS MrEnclave, mr_enclave, NanosPerSec, KeyExpiration, Report

VARIABLES client, accepted, attested

LCP == INSTANCE LCPClient WITH
    Address <- Key, Context <- {EmptyContext}, Timestamp <- {0}

svars == <<store, job, signed, verified, commands, now, client, accepted, attested>>

SInit == EInit /\ LCP!LInit

UpdateProofs == {p \in signed : p.type = "UpdateState"}

elc_step == ENext /\ UNCHANGED <<client, accepted, attested>>

deliver_update ==
    /\ \E p \in UpdateProofs : LCP!update_client(p.message, p.signer, p.signed_by)
    /\ UNCHANGED <<store, job, signed, verified, commands>>

deliver_misbehaviour ==
    /\ \E p \in {q \in signed : q.type = "Misbehaviour"} :
          LCP!submit_misbehaviour(p.message.prev_states, p.message.context, p.signer, p.signed_by)
    /\ UNCHANGED <<store, job, signed, verified, commands>>

deliver_report ==
    /\ \E r \in Report : LCP!register_enclave_key(r)
    /\ UNCHANGED <<store, job, signed, verified, commands>>

clock == LCP!tick /\ UNCHANGED <<store, job, signed, verified, commands>>

SNext == elc_step \/ deliver_update \/ deliver_misbehaviour \/ deliver_report \/ clock

SSpec == SInit /\ [][SNext]_svars

-----------------------------------------------------------------------------
\* The state s is reached from r along transitions in E: every set that contains r
\* and is closed under E contains s.
Descends(s, r, E) ==
    \A S \in SUBSET ({r} \cup {e.to : e \in E}) :
        r \in S /\ (\A e \in E : e.from \in S => e.to \in S) => s \in S

\* A proof that the LCP client would accept now stands for transitions that a light
\* client in the enclave verified, each of them still within its trusting period,
\* however long the request waited, the proof travelled, and whatever was
\* aggregated.
AcceptedIsVerified ==
    \A p \in UpdateProofs :
        LCP!update_state(client, ethabi_decode(p.message), p.signer, p.signed_by, now) # Err
        => Descends(<<p.message.post_height, p.message.post_state_id>>,
                    <<p.message.prev_height, p.message.prev_state_id>>,
                    {e \in verified : context_validate(e.context, now)})

\* After its first message the LCP client stays on the history it began with:
\* all its states descend from one state, although the enclave also signs for
\* clients of other histories.
OneLineage ==
    accepted # {} => \E r \in accepted : \A s \in accepted : Descends(s, r, verified)

\* A proof of membership or of absence that the LCP client would accept now is true
\* of the upstream state that the LCP client has at that height.
MembershipHolds ==
    \A p \in {q \in signed : q.type = "VerifyMembership"} :
        LET m == p.message IN
        LCP!verify_membership(m.height, m.state_id, p.signer, p.signed_by) =>
            merkle_value(client.consensus[m.height].state_id[2].root, m.path) = m.value
=============================================================================
