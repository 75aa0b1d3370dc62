------------------------------ MODULE Tendermint ------------------------------
(***************************************************************************)
(* The Tendermint light client of the enclave (modules/tendermint-lc/src). *)
(*                                                                         *)
(* A client state has the chain's parameters, the latest height and the    *)
(* frozen height (0 for none).  A consensus state has a root and a         *)
(* timestamp.  A header names the trusted height it is checked against;    *)
(* that its commit is signed by enough of the trusted validators is what   *)
(* makes it a header of the model.  ibc-rs's checks are external: they     *)
(* are modelled as far as the code here relies on them.                    *)
(***************************************************************************)
EXTENDS LightClientContext

TM == "07-tendermint"

TmClientState ==
    [type_url : {TM}, trusting_period : Nat, clock_drift : Nat,
     latest_height : Height, frozen_height : Height]

tm_client_state(any) == try_into(any, TM)

tm_consensus_state(any) == try_into(any, TM)

is_frozen(client) == client.frozen_height # 0

\* Mutant of canonicalize_state: the latest height stays in the state id.
canonicalize_state_frozen_only(client) == [client EXCEPT !.frozen_height = 0]

canonicalize_state(client) == [client EXCEPT !.latest_height = 0, !.frozen_height = 0]

gen_state_id(client, consensus) ==
    gen_state_id_from_any(canonicalize_state(client), consensus)

tm_create_client(any_client_state, any_consensus_state) ==
    LET client    == tm_client_state(any_client_state)
        consensus == tm_consensus_state(any_consensus_state)
    IN  IF client = Err \/ consensus = Err THEN Err
        ELSE [height  |-> client.latest_height,
              message |-> CreateMessage(client.latest_height, gen_state_id(client, consensus),
                                        consensus.timestamp),
              prove   |-> FALSE]

\* A header verifies against a trusted consensus state that is still in its
\* trusting period, if it is newer and not from the future.
header_verifies(client, trusted, header, now) ==
    /\ trusted # Err
    /\ header.height > header.trusted_height
    /\ header.consensus.timestamp > trusted.timestamp
    /\ trusted.timestamp + client.trusting_period > now
    /\ header.consensus.timestamp < now + client.clock_drift

\* ibc-rs: a header that is installed changes nothing, one that contradicts an
\* installed one freezes the client, and any other is installed.
check_header_and_update_state(kv, client_id, client, header, now) ==
    LET installed == consensus_state(kv, client_id, header.height)
        trusted   == consensus_state(kv, client_id, header.trusted_height)
    IN  IF installed = header.consensus
        THEN [client_state |-> client, consensus_state |-> installed]
        ELSE IF ~header_verifies(client, trusted, header, now) THEN Err
        ELSE IF installed # Err
        THEN [client_state    |-> [client EXCEPT !.frozen_height = header.height],
              consensus_state |-> installed]
        ELSE [client_state    |-> [client EXCEPT !.latest_height =
                                     IF @ < header.height THEN header.height ELSE @],
              consensus_state |-> header.consensus]

\* Mutant of tm_usable: a frozen client is updated.
tm_usable_frozen(kv, client_id, now) ==
    LET client == tm_client_state(client_state(kv, client_id))
        latest == tm_consensus_state(consensus_state(kv, client_id, client.latest_height))
    IN  /\ client # Err
        /\ latest # Err
        /\ latest.timestamp <= now
        /\ latest.timestamp + client.trusting_period >= now

\* The client may be updated: it is not frozen and its latest state has not expired.
tm_usable(kv, client_id, now) ==
    LET client == tm_client_state(client_state(kv, client_id))
        latest == tm_consensus_state(consensus_state(kv, client_id, client.latest_height))
    IN  /\ client # Err /\ ~is_frozen(client)
        /\ latest # Err
        /\ latest.timestamp <= now
        /\ latest.timestamp + client.trusting_period >= now

tm_update_state(kv, client_id, header, now) ==
    LET client  == tm_client_state(client_state(kv, client_id))
        trusted == tm_consensus_state(consensus_state(kv, client_id, header.trusted_height))
        new     == check_header_and_update_state(kv, client_id, client, header, now)
    IN  IF ~tm_usable(kv, client_id, now) \/ trusted = Err \/ new = Err THEN Err
        ELSE [result          |-> "UpdateState",
              client_state    |-> new.client_state,
              consensus_state |-> new.consensus_state,
              height          |-> header.height,
              prove           |-> TRUE,
              message         |->
                [prev_height    |-> header.trusted_height,
                 prev_state_id  |-> gen_state_id(client, trusted),
                 post_height    |-> header.height,
                 post_state_id  |-> gen_state_id(new.client_state, new.consensus_state),
                 timestamp      |-> header.consensus.timestamp,
                 context        |-> TrustingPeriodContext(
                                       client.trusting_period, client.clock_drift,
                                       header.consensus.timestamp, trusted.timestamp),
                 emitted_states |-> 0]]

\* make_prev_states: the trusted states of the two headers, or Err.
make_prev_states(kv, client_id, client, heights) ==
    IF \E h \in heights : tm_consensus_state(consensus_state(kv, client_id, h)) = Err
    THEN Err
    ELSE {<<h, gen_state_id(client, consensus_state(kv, client_id, h))>> : h \in heights}

\* ibc-rs: two headers of one height that differ, each verified from its trusted
\* state.
check_misbehaviour_and_update_state(kv, client_id, client, m, now) ==
    IF /\ m.header1.height = m.header2.height
       /\ m.header1.consensus # m.header2.consensus
       /\ \A h \in {m.header1, m.header2} :
             header_verifies(client, consensus_state(kv, client_id, h.trusted_height), h, now)
    THEN [client EXCEPT !.frozen_height = m.header1.height]
    ELSE Err

tm_submit_misbehaviour(kv, client_id, m, now) ==
    LET client == tm_client_state(client_state(kv, client_id))
        new    == check_misbehaviour_and_update_state(kv, client_id, client, m, now)
        prev   == make_prev_states(kv, client_id, client,
                                   {m.header1.trusted_height, m.header2.trusted_height})
    IN  IF client = Err \/ is_frozen(client) \/ new = Err \/ prev = Err THEN Err
        ELSE [result       |-> "Misbehaviour",
              client_state |-> new,
              message      |-> [prev_states |-> prev, context |-> EmptyContext]]

tm_update_client(kv, client_id, m, now) ==
    IF m.type_url # TM THEN Err
    ELSE IF m.message = "Header" THEN tm_update_state(kv, client_id, m, now)
    ELSE tm_submit_misbehaviour(kv, client_id, m, now)

\* ICS-23: the value under a path in the tree with this root; the root is the
\* content of the tree.
merkle_value(root, path) == IF path \in DOMAIN root THEN root[path] ELSE None

\* Mutant of tm_verified_root: the proof is checked in the latest state.
tm_verified_root_latest(kv, client_id, proof_height) ==
    LET client    == tm_client_state(client_state(kv, client_id))
        consensus == tm_consensus_state(consensus_state(kv, client_id, proof_height))
    IN  IF client = Err \/ is_frozen(client) \/ consensus = Err THEN Err
        ELSE consensus_state(kv, client_id, client.latest_height).root

\* validate_args and verify_height: the root of a stored state of a client that is
\* not frozen, at most at its latest height.
tm_verified_root(kv, client_id, proof_height) ==
    LET client    == tm_client_state(client_state(kv, client_id))
        consensus == tm_consensus_state(consensus_state(kv, client_id, proof_height))
    IN  IF client = Err \/ is_frozen(client) \/ consensus = Err THEN Err
        ELSE IF proof_height > client.latest_height THEN Err
        ELSE consensus.root

\* verify_membership with a value, verify_non_membership with None.
tm_verify_membership(kv, client_id, path, value, proof_height) ==
    LET root == tm_verified_root(kv, client_id, proof_height) IN
    IF root = Err THEN Err
    ELSE IF merkle_value(root, path) # value THEN Err
    ELSE [height   |-> proof_height, path |-> path, value |-> value,
          state_id |-> gen_state_id(client_state(kv, client_id),
                                    consensus_state(kv, client_id, proof_height))]
=============================================================================
