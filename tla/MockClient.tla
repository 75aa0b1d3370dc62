------------------------------ MODULE MockClient ------------------------------
(***************************************************************************)
(* The mock light client (modules/mock-lc/src), which follows ibc-rs's     *)
(* mock chain: any higher header is accepted, state ids are made from the  *)
(* client state as it is, and every message carries the new client state.  *)
(***************************************************************************)
EXTENDS LightClientContext

MOCK == "9999-mock"

MockClientState == [type_url : {MOCK}, latest_height : Height, frozen_height : Height]

mock_client_state(any) == try_into(any, MOCK)

mock_consensus_state(any) == try_into(any, MOCK)

mock_is_frozen(client) == client.frozen_height # 0

mock_gen_state_id(client, consensus) == gen_state_id_from_any(client, consensus)

mock_create_client(any_client_state, any_consensus_state) ==
    LET client    == mock_client_state(any_client_state)
        consensus == mock_consensus_state(any_consensus_state)
    IN  IF client = Err \/ consensus = Err THEN Err
        ELSE [height  |-> client.latest_height,
              message |-> CreateMessage(client.latest_height,
                             mock_gen_state_id(any_client_state, any_consensus_state),
                             consensus.timestamp),
              prove   |-> FALSE]

\* The client's latest state, or Err for a client that is frozen or unknown.
mock_latest(kv, client_id) ==
    LET client == mock_client_state(client_state(kv, client_id)) IN
    IF client = Err THEN Err
    ELSE IF mock_is_frozen(client) THEN Err
    ELSE mock_consensus_state(consensus_state(kv, client_id, client.latest_height))

\* ibc-rs's mock: the header must be higher than the latest.
mock_check_header(client, header) ==
    IF header.height <= client.latest_height THEN Err
    ELSE [client EXCEPT !.latest_height = header.height]

mock_update_state(kv, client_id, header) ==
    LET client == client_state(kv, client_id)
        latest == mock_latest(kv, client_id)
        new    == mock_check_header(client, header)
    IN  IF latest = Err THEN Err
        ELSE IF new = Err THEN Err
        ELSE [result          |-> "UpdateState",
              client_state    |-> new,
              consensus_state |-> header.consensus,
              height          |-> header.height,
              prove           |-> TRUE,
              message         |->
                [prev_height    |-> client.latest_height,
                 prev_state_id  |-> mock_gen_state_id(client, latest),
                 post_height    |-> header.height,
                 post_state_id  |-> mock_gen_state_id(new, header.consensus),
                 timestamp      |-> header.consensus.timestamp,
                 context        |-> EmptyContext,
                 emitted_states |-> 1]]

\* The mock of ibc-rs, as submit_misbehaviour uses it: it accepts any misbehaviour, sets
\* the frozen height to that of the first header and keeps the latest height.
mock_check_misbehaviour(client, m) == [client EXCEPT !.frozen_height = m.header1.height]

mock_submit_misbehaviour(kv, client_id, m) ==
    LET client == client_state(kv, client_id)
        latest == mock_latest(kv, client_id)
    IN  IF latest = Err THEN Err
        ELSE [result       |-> "Misbehaviour",
              client_state |-> mock_check_misbehaviour(client, m),
              message      |->
                [prev_states |-> {<<client.latest_height, mock_gen_state_id(client, latest)>>},
                 context     |-> EmptyContext]]

mock_update_client(kv, client_id, m) ==
    IF m.type_url # MOCK THEN Err
    ELSE IF m.message = "Header" THEN mock_update_state(kv, client_id, m)
    ELSE mock_submit_misbehaviour(kv, client_id, m)

\* verify_membership and verify_non_membership are todo!(): the enclave panics and
\* the command fails.
mock_verify_membership(kv, client_id, path, value, proof_height) == Err
=============================================================================
