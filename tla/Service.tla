------------------------------ MODULE Service ------------------------------
(***************************************************************************)
(* How a gRPC request becomes a command of the enclave: the stubs and the  *)
(* servers generated from the service definitions (proto/src/prost), the   *)
(* handlers of modules/service, the proto API of modules/enclave-api and   *)
(* the conversions of modules/ecall-commands/src/msgs.rs.                  *)
(*                                                                         *)
(* None in a field stands for a message that was not sent and for bytes    *)
(* that do not parse: an identifier with a forbidden character, an address *)
(* that is not 20 bytes long.  Err is the status `aborted`.                *)
(***************************************************************************)
EXTENDS Commitments

CONSTANTS Unimplemented  \* grpc-status 12

-----------------------------------------------------------------------------
(* TryFrom<Msg...> for the inputs of the commands. *)

init_client_input(msg) ==
    IF None \in {msg.client_state, msg.consensus_state, msg.signer} THEN Err
    ELSE [op |-> "InitClient", client_state |-> msg.client_state,
          consensus_state |-> msg.consensus_state, signer |-> msg.signer]

update_client_input(msg) ==
    IF None \in {msg.header, msg.client_id, msg.signer} THEN Err
    ELSE [op |-> "UpdateClient", client_id |-> msg.client_id, message |-> msg.header,
          include_state |-> msg.include_state, signer |-> msg.signer]

aggregate_messages_input(msg) ==
    IF msg.signer = None THEN Err
    ELSE [op |-> "AggregateMessages", proofs |-> msg.proofs, signer |-> msg.signer]

\* A value is a list of bytes, never absent.
verify_membership_input(msg) ==
    IF None \in {msg.client_id, msg.proof_height, msg.signer} THEN Err
    ELSE [op |-> "VerifyMembership", client_id |-> msg.client_id, path |-> msg.path,
          proof_height |-> msg.proof_height, value |-> msg.value, signer |-> msg.signer]

verify_non_membership_input(msg) ==
    IF None \in {msg.client_id, msg.proof_height, msg.signer} THEN Err
    ELSE [op |-> "VerifyMembership", client_id |-> msg.client_id, path |-> msg.path,
          proof_height |-> msg.proof_height, value |-> None, signer |-> msg.signer]

query_client_input(msg) ==
    IF msg.client_id = None THEN Err ELSE [op |-> "QueryClient", client_id |-> msg.client_id]

-----------------------------------------------------------------------------
\* The trait EnclaveProtoAPI: proto_create_client and its siblings.
EnclaveProtoAPI(method, msg) ==
    CASE method = "create_client"         -> init_client_input(msg)
      [] method = "update_client"         -> update_client_input(msg)
      [] method = "aggregate_messages"    -> aggregate_messages_input(msg)
      [] method = "verify_membership"     -> verify_membership_input(msg)
      [] method = "verify_non_membership" -> verify_non_membership_input(msg)
      [] method = "client"                -> query_client_input(msg)

\* MsgServer::call: the method behind a path.
MsgRoute(path) ==
    CASE path = "CreateClient"        -> "create_client"
      [] path = "UpdateClient"        -> "update_client"
      [] path = "AggregateMessages"   -> "aggregate_messages"
      [] path = "VerifyMembership"    -> "verify_membership"
      [] path = "VerifyNonMembership" -> "verify_non_membership"
      [] OTHER                        -> "unimplemented"

\* QueryServer::call.
QueryRoute(path) == IF path = "Client" THEN "client" ELSE "unimplemented"

\* The router has one server under each name.
Route(path) ==
    CASE path[1] = "Msg"   -> MsgRoute(path[2])
      [] path[1] = "Query" -> QueryRoute(path[2])
      [] OTHER             -> "unimplemented"

\* run_service adds both servers to one router; AppService hands the message to the
\* enclave and turns an error into a status.
serve(req) ==
    IF Route(req.path) = "unimplemented" THEN Unimplemented
    ELSE EnclaveProtoAPI(Route(req.path), req.message)

-----------------------------------------------------------------------------
(* The stubs of MsgClient and QueryClient. *)

stub_create_client(msg) == [path |-> <<"Msg", "CreateClient">>, message |-> msg]

stub_update_client(msg) == [path |-> <<"Msg", "UpdateClient">>, message |-> msg]

stub_aggregate_messages(msg) == [path |-> <<"Msg", "AggregateMessages">>, message |-> msg]

stub_verify_membership(msg) == [path |-> <<"Msg", "VerifyMembership">>, message |-> msg]

stub_verify_non_membership(msg) == [path |-> <<"Msg", "VerifyNonMembership">>, message |-> msg]

stub_client(msg) == [path |-> <<"Query", "Client">>, message |-> msg]
=============================================================================
