-------------------------- MODULE LightClientContext --------------------------
(***************************************************************************)
(* What a light client sees of the enclave's store: the paths of           *)
(* modules/light-client/src/path.rs and the readers and keepers of         *)
(* context.rs.                                                             *)
(*                                                                         *)
(* A store is a function from the paths that are present to their values;  *)
(* a keeper returns what it writes, a function to put over the store.  A   *)
(* client id is the pair of a client type and a number.  An Any is a       *)
(* record with its type_url.                                               *)
(***************************************************************************)
EXTENDS Commitments

ClientTypePath(client_id) == <<"clientType", client_id>>

ClientStatePath(client_id) == <<"clientState", client_id>>

ClientConsensusStatePath(client_id, height) == <<"consensusState", client_id, height>>

NEXT_CLIENT_SEQUENCE == <<"nextClientSequence">>

get(kv, path, absent) == IF path \in DOMAIN kv THEN kv[path] ELSE absent

client_type(kv, client_id) == get(kv, ClientTypePath(client_id), Err)

client_state(kv, client_id) == get(kv, ClientStatePath(client_id), Err)

consensus_state(kv, client_id, height) ==
    get(kv, ClientConsensusStatePath(client_id, height), Err)

client_counter(kv) == get(kv, NEXT_CLIENT_SEQUENCE, 0)

\* KVStore::set: one entry.
set(path, value) == [p \in {path} |-> value]

\* What is written hides what is there.
over(writes, kv) ==
    [p \in DOMAIN writes \cup DOMAIN kv |-> IF p \in DOMAIN writes THEN writes[p] ELSE kv[p]]

store_client_type(client_id, type) == set(ClientTypePath(client_id), type)

store_any_client_state(client_id, any) == set(ClientStatePath(client_id), any)

store_any_consensus_state(client_id, height, any) ==
    set(ClientConsensusStatePath(client_id, height), any)

\* Mutant of increase_client_counter: the counter stays.
increase_client_counter_same(kv) == set(NEXT_CLIENT_SEQUENCE, client_counter(kv))

increase_client_counter(kv) == set(NEXT_CLIENT_SEQUENCE, client_counter(kv) + 1)

\* TryFrom<Any>: the error for a foreign type_url, and for a missing entry.
try_into(any, type_url) == IF any # Err /\ any.type_url = type_url THEN any ELSE Err

\* The SHA-256 digest of the two states, taken to be injective.
gen_state_id_from_any(any_client_state, any_consensus_state) ==
    <<any_client_state, any_consensus_state>>

\* UpdateStateProxyMessage of a created client.
CreateMessage(height, state_id, timestamp) ==
    [prev_height |-> None, prev_state_id |-> None,
     post_height |-> height, post_state_id |-> state_id,
     timestamp |-> timestamp, context |-> EmptyContext, emitted_states |-> 1]
=============================================================================
