--------------------------------- MODULE ELC ---------------------------------
(***************************************************************************)
(* The enclave light clients (ELCs): the light-client commands of          *)
(* enclave-modules/ecall-handler/src/light_client, as the threads of the   *)
(* service run them through modules/enclave-api/src/api.                   *)
(*                                                                         *)
(* A request takes its time stamp, waits for the mutex of its update key,  *)
(* runs on a snapshot in the enclave and is committed or rolled back; its  *)
(* answer leaves the service only after the commit.  That transactions     *)
(* behave this way is the subject of RocksDBStore and ExecuteCommand.      *)
(***************************************************************************)
EXTENDS Tendermint, MockClient, Service

CONSTANTS
    Thread,         \* the threads that serve requests
    Key,            \* the enclave keys of this service
    Registered,     \* the type URLs in the light client registry
    InitialState,   \* pairs of client and consensus state to create clients with
    ClientMessage,  \* the headers and misbehaviours that relayers submit
    Query,          \* the (height, path, value) whose proofs relayers submit
    LastTime,       \* the bound on the clock
    MaxCommands,    \* the bound on requests
    NoJob           \* the thread is idle

ASSUME ELCAssumption ==
    /\ LastTime \in Nat /\ MaxCommands \in Nat
    /\ Registered \subseteq {TM, MOCK}

ClientState == TmClientState \cup MockClientState

Headers == {m \in ClientMessage : m.message = "Header"}

\* The consensus states that clients are created with and headers bring.
ConsensusState == {s[2] : s \in InitialState} \cup {m.consensus : m \in Headers}

ClientId == {TM, MOCK} \X Nat

\* What the parts of a message decode to.  No header is at height zero.
ASSUME InputAssumption ==
    /\ \A s \in InitialState : s[1].type_url \in Registered => s[1] \in ClientState
    /\ \A m \in Headers : m.height \in Height \ {0} /\ m.trusted_height \in Height
    /\ \A m \in ClientMessage \ Headers : m.header1.height \in Height
    /\ \A c \in ConsensusState : c.timestamp \in Nat

\* The absent value and the error are no values.
ASSUME OptionAssumption ==
    /\ None \notin ClientId \cup {TM, MOCK} \cup (ClientState \X ConsensusState)
    /\ Err \notin ClientState \cup ConsensusState
    /\ Err \notin [client_state : ClientState, consensus_state : ConsensusState]
    /\ Err \notin [op : {"QueryClient"}, client_id : ClientId]

VARIABLES
    store,     \* the committed store
    job,       \* the request each thread works on
    signed,    \* the commitment proofs that have left the service
    verified,  \* history: the state transitions that light clients verified
    commands,  \* the number of requests so far
    now        \* the host's clock

evars == <<store, job, signed, verified, commands, now>>

EInit ==
    /\ store = <<>>
    /\ job = [t \in Thread |-> NoJob]
    /\ signed = {}
    /\ verified = {}
    /\ commands = 0
    /\ now \in 0..LastTime

ClientIds(kv) == {path[2] : path \in {p \in DOMAIN kv : p[1] = "clientState"}}

-----------------------------------------------------------------------------
\* MapLightClientRegistry::get_light_client.
get_light_client(type_url) == IF type_url \in Registered THEN type_url ELSE None

get_light_client_by_client_id(kv, client_id) ==
    IF client_state(kv, client_id) = Err THEN None
    ELSE get_light_client(client_state(kv, client_id).type_url)

create_client(lc, any_client_state, any_consensus_state) ==
    CASE lc = TM   -> tm_create_client(any_client_state, any_consensus_state)
      [] lc = MOCK -> mock_create_client(any_client_state, any_consensus_state)
      [] OTHER     -> Err

lc_update_client(lc, kv, client_id, m, time) ==
    CASE lc = TM   -> tm_update_client(kv, client_id, m, time)
      [] lc = MOCK -> mock_update_client(kv, client_id, m)
      [] OTHER     -> Err

lc_verify_membership(lc, kv, client_id, path, value, proof_height) ==
    CASE lc = TM   -> tm_verify_membership(kv, client_id, path, value, proof_height)
      [] lc = MOCK -> mock_verify_membership(kv, client_id, path, value, proof_height)
      [] OTHER     -> Err

-----------------------------------------------------------------------------
\* prove_commitment signs the bytes of the message with the key that was loaded for
\* the signer.
prove_commitment(signer, type, message) ==
    [type |-> type, message |-> message, signer |-> signer, signed_by |-> signer]

\* CommitmentProof::new_with_no_signature.
NoSignature == None

gen_client_id(type, counter) == <<type, counter>>

\* The result of a handler: what it writes, the proof in its response and, for a
\* verified update, the transition.
Done(writes, proof, edges) == [writes |-> writes, proof |-> proof, edges |-> edges]

init_client(kv, c, time) ==
    LET lc        == get_light_client(c.client_state.type_url)
        res       == create_client(lc, c.client_state, c.consensus_state)
        client_id == gen_client_id(lc, client_counter(kv))
    IN  IF res = Err THEN Err
        ELSE Done(over(store_client_type(client_id, lc),
                  over(store_any_client_state(client_id, c.client_state),
                  over(store_any_consensus_state(client_id, res.height, c.consensus_state),
                       increase_client_counter(kv)))),
                  NoSignature, {})

\* include_state adds the new client state to a message that carries none.
with_state(m, include_state) ==
    IF include_state /\ m.emitted_states = 0 THEN [m EXCEPT !.emitted_states = 1] ELSE m

Transition(m) ==
    [from |-> <<m.prev_height, m.prev_state_id>>, to |-> <<m.post_height, m.post_state_id>>,
     context |-> m.context]

\* Mutant of update_writes: the new consensus state is stored at the height it was
\* verified from.
update_writes_prev(client_id, data) ==
    over(store_any_client_state(client_id, data.client_state),
         store_any_consensus_state(client_id, data.message.prev_height, data.consensus_state))

update_writes(client_id, data) ==
    over(store_any_client_state(client_id, data.client_state),
         store_any_consensus_state(client_id, data.height, data.consensus_state))

update_client(kv, c, time) ==
    LET lc   == get_light_client_by_client_id(kv, c.client_id)
        data == lc_update_client(lc, kv, c.client_id, c.message, time)
    IN  IF data = Err THEN Err
        ELSE IF data.result = "Misbehaviour"
        THEN Done(store_any_client_state(c.client_id, data.client_state),
                  prove_commitment(c.signer, "Misbehaviour", data.message), {})
        ELSE LET m == with_state(data.message, c.include_state)
             IN  Done(update_writes(c.client_id, data),
                      IF data.prove THEN prove_commitment(c.signer, "UpdateState", ethabi_encode(m))
                      ELSE NoSignature,
                      {Transition(m)})

\* verify_message and the context's validation of one message to aggregate.
may_aggregate(p, signer, time) ==
    /\ p.type = "UpdateState"
    /\ p.signed_by = signer
    /\ context_validate(p.message.context, time)

elc_aggregate_messages(kv, c, time) ==
    LET m == aggregate_messages([i \in 1..Len(c.proofs) |-> ethabi_decode(c.proofs[i].message)])
    IN  IF \/ Len(c.proofs) < 2
           \/ \E i \in 1..Len(c.proofs) : ~may_aggregate(c.proofs[i], c.signer, time)
           \/ m = Err
        THEN Err
        ELSE Done(<<>>, prove_commitment(c.signer, "UpdateState", ethabi_encode(m)), {})

\* verify_membership and, with value None, verify_non_membership.
verify_membership(kv, c, time) ==
    LET lc == get_light_client_by_client_id(kv, c.client_id)
        m  == lc_verify_membership(lc, kv, c.client_id, c.path, c.value, c.proof_height)
    IN  IF m = Err THEN Err
        ELSE Done(<<>>, prove_commitment(c.signer, "VerifyMembership", m), {})

\* query_client: the client state and the consensus state at its latest height.
query_client(kv, client_id) ==
    LET lc     == get_light_client_by_client_id(kv, client_id)
        latest == client_state(kv, client_id).latest_height
    IN  IF lc = None THEN Err
        ELSE IF consensus_state(kv, client_id, latest) = Err THEN Err
        ELSE [client_state |-> client_state(kv, client_id),
              consensus_state |-> consensus_state(kv, client_id, latest)]

\* The gRPC query of a client.
grpc_client(kv, req) == IF serve(req) = Err THEN Err ELSE query_client(kv, serve(req).client_id)

\* light_client::dispatch.
dispatch(kv, c, time) ==
    CASE c.op = "InitClient"        -> init_client(kv, c, time)
      [] c.op = "UpdateClient"      -> update_client(kv, c, time)
      [] c.op = "AggregateMessages" -> elc_aggregate_messages(kv, c, time)
      [] c.op = "VerifyMembership"  -> verify_membership(kv, c, time)

-----------------------------------------------------------------------------
(* What relayers send.  A field is there or, once for each message, left out. *)

MsgCreateClient ==
    {[client_state |-> s[1], consensus_state |-> s[2], signer |-> k] :
        s \in InitialState \cup {<<None, None>>}, k \in Key \cup {None}}

MsgUpdateClient ==
    {[client_id |-> id, header |-> m, include_state |-> b, signer |-> k] :
        id \in ClientIds(store) \cup {None}, m \in ClientMessage, b \in BOOLEAN, k \in Key}

\* Two signed messages, in any order.
MsgAggregateMessages ==
    {[proofs |-> <<p, q>>, signer |-> k] :
        p, q \in {r \in signed : r.type = "UpdateState"}, k \in Key}

MsgVerifyMembership ==
    {[client_id |-> id, proof_height |-> q.height, path |-> q.path, value |-> q.value,
      signer |-> k] : id \in ClientIds(store), q \in Query, k \in Key}

Request ==
    {stub_create_client(m) : m \in MsgCreateClient}
    \cup {stub_update_client(m) : m \in MsgUpdateClient}
    \cup {stub_aggregate_messages(m) : m \in MsgAggregateMessages}
    \cup {stub_verify_membership(m) : m \in {q \in MsgVerifyMembership : q.value # None}}
    \cup {stub_verify_non_membership(m) : m \in {q \in MsgVerifyMembership : q.value = None}}

\* The commands that requests become; a request that the service aborts changes
\* nothing.
Input == {serve(req) : req \in Request} \ {Err, Unimplemented}

\* The update key that EnclaveCommandAPI gives to execute_command.
update_key(c) ==
    CASE c.op = "InitClient"   -> <<c.client_state.type_url>>
      [] c.op = "UpdateClient" -> c.client_id
      [] OTHER                 -> None

\* A request becomes a command: the conversion reads the clock.
request(t) ==
    /\ job[t] = NoJob
    /\ commands < MaxCommands
    /\ \E c \in Input :
           job' = [job EXCEPT ![t] = [at |-> "waiting", command |-> c, time |-> now]]
    /\ commands' = commands + 1
    /\ UNCHANGED <<store, signed, verified, now>>

Running(t) == job[t] # NoJob /\ job[t].at = "executed"

\* Another transaction under the same update key has not ended.
Blocked(t) ==
    /\ update_key(job[t].command) # None
    /\ \E u \in Thread : Running(u) /\ update_key(job[u].command) = update_key(job[t].command)

\* Another transaction has written one of the paths: RocksDB refuses the write.
Refused(t, res) ==
    res # Err /\ \E u \in Thread \ {t} :
        /\ Running(u) /\ job[u].res # Err
        /\ DOMAIN job[u].res.writes \cap DOMAIN res.writes # {}

\* execute_command up to the return of the enclave.
execute(t) ==
    /\ job[t] # NoJob /\ job[t].at = "waiting"
    /\ ~Blocked(t)
    /\ LET res == dispatch(store, job[t].command, job[t].time)
       IN  job' = [job EXCEPT ![t] =
               [at |-> "executed", command |-> job[t].command,
                res |-> IF Refused(t, res) THEN Err ELSE res]]
    /\ UNCHANGED <<store, signed, verified, commands, now>>

\* The response hands over the message, the signer and the signature; an empty
\* signature proves nothing.
response(res) == {res.proof} \ {NoSignature}

\* commit_tx, and the response goes to the caller.
commit_tx(t) ==
    /\ Running(t) /\ job[t].res # Err
    /\ store' = over(job[t].res.writes, store)
    /\ signed' = signed \cup response(job[t].res)
    /\ verified' = verified \cup job[t].res.edges
    /\ job' = [job EXCEPT ![t] = NoJob]
    /\ UNCHANGED <<commands, now>>

\* rollback_tx, and the error goes to the caller.
rollback_tx(t) ==
    /\ Running(t) /\ job[t].res = Err
    /\ job' = [job EXCEPT ![t] = NoJob]
    /\ UNCHANGED <<store, signed, verified, commands, now>>

\* The service is killed and started again.
crash ==
    /\ \E t \in Thread : job[t] # NoJob
    /\ job' = [t \in Thread |-> NoJob]
    /\ UNCHANGED <<store, signed, verified, commands, now>>

ENext ==
    \/ \E t \in Thread :
          \/ request(t)
          \/ execute(t)
          \/ commit_tx(t)
          \/ rollback_tx(t)
    \/ crash

ESpec == EInit /\ [][ENext]_evars

-----------------------------------------------------------------------------
\* init_client never gives a new client the id of an existing one, although client
\* types are created under different update keys and share one counter.
FreshClientIds ==
    \A t \in Thread : Running(t) /\ job[t].command.op = "InitClient" /\ job[t].res # Err =>
        \A id \in ClientIds(job[t].res.writes) : client_state(store, id) = Err

\* The query of a client never fails for a client that exists: the client state and the
\* consensus states stay together through updates in any order, refused writes and
\* crashes.
ClientsQueryable ==
    \A id \in ClientIds(store) : grpc_client(store, stub_client([client_id |-> id])) # Err

\* The id of a client's state at a height, as the client would sign it now.
StateIdAt(id, h) ==
    LET client    == client_state(store, id)
        consensus == consensus_state(store, id, h)
    IN  IF id[1] = TM THEN gen_state_id(client, consensus)
        ELSE mock_gen_state_id([client EXCEPT !.latest_height = h, !.frozen_height = 0], consensus)

\* The states a proof speaks of.
Mentions(p) ==
    CASE p.type = "UpdateState" ->
            {<<p.message.prev_height, p.message.prev_state_id>>,
             <<p.message.post_height, p.message.post_state_id>>}
      [] p.type = "Misbehaviour" -> p.message.prev_states
      [] OTHER -> {<<p.message.height, p.message.state_id>>}

\* Whatever the enclave signed about a height, when the state was new, when it was
\* the trusted one or in a proof of membership, names the one state that a client's
\* committed store has at that height: canonicalize_state makes the id independent
\* of the client's progress, and nothing is released before the commit.
SignedStatesAreStored ==
    \A p \in signed : \A s \in Mentions(p) :
        \E id \in ClientIds(store) :
            /\ consensus_state(store, id, s[1]) # Err
            /\ StateIdAt(id, s[1]) = s[2]

\* Misbehaviour is final: once a frozen client state is committed, no update that
\* ran next to it writes it back.
FreezeIsFinal ==
    [][ \A id \in ClientIds(store) : client_state(store, id).frozen_height # 0 =>
          client_state(store', id) = client_state(store, id) ]_evars
=============================================================================
