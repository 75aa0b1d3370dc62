-------------------------------- MODULE Codec --------------------------------
(***************************************************************************)
(* The names, digests and encodings that the other modules abstract from:  *)
(* client ids and store paths as text (modules/types, modules/light-client *)
(* path.rs), the bytes a state id is the digest of (commitments/state.rs), *)
(* and the headered ABI form in which a proxy message is signed in the     *)
(* enclave and read, and encoded again, by the LCP client.                 *)
(*                                                                         *)
(* Everything here is a function of its arguments; the properties at the   *)
(* end compare the functions over all arguments within the bounds.  Text   *)
(* is a sequence of characters over a small alphabet; the widths of u64    *)
(* and u128 are constants.                                                 *)
(***************************************************************************)
EXTENDS LCPClient, SequencesExt

CONSTANTS
    MaxU64,      \* u64::MAX
    U128,        \* 2^128
    MinIdLen,    \* the shortest client identifier (9)
    MaxIdLen,    \* the longest client identifier (64)
    ClientType,  \* the client types, as text
    StateBytes,  \* the protobuf encodings of client and consensus states
    Panic        \* a failed unwrap or assertion

ASSUME CodecAssumption ==
    /\ MaxU64 \in Nat
    /\ U128 \in Nat /\ MaxTime < U128 /\ (MaxU64 + 1) * NanosPerSec <= U128

-----------------------------------------------------------------------------
(* Numbers, heights, client ids and paths as text.                         *)

Digit == <<"0", "1", "2", "3", "4", "5", "6", "7", "8", "9">>

to_string[n \in Nat] ==
    IF n < 10 THEN <<Digit[n + 1]>> ELSE to_string[n \div 10] \o <<Digit[(n % 10) + 1]>>

\* str::parse::<u64>: digits, perhaps after a plus sign, that fit.
parse(s) ==
    LET digits == IF Len(s) > 1 /\ s[1] = "+" THEN Tail(s) ELSE s
        value(n, c) == n * 10 + (CHOOSE d \in 0..9 : Digit[d + 1] = c)
    IN  IF digits = <<>> \/ ~(ToSet(digits) \subseteq ToSet(Digit)) THEN Err
        ELSE LET n == FoldLeft(value, 0, digits) IN IF n > MaxU64 THEN Err ELSE n

\* str::split.
split(s, separator) ==
    FoldLeft(LAMBDA parts, c :
                 IF c = separator THEN Append(parts, <<>>)
                 ELSE [parts EXCEPT ![Len(parts)] = Append(@, c)],
             <<<<>>>>, s)

HeightOf(number, height) == [revision_number |-> number, revision_height |-> height]

zero_height == HeightOf(0, 0)

height_is_zero(h) == h = zero_height

height_to_string(h) == to_string[h.revision_number] \o <<"-">> \o to_string[h.revision_height]

\* TryFrom<&str> for Height: text without a dash has no second part to index.
height_try_from(s) ==
    LET part == split(s, "-")
        number == parse(part[1])
    IN  CASE number = Err -> Err
          [] number # Err /\ Len(part) < 2 -> Panic
          [] OTHER -> LET height == parse(part[2])
                      IN  IF height = Err THEN Err ELSE HeightOf(number, height)

\* The letters the instances use, and VALID_SPECIAL_CHARS.
ValidChar == {"a", "b"} \cup ToSet(Digit) \cup {".", "_", "+", "-", "#", "[", "]", "<", ">"}

validate_identifier(id, min, max) ==
    /\ id # <<>>
    /\ "/" \notin ToSet(id)
    /\ min <= Len(id) /\ Len(id) <= max
    /\ ToSet(id) \subseteq ValidChar

\* ClientId::from_str.
client_id_from_str(s) == IF validate_identifier(s, MinIdLen, MaxIdLen) THEN s ELSE Err

client_id_new(type, counter) == client_id_from_str(type \o <<"-">> \o to_string[counter])

client_type_path(id) == <<"clients", "/">> \o id \o <<"/", "clientType">>

client_state_path(id) == <<"clients", "/">> \o id \o <<"/", "clientState">>

client_consensus_state_path(id, h) ==
    <<"clients", "/">> \o id \o <<"/", "consensusStates", "/">>
        \o to_string[h.revision_number] \o <<"-">> \o to_string[h.revision_height]

-----------------------------------------------------------------------------
(* State ids.                                                              *)

\* Mutant of state_id_preimage: the encodings are simply joined.
state_id_preimage_joined(client_bytes, consensus_bytes) == client_bytes \o consensus_bytes

\* gen_state_id_from_any: the digest's input.  `encode(&mut buf)` appends the client
\* state to a buffer of zeros, and the consensus state overwrites the buffer from
\* the length of the client state on.
state_id_preimage(client_bytes, consensus_bytes) ==
    LET zeros == [i \in 1..(Len(client_bytes) + Len(consensus_bytes)) |-> 0]
        buf   == zeros \o client_bytes
        from  == Len(client_bytes)
    IN  [i \in 1..Len(buf) |->
            IF from < i /\ i <= from + Len(consensus_bytes) THEN consensus_bytes[i - from]
            ELSE buf[i]]

-----------------------------------------------------------------------------
(* The ABI forms.  The words and dynamic bytes of the ABI are records; what *)
(* prost does to an Any is the pair with its tag.                           *)

any_encode(any) == <<"Any", any>>

any_decode(bytes) == bytes[2]

\* Two u128 in one bytes32.
pack(high, low) == high * U128 + low

high_half(word) == word \div U128

low_half(word) == word % U128

from_unix_timestamp_nanos(n) == IF n > MaxTime THEN Err ELSE n

nanos_to_duration(n) == IF n \div NanosPerSec > MaxU64 THEN Err ELSE n

trusting_period_encode(c) ==
    <<pack(c.untrusted_header_timestamp, c.trusted_state_timestamp),
      pack(c.trusting_period, c.clock_drift)>>

\* Mutant of trusting_period_decode: the two timestamps change places.
trusting_period_decode_swapped(words) ==
    TrustingPeriodContext(high_half(words[2]), low_half(words[2]),
                          low_half(words[1]), high_half(words[1]))

trusting_period_decode(words) ==
    LET period  == nanos_to_duration(high_half(words[2]))
        drift   == nanos_to_duration(low_half(words[2]))
        header  == from_unix_timestamp_nanos(high_half(words[1]))
        trusted == from_unix_timestamp_nanos(low_half(words[1]))
    IN  IF Err \in {period, drift, header, trusted} THEN Err
        ELSE TrustingPeriodContext(period, drift, header, trusted)

\* ValidationContext::header: the type, and 30 bytes of zeros.
context_header(c) == IF c.type = "Empty" THEN 0 ELSE 1

context_encode(c) ==
    [header        |-> context_header(c),
     context_bytes |-> IF c.type = "Empty" THEN <<>> ELSE trusting_period_encode(c)]

context_decode(bytes) ==
    CASE bytes.header = 0 -> IF bytes.context_bytes = <<>> THEN EmptyContext ELSE Panic
      [] bytes.header = 1 -> trusting_period_decode(bytes.context_bytes)
      [] OTHER -> Err

emitted_state_encode(state) == [height |-> state[1], state |-> any_encode(state[2])]

emitted_state_decode(bytes) == <<bytes.height, any_decode(bytes.state)>>

\* The whole of what Commitments!ethabi_encode abstracts.
update_state_encode(m) ==
    [prev_height    |-> OrDefault(m.prev_height, zero_height),
     prev_state_id  |-> OrDefault(m.prev_state_id, ZeroID),
     post_height    |-> m.post_height,
     post_state_id  |-> m.post_state_id,
     timestamp      |-> m.timestamp,
     context        |-> context_encode(m.context),
     emitted_states |-> [i \in DOMAIN m.emitted_states |->
                            emitted_state_encode(m.emitted_states[i])]]

update_state_decode(bytes) ==
    LET timestamp == from_unix_timestamp_nanos(bytes.timestamp)
        context   == context_decode(bytes.context)
    IN  CASE timestamp = Err -> Err
          [] timestamp # Err /\ context \in {Err, Panic} -> context
          [] OTHER ->
             [kind           |-> "UpdateState",
              prev_height    |-> OrNone(bytes.prev_height, zero_height),
              prev_state_id  |-> OrNone(bytes.prev_state_id, ZeroID),
              post_height    |-> bytes.post_height,
              post_state_id  |-> bytes.post_state_id,
              timestamp      |-> timestamp,
              context        |-> context,
              emitted_states |-> [i \in DOMAIN bytes.emitted_states |->
                                     emitted_state_decode(bytes.emitted_states[i])]]

\* VerifyMembershipProxyMessage: the value is a digest, none for a non-membership.
verify_membership_encode(m) ==
    [prefix |-> m.prefix, path |-> m.path, value |-> OrDefault(m.value, ZeroID),
     height |-> m.height, state_id |-> m.state_id]

verify_membership_decode(bytes) ==
    [kind |-> "VerifyMembership",
     prefix |-> bytes.prefix, path |-> bytes.path, value |-> OrNone(bytes.value, ZeroID),
     height |-> bytes.height, state_id |-> bytes.state_id]

verify_membership_validate(m) ==
    m.path # <<>> /\ ~height_is_zero(m.height) /\ m.state_id # ZeroID

misbehaviour_encode(m) ==
    [prev_states    |-> m.prev_states,
     context        |-> context_encode(m.context),
     client_message |-> any_encode(m.client_message)]

misbehaviour_decode(bytes) ==
    LET context == context_decode(bytes.context)
    IN  IF context \in {Err, Panic} THEN context
        ELSE [kind           |-> "Misbehaviour",
              prev_states    |-> bytes.prev_states,
              context        |-> context,
              client_message |-> any_decode(bytes.client_message)]

misbehaviour_validate(m) == m.prev_states # <<>>

-----------------------------------------------------------------------------
(* Proxy messages, their proofs, and the messages to the LCP client.       *)

message_type(m) ==
    CASE m.kind = "UpdateState"      -> 1
      [] m.kind = "VerifyMembership" -> 2
      [] m.kind = "Misbehaviour"     -> 3

\* ProxyMessage::header: MESSAGE_SCHEMA_VERSION, the type, and 28 bytes of zeros.
message_header(m) == [version |-> 1, type |-> message_type(m)]

proxy_message_validate(m) ==
    CASE m.kind = "UpdateState"      -> message_validate(m)
      [] m.kind = "VerifyMembership" -> verify_membership_validate(m)
      [] m.kind = "Misbehaviour"     -> misbehaviour_validate(m)

to_bytes(m) ==
    [header  |-> message_header(m),
     message |-> CASE m.kind = "UpdateState"      -> update_state_encode(m)
                   [] m.kind = "VerifyMembership" -> verify_membership_encode(m)
                   [] m.kind = "Misbehaviour"     -> misbehaviour_encode(m)]

from_bytes(bytes) ==
    CASE bytes.header.version # 1 -> Err
      [] bytes.header = [version |-> 1, type |-> 1] -> update_state_decode(bytes.message)
      [] bytes.header = [version |-> 1, type |-> 2] -> verify_membership_decode(bytes.message)
      [] bytes.header = [version |-> 1, type |-> 3] -> misbehaviour_decode(bytes.message)
      [] OTHER -> Err

\* EnclaveKey::sign, a recoverable signature: it names the key for the signed bytes
\* and for no others.
sign(key, bytes) == [key |-> key, of |-> bytes]

verify_signature_address(bytes, signature) ==
    IF signature.of = bytes THEN signature.key ELSE Err

prove_commitment(key, m) ==
    IF proxy_message_validate(m)
    THEN [message |-> to_bytes(m), signer |-> key, signature |-> sign(key, to_bytes(m))]
    ELSE Err

LCP_REGISTER_ENCLAVE_KEY_MESSAGE_TYPE_URL == "RegisterEnclaveKeyMessage"

LCP_UPDATE_CLIENT_MESSAGE_TYPE_URL == "UpdateClientMessage"

\* From<ClientMessage> for Any; the proxy message is encoded again.
client_message_into(msg) ==
    IF msg.kind = "UpdateClient"
    THEN [type_url |-> LCP_UPDATE_CLIENT_MESSAGE_TYPE_URL,
          value    |-> [proxy_message |-> to_bytes(msg.proxy_message),
                        signer |-> msg.signer, signature |-> msg.signature]]
    ELSE [type_url |-> LCP_REGISTER_ENCLAVE_KEY_MESSAGE_TYPE_URL, value |-> msg.report]

update_client_message_try_from(raw) ==
    LET m == from_bytes(raw.proxy_message)
    IN  IF m \in {Err, Panic} THEN m
        ELSE [kind |-> "UpdateClient", proxy_message |-> m,
              signer |-> raw.signer, signature |-> raw.signature]

\* TryFrom<Any> for ClientMessage.
client_message_try_from(any) ==
    CASE any.type_url = LCP_UPDATE_CLIENT_MESSAGE_TYPE_URL ->
            update_client_message_try_from(any.value)
      [] any.type_url = LCP_REGISTER_ENCLAVE_KEY_MESSAGE_TYPE_URL ->
            [kind |-> "RegisterEnclaveKey", report |-> any.value]
      [] OTHER -> Err

\* What update_state and submit_misbehaviour recover: the signer of the message as
\* the client encodes it again.
recovered_signer(msg) == verify_signature_address(to_bytes(msg.proxy_message), msg.signature)

-----------------------------------------------------------------------------
(* The arguments within the bounds.                                        *)

Num == 0..MaxU64

\* Heights whose two numbers can be confused in text.
HeightText == {HeightOf(n, h) : n, h \in {0, 1, 2, 11, 12, 21}}

ShortHeight == {HeightOf(n, h) : n, h \in 0..1}

Nanos == {0, 1, MaxTime}

MessageContext ==
    {EmptyContext} \cup {TrustingPeriodContext(p, d, h, t) :
        p, d \in {0, NanosPerSec * (MaxU64 + 1) - 1}, h, t \in Nanos}

EmittedStates == {<<>>, <<<<HeightOf(0, 1), "state">>>>}

ProxyMessages ==
    [kind : {"UpdateState"}, prev_height : ShortHeight \cup {None},
     prev_state_id : StateID \cup {None}, post_height : ShortHeight,
     post_state_id : StateID \ {ZeroID}, timestamp : Nanos, context : MessageContext,
     emitted_states : EmittedStates]
    \cup
    [kind : {"VerifyMembership"}, prefix : {"ibc"}, path : {<<>>, <<"p">>},
     value : StateID \cup {None}, height : ShortHeight, state_id : StateID]
    \cup
    [kind : {"Misbehaviour"}, prev_states : {<<>>, <<<<HeightOf(0, 1), ZeroID>>>>},
     context : MessageContext, client_message : {"misbehaviour"}]

\* Some(zero) is written like None.
HasZeroOption(m) ==
    CASE m.kind = "UpdateState" -> m.prev_height = zero_height \/ m.prev_state_id = ZeroID
      [] m.kind = "VerifyMembership" -> m.value = ZeroID
      [] OTHER -> FALSE

\* The entries of the store, by client type, counter and height.
Clients == ClientType \X Num

Entries ==
    {<<"type", c>> : c \in Clients} \cup {<<"state", c>> : c \in Clients}
        \cup {<<"consensus", c, h>> : c \in Clients, h \in HeightText}

PathOf(e) ==
    LET id == client_id_new(e[2][1], e[2][2])
    IN  CASE e[1] = "type"      -> client_type_path(id)
          [] e[1] = "state"     -> client_state_path(id)
          [] e[1] = "consensus" -> client_consensus_state_path(id, e[3])

Injective(Op(_), S) == Cardinality({Op(x) : x \in S}) = Cardinality(S)

-----------------------------------------------------------------------------
\* The first two properties are about functions of the code, not about its state: they
\* are evaluated before anything has reached the client.
NothingReceived == now = 0 /\ accepted = {} /\ attested = {}

\* Names keep things apart, as the models that use tuples for them take it.  Every
\* entry of a client has a path of its own: the ids that ClientId::new makes are
\* accepted, and neither the counter, nor the revision, nor the height can run into
\* what stands before it; the height in a path reads back.  And gen_state_id_from_any
\* digests different bytes for different pairs of states, in spite of the zeros it
\* leaves in front: no encoding of a state starts with zero, as a protobuf tag is not
\* zero, so the zeros tell where the client state begins.
NamesDistinct ==
    NothingReceived =>
       /\ \A c \in Clients : client_id_new(c[1], c[2]) # Err
       /\ Injective(PathOf, Entries)
       /\ \A h \in HeightText : height_try_from(height_to_string(h)) = h
       /\ Injective(LAMBDA pair : state_id_preimage(pair[1], pair[2]), StateBytes \X StateBytes)

\* Whatever prove_commitment signs, the host can decode for its log after the commit
\* (proto.rs), and the LCP client reads as the same message: although the client
\* recovers the signer from the message it has decoded and encoded again, it finds
\* the enclave's.  Only Some(zero) turns into None on the way, and no membership
\* message is read without a path, a height or a state.
SignedIsAccepted ==
    NothingReceived => \A m \in ProxyMessages : \A key \in Address :
       LET proof == prove_commitment(key, m) IN
       proof # Err =>
          LET d   == from_bytes(proof.message)
              msg == [kind |-> "UpdateClient", proxy_message |-> d,
                      signer |-> proof.signer, signature |-> proof.signature]
              got == client_message_try_from(client_message_into(msg))
          IN  /\ d \notin {Err, Panic}
              /\ got = msg
              /\ recovered_signer(got) = key
              /\ HasZeroOption(m) \/ d = m
              /\ d.kind = "VerifyMembership" => verify_membership_validate(d)
=============================================================================
