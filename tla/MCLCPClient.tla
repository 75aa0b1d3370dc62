----------------------------- MODULE MCLCPClient -----------------------------
(* Small instances of LCPClient for TLC, with the conversions of Codec. *)
EXTENDS Codec

CONSTANTS z, s1, s2, a1, a2, mr1, mr2

\* A message without a context, and two headers of a chain with trusting period 3.
Contexts ==
    {EmptyContext, TrustingPeriodContext(3, 1, 2, 0), TrustingPeriodContext(3, 1, 1, 1)}

\* Reports of one key at two times, and one of another enclave's key.
Reports ==
    {[address |-> a1, mr_enclave |-> mr1, attestation_time |-> 0],
     [address |-> a1, mr_enclave |-> mr1, attestation_time |-> 3],
     [address |-> a2, mr_enclave |-> mr2, attestation_time |-> 3]}

\* Two client types, one of which is the other with a digit behind it.
ClientTypes == {<<"a">>, <<"a", "1">>}

\* Up to three bytes, the first a protobuf tag.
Encodings == {<<tag>> \o rest : tag \in 1..2, rest \in BoundedSeq(0..2, 2)}
=============================================================================
