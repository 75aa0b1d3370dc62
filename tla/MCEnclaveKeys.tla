--------------------------- MODULE MCEnclaveKeys ---------------------------
(* Small instances of EnclaveKeys for TLC. *)
EXTENDS EnclaveKeys, TLC

CONSTANTS p1, p2, m1, m2, a1, a2

\* An enclave and its next version.
TwoVersions == [p \in {p1, p2} |-> IF p = p1 THEN m1 ELSE m2]

OneVersion == [p \in {p1, p2} |-> m1]

\* The SDK seals to the signer and the security version: the next version unseals what
\* the last one sealed, not the other way round.
NextVersionUnseals == {<<m1, m1>>, <<m1, m2>>, <<m2, m2>>}

OwnCert == [chain |-> "other", not_before |-> 0, not_after |-> 99]

OperatorCerts == {OwnCert}

KeySymmetry == Permutations({a1, a2})

\* verify_report rounds the time 25 to second 12 and 26 to second 14: a certificate that
\* runs out between them, one of the second between, one that is valid from then on, and
\* one of another chain.
Certs == {[chain |-> "intel", not_before |-> 0, not_after |-> 12],
          [chain |-> "intel", not_before |-> 13, not_after |-> 13],
          [chain |-> "intel", not_before |-> 14, not_after |-> 99],
          OwnCert}

-----------------------------------------------------------------------------
(* The answers of the runs: one part out of order, or a quote and another part. *)

\* Every part in order, with certificate c.
Good(c) ==
    [spid |-> "hex", ias_key |-> "32", target_info |-> QE, network |-> "up",
     sigrl |-> "no_length", quote |-> None, qe_identity |-> QE, qe_mac |-> "valid",
     ias_code |-> 200, ias_headers |-> IASHeaders, signature |-> "valid", cert |-> c,
     lag |-> 0, version |-> 4, status |-> "OK", platform_info_blob |-> None,
     update_status |-> 0, validate_cert |-> "yes"]

\* One part of g out of order: what the operator gives, what the quoting enclave
\* answers, the connection to the service, its responses, its report.
OperatorFaults(g) ==
    {[g EXCEPT !.spid = x] : x \in {"short", "not_hex"}}
        \cup {[g EXCEPT !.ias_key = "short"], [g EXCEPT !.signature = "invalid"],
              [g EXCEPT !.signature = "invalid", !.validate_cert = "no"]}

QuoteFaults(g) ==
    {[g EXCEPT !.target_info = Err], [g EXCEPT !.qe_identity.flags = 1],
     [g EXCEPT !.qe_mac = "invalid"]}
        \cup {[g EXCEPT !.quote = x] :
                  x \in {Err} \cup {EarlierQuote(mr, a) : mr \in Mrenclave, a \in Address}}

ServiceFaults(g) ==
    {[g EXCEPT !.network = x] : x \in {"down", "cut"}}
        \cup {[g EXCEPT !.sigrl = x] : x \in {"base64", "not_base64"}}
        \cup {[g EXCEPT !.ias_code = x, !.ias_headers = {}] : x \in {503, None}}
        \cup {[g EXCEPT !.ias_headers = @ \ {x}] : x \in IASHeaders}

ReportFaults(g) ==
    {[g EXCEPT !.lag = Day], [g EXCEPT !.version = 3],
     [g EXCEPT !.status = "SIGRL_VERSION_MISMATCH"]}
        \cup {[g EXCEPT !.status = "GROUP_OUT_OF_DATE", !.platform_info_blob = b] :
                  b \in {"blob", "short"}}

AtMostOne(g) ==
    {g} \cup OperatorFaults(g) \cup QuoteFaults(g) \cup ServiceFaults(g) \cup ReportFaults(g)

\* Also the answer to an earlier request with another part out of order.
AnswersLike(g) ==
    AtMostOne(g) \cup UNION {AtMostOne(x) : x \in {y \in QuoteFaults(g) : y.quote \notin {None, Err}}}

IASAnswersMC == UNION {AnswersLike(Good(c)) : c \in Cert}

OperatorAnswersMC == UNION {AnswersLike(Good(c)) : c \in OperatorCert}
=============================================================================
