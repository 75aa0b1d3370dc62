------------------------- MODULE RemoteAttestation -------------------------
(***************************************************************************)
(* Remote attestation of an enclave key: what the enclave computes from    *)
(* the answers of the host, of the quoting enclave and of Intel's          *)
(* attestation service (enclave-modules/remote-attestation,                *)
(* modules/attestation-report, modules/ocall-handler).                     *)
(*                                                                         *)
(* One attestation is a function of the answers it gets, a record of       *)
(* Answer(certs) in which any parts may be out of order.  A result is a    *)
(* value, Err where the code returns an error, or Panic where it unwraps,  *)
(* asserts or reaches an `unreachable!`.                                   *)
(* Byte strings are abstract: SHA-256 of a nonce and a quote is the pair,  *)
(* a signature is valid or not, and a time is a number of ticks.           *)
(***************************************************************************)
EXTENDS Integers, Sequences, FiniteSets

CONSTANTS
    Mrenclave,    \* measurements of enclave binaries
    Address,      \* addresses of enclave keys
    None, Err, Panic,
    TicksPerSec,  \* clock ticks in a second
    Day,          \* the 24 hours of validate_quote_status, in ticks
    Cert,         \* report signing certificates: [chain, not_before, not_after]
    OperatorCert, \* the certificates a simulation is signed with
    IASAnswers, OperatorAnswers  \* the answers that attestations may get

ASSUME AttestationAssumption ==
    /\ TicksPerSec \in Nat \ {0}
    /\ Day \in Nat
    /\ \A c \in Cert : c.not_before \in Nat /\ c.not_after \in Nat

\* `?` and `unwrap`: the rest of a function runs on a value only.
Bind(r, F(_)) == IF r \in {Err, Panic} THEN r ELSE F(r)

secs(t) == t \div TicksPerSec

-----------------------------------------------------------------------------
(* Attestation verification reports and quotes. *)

AdvisoryStatus == {"GROUP_OUT_OF_DATE", "GROUP_REVOKED", "SW_HARDENING_NEEDED",
                   "CONFIGURATION_NEEDED", "CONFIGURATION_AND_SW_HARDENING_NEEDED"}

\* A quote, its verification report, the report as it is stored with its signature, and
\* the quote as it is parsed from a report.
RawQuote == [mrenclave : Mrenclave, report_data : Address \X {"zeros"}]

Status == {"OK", "SIGRL_VERSION_MISMATCH"} \cup AdvisoryStatus

AVR ==
    [timestamp : Int, version : {3, 4}, status : Status,
     platform_info_blob : {None, "blob", "short"}, quote : RawQuote]

Report ==
    [avr : AVR, signature : {"valid", "invalid", "empty"}, signing_cert : Cert \cup OperatorCert]

Quote == [raw : RawQuote, status : Status, attestation_time : Int]

\* None, an error and a panic are none of these values.
ASSUME ResultAssumption ==
    \A x \in {None, Err, Panic} :
        x \notin Int /\ x \notin AVR /\ x \notin Report /\ x \notin Quote

\* 20 bytes of address, then zeros.
as_report_data(address) == <<address, "zeros">>

\* `timestamp` is a time, or None for text on which the unwrap of
\* parse_from_str panics.
attestation_time(avr) == IF avr.timestamp = None THEN Panic ELSE avr.timestamp

parse_quote(avr) ==
    IF avr.version # 4 THEN Err
    ELSE Bind(attestation_time(avr), LAMBDA t :
             [raw |-> avr.quote, status |-> avr.status, attestation_time |-> t])

get_enclave_key_address(quote) == quote.raw.report_data[1]

get_mrenclave(quote) == quote.raw.mrenclave

\* The report's JSON: an empty body is not JSON.
get_avr(report) == IF report.avr = None THEN Err ELSE report.avr

to_canonical_json(avr) == IF avr.version # 4 THEN Err ELSE avr

\* The whole seconds certificates are checked at: a second is added when the
\* time has no fraction, and a fraction is cut off.
webpki_now(t) == IF t % TicksPerSec > 0 THEN secs(t) ELSE secs(t) + 1

\* Mutant of verify_report: the chain is checked, the time of the certificate is not.
verify_report_at_any_time(current_timestamp, report) ==
    IF report.signing_cert.chain # "intel" \/ report.signature # "valid" THEN Err ELSE "ok"

verify_report(current_timestamp, report) ==
    LET now == webpki_now(current_timestamp) IN
    IF \/ report.signing_cert.chain # "intel"
       \/ now < report.signing_cert.not_before
       \/ now > report.signing_cert.not_after
       \/ report.signature # "valid"
    THEN Err ELSE "ok"

\* The handler makes its call and passes the status on: nobody looks at it.
get_report_attestation_status(h) == h.update_status

\* A status with a platform blob costs an ocall, whose answer only is logged; a
\* blob shorter than its header underflows.  A status out of the list is
\* `unreachable!`.
validate_quote_status(current_timestamp, avr, h) ==
    Bind(parse_quote(avr), LAMBDA quote :
        IF current_timestamp >= quote.attestation_time + Day THEN Err
        ELSE IF quote.status = "OK" THEN quote
        ELSE IF quote.status \notin AdvisoryStatus THEN Panic
        ELSE IF avr.platform_info_blob = "short" THEN Panic
        ELSE IF avr.platform_info_blob = None THEN quote
        ELSE Bind(get_report_attestation_status(h), LAMBDA ret : quote))

-----------------------------------------------------------------------------
(* The ocalls and the services behind them. *)

\* sgx_init_quote: the identity (mr_enclave, flags, xfrm) of the quoting enclave.
init_quote(h) == h.target_info

\* The name is resolved and connected to with unwrap, expect and unreachable!.
get_ias_socket(h) == IF h.network = "down" THEN Panic ELSE "fd"

\* rsgx_create_report of the SDK: a report of enclave `self` for the quoting enclave.
rsgx_create_report(self, target_info, report_data) ==
    [mrenclave |-> self, report_data |-> report_data]

\* sgx_get_quote: the quote of the report, and the quoting enclave's own report of
\* SHA-256(nonce || quote).  `h.quote` may be an answer to another request.
sgx_get_quote(report, nonce, h) ==
    IF h.quote = None
    THEN [quote     |-> report,
          qe_report |-> [identity |-> h.qe_identity, mac |-> h.qe_mac,
                         report_data |-> <<nonce, report>>]]
    ELSE h.quote

\* The signature revocation list is passed on; a quote is cut to its size.
get_quote(report, nonce, sigrl, h) ==
    IF h.quote = Err THEN Err ELSE sgx_get_quote(report, nonce, h)

\* The answer of the attestation service about a quote, at its own time.
IASReport(quote, h, ias_time) ==
    [timestamp |-> ias_time - h.lag, version |-> h.version, status |-> h.status,
     platform_info_blob |-> h.platform_info_blob, quote |-> quote]

\* The parts of a response of the service that the code looks for.
IASHeaders == {"length", "signature", "certificate"}

\* Without the certificate the split has no third part, and an unparsable status line
\* has no code to unwrap; other codes are logged.  Without a length the report is empty.
parse_response_attn_report(resp) ==
    IF resp.code = None \/ "certificate" \notin resp.headers THEN Panic
    ELSE [avr          |-> IF "length" \in resp.headers THEN resp.body ELSE None,
          signature    |-> IF "signature" \in resp.headers THEN resp.signature ELSE "empty",
          signing_cert |-> resp.cert]

\* Any code is logged only.  The length is looked for in lower case; without it there is
\* no list, and a body that is not base64 panics.
parse_response_sigrl(resp) ==
    IF resp = "no_length" THEN <<>> ELSE IF resp = "not_base64" THEN Panic ELSE <<"list">>

\* Both requests write, read to the end and parse; a failed read panics.
get_sigrl_from_intel(fd, h) ==
    IF h.network = "cut" THEN Panic ELSE parse_response_sigrl(h.sigrl)

get_report_from_intel(fd, quote, h, ias_time) ==
    IF h.network = "cut" THEN Panic
    ELSE parse_response_attn_report(
             [code |-> h.ias_code, headers |-> h.ias_headers, cert |-> h.cert,
              signature |-> h.signature, body |-> IASReport(quote, h, ias_time)])

-----------------------------------------------------------------------------
(* The attestation of a key in the enclave. *)

\* 16 random bytes: never those of an earlier request.
Nonce == "fresh"

\* Mutant of accepts_quote: the hash of nonce and quote is not compared.
accepts_quote_of_any_request(target_info, r) ==
    r.qe_report.mac = "valid" /\ r.qe_report.identity = target_info

\* The quoting enclave's report verifies on this platform, is of the enclave that
\* init_quote named, and holds the hash of this request's nonce and of this quote.
accepts_quote(target_info, r) ==
    /\ r.qe_report.mac = "valid"
    /\ r.qe_report.identity = target_info
    /\ r.qe_report.report_data = <<Nonce, r.quote>>

create_attestation_report(self, report_data, h, ias_time) ==
    Bind(init_quote(h), LAMBDA target_info :
    Bind(get_ias_socket(h), LAMBDA fd :
    Bind(get_sigrl_from_intel(fd, h), LAMBDA sigrl :
    Bind(get_quote(rsgx_create_report(self, target_info, report_data), Nonce, sigrl, h),
         LAMBDA r :
    IF ~accepts_quote(target_info, r) THEN Err
    ELSE Bind(get_ias_socket(h), LAMBDA fd2 : get_report_from_intel(fd2, r.quote, h, ias_time))))))

\* The simulation has no service: it stamps the quote with the enclave's time in
\* milliseconds.  A time without a fraction prints none, so that the zeros added
\* after it do not parse.
create_simulate_avr(quote, h, time) ==
    [timestamp |-> IF time % TicksPerSec = 0 THEN None ELSE time, version |-> 4,
     status |-> h.status, platform_info_blob |-> None, quote |-> quote]

simulate_create_attestation_report(self, report_data, h, time) ==
    Bind(init_quote(h), LAMBDA target_info :
    Bind(get_quote(rsgx_create_report(self, target_info, report_data), Nonce, <<>>, h),
         LAMBDA r :
    IF ~accepts_quote(target_info, r) THEN Err ELSE create_simulate_avr(r.quote, h, time)))

\* IASRemoteAttestationInput::validate: both are 32 bytes long.
validate(h) == IF h.spid = "short" \/ h.ias_key = "short" THEN Err ELSE "ok"

\* 32 bytes that need not be hexadecimal.
decode_spid(h) == IF h.spid = "not_hex" THEN Panic ELSE "spid"

ias_remote_attestation(self, pub_key, current_timestamp, h, ias_time) ==
    Bind(validate(h), LAMBDA v :
    Bind(decode_spid(h), LAMBDA spid :
    Bind(create_attestation_report(self, as_report_data(pub_key), h, ias_time), LAMBDA report :
    Bind(verify_report(current_timestamp, report), LAMBDA ok :
    Bind(get_avr(report), LAMBDA avr :
    Bind(validate_quote_status(current_timestamp, avr, h), LAMBDA quote : report))))))

\* The host signs the simulated report with the operator's key and certificate.
simulate_remote_attestation(self, pub_key, current_timestamp, h, time) ==
    Bind(simulate_create_attestation_report(self, as_report_data(pub_key), h, time), LAMBDA avr :
    Bind(validate_quote_status(current_timestamp, avr, h), LAMBDA quote :
    Bind(to_canonical_json(avr), LAMBDA json :
        [avr |-> json, signature |-> h.signature, signing_cert |-> h.cert])))

\* The command line compares the modulus of certificate and key, unless told not to.
run_simulate_remote_attestation(self, pub_key, current_timestamp, h, time) ==
    IF h.validate_cert = "yes" /\ h.signature # "valid" THEN Err
    ELSE simulate_remote_attestation(self, pub_key, current_timestamp, h, time)

-----------------------------------------------------------------------------
(* The answers one attestation may get. *)

\* What the quoting enclave is told apart by: init_quote names it, its report has it.
Identity == [mr_enclave : {"qe"}, flags : {0, 1}, xfrm : {0}]

QE == [mr_enclave |-> "qe", flags |-> 0, xfrm |-> 0]

\* An answer to an earlier request, of this or another enclave, for any key.
EarlierQuote(mr, a) ==
    LET report == [mrenclave |-> mr, report_data |-> as_report_data(a)] IN
    [quote |-> report, qe_report |-> [identity |-> QE, mac |-> "valid",
                                      report_data |-> <<"earlier", report>>]]

\* Any combination of what the operator gives, what the quoting enclave answers, the
\* connection to the service, its responses and its report.  `lag` is how far the time
\* of the report is behind the host's.
Answer(certs) ==
    [spid : {"hex", "short", "not_hex"}, ias_key : {"32", "short"},
     target_info : Identity \cup {Err}, network : {"up", "down", "cut"},
     sigrl : {"no_length", "base64", "not_base64"},
     quote : {None, Err} \cup {EarlierQuote(mr, a) : mr \in Mrenclave, a \in Address},
     qe_identity : Identity, qe_mac : {"valid", "invalid"},
     ias_code : {200, 503, None}, ias_headers : SUBSET IASHeaders,
     signature : {"valid", "invalid"}, cert : certs,
     lag : Int, version : {3, 4}, status : Status,
     platform_info_blob : {None, "blob", "short"}, update_status : {0, 1},
     validate_cert : {"yes", "no"}]

ASSUME AnswerAssumption ==
    IASAnswers \subseteq Answer(Cert) /\ OperatorAnswers \subseteq Answer(OperatorCert)
=============================================================================
