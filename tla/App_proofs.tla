---------------------------- MODULE App_proofs ----------------------------
(***************************************************************************)
(* Proofs about the keys of the program lcp: that a stored report attests  *)
(* the key of its row and was verified, that a command that succeeded is   *)
(* durable, and that keys are managed beside a running service, for any    *)
(* number of processes, enclaves, keys and certificates.                   *)
(*                                                                         *)
(* What the enclave computes from the answers of one attestation is the    *)
(* subject of the lemmas about reports.  KInv is the inductive invariant   *)
(* of the key manager; its steps are proved for KNext, and every step of   *)
(* the program is a step or a stutter of KNext.                            *)
(***************************************************************************)
EXTENDS App, TLAPS

\* The provers a leaf that names none is given to, in this order.
USE SMTT(10), ZenonT(10), SMTT(30), SMTT(60)

-----------------------------------------------------------------------------
(* Reports. *)

\* The report is about key a in an enclave of measurement m.
Attests(r, m, a) ==
    /\ r \in Report
    /\ r.avr.version = 4
    /\ r.avr.quote = [mrenclave |-> m, report_data |-> as_report_data(a)]

\* The certificate was valid at the second to which verify_report rounds `time`.
ValidAt(cert, time) ==
    LET whole == time % TicksPerSec = 0 IN
    /\ cert.not_before * TicksPerSec <= IF whole THEN time + TicksPerSec ELSE time
    /\ time < IF whole THEN cert.not_after * TicksPerSec
              ELSE (cert.not_after + 1) * TicksPerSec

\* The report was young enough at `time`, and the attestation service's own report
\* had a valid signature and a certificate that was valid then.
Verified(r, by, time) ==
    /\ time < r.avr.timestamp + Day
    /\ by = "ias" =>
           /\ r.signature = "valid" /\ r.signing_cert.chain = "intel"
           /\ ValidAt(r.signing_cert, time)

Ok(r) == r \notin {Err, Panic}

\* What the proofs use of an answer: the quote is the one of this request, an error or
\* an earlier one.
Parts(h, certs) ==
    /\ h.quote \in {None, Err} \cup {EarlierQuote(mr, a) : mr \in Mrenclave, a \in Address}
    /\ h.cert \in certs /\ h.signature \in {"valid", "invalid"}
    /\ h.lag \in Int /\ h.version \in {3, 4}
    /\ h.status \in Status
    /\ h.platform_info_blob \in {None, "blob", "short"}

\* The answers of the quoting enclave and of the services have these parts.
LEMMA AnswerParts == ASSUME NEW certs, NEW h \in Answer(certs) PROVE Parts(h, certs)
  BY DEF Answer, Parts

(* Times are cut to whole seconds. *)
LEMMA Seconds ==
    ASSUME NEW t \in Nat
    PROVE  /\ secs(t) \in Nat
           /\ secs(t) * TicksPerSec <= t /\ t < (secs(t) + 1) * TicksPerSec
  BY AttestationAssumption DEF secs

\* verify_report, which compares seconds, bounds the age of the certificate in ticks.
LEMMA CertificateBounds ==
    ASSUME NEW t \in Nat, NEW r, r.signing_cert \in Cert, Ok(verify_report(t, r))
    PROVE  /\ r.signature = "valid" /\ r.signing_cert.chain = "intel"
           /\ ValidAt(r.signing_cert, t)
<1> DEFINE c == r.signing_cert
           s == secs(t)
           w == webpki_now(t)
<1>1. /\ r.signature = "valid" /\ c.chain = "intel"
      /\ ~(w < c.not_before) /\ ~(w > c.not_after)
  BY DEF verify_report, Ok
<1>2. /\ c.not_before \in Nat /\ c.not_after \in Nat /\ s \in Nat /\ TicksPerSec \in Nat \ {0}
      /\ t % TicksPerSec = 0 => w = s + 1
      /\ t % TicksPerSec # 0 => w = s
  BY AttestationAssumption, Seconds DEF webpki_now
<1>3. /\ s * TicksPerSec <= t /\ t < (s + 1) * TicksPerSec
      /\ t % TicksPerSec = 0 => t = s * TicksPerSec
  BY Seconds, <1>2 DEF secs
<1> HIDE DEF c, s, w
<1>4. (s + 1) * TicksPerSec = s * TicksPerSec + TicksPerSec /\ s * TicksPerSec \in Nat
  BY <1>2
<1>5. ASSUME NEW m \in Nat, NEW n \in Nat, m <= n PROVE m * TicksPerSec <= n * TicksPerSec
  BY <1>2, <1>5
<1>6. ASSUME NEW m \in Nat PROVE m * TicksPerSec \in Nat
  BY <1>2, <1>6
<1>7. CASE t % TicksPerSec = 0
  <2>1. c.not_before <= s + 1 /\ s + 1 <= c.not_after
    BY <1>1, <1>2, <1>7
  <2>2. /\ c.not_before * TicksPerSec <= (s + 1) * TicksPerSec
        /\ (s + 1) * TicksPerSec <= c.not_after * TicksPerSec
    BY <1>2, <1>5, <2>1
  <2>3. c.not_before * TicksPerSec <= t + TicksPerSec /\ t < c.not_after * TicksPerSec
    BY <1>2, <1>3, <1>4, <1>6, <1>7, <2>2
  <2> QED
    BY <1>1, <1>7, <2>3 DEF ValidAt, c
<1>8. CASE t % TicksPerSec # 0
  <2>1. c.not_before <= s /\ s + 1 <= c.not_after + 1
    BY <1>1, <1>2, <1>8
  <2>2. /\ c.not_before * TicksPerSec <= s * TicksPerSec
        /\ (s + 1) * TicksPerSec <= (c.not_after + 1) * TicksPerSec
    BY <1>2, <1>5, <2>1
  <2>3. c.not_before * TicksPerSec <= t /\ t < (c.not_after + 1) * TicksPerSec
    BY <1>2, <1>3, <1>4, <1>6, <2>2
  <2> QED
    BY <1>1, <1>8, <2>3 DEF ValidAt, c
<1> QED
  BY <1>7, <1>8

\* The quote that the enclave accepts is the one it asked for: the quoting enclave's
\* report of an earlier quote has another nonce.
LEMMA AcceptedQuote ==
    ASSUME NEW h, NEW certs, Parts(h, certs), NEW report, NEW sigrl,
           LET r == get_quote(report, Nonce, sigrl, h) IN Ok(r) /\ accepts_quote(init_quote(h), r)
    PROVE  get_quote(report, Nonce, sigrl, h).quote = report
<1>1. CASE h.quote = None
  BY <1>1 DEF get_quote, sgx_get_quote, Ok
<1>2. CASE h.quote = Err
  BY <1>2 DEF get_quote, Ok
<1>3. ASSUME NEW mr \in Mrenclave, NEW a \in Address, h.quote = EarlierQuote(mr, a),
             h.quote # None, h.quote # Err
      PROVE  FALSE
  <2>1. get_quote(report, Nonce, sigrl, h) = EarlierQuote(mr, a)
    BY <1>3 DEF get_quote, sgx_get_quote
  <2>2. EarlierQuote(mr, a).qe_report.report_data[1] = "earlier"
    BY DEF EarlierQuote
  <2>3. EarlierQuote(mr, a).qe_report.report_data[1] = "fresh"
    BY <2>1 DEF accepts_quote, Nonce
  <2> QED
    BY <2>2, <2>3
<1> QED
  BY <1>1, <1>2, <1>3 DEF Parts

\* validate_quote_status accepts a report of version 4 that is less than a day old.
LEMMA ValidatedQuote ==
    ASSUME NEW t, NEW avr, NEW h, Ok(validate_quote_status(t, avr, h))
    PROVE  /\ avr.version = 4 /\ avr.timestamp # None
           /\ ~(t >= avr.timestamp + Day)
<1>1. Ok(parse_quote(avr)) /\ ~(t >= parse_quote(avr).attestation_time + Day)
  BY DEF validate_quote_status, Bind, Ok
<1>2. /\ avr.version = 4 /\ Ok(attestation_time(avr))
      /\ parse_quote(avr).attestation_time = attestation_time(avr)
  BY <1>1 DEF parse_quote, Bind, Ok
<1> QED
  BY <1>1, <1>2 DEF attestation_time, Ok

\* A report of the attestation service that the enclave returns for key a attests that
\* key in that enclave, and was verified.
LEMMA IASReportVerified ==
    ASSUME NEW m \in Mrenclave, NEW a \in Address, NEW t \in Nat, NEW n \in Nat,
           NEW h \in Answer(Cert), Ok(ias_remote_attestation(m, a, t, h, n))
    PROVE  LET r == ias_remote_attestation(m, a, t, h, n) IN
           Attests(r, m, a) /\ Verified(r, "ias", t)
<1> DEFINE r == create_attestation_report(m, as_report_data(a), h, n)
           report == rsgx_create_report(m, init_quote(h), as_report_data(a))
           sigrl == get_sigrl_from_intel(get_ias_socket(h), h)
           q == get_quote(report, Nonce, sigrl, h)
<1>0. Parts(h, Cert)
  BY AnswerParts
<1>1. /\ ias_remote_attestation(m, a, t, h, n) = r /\ Ok(r)
      /\ Ok(verify_report(t, r)) /\ Ok(get_avr(r))
      /\ Ok(validate_quote_status(t, get_avr(r), h))
  BY DEF ias_remote_attestation, Bind, Ok
<1>2. /\ Ok(q) /\ accepts_quote(init_quote(h), q)
      /\ \E fd : r = get_report_from_intel(fd, q.quote, h, n)
  BY <1>1, Zenon DEF create_attestation_report, Bind, Ok
<1>3. q.quote = [mrenclave |-> m, report_data |-> as_report_data(a)]
  BY <1>0, <1>2, AcceptedQuote DEF rsgx_create_report
<1> HIDE DEF r, q
<1>4. /\ r.avr = IASReport(q.quote, h, n)
      /\ r = [avr |-> r.avr, signature |-> r.signature, signing_cert |-> r.signing_cert]
      /\ r.signature \in {"valid", "invalid", "empty"} /\ r.signing_cert = h.cert
      /\ get_avr(r) = r.avr
  BY <1>0, <1>1, <1>2 DEF get_report_from_intel, parse_response_attn_report, get_avr, Ok, Parts
<1>5. r.avr.version = 4 /\ ~(t >= r.avr.timestamp + Day)
  BY <1>1, <1>4, ValidatedQuote
<1>6. r.avr \in AVR /\ r.avr.quote = q.quote
  BY <1>0, <1>3, <1>4, AttestationAssumption DEF IASReport, AVR, RawQuote, Parts, as_report_data
<1>7. Attests(r, m, a)
  <2>1. h.cert \in Cert \cup OperatorCert
    BY <1>0 DEF Parts
  <2> QED
    BY <1>3, <1>4, <1>5, <1>6, <2>1 DEF Attests, Report
<1>8. Verified(r, "ias", t)
  <2>1. r.signing_cert \in Cert
    BY <1>0, <1>4 DEF Parts
  <2>2. t < r.avr.timestamp + Day
    BY <1>5, <1>6, AttestationAssumption DEF AVR
  <2> QED
    BY <1>1, <2>1, <2>2, CertificateBounds DEF Verified
<1> QED
  BY <1>1, <1>7, <1>8

\* So does a report that the simulation signs, without the checks of the certificate.
LEMMA SimulatedReportVerified ==
    ASSUME NEW m \in Mrenclave, NEW a \in Address, NEW t \in Nat, NEW n \in Nat,
           NEW h \in Answer(OperatorCert),
           Ok(run_simulate_remote_attestation(m, a, t, h, n))
    PROVE  LET r == run_simulate_remote_attestation(m, a, t, h, n) IN
           Attests(r, m, a) /\ Verified(r, "simulation", t)
<1> DEFINE r == run_simulate_remote_attestation(m, a, t, h, n)
           avr == simulate_create_attestation_report(m, as_report_data(a), h, n)
           report == rsgx_create_report(m, init_quote(h), as_report_data(a))
           q == get_quote(report, Nonce, <<>>, h)
<1>0. Parts(h, OperatorCert)
  BY AnswerParts
<1>1. /\ Ok(avr) /\ Ok(validate_quote_status(t, avr, h)) /\ Ok(to_canonical_json(avr))
      /\ r = [avr |-> to_canonical_json(avr), signature |-> h.signature, signing_cert |-> h.cert]
  BY DEF run_simulate_remote_attestation, simulate_remote_attestation, Bind, Ok
<1>2. /\ Ok(q) /\ accepts_quote(init_quote(h), q)
      /\ avr = create_simulate_avr(q.quote, h, n)
  BY <1>1, Zenon DEF simulate_create_attestation_report, Bind, Ok
<1>3. q.quote = [mrenclave |-> m, report_data |-> as_report_data(a)]
  BY <1>0, <1>2, AcceptedQuote DEF rsgx_create_report
<1> HIDE DEF r, q, avr
<1>4. avr.version = 4 /\ avr.timestamp # None /\ ~(t >= avr.timestamp + Day)
  BY <1>1, ValidatedQuote
<1>5. avr \in AVR /\ avr.quote = q.quote /\ r.avr = avr
  BY <1>0, <1>1, <1>2, <1>3, <1>4
     DEF create_simulate_avr, AVR, RawQuote, Parts, as_report_data, to_canonical_json
<1>6. Attests(r, m, a)
  <2>1. h.cert \in Cert \cup OperatorCert /\ h.signature \in {"valid", "invalid", "empty"}
    BY <1>0 DEF Parts
  <2> QED
    BY <1>1, <1>3, <1>4, <1>5, <2>1 DEF Attests, Report
<1>7. Verified(r, "simulation", t)
  BY <1>4, <1>5, AttestationAssumption DEF AVR, Verified
<1> QED
  BY <1>6, <1>7 DEF r

-----------------------------------------------------------------------------
(* The inductive invariant of the key manager. *)

ProcState ==
    [pc   : {"down", "create", "open", "init_db", "ready", "save", "attest", "save_avr"},
     addr : Address \cup {None}, time : Nat, by : {None, "ias", "simulation"},
     eavr : Report \cup {None}]

KType ==
    /\ file \in {"absent", "empty", "ready"}
    /\ rows \in [Address -> Row \cup {None}]
    /\ proc \in [Process -> ProcState]
    /\ now \in Nat
    /\ checked \in [Address -> [by : {"ias", "simulation"}, time : Nat] \cup {None}]

\* The process works on the key of its `addr`.
HasKey(p) == proc[p].pc \in {"save", "attest", "save_avr"}

Attesting(p) == proc[p].pc \in {"attest", "save_avr"}

\* What exists anywhere in the system is a key that an enclave made.
KeysMade ==
    /\ \A p \in Process : HasKey(p) => proc[p].addr \in made \cap Address
    /\ \A a \in Address :
           \/ rows[a] # None \/ a \in pruned
           \/ <<"generate", a>> \in answered \/ <<"attest", a>> \in answered
           => a \in made

\* A key that is generated and not yet saved is known to its process only.
UnsavedIsFresh ==
    \A p \in Process : proc[p].pc = "save" =>
        /\ rows[proc[p].addr] = None /\ proc[p].addr \notin pruned
        /\ <<"attest", proc[p].addr>> \notin answered
        /\ <<"generate", proc[p].addr>> \notin answered
        /\ \A q \in Process \ {p} : HasKey(q) => proc[q].addr # proc[p].addr

\* The row of a key that is being attested is there, or was pruned meanwhile, and is
\* sealed for the enclave that attests it.
AttestedRow ==
    \A p \in Process : Attesting(p) =>
        LET row == rows[proc[p].addr] IN
        /\ row = None => proc[p].addr \in pruned
        /\ row # None => <<row.mrenclave, EnclaveOf[p]>> \in UnsealPolicy

\* A report that is to be saved attests the key of the process, and was verified.
PendingReport ==
    \A p \in Process : proc[p].pc = "save_avr" =>
        /\ Attests(proc[p].eavr, EnclaveOf[p], proc[p].addr)
        /\ proc[p].by \in {"ias", "simulation"}
        /\ Verified(proc[p].eavr, proc[p].by, proc[p].time)

\* The four columns of a report are set together.
StoredReport ==
    \A a \in Address : rows[a] # None =>
        IF rows[a].eavr = None THEN rows[a].attested_at = None
        ELSE /\ \E m \in Mrenclave : /\ Attests(rows[a].eavr, m, a)
                                     /\ <<rows[a].mrenclave, m>> \in UnsealPolicy
             /\ Verified(rows[a].eavr, checked[a].by, checked[a].time)
             /\ rows[a].attested_at = secs(rows[a].eavr.avr.timestamp)

\* Rows are in a table.
TableExists == \A a \in Address : rows[a] # None => file = "ready"

KInv ==
    /\ KType /\ KeysMade /\ UnsavedIsFresh /\ AttestedRow /\ PendingReport
    /\ StoredReport /\ TableExists /\ SuccessIsDurable /\ PrunedStaysGone

\* The empty home directory.
LEMMA InitKInv == KInit => KInv
<1> SUFFICES ASSUME KInit PROVE KInv
  OBVIOUS
<1>1. Down \in ProcState
  BY DEF Down, ProcState
<1>2. KType
  BY <1>1, KeysAssumption DEF KInit, KType
<1>3. \A p \in Process : proc[p].pc = "down"
  BY DEF KInit, Down
<1>4. \A a \in Address : rows[a] = None
  BY DEF KInit
<1> QED
  BY <1>2, <1>3, <1>4 DEF KInit, KInv, KeysMade, UnsavedIsFresh, AttestedRow, PendingReport,
                          StoredReport, TableExists, SuccessIsDurable, PrunedStaysGone,
                          HasKey, Attesting

(* A step of process p sets its record and leaves the others alone. *)
LEMMA ProcStep ==
    ASSUME KType, NEW p \in Process, NEW r \in ProcState, proc' = [proc EXCEPT ![p] = r]
    PROVE  /\ proc' \in [Process -> ProcState]
           /\ proc'[p] = r
           /\ \A q \in Process \ {p} : proc'[q] = proc[q]
  BY DEF KType

\* The process moves to another point of its command.
LEMMA PcStep ==
    ASSUME KType, NEW p \in Process,
           NEW pc \in {"down", "create", "open", "init_db", "ready"},
           proc' = [proc EXCEPT ![p].pc = pc]
    PROVE  /\ proc' \in [Process -> ProcState]
           /\ proc'[p].pc = pc
           /\ \A q \in Process \ {p} : proc'[q] = proc[q]
<1> DEFINE r == [proc[p] EXCEPT !.pc = pc]
<1>1. r \in ProcState /\ r.pc = pc
  BY Zenon DEF KType, ProcState
<1>2. proc' = [proc EXCEPT ![p] = r]
  OBVIOUS
<1> QED
  BY <1>1, <1>2, ProcStep, Zenon

\* The command of the process ends.
LEMMA EndStep ==
    ASSUME KType, NEW p \in Process, end(p)
    PROVE  /\ proc' \in [Process -> ProcState]
           /\ proc'[p].pc = "down"
           /\ \A q \in Process \ {p} : proc'[q] = proc[q]
<1>1. Down \in ProcState /\ Down.pc = "down"
  BY DEF Down, ProcState
<1> QED
  BY <1>1, ProcStep, Zenon DEF end

(* A step that writes neither rows nor the history, after which its process works on
   no key: the set-up of the key manager, a failed command, a kill. *)
LEMMA QuietStep ==
    ASSUME KInv, UNCHANGED <<rows, ghosts>>,
           file' \in {"absent", "empty", "ready"}, file = "ready" => file' = "ready",
           now' \in Nat, proc' \in [Process -> ProcState],
           \A q \in Process : proc'[q] = proc[q] \/ ~HasKey(q)'
    PROVE  KInv'
<1> USE DEF ghosts
<1>1. KType'
  BY DEF KInv, KType
<1>2. \A q \in Process : HasKey(q)' \/ Attesting(q)' \/ proc'[q].pc \in {"save", "save_avr"}
          => proc'[q] = proc[q]
  BY DEF HasKey, Attesting
<1>3. KeysMade' /\ UnsavedIsFresh'
  BY <1>2 DEF KInv, KeysMade, UnsavedIsFresh, HasKey
<1>4. AttestedRow' /\ PendingReport'
  BY <1>2, Zenon DEF KInv, AttestedRow, PendingReport, Attesting
<1>5. StoredReport' /\ TableExists' /\ SuccessIsDurable' /\ PrunedStaysGone'
  BY DEF KInv, StoredReport, TableExists, SuccessIsDurable, PrunedStaysGone
<1> QED
  BY <1>1, <1>3, <1>4, <1>5 DEF KInv

\* generate_enclave_key: the new key is known nowhere else.
LEMMA GenerateStep ==
    ASSUME KInv, NEW p \in Process, generate_enclave_key(p) PROVE KInv'
<1>0. KType /\ KeysMade /\ UnsavedIsFresh
  BY DEF KInv
<1>1. PICK k \in Address \ made :
          /\ made' = made \cup {k}
          /\ proc' = [proc EXCEPT ![p].pc = "save", ![p].addr = k]
  BY Zenon DEF generate_enclave_key
<1> DEFINE r == [proc[p] EXCEPT !.pc = "save", !.addr = k]
<1>2. r \in ProcState /\ r.pc = "save" /\ r.addr = k
  BY <1>0, ZenonT(60) DEF KType, ProcState
<1>3. proc' = [proc EXCEPT ![p] = r]
  BY <1>1, Zenon
<1>4. /\ proc' \in [Process -> ProcState]
      /\ proc'[p].pc = "save" /\ proc'[p].addr = k
      /\ \A q \in Process \ {p} : proc'[q] = proc[q]
  BY <1>0, <1>2, <1>3, ProcStep, Zenon
<1>5. KType'
  BY <1>0, <1>4 DEF generate_enclave_key, KType
<1>6. /\ rows[k] = None /\ k \notin pruned
      /\ <<"generate", k>> \notin answered /\ <<"attest", k>> \notin answered
  BY <1>0 DEF KeysMade
<1>7. \A q \in Process \ {p} : HasKey(q) => proc[q].addr \in Address /\ proc[q].addr # k
  BY <1>0 DEF KeysMade
<1>8. KeysMade'
  BY <1>0, <1>1, <1>4 DEF generate_enclave_key, KeysMade, HasKey
<1>9. UnsavedIsFresh'
  BY <1>0, <1>4, <1>6, <1>7 DEF generate_enclave_key, UnsavedIsFresh, HasKey
<1>10. AttestedRow' /\ PendingReport'
  BY <1>4, ZenonT(60) DEF KInv, generate_enclave_key, AttestedRow, PendingReport, Attesting
<1>11. StoredReport' /\ TableExists' /\ SuccessIsDurable' /\ PrunedStaysGone'
  BY Zenon DEF KInv, generate_enclave_key, StoredReport, TableExists, SuccessIsDurable, PrunedStaysGone
<1> QED
  BY <1>5, <1>8, <1>9, <1>10, <1>11 DEF KInv

\* save: the row of the new key, which no other process reads or writes before.
LEMMA SaveStep ==
    ASSUME KInv, NEW p \in Process, save(p), file = "ready" PROVE KInv'
<1> DEFINE a == proc[p].addr
<1>0. KType /\ KeysMade /\ UnsavedIsFresh /\ AttestedRow
  BY DEF KInv
<1>1. a \in made /\ a \in Address
  BY <1>0 DEF save, KeysMade, HasKey
<1>2. /\ rows' = [rows EXCEPT ![a] = NewRow(EnclaveOf[p])]
      /\ answered' = answered \cup {<<"generate", a>>}
      /\ UNCHANGED <<file, now, made, pruned, checked>>
  BY DEF save
<1>3. /\ proc' \in [Process -> ProcState] /\ proc'[p].pc = "down"
      /\ \A q \in Process \ {p} : proc'[q] = proc[q]
  BY <1>0, EndStep DEF save
<1>4. /\ NewRow(EnclaveOf[p]) \in Row /\ NewRow(EnclaveOf[p]) # None
      /\ NewRow(EnclaveOf[p]).eavr = None /\ NewRow(EnclaveOf[p]).attested_at = None
  <2>1. NewRow(EnclaveOf[p]) \in Row
    BY KeysAssumption DEF NewRow, Row
  <2> QED
    BY <2>1, RowAssumption DEF NewRow
<1>5. /\ rows'[a] = NewRow(EnclaveOf[p])
      /\ \A b \in Address \ {a} : rows'[b] = rows[b]
  BY <1>0, <1>1, <1>2 DEF KType
<1> HIDE DEF a
<1>6. KType'
  BY <1>0, <1>2, <1>3, <1>4, Zenon DEF KType
<1>7. \A q \in Process \ {p} : HasKey(q) => proc[q].addr \in Address \ {a}
  BY <1>0, <1>1, Zenon DEF save, UnsavedIsFresh, KeysMade, a
<1>8. KeysMade'
  BY <1>0, <1>1, <1>2, <1>3, <1>5 DEF KeysMade, HasKey
<1>9. UnsavedIsFresh'
  BY <1>0, <1>2, <1>3, <1>5, <1>7 DEF UnsavedIsFresh, HasKey
<1>10. AttestedRow'
  BY <1>0, <1>2, <1>3, <1>5, <1>7 DEF AttestedRow, Attesting, HasKey
<1>11. PendingReport'
  BY <1>3 DEF KInv, PendingReport
<1>12. StoredReport' /\ TableExists'
  BY <1>1, <1>2, <1>4, <1>5 DEF KInv, StoredReport, TableExists
<1>13. SuccessIsDurable'
  <2>1. <<"attest", a>> \notin answered
    BY <1>0, Zenon DEF save, UnsavedIsFresh, a
  <2> QED
    BY <1>1, <1>2, <1>4, <1>5, <2>1, Zenon DEF KInv, SuccessIsDurable
<1>14. PrunedStaysGone'
  <2>1. a \notin pruned
    BY <1>0, Zenon DEF save, UnsavedIsFresh, a
  <2> QED
    BY <1>2, <1>5, <2>1 DEF KInv, PrunedStaysGone
<1> QED
  BY <1>6, <1>8, <1>9, <1>10, <1>11, <1>12, <1>13, <1>14 DEF KInv

\* execute_command: the row is loaded and the enclave unseals the key.
LEMMA ExecuteStep ==
    ASSUME KInv, NEW p \in Process, NEW a \in Address, proc[p].pc = "ready",
           load(a) # Err, <<load(a).mrenclave, EnclaveOf[p]>> \in UnsealPolicy,
           proc' = [proc EXCEPT ![p].pc = "attest", ![p].addr = a, ![p].time = now],
           UNCHANGED <<file, rows, now, ghosts>>
    PROVE  KInv'
<1> USE DEF ghosts
<1> DEFINE r == [proc[p] EXCEPT !.pc = "attest", !.addr = a, !.time = now]
<1>0. KType /\ KeysMade /\ UnsavedIsFresh /\ AttestedRow
  BY DEF KInv
<1>1. r \in ProcState /\ r.pc = "attest" /\ r.addr = a
  BY <1>0, ZenonT(60) DEF KType, ProcState
<1>2. proc' = [proc EXCEPT ![p] = r]
  BY Zenon
<1>3. /\ proc' \in [Process -> ProcState]
      /\ proc'[p].pc = "attest" /\ proc'[p].addr = a
      /\ \A q \in Process \ {p} : proc'[q] = proc[q]
  BY <1>0, <1>1, <1>2, ProcStep, Zenon
<1>4. rows[a] # None /\ load(a) = rows[a]
  BY DEF load
<1>5. KType'
  BY <1>0, <1>3 DEF KType
<1>6. KeysMade'
  <2>1. a \in made
    BY <1>0, <1>4, Zenon DEF KeysMade
  <2> QED
    BY <1>0, <1>3, <2>1 DEF KeysMade, HasKey
<1>7. UnsavedIsFresh'
  BY <1>0, <1>3, <1>4 DEF UnsavedIsFresh, HasKey
<1>8. AttestedRow'
  BY <1>0, <1>3, <1>4 DEF AttestedRow, Attesting
<1>9. PendingReport'
  BY <1>3 DEF KInv, PendingReport
<1>10. StoredReport' /\ TableExists' /\ SuccessIsDurable' /\ PrunedStaysGone'
  BY DEF KInv, StoredReport, TableExists, SuccessIsDurable, PrunedStaysGone
<1> QED
  BY <1>5, <1>6, <1>7, <1>8, <1>9, <1>10 DEF KInv

\* The enclave returns a report of the key, which is to be saved.
LEMMA AttestedStep ==
    ASSUME KInv, NEW p \in Process, proc[p].pc = "attest",
           NEW by \in {"ias", "simulation"}, NEW report, attested(p, by, report), Ok(report),
           Attests(report, EnclaveOf[p], proc[p].addr), Verified(report, by, proc[p].time)
    PROVE  KInv'
<1> USE DEF ghosts
<1> DEFINE r == [proc[p] EXCEPT !.pc = "save_avr", !.by = by, !.eavr = report]
<1>0. KType /\ KeysMade /\ UnsavedIsFresh /\ AttestedRow
  BY DEF KInv
<1>1. /\ proc' = [proc EXCEPT ![p].pc = "save_avr", ![p].by = by, ![p].eavr = report]
      /\ UNCHANGED <<file, rows, now, made, answered, pruned, checked>>
  BY DEF attested, Ok
<1>2. report \in Report
  BY DEF Attests
<1>3. /\ r \in ProcState /\ r.pc = "save_avr" /\ r.addr = proc[p].addr
      /\ r.time = proc[p].time /\ r.by = by /\ r.eavr = report
  <2>1. proc[p] \in ProcState
    BY <1>0 DEF KType
  <2> QED
    BY <1>2, <2>1, Zenon DEF ProcState
<1>4. proc' = [proc EXCEPT ![p] = r]
  BY <1>1, Zenon
<1>5. /\ proc' \in [Process -> ProcState]
      /\ proc'[p].pc = "save_avr" /\ proc'[p].addr = proc[p].addr
      /\ proc'[p].time = proc[p].time /\ proc'[p].by = by /\ proc'[p].eavr = report
      /\ \A q \in Process \ {p} : proc'[q] = proc[q]
  BY <1>0, <1>3, <1>4, ProcStep, Zenon
<1>6. KType'
  BY <1>0, <1>1, <1>5 DEF KType
<1>7. KeysMade'
  BY <1>0, <1>1, <1>5 DEF KeysMade, HasKey
<1>8. UnsavedIsFresh'
  BY <1>0, <1>1, <1>5 DEF UnsavedIsFresh, HasKey
<1>9. AttestedRow'
  BY <1>0, <1>1, <1>5 DEF AttestedRow, Attesting
<1>10. PendingReport'
  <2>1. \A q \in Process \ {p} : proc'[q].pc = "save_avr" =>
            /\ Attests(proc'[q].eavr, EnclaveOf[q], proc'[q].addr)
            /\ proc'[q].by \in {"ias", "simulation"}
            /\ Verified(proc'[q].eavr, proc'[q].by, proc'[q].time)
    BY <1>5 DEF KInv, PendingReport
  <2>2. /\ Attests(proc'[p].eavr, EnclaveOf[p], proc'[p].addr)
        /\ proc'[p].by \in {"ias", "simulation"}
        /\ Verified(proc'[p].eavr, proc'[p].by, proc'[p].time)
    BY <1>5, Zenon
  <2> QED
    BY <2>1, <2>2, Zenon DEF PendingReport
<1>11. StoredReport' /\ TableExists' /\ SuccessIsDurable' /\ PrunedStaysGone'
  BY <1>1, Zenon DEF KInv, StoredReport, TableExists, SuccessIsDurable, PrunedStaysGone
<1> QED
  BY <1>6, <1>7, <1>8, <1>9, <1>10, <1>11 DEF KInv

\* save_avr: the report is stored with its own key, unless the row has gone.
LEMMA SaveAvrStep ==
    ASSUME KInv, NEW p \in Process, save_avr(p) PROVE KInv'
<1> DEFINE a == proc[p].addr
           e == proc[p].eavr
           t == attestation_time(get_avr(e))
<1>0. KType /\ KeysMade /\ UnsavedIsFresh /\ AttestedRow /\ PendingReport
  BY DEF KInv
<1>1. /\ a \in made /\ a \in Address /\ proc[p] \in ProcState /\ EnclaveOf[p] \in Mrenclave
      /\ Attests(e, EnclaveOf[p], a)
      /\ proc[p].by \in {"ias", "simulation"}
      /\ Verified(e, proc[p].by, proc[p].time)
  BY <1>0, KeysAssumption DEF save_avr, KeysMade, HasKey, PendingReport, KType
<1>2. e \in Report /\ e # None /\ t = e.avr.timestamp /\ secs(t) \in Int /\ secs(t) # None
  <2>1. e \in Report /\ e.avr \in AVR /\ e.avr.timestamp \in Int
    BY <1>1 DEF Attests, Report, AVR
  <2>2. e # None /\ e.avr # None /\ e.avr.timestamp # None
    BY <2>1, ResultAssumption
  <2>3. t = e.avr.timestamp
    BY <2>2 DEF attestation_time, get_avr
  <2>4. secs(t) \in Int
    BY <2>1, <2>3, AttestationAssumption DEF secs
  <2> QED
    BY <2>1, <2>2, <2>3, <2>4, ResultAssumption
<1>3. /\ proc' \in [Process -> ProcState] /\ proc'[p].pc = "down"
      /\ \A q \in Process \ {p} : proc'[q] = proc[q]
  BY <1>0, EndStep DEF save_avr
<1> DEFINE row == [rows[a] EXCEPT !.eavr = e, !.attested_at = secs(t)]
           how == [by |-> proc[p].by, time |-> proc[p].time]
<1>4. /\ rows' = [rows EXCEPT ![a] = IF rows[a] = None THEN None ELSE row]
      /\ checked' = [checked EXCEPT ![a] = IF rows[a] = None THEN None ELSE how]
      /\ answered' = answered \cup {<<"attest", a>>}
      /\ UNCHANGED <<file, now, made, pruned>>
  BY DEF save_avr
<1>5. ASSUME rows[a] # None
      PROVE  /\ row \in Row /\ row # None /\ row.mrenclave = rows[a].mrenclave
             /\ row.eavr = e /\ row.attested_at = secs(t)
  <2>1. rows[a] \in Row
    BY <1>0, <1>1, <1>5 DEF KType
  <2>2. /\ row \in Row /\ row.mrenclave = rows[a].mrenclave
        /\ row.eavr = e /\ row.attested_at = secs(t)
    <3> HIDE DEF e, t
    <3> QED
      BY <1>2, <2>1, Zenon DEF Row
  <2> QED
    BY <2>2, RowAssumption
<1>6. how \in [by : {"ias", "simulation"}, time : Nat] /\ how.by = proc[p].by /\ how.time = proc[p].time
  BY <1>1 DEF ProcState
<1>7. /\ rows'[a] = (IF rows[a] = None THEN None ELSE row)
      /\ checked'[a] = (IF rows[a] = None THEN None ELSE how)
      /\ \A b \in Address \ {a} : rows'[b] = rows[b] /\ checked'[b] = checked[b]
  BY <1>0, <1>1, <1>4, Zenon DEF KType
<1> HIDE DEF a, e, t, row, how
<1>8. KType'
  <2>1. /\ (IF rows[a] = None THEN None ELSE row) \in Row \cup {None}
        /\ (IF rows[a] = None THEN None ELSE how)
               \in [by : {"ias", "simulation"}, time : Nat] \cup {None}
    BY <1>5, <1>6
  <2> QED
    BY <1>0, <1>3, <1>4, <2>1, Zenon DEF KType
<1>9. \A q \in Process \ {p} : proc[q].pc = "save" => proc[q].addr \in Address \ {a}
  BY <1>0, Zenon DEF save_avr, UnsavedIsFresh, KeysMade, HasKey, a
<1>10. KeysMade'
  BY <1>0, <1>1, <1>3, <1>4, <1>7 DEF KeysMade, HasKey
<1>11. UnsavedIsFresh'
  BY <1>0, <1>3, <1>4, <1>7, <1>9 DEF UnsavedIsFresh, HasKey
<1>12. AttestedRow'
  <2>1. \A b \in Address : /\ rows'[b] = None <=> rows[b] = None
                           /\ rows[b] # None => rows'[b].mrenclave = rows[b].mrenclave
    BY <1>5, <1>7, Zenon
  <2> QED
    BY <1>0, <1>3, <1>4, <2>1 DEF AttestedRow, Attesting, KeysMade, HasKey
<1>13. PendingReport'
  BY <1>0, <1>3 DEF PendingReport
<1>14. StoredReport'
  <2>1. ASSUME rows[a] # None
        PROVE  /\ rows'[a] = row /\ checked'[a] = how
               /\ row.eavr = e /\ e # None
               /\ Attests(e, EnclaveOf[p], a)
               /\ <<row.mrenclave, EnclaveOf[p]>> \in UnsealPolicy
               /\ Verified(e, how.by, how.time)
               /\ row.attested_at = secs(e.avr.timestamp)
    <3>1. <<rows[a].mrenclave, EnclaveOf[p]>> \in UnsealPolicy
      BY <1>0, <2>1 DEF save_avr, AttestedRow, Attesting, a
    <3> QED
      BY <1>1, <1>2, <1>5, <1>6, <1>7, <2>1, <3>1
  <2> QED
    BY <1>1, <1>7, <2>1, ZenonT(60) DEF KInv, StoredReport
<1>15. TableExists'
  BY <1>1, <1>4, <1>7 DEF KInv, TableExists
<1>16. SuccessIsDurable'
  <2>1. rows[a] = None => a \in pruned
    BY <1>0, <1>1, Zenon DEF save_avr, AttestedRow, Attesting, a
  <2>2. rows[a] # None => rows'[a] # None /\ rows'[a].attested_at # None
    BY <1>2, <1>5, <1>7
  <2> QED
    BY <1>1, <1>4, <1>7, <2>1, <2>2, ZenonT(60) DEF KInv, SuccessIsDurable
<1>17. PrunedStaysGone'
  BY <1>0, <1>1, <1>4, <1>7 DEF KInv, PrunedStaysGone
<1> QED
  BY <1>8, <1>10, <1>11, <1>12, <1>13, <1>14, <1>15, <1>16, <1>17 DEF KInv

\* prune deletes rows and records which.
LEMMA PruneStep ==
    ASSUME KInv, NEW p \in Process, prune(p) PROVE KInv'
<1>0. KType /\ KeysMade /\ UnsavedIsFresh /\ AttestedRow /\ PendingReport
  BY DEF KInv
<1>1. PICK gone \in SUBSET Address :
          /\ rows' = [a \in Address |-> IF a \in gone THEN None ELSE rows[a]]
          /\ checked' = [a \in Address |-> IF a \in gone THEN None ELSE checked[a]]
          /\ pruned' = pruned \cup gone
          /\ \A a \in gone : rows[a] # None
  BY Zenon DEF prune, load
<1>2. UNCHANGED <<file, now, made, answered>>
  BY DEF prune
<1>3. /\ proc' \in [Process -> ProcState] /\ proc'[p].pc = "down"
      /\ \A q \in Process \ {p} : proc'[q] = proc[q]
  BY <1>0, EndStep DEF prune
<1>4. KType'
  BY <1>0, <1>1, <1>2, <1>3 DEF KType
<1>5. KeysMade'
  BY <1>0, <1>1, <1>2, <1>3 DEF KeysMade, HasKey
<1>6. UnsavedIsFresh'
  BY <1>0, <1>1, <1>2, <1>3, ZenonT(60) DEF UnsavedIsFresh, KeysMade, HasKey
<1>7. AttestedRow'
  BY <1>0, <1>1, <1>2, <1>3, Zenon DEF AttestedRow, Attesting, KeysMade, HasKey
<1>8. PendingReport'
  BY <1>0, <1>3 DEF PendingReport
<1>9. StoredReport' /\ TableExists'
  BY <1>1, <1>2 DEF KInv, StoredReport, TableExists
<1>10. SuccessIsDurable' /\ PrunedStaysGone'
  BY <1>1, <1>2 DEF KInv, SuccessIsDurable, PrunedStaysGone
<1> QED
  BY <1>4, <1>5, <1>6, <1>7, <1>8, <1>9, <1>10 DEF KInv

\* Every step of the key manager and its commands preserves the invariant.
LEMMA NextKInv == KInv /\ [KNext]_kvars => KInv'
<1> SUFFICES ASSUME KInv, [KNext]_kvars PROVE KInv'
  OBVIOUS
<1>0. KType
  BY DEF KInv
<1>1. ASSUME tick PROVE KInv'
  BY <1>0, <1>1, QuietStep DEF tick, KType
<1>2. ASSUME NEW p \in Process, exists(p) PROVE KInv'
  <2> DEFINE pc == IF file = "absent" THEN "create" ELSE "open"
  <2>1. /\ proc' \in [Process -> ProcState] /\ proc'[p].pc = pc
        /\ \A q \in Process \ {p} : proc'[q] = proc[q]
    BY <1>0, <1>2, PcStep, Zenon DEF exists
  <2> QED
    BY <1>0, <1>2, <2>1, QuietStep DEF exists, KType, HasKey
<1>3. ASSUME NEW p \in Process, open(p) PROVE KInv'
  <2> DEFINE pc == IF proc[p].pc = "create" THEN "init_db" ELSE "ready"
  <2>1. /\ proc' \in [Process -> ProcState] /\ proc'[p].pc = pc
        /\ \A q \in Process \ {p} : proc'[q] = proc[q]
    BY <1>0, <1>3, PcStep, Zenon DEF open
  <2> QED
    BY <1>0, <1>3, <2>1, QuietStep DEF open, KType, HasKey
<1>4. ASSUME NEW p \in Process, init_db(p) PROVE KInv'
  <2> DEFINE pc == IF file = "empty" THEN "ready" ELSE "down"
  <2>1. /\ proc' \in [Process -> ProcState] /\ proc'[p].pc = pc
        /\ \A q \in Process \ {p} : proc'[q] = proc[q]
    BY <1>0, <1>4, PcStep, Zenon DEF init_db
  <2> QED
    BY <1>0, <1>4, <2>1, QuietStep DEF init_db, KType, HasKey
<1>5. ASSUME NEW p \in Process, end(p), UNCHANGED <<file, rows, now, ghosts>> PROVE KInv'
  BY <1>0, <1>5, EndStep, QuietStep DEF KType, HasKey
<1>6. ASSUME NEW p \in Process, save(p) PROVE KInv'
  BY <1>5, <1>6, SaveStep DEF save, ghosts
<1>7. ASSUME NEW p \in Process, execute_command(p) PROVE KInv'
  <2>1. PICK a \in Address :
            IF load(a) # Err /\ <<load(a).mrenclave, EnclaveOf[p]>> \in UnsealPolicy
            THEN proc' = [proc EXCEPT ![p].pc = "attest", ![p].addr = a, ![p].time = now]
            ELSE end(p)
    BY <1>7, Zenon DEF execute_command
  <2> QED
    BY <1>5, <1>7, <2>1, ExecuteStep, Zenon DEF execute_command
<1>8. ASSUME NEW p \in Process, proc[p].pc = "attest"
      PROVE  proc[p].addr \in Address /\ proc[p].time \in Nat /\ EnclaveOf[p] \in Mrenclave
  BY <1>0, <1>8, KeysAssumption DEF KInv, KeysMade, HasKey, KType, ProcState
<1>9. ASSUME NEW p \in Process, run_ias_remote_attestation(p) PROVE KInv'
  <2>1. PICK h \in IASAnswers :
            attested(p, "ias", ias_remote_attestation(EnclaveOf[p], proc[p].addr,
                                                      proc[p].time, h, now))
    BY <1>9 DEF run_ias_remote_attestation
  <2> DEFINE r == ias_remote_attestation(EnclaveOf[p], proc[p].addr, proc[p].time, h, now)
  <2>2. CASE Ok(r)
    <3>1. Attests(r, EnclaveOf[p], proc[p].addr) /\ Verified(r, "ias", proc[p].time)
      BY <1>0, <1>8, <1>9, <2>2, IASReportVerified, AnswerAssumption DEF run_ias_remote_attestation, KType
    <3> HIDE DEF r
    <3> QED
      BY <1>9, <2>1, <2>2, <3>1, AttestedStep DEF run_ias_remote_attestation, r
  <2>3. CASE ~Ok(r)
    <3> HIDE DEF r
    <3> QED
      BY <1>5, <2>1, <2>3 DEF attested, Ok, r
  <2> QED
    BY <2>2, <2>3
<1>10. ASSUME NEW p \in Process, simulate_attestation(p) PROVE KInv'
  <2>1. PICK h \in OperatorAnswers :
            attested(p, "simulation",
                     run_simulate_remote_attestation(EnclaveOf[p], proc[p].addr,
                                                     proc[p].time, h, now))
    BY <1>10 DEF simulate_attestation
  <2> DEFINE r == run_simulate_remote_attestation(EnclaveOf[p], proc[p].addr, proc[p].time, h, now)
  <2>2. CASE Ok(r)
    <3>1. Attests(r, EnclaveOf[p], proc[p].addr) /\ Verified(r, "simulation", proc[p].time)
      BY <1>0, <1>8, <1>10, <2>2, SimulatedReportVerified, AnswerAssumption
         DEF simulate_attestation, KType
    <3> HIDE DEF r
    <3> QED
      BY <1>10, <2>1, <2>2, <3>1, AttestedStep DEF simulate_attestation, r
  <2>3. CASE ~Ok(r)
    <3> HIDE DEF r
    <3> QED
      BY <1>5, <2>1, <2>3 DEF attested, Ok, r
  <2> QED
    BY <2>2, <2>3
<1>11. ASSUME NEW p \in Process, list_keys(p) \/ kill(p) PROVE KInv'
  BY <1>5, <1>11 DEF list_keys, kill
<1>12. ASSUME UNCHANGED kvars PROVE KInv'
  BY <1>0, <1>12, QuietStep DEF kvars, ghosts, KType
<1> QED
  BY <1>1, <1>2, <1>3, <1>4, <1>6, <1>7, <1>9, <1>10, <1>11, <1>12,
     GenerateStep, SaveAvrStep, PruneStep, Zenon DEF KNext

-----------------------------------------------------------------------------
(* What the service can say of its keys. *)

\* The query for one key: a key that was attested converts, with the time it is sorted
\* by, and a key that was not is an error.
AttestedKeysConvert ==
    \A a \in Address : load(a) # Err =>
        enclave_key(a) = IF rows[a].attested_at = None THEN Err
                         ELSE [address |-> a, attestation_time |-> rows[a].attested_at]

\* A stored report can be parsed.
LEMMA ParsedReport ==
    ASSUME NEW r, NEW m, NEW a, Attests(r, m, a)
    PROVE  /\ get_avr(r) = r.avr /\ Ok(r.avr)
           /\ attestation_time(r.avr) = r.avr.timestamp
           /\ Ok(parse_quote(r.avr))
           /\ parse_quote(r.avr).attestation_time = r.avr.timestamp
           /\ parse_quote(r.avr).raw = r.avr.quote
<1>1. /\ r.avr \in AVR /\ r.avr.timestamp \in Int /\ r.avr.quote \in RawQuote
      /\ r.avr.status \in Status
  BY DEF Attests, Report, AVR
<1>2. r.avr \notin {None, Err, Panic} /\ r.avr.timestamp \notin {None, Err, Panic}
  BY <1>1, ResultAssumption
<1>3. get_avr(r) = r.avr /\ attestation_time(r.avr) = r.avr.timestamp
  BY <1>2 DEF get_avr, attestation_time
<1> DEFINE q == [raw |-> r.avr.quote, status |-> r.avr.status,
                 attestation_time |-> r.avr.timestamp]
<1>4. parse_quote(r.avr) = q
  BY <1>2, <1>3 DEF parse_quote, Bind, Attests
<1>5. q \in Quote
  BY <1>1 DEF Quote
<1>6. Ok(q)
  BY <1>5, ResultAssumption DEF Ok
<1> QED
  BY <1>2, <1>3, <1>4, <1>6 DEF Ok

\* The invariants of the key manager follow from KInv.
LEMMA StoredReportsHold ==
    KInv => AttestedAsItself /\ VerifiedWhenStored /\ AttestedKeysConvert
<1> SUFFICES ASSUME KInv PROVE AttestedAsItself /\ VerifiedWhenStored /\ AttestedKeysConvert
  OBVIOUS
<1>1. ASSUME NEW a \in Address, rows[a] # None, rows[a].eavr # None
      PROVE  /\ get_enclave_key_address(parse_quote(rows[a].eavr.avr)) = a
             /\ <<rows[a].mrenclave, get_mrenclave(parse_quote(rows[a].eavr.avr))>>
                    \in UnsealPolicy
             /\ Verified(rows[a].eavr, checked[a].by, checked[a].time)
             /\ attestation_time(rows[a].eavr.avr) = rows[a].eavr.avr.timestamp
             /\ to_key_info(a) = [address |-> a, attestation_time |-> rows[a].attested_at]
             /\ rows[a].attested_at # None
  <2>1. PICK m \in Mrenclave : /\ Attests(rows[a].eavr, m, a)
                               /\ <<rows[a].mrenclave, m>> \in UnsealPolicy
    BY <1>1 DEF KInv, StoredReport
  <2>2. /\ Verified(rows[a].eavr, checked[a].by, checked[a].time)
        /\ rows[a].attested_at = secs(rows[a].eavr.avr.timestamp)
    BY <1>1 DEF KInv, StoredReport
  <2> DEFINE r == rows[a].eavr
  <2>3. /\ get_avr(r) = r.avr /\ Ok(r.avr)
        /\ attestation_time(r.avr) = r.avr.timestamp
        /\ Ok(parse_quote(r.avr))
        /\ parse_quote(r.avr).attestation_time = r.avr.timestamp
        /\ parse_quote(r.avr).raw = r.avr.quote
    BY <2>1, ParsedReport
  <2>4. /\ get_enclave_key_address(parse_quote(r.avr)) = a
        /\ get_mrenclave(parse_quote(r.avr)) = m
    BY <2>1, <2>3 DEF get_enclave_key_address, get_mrenclave, as_report_data, Attests
  <2>5. to_key_info(a) = [address |-> a, attestation_time |-> secs(r.avr.timestamp)]
    BY <1>1, <2>3 DEF to_key_info, Bind, Ok
  <2>6. secs(r.avr.timestamp) # None
    <3>1. r.avr.timestamp \in Int
      BY <2>1 DEF Attests, Report, AVR
    <3> QED
      BY <3>1, AttestationAssumption, ResultAssumption DEF secs
  <2> QED
    BY <2>1, <2>2, <2>3, <2>4, <2>5, <2>6
<1>2. AttestedAsItself
  BY <1>1 DEF AttestedAsItself
<1>3. VerifiedWhenStored
  BY <1>1, Zenon DEF VerifiedWhenStored, Verified, ValidAt
<1>4. AttestedKeysConvert
  <2> SUFFICES ASSUME NEW a \in Address, load(a) # Err
               PROVE  enclave_key(a) = IF rows[a].attested_at = None THEN Err
                          ELSE [address |-> a, attestation_time |-> rows[a].attested_at]
    BY DEF AttestedKeysConvert
  <2>1. load(a) = rows[a] /\ rows[a] # None
    BY DEF load
  <2>2. rows[a] \in Row /\ rows[a] \notin {Err, Panic}
    BY <2>1, RowAssumption DEF KInv, KType
  <2>3. enclave_key(a) = to_key_info(a)
    BY <2>1, <2>2 DEF enclave_key, Bind
  <2>4. CASE rows[a].eavr = None
    BY <2>1, <2>3, <2>4 DEF KInv, StoredReport, to_key_info
  <2>5. CASE rows[a].eavr # None
    BY <1>1, <2>1, <2>3, <2>5, Zenon
  <2> QED
    BY <2>4, <2>5
<1> QED
  BY <1>2, <1>3, <1>4

\* The list of the available keys, in any order that SQLite may give them.
LEMMA ListedKeysHold == KInv /\ AttestedKeysConvert => AvailableKeysServed
<1> SUFFICES ASSUME KInv, AttestedKeysConvert,
                    NEW mr \in Mrenclave, NEW keys \in available_keys(mr)
             PROVE  /\ available_enclave_keys(keys) =
                           [i \in DOMAIN keys |-> [address          |-> keys[i],
                                                  attestation_time |-> rows[keys[i]].attested_at]]
                    /\ \A a \in Address : load(a) # Err /\ load(a).mrenclave = mr =>
                           \/ enclave_key(a) = Err /\ rows[a].attested_at = None
                           \/ \E i \in DOMAIN keys :
                                  keys[i] = a /\ enclave_key(a) = available_enclave_keys(keys)[i]
  BY DEF AvailableKeysServed
<1> DEFINE info(a) == [address |-> a, attestation_time |-> rows[a].attested_at]
           listed  == [i \in DOMAIN keys |-> info(keys[i])]
<1>1. /\ \A i \in DOMAIN keys : /\ keys[i] \in Address /\ load(keys[i]) # Err
                                 /\ rows[keys[i]].attested_at # None
      /\ \A a \in Address : /\ load(a) # Err /\ rows[a].attested_at # None
                            /\ rows[a].mrenclave = mr
                            => \E i \in DOMAIN keys : keys[i] = a
  BY DEF available_keys
<1>2. ASSUME NEW a \in Address, load(a) # Err
      PROVE  load(a) = rows[a] /\ rows[a] \in Row /\ enclave_key(a) = to_key_info(a)
  <2>1. load(a) = rows[a] /\ rows[a] # None
    BY <1>2 DEF load
  <2>2. rows[a] \in Row /\ rows[a] \notin {Err, Panic}
    BY <2>1, RowAssumption DEF KInv, KType
  <2> QED
    BY <2>1, <2>2 DEF enclave_key, Bind
<1>3. \A a \in Address : load(a) # Err /\ rows[a].attested_at # None =>
         enclave_key(a) = info(a) /\ info(a) \notin {Err, Panic}
  <2> SUFFICES ASSUME NEW a \in Address, load(a) # Err, rows[a].attested_at # None
               PROVE  enclave_key(a) = info(a) /\ info(a) \notin {Err, Panic}
    OBVIOUS
  <2>1. rows[a].attested_at \in Int
    BY <1>2 DEF Row
  <2>2. info(a) \in KeyInfo
    BY <2>1 DEF KeyInfo
  <2> QED
    BY <2>2, RowAssumption DEF AttestedKeysConvert
<1>4. \A i \in DOMAIN keys :
         to_key_info(keys[i]) = info(keys[i]) /\ info(keys[i]) \notin {Err, Panic}
  BY <1>1, <1>2, <1>3
<1> HIDE DEF info
<1>5. available_enclave_keys(keys) = listed
  BY <1>4 DEF available_enclave_keys
<1>6. ASSUME NEW a \in Address, load(a) # Err, load(a).mrenclave = mr, rows[a].attested_at # None
      PROVE  \E i \in DOMAIN keys :
                keys[i] = a /\ enclave_key(a) = available_enclave_keys(keys)[i]
  BY <1>1, <1>2, <1>3, <1>5, <1>6
<1> QED
  BY <1>5, <1>6 DEF info, AttestedKeysConvert

-----------------------------------------------------------------------------
(* The processes of the program. *)

EnvState ==
    [at   : {"none", "failed", "open", "recover", "drop", "open_for_read_only", "ready"},
     cmd  : CliCmd \cup {None}, saw : {None, "absent", "partial", "ready"},
     held : Process \cup {None}]

(* The environment of process p when the directory is d: a read-only command makes the
   store only if it saw none, a store that it saw complete or made itself stays complete,
   and a set-up that failed has its reason. *)
EnvOk(p, e, d) ==
    /\ e \in EnvState
    /\ e.at \in {"open", "recover", "drop"} /\ e.cmd \in ReadOnlyCmd => e.saw = "absent"
    /\ e.at = "drop" => e.cmd \in ReadOnlyCmd /\ d = "ready"
    /\ e.at = "open_for_read_only" =>
           e.cmd \in ReadOnlyCmd /\ (e.saw # "partial" => d = "ready")
    /\ e.at = "failed" =>
           \/ e.held \notin {None, p} /\ (e.cmd \in ReadOnlyCmd => e.saw = "absent")
           \/ e.cmd \in ReadOnlyCmd /\ e.saw = "partial"

\* A process has the lock only between its opening of the store and its end.
LockOk(p, e, l) == l = p => e.at \in {"recover", "drop", "ready"}

Dir == {"absent", "partial", "ready"}

AInv ==
    /\ dir \in Dir /\ lock \in Process \cup {None} /\ env \in [Process -> EnvState]
    /\ \A p \in Process : EnvOk(p, env[p], dir) /\ LockOk(p, env[p], lock)

\* An empty home directory and no process.
LEMMA InitAInv == AInit => AInv
<1> SUFFICES ASSUME AInit PROVE AInv
  OBVIOUS
<1>1. NoEnv \in EnvState /\ NoEnv.at = "none"
  BY DEF NoEnv, EnvState
<1>2. \A p \in Process : EnvOk(p, NoEnv, dir)
  BY <1>1 DEF EnvOk
<1> QED
  BY <1>1, <1>2, AppAssumption DEF AInit, AInv, LockOk, Dir

(* A step of process p that changes its environment: the directory only grows, and the
   lock goes to p or away. *)
LEMMA EnvStep ==
    ASSUME AInv, NEW p \in Process, NEW e, EnvOk(p, e, dir'), LockOk(p, e, lock'),
           env' = [env EXCEPT ![p] = e],
           dir' \in Dir, dir = "ready" => dir' = "ready",
           lock' \in {lock, p, None}
    PROVE  AInv'
<1>1. dir' \in Dir /\ lock' \in Process \cup {None} /\ env' \in [Process -> EnvState]
  BY DEF AInv, EnvOk
<1>2. env'[p] = e /\ \A q \in Process \ {p} : env'[q] = env[q]
  BY DEF AInv
<1>3. \A q \in Process \ {p} : lock' = q => lock = q
  BY AppAssumption
<1>4. \A q \in Process : LockOk(q, env'[q], lock')
  BY <1>2, <1>3 DEF AInv, LockOk
<1>5. \A q \in Process \ {p} : EnvOk(q, env[q], dir')
  BY DEF AInv, EnvOk
<1> QED
  BY <1>1, <1>2, <1>4, <1>5 DEF AInv

\* A process that ends closes its store.
LEMMA ExitStep ==
    ASSUME AInv, NEW p \in Process, exit(p), UNCHANGED dir PROVE AInv'
<1>1. NoEnv \in EnvState /\ NoEnv.at = "none"
  BY DEF NoEnv, EnvState
<1>2. EnvOk(p, NoEnv, dir')
  BY <1>1 DEF EnvOk
<1>3. /\ lock = p => lock' = None
      /\ lock # p => lock' = lock
  BY DEF exit
<1>4. None # p
  BY AppAssumption
<1>5. LockOk(p, NoEnv, lock')
  BY <1>3, <1>4, Zenon DEF LockOk
<1>6. dir' \in Dir /\ lock' \in {lock, p, None} /\ env' = [env EXCEPT ![p] = NoEnv]
  BY <1>3 DEF AInv, exit
<1> QED
  BY <1>2, <1>5, <1>6, EnvStep, Zenon

\* A step of a command ends the process or leaves its environment alone.
LEMMA CommandStep ==
    ASSUME AInv, NEW p \in Process, UNCHANGED dir, exit(p) \/ UNCHANGED <<env, lock>>
    PROVE  AInv'
<1>1. CASE UNCHANGED <<env, lock>>
  BY <1>1 DEF AInv
<1> QED
  BY <1>1, ExitStep

\* Every step of the program preserves the invariant of the environments.
LEMMA NextAInv == AInv /\ [ANext]_<<avars, kvars>> => AInv'
<1> SUFFICES ASSUME AInv, [ANext]_<<avars, kvars>> PROVE AInv'
  OBVIOUS
<1>0. /\ dir \in Dir /\ lock \in Process \cup {None}
      /\ \A p \in Process :
             env[p] \in EnvState /\ EnvOk(p, env[p], dir) /\ LockOk(p, env[p], lock)
  BY DEF AInv
<1>1. ASSUME UNCHANGED avars PROVE AInv'
  BY <1>1 DEF avars, AInv
<1>2. ASSUME NEW p \in Process, cli_run(p) PROVE AInv'
  <2>1. PICK cmd \in CliCmd :
            env' = [env EXCEPT ![p] =
                IF cmd \in ReadOnlyCmd
                THEN [NoEnv EXCEPT !.cmd = cmd, !.at = open_read_only(cmd), !.saw = dir]
                ELSE [NoEnv EXCEPT !.cmd = cmd, !.at = "open"]]
    BY <1>2, Zenon DEF cli_run
  <2> DEFINE e == IF cmd \in ReadOnlyCmd
                  THEN [NoEnv EXCEPT !.cmd = cmd, !.at = open_read_only(cmd), !.saw = dir]
                  ELSE [NoEnv EXCEPT !.cmd = cmd, !.at = "open"]
  <2>2. /\ e \in EnvState /\ e.cmd = cmd
        /\ cmd \in ReadOnlyCmd => e.at = open_read_only(cmd) /\ e.saw = dir
        /\ cmd \notin ReadOnlyCmd => e.at = "open"
    BY <1>0, Zenon DEF EnvState, NoEnv, open_read_only, Dir
  <2>3. UNCHANGED <<dir, lock>> /\ lock # p
    BY <1>0, <1>2 DEF cli_run, LockOk
  <2> HIDE DEF e
  <2>4. EnvOk(p, e, dir') /\ LockOk(p, e, lock')
    BY <1>0, <2>2, <2>3 DEF EnvOk, LockOk, open_read_only, Dir
  <2>5. env' = [env EXCEPT ![p] = e]
    BY <2>1 DEF e
  <2> QED
    BY <1>0, <2>3, <2>4, <2>5, EnvStep, Zenon
<1>3. ASSUME NEW p \in Process, NEW s \in {"recover", "drop", "open_for_read_only"}
      PROVE  LET e == [env[p] EXCEPT !.at = s] IN
             e \in EnvState /\ e.at = s /\ e.cmd = env[p].cmd /\ e.saw = env[p].saw
  BY <1>0 DEF EnvState
<1>4. ASSUME NEW p \in Process, setup_fails(p), UNCHANGED lock,
             dir' \in Dir, dir = "ready" => dir' = "ready",
             env[p].at \in {"open", "open_for_read_only"},
             \/ lock # None /\ (ReadOnly(p) => env[p].saw = "absent")
             \/ ReadOnly(p) /\ env[p].saw = "partial"
      PROVE  AInv'
  <2> DEFINE e == [env[p] EXCEPT !.at = "failed", !.held = lock]
  <2>1. env[p] \in EnvState /\ lock \in Process \cup {None} /\ lock # p
    BY <1>0, <1>4 DEF LockOk
  <2>2. /\ e \in EnvState /\ e.at = "failed" /\ e.held = lock
        /\ e.cmd = env[p].cmd /\ e.saw = env[p].saw
    BY <2>1, Zenon DEF EnvState
  <2>3. env' = [env EXCEPT ![p] = e]
    BY <1>4, Zenon DEF setup_fails
  <2> HIDE DEF e
  <2>4. EnvOk(p, e, dir') /\ LockOk(p, e, lock')
    BY <1>4, <2>1, <2>2 DEF EnvOk, LockOk, ReadOnly
  <2> QED
    BY <1>4, <2>3, <2>4, EnvStep, Zenon
<1>5. ASSUME NEW p \in Process, set_environment(p), UNCHANGED lock, dir' = "ready"
      PROVE  AInv'
  <2> DEFINE e == [env[p] EXCEPT !.at = "ready", !.saw = None]
  <2>1. e \in EnvState /\ e.at = "ready"
    BY <1>0, Zenon DEF EnvState
  <2>2. env' = [env EXCEPT ![p] = e]
    BY <1>5, Zenon DEF set_environment
  <2> HIDE DEF e
  <2>3. EnvOk(p, e, dir') /\ LockOk(p, e, lock') /\ dir' \in Dir
    BY <1>5, <2>1 DEF EnvOk, LockOk, Dir
  <2> QED
    BY <1>5, <2>2, <2>3, EnvStep, Zenon
<1>6. ASSUME NEW p \in Process, open_default(p) PROVE AInv'
  <2>1. dir' \in Dir /\ (dir = "ready" => dir' = "ready")
    BY <1>0, <1>6 DEF open_default, Dir
  <2>2. CASE lock = None
    <3> DEFINE e == [env[p] EXCEPT !.at = "recover"]
    <3>1. env' = [env EXCEPT ![p] = e] /\ lock' = p
      BY <1>6, <2>2 DEF open_default
    <3>2. e \in EnvState /\ e.at = "recover" /\ e.cmd = env[p].cmd /\ e.saw = env[p].saw
      BY <1>3, Zenon
    <3> HIDE DEF e
    <3>3. EnvOk(p, e, dir') /\ LockOk(p, e, lock')
      BY <1>0, <1>6, <3>2 DEF open_default, EnvOk, LockOk
    <3> QED
      BY <2>1, <3>1, <3>3, EnvStep, Zenon
  <2>3. CASE lock # None
    <3>1. ReadOnly(p) => env[p].saw = "absent"
      BY <1>0, <1>6 DEF open_default, EnvOk, ReadOnly
    <3> QED
      BY <1>4, <1>6, <2>1, <2>3, <3>1 DEF open_default
  <2> QED
    BY <2>2, <2>3
<1>7. ASSUME NEW p \in Process, recovered(p) PROVE AInv'
  <2>1. CASE ReadOnly(p)
    <3> DEFINE e == [env[p] EXCEPT !.at = "drop"]
    <3>1. env' = [env EXCEPT ![p] = e] /\ UNCHANGED lock /\ dir' = "ready"
      BY <1>7, <2>1 DEF recovered
    <3>2. e \in EnvState /\ e.at = "drop" /\ e.cmd = env[p].cmd /\ e.saw = env[p].saw
      BY <1>3, Zenon
    <3> HIDE DEF e
    <3>3. EnvOk(p, e, dir') /\ LockOk(p, e, lock') /\ dir' \in Dir
      BY <1>0, <1>7, <2>1, <3>1, <3>2 DEF recovered, EnvOk, LockOk, ReadOnly, Dir
    <3> QED
      BY <3>1, <3>3, EnvStep, Zenon
  <2>2. CASE ~ReadOnly(p)
    BY <1>5, <1>7, <2>2 DEF recovered
  <2> QED
    BY <2>1, <2>2
<1>8. ASSUME NEW p \in Process, drop_store(p) PROVE AInv'
  <2> DEFINE e == [env[p] EXCEPT !.at = "open_for_read_only"]
  <2>1. env' = [env EXCEPT ![p] = e] /\ lock' = None /\ UNCHANGED dir
    BY <1>8 DEF drop_store
  <2>2. /\ e \in EnvState /\ e.at = "open_for_read_only"
        /\ e.cmd = env[p].cmd /\ e.saw = env[p].saw
    BY <1>3, Zenon
  <2> HIDE DEF e
  <2>3. EnvOk(p, e, dir')
    BY <1>0, <1>8, <2>1, <2>2 DEF drop_store, EnvOk
  <2>4. None # p
    BY AppAssumption
  <2>5. LockOk(p, e, lock')
    BY <2>1, <2>4, Zenon DEF LockOk
  <2> QED
    BY <1>0, <2>1, <2>3, <2>5, EnvStep, Zenon
<1>9. ASSUME NEW p \in Process, open_for_read_only(p) PROVE AInv'
  <2>1. CASE dir = "ready"
    BY <1>5, <1>9, <2>1 DEF open_for_read_only
  <2>2. CASE dir # "ready"
    <3>1. ReadOnly(p) /\ env[p].saw = "partial"
      BY <1>0, <1>9, <2>2 DEF open_for_read_only, EnvOk, ReadOnly
    <3> QED
      BY <1>0, <1>4, <1>9, <2>2, <3>1 DEF open_for_read_only
  <2> QED
    BY <2>1, <2>2
<1>10. ASSUME NEW p \in Process,
              \/ load_enclave(p) \/ EnclaveCmd_run(p) \/ AttestationCmd_run(p)
              \/ run_print_metadata(p) \/ ELCCmd_run(p) \/ ServiceCmd_run(p)
              \/ kill_process(p)
       PROVE  AInv'
  BY <1>10, CommandStep, Zenon DEF load_enclave, EnclaveCmd_run, AttestationCmd_run,
     run_print_metadata, ELCCmd_run, ServiceCmd_run, kill_process, command
<1> QED
  BY <1>1, <1>2, <1>6, <1>7, <1>8, <1>9, <1>10 DEF ANext, avars

\* A step of the program is a step of the key manager or leaves it alone.
LEMMA ProgramStep == [ANext]_<<avars, kvars>> => [KNext]_kvars
  BY Zenon DEF ANext, KNext, cli_run, open_default, recovered, drop_store, open_for_read_only,
     load_enclave, EnclaveCmd_run, AttestationCmd_run, run_print_metadata, ELCCmd_run,
     ServiceCmd_run, kill_process, command

\* The invariant of the key manager holds throughout the program.
LEMMA ProgramKInv == ASpec => []KInv
<1>1. AInit => KInv
  BY InitKInv DEF AInit
<1>2. KInv /\ [ANext]_<<avars, kvars>> => KInv'
  BY NextKInv, ProgramStep
<1> QED
  BY <1>1, <1>2, PTL DEF ASpec

-----------------------------------------------------------------------------

\* The report stored with a key attests that key, in an enclave that the unsealing
\* policy lets unseal it, for any combination of the answers of the quoting enclave and
\* of the services (accepts_quote, save_avr).
THEOREM AttestedAsItselfHolds == ASpec => []AttestedAsItself
  BY ProgramKInv, StoredReportsHold, PTL

\* A stored report was less than a day old when its command began, and one of the
\* attestation service has a valid signature and a certificate that was valid at the
\* second to which verify_report rounds that time.
THEOREM VerifiedWhenStoredHolds == ASpec => []VerifiedWhenStored
  BY ProgramKInv, StoredReportsHold, PTL

\* The service can describe every key that it lists as available, with the time that
\* available_keys sorts by, and the query of one key agrees with the list.
THEOREM AvailableKeysServedHolds == ASpec => []AvailableKeysServed
  BY ProgramKInv, StoredReportsHold, ListedKeysHold, PTL

\* A key that was generated or attested with success stays so until it is pruned,
\* whatever the other processes do and whenever they are killed.
THEOREM SuccessIsDurableHolds == ASpec => []SuccessIsDurable
<1>1. KInv => SuccessIsDurable
  BY DEF KInv
<1> QED
  BY <1>1, ProgramKInv, PTL

\* A pruned key never comes back, also when its attestation was under way (save_avr).
THEOREM PrunedStaysGoneHolds == ASpec => []PrunedStaysGone
<1>1. KInv => PrunedStaysGone
  BY DEF KInv
<1> QED
  BY <1>1, ProgramKInv, PTL

\* The set-up of a command fails only for the reasons that setup_env and
\* setup_read_only_env have.
THEOREM StartsBesideServiceHolds == ASpec => []StartsBesideService
<1>1. AInv => StartsBesideService
  BY DEF AInv, EnvOk, StartsBesideService, ReadOnly
<1> QED
  BY <1>1, InitAInv, NextAInv, PTL DEF ASpec
===========================================================================
