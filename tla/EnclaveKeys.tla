---------------------------- MODULE EnclaveKeys ----------------------------
(***************************************************************************)
(* The key manager (modules/keymanager) and the commands that use it:      *)
(* generate a key, attest it, list and prune (app/src/commands,            *)
(* modules/enclave-api/src/api/command.rs), and the service's queries.     *)
(*                                                                         *)
(* Every command is a process of its own on the same SQLite file.  An SQL  *)
(* statement is atomic, a command is not: it reads a row, runs in the      *)
(* enclave and writes the row, other processes run in between, and a       *)
(* process may be killed between any two of its steps.                     *)
(***************************************************************************)
EXTENDS RemoteAttestation

CONSTANTS
    Process,       \* processes on the same home directory
    EnclaveOf,     \* EnclaveOf[p]: the enclave binary process p loads
    UnsealPolicy,  \* <<m, n>>: enclave n unseals what enclave m sealed (SGX SDK)
    Expiration,    \* arguments of `enclave prune-keys --expiration`, in seconds
    FirstTime, LastTime,
    MaxCommands    \* bound on the commands that are run

ASSUME KeysAssumption ==
    /\ EnclaveOf \in [Process -> Mrenclave]
    /\ UnsealPolicy \subseteq Mrenclave \X Mrenclave
    /\ Expiration \subseteq Nat
    /\ FirstTime \in Nat /\ LastTime \in Nat /\ MaxCommands \in Nat

VARIABLES
    file,      \* km.sqlite: absent, empty (no table) or ready
    rows,      \* the table enclave_keys, by ek_address
    proc,      \* where each process is
    commands,  \* how many commands have been started
    now,       \* the host's clock, in ticks
    made,      \* every key an enclave has generated
    answered,  \* <<command, address>>: commands that returned Ok
    pruned,    \* keys whose row a prune deleted
    checked    \* for a stored report: how and at which time it was verified

kvars == <<file, rows, proc, commands, now, made, answered, pruned, checked>>

Row ==
    [mrenclave : Mrenclave, eavr : Report \cup {None}, attested_at : Int \cup {None}]

\* EnclaveKeyInfo of the gRPC service.
KeyInfo == [address : Address, attestation_time : Int]

\* Neither is one of the values that stand for no row, an error and a panic.
ASSUME RowAssumption == \A x \in {None, Err, Panic} : x \notin Row /\ x \notin KeyInfo

\* A row without a report has three NULL columns and no attested_at.
NewRow(mr) == [mrenclave |-> mr, eavr |-> None, attested_at |-> None]

Down == [pc |-> "down", addr |-> None, time |-> 0, by |-> None, eavr |-> None]

KInit ==
    /\ file = "absent"
    /\ rows = [a \in Address |-> None]
    /\ proc = [p \in Process |-> Down]
    /\ commands = 0
    /\ now = FirstTime
    /\ made = {} /\ answered = {} /\ pruned = {}
    /\ checked = [a \in Address |-> None]

-----------------------------------------------------------------------------
(* EnclaveKeyManager::new, in the order of its calls. *)

ghosts == <<made, answered, pruned, checked>>

\* `db_exists` is read before the file is opened.
exists(p) ==
    /\ proc[p].pc = "down"
    /\ commands < MaxCommands
    /\ commands' = commands + 1
    /\ proc' = [proc EXCEPT ![p].pc = IF file = "absent" THEN "create" ELSE "open"]
    /\ UNCHANGED <<file, rows, now, ghosts>>

\* Connection::open creates an empty file; only who saw none runs init_db.
open(p) ==
    /\ proc[p].pc \in {"create", "open"}
    /\ file' = IF file = "absent" THEN "empty" ELSE file
    /\ proc' = [proc EXCEPT ![p].pc = IF @ = "create" THEN "init_db" ELSE "ready"]
    /\ UNCHANGED <<commands, rows, now, ghosts>>

\* Mutant of init_db: a table that is there already is dropped first.
init_db_recreates(p) ==
    /\ proc[p].pc = "init_db"
    /\ file' = "ready"
    /\ rows' = [a \in Address |-> None]
    /\ proc' = [proc EXCEPT ![p].pc = "ready"]
    /\ UNCHANGED <<commands, now, ghosts>>

\* One transaction; CREATE TABLE fails when another process was first.
init_db(p) ==
    /\ proc[p].pc = "init_db"
    /\ file' = "ready"
    /\ proc' = [proc EXCEPT ![p].pc = IF file = "empty" THEN "ready" ELSE "down"]
    /\ UNCHANGED <<commands, rows, now, ghosts>>

-----------------------------------------------------------------------------
(* The statements of the key manager. *)

\* No table, or no row.
load(a) == IF file # "ready" THEN Err ELSE IF rows[a] = None THEN Err ELSE rows[a]

\* attested_at is a TEXT column: numbers are stored and compared as decimal text.
Digits[n \in Nat] == IF n < 10 THEN <<n>> ELSE Append(Digits[n \div 10], n % 10)

text_le(m, n) ==
    LET s == Digits[m]
        t == Digits[n] IN
    \/ Len(s) <= Len(t) /\ s = SubSeq(t, 1, Len(s))
    \/ \E i \in 1..Len(s) \cap 1..Len(t) :
           /\ s[i] < t[i]
           /\ \A j \in 1..i - 1 : s[j] = t[j]

\* WHERE attested_at IS NOT NULL AND mrenclave = ?1 ORDER BY attested_at DESC: the
\* orders in which SQLite may answer, as it chooses between equal times.
available_keys(mr) ==
    LET found == {a \in Address : load(a) # Err /\ rows[a].attested_at # None
                                                /\ rows[a].mrenclave = mr}
        n     == Cardinality(found)
    IN  {keys \in [1..n -> found] :
             /\ \A a \in found : \E i \in 1..n : keys[i] = a
             /\ \A i, j \in 1..n : i < j =>
                    text_le(rows[keys[j]].attested_at, rows[keys[i]].attested_at)}

all_keys == {a \in Address : load(a) # Err}

\* A key without a report is an error, and the attestation time is that of the parsed
\* quote.
to_key_info(a) ==
    IF rows[a].eavr = None THEN Err
    ELSE Bind(get_avr(rows[a].eavr), LAMBDA avr :
         Bind(parse_quote(avr), LAMBDA quote :
             [address |-> a, attestation_time |-> secs(quote.attestation_time)]))

\* The query, with the rows that available_keys has answered; it aborts at the first key
\* that does not convert.
available_enclave_keys(keys) ==
    LET infos == [i \in DOMAIN keys |-> to_key_info(keys[i])]
    IN  IF \E i \in DOMAIN infos : infos[i] \in {Err, Panic} THEN Err ELSE infos

enclave_key(a) == Bind(load(a), LAMBDA row : to_key_info(a))

-----------------------------------------------------------------------------
(* Commands.  Each ends its process, with an answer or an error. *)

end(p) == proc' = [proc EXCEPT ![p] = Down]

\* The ecall of generate_enclave_key: EnclaveKey::new is random, never a key that
\* was made before; it is sealed by the enclave of the process.
generate_enclave_key(p) ==
    /\ proc[p].pc = "ready"
    /\ \E k \in Address \ made :
           /\ made' = made \cup {k}
           /\ proc' = [proc EXCEPT ![p].pc = "save", ![p].addr = k]
    /\ UNCHANGED <<commands, file, rows, now, answered, pruned, checked>>

\* INSERT of the new key with the measurement of the enclave file, then the answer.
save(p) ==
    /\ proc[p].pc = "save"
    /\ end(p)
    /\ IF file = "ready"
       THEN /\ rows' = [rows EXCEPT ![proc[p].addr] = NewRow(EnclaveOf[p])]
            /\ answered' = answered \cup {<<"generate", proc[p].addr>>}
       ELSE UNCHANGED <<rows, answered>>
    /\ UNCHANGED <<commands, file, now, made, pruned, checked>>

\* execute_command with a key: the time is taken, the row is loaded, and the
\* enclave unseals the key or gives an error.
execute_command(p) ==
    /\ proc[p].pc = "ready"
    /\ \E a \in Address :
           IF load(a) # Err /\ <<load(a).mrenclave, EnclaveOf[p]>> \in UnsealPolicy
           THEN proc' = [proc EXCEPT ![p].pc = "attest", ![p].addr = a, ![p].time = now]
           ELSE end(p)
    /\ UNCHANGED <<commands, file, rows, now, ghosts>>

\* The result of an attestation in the enclave: an error and a panic end the
\* command, a report is still to be saved.
attested(p, by, report) ==
    /\ IF report \in {Err, Panic} THEN end(p)
       ELSE proc' = [proc EXCEPT ![p].pc = "save_avr", ![p].by = by, ![p].eavr = report]
    /\ UNCHANGED <<commands, file, rows, now, ghosts>>

\* run_ias_remote_attestation: the service answers at the present time, the
\* enclave judges it by the time the command began.
run_ias_remote_attestation(p) ==
    /\ proc[p].pc = "attest"
    /\ \E report \in {ias_remote_attestation(EnclaveOf[p], proc[p].addr, proc[p].time, h, now)
                          : h \in IASAnswers} :
           attested(p, "ias", report)

simulate_attestation(p) ==
    /\ proc[p].pc = "attest"
    /\ \E report \in {run_simulate_remote_attestation(EnclaveOf[p], proc[p].addr,
                                                      proc[p].time, h, now)
                          : h \in OperatorAnswers} :
           attested(p, "simulation", report)

\* Mutant of save_avr: the statement sets attested_at and leaves the report's columns.
save_avr_time_only(p) ==
    /\ proc[p].pc = "save_avr"
    /\ end(p)
    /\ LET a == proc[p].addr
           t == attestation_time(get_avr(proc[p].eavr)) IN
       /\ rows' = [rows EXCEPT ![a] =
              IF @ = None THEN None ELSE [@ EXCEPT !.attested_at = secs(t)]]
       /\ answered' = answered \cup {<<"attest", a>>}
    /\ UNCHANGED <<commands, file, now, made, pruned, checked>>

\* Mutant of save_avr: an INSERT OR REPLACE, which also makes a row that has gone.
save_avr_upsert(p) ==
    /\ proc[p].pc = "save_avr"
    /\ end(p)
    /\ LET a == proc[p].addr
           t == attestation_time(get_avr(proc[p].eavr)) IN
       /\ rows' = [rows EXCEPT ![a] =
              [mrenclave |-> EnclaveOf[p], eavr |-> proc[p].eavr, attested_at |-> secs(t)]]
       /\ checked' = [checked EXCEPT ![a] = [by |-> proc[p].by, time |-> proc[p].time]]
       /\ answered' = answered \cup {<<"attest", a>>}
    /\ UNCHANGED <<commands, file, now, made, pruned>>

\* One UPDATE of the four columns; a row that has gone is not an error.
save_avr(p) ==
    /\ proc[p].pc = "save_avr"
    /\ end(p)
    /\ LET a == proc[p].addr
           t == attestation_time(get_avr(proc[p].eavr)) IN
       /\ rows' = [rows EXCEPT ![a] =
              IF @ = None THEN None
              ELSE [@ EXCEPT !.eavr = proc[p].eavr, !.attested_at = secs(t)]]
       /\ checked' = [checked EXCEPT ![a] =
              IF rows[a] = None THEN None ELSE [by |-> proc[p].by, time |-> proc[p].time]]
       /\ answered' = answered \cup {<<"attest", a>>}
    /\ UNCHANGED <<commands, file, now, made, pruned>>

\* Mutant of prune_expired: a prune by the age of the row with a second to spare.
prune_expired_early(a, expired) == rows[a].attested_at <= secs(expired) + 1

\* DELETE ... WHERE attested_at <= ?1: text against text.
prune_expired(a, expired) == text_le(rows[a].attested_at, secs(expired))

\* The time of expiry before 1970 panics or is an error.
prune(p) ==
    /\ proc[p].pc = "ready" /\ file = "ready"
    /\ end(p)
    /\ \E e \in Expiration :
           LET expired == now - e * TicksPerSec
               gone == {a \in Address : /\ expired >= 0
                                        /\ load(a) # Err /\ rows[a].attested_at # None
                                        /\ prune_expired(a, expired)} IN
           /\ rows' = [a \in Address |-> IF a \in gone THEN None ELSE rows[a]]
           /\ checked' = [a \in Address |-> IF a \in gone THEN None ELSE checked[a]]
           /\ pruned' = pruned \cup gone
    /\ UNCHANGED <<commands, file, now, made, answered>>

\* list-keys and metadata read, and any statement fails without a table.
list_keys(p) ==
    /\ proc[p].pc = "ready"
    /\ end(p)
    /\ UNCHANGED <<commands, file, rows, now, ghosts>>

\* The process is killed, or a call of it fails on the way (metadata, SQLite).
kill(p) ==
    /\ proc[p].pc # "down"
    /\ end(p)
    /\ UNCHANGED <<commands, file, rows, now, ghosts>>

tick ==
    /\ now < LastTime
    /\ now' = now + 1
    /\ UNCHANGED <<commands, file, rows, proc, ghosts>>

KNext ==
    \/ tick
    \/ \E p \in Process :
           \/ exists(p) \/ open(p) \/ init_db(p)
           \/ generate_enclave_key(p) \/ save(p)
           \/ execute_command(p) \/ run_ias_remote_attestation(p) \/ simulate_attestation(p)
           \/ save_avr(p) \/ prune(p) \/ list_keys(p) \/ kill(p)

KSpec == KInit /\ [][KNext]_kvars

-----------------------------------------------------------------------------
(* Properties. *)

\* The report stored with a key (save_avr) attests that key, in an enclave that can
\* unseal it: not the key of another row, and not one that another request asked
\* the quoting enclave about.
AttestedAsItself ==
    \A a \in Address : rows[a] # None /\ rows[a].eavr # None =>
        LET quote == parse_quote(rows[a].eavr.avr) IN
        /\ get_enclave_key_address(quote) = a
        /\ <<rows[a].mrenclave, get_mrenclave(quote)>> \in UnsealPolicy

\* A stored report was less than 24 hours old when its command began, however late the
\* service answered (validate_quote_status).  One of the attestation service had a valid
\* signature, and a certificate that was valid at the second to which verify_report
\* rounds that moment: for a whole second the next one, else the one that has begun.
VerifiedWhenStored ==
    \A a \in Address : rows[a] # None /\ rows[a].eavr # None =>
        LET c     == checked[a]
            r     == rows[a].eavr
            whole == c.time % TicksPerSec = 0 IN
        /\ c.time < attestation_time(r.avr) + Day
        /\ c.by = "ias" =>
               /\ r.signature = "valid" /\ r.signing_cert.chain = "intel"
               /\ r.signing_cert.not_before * TicksPerSec
                      <= IF whole THEN c.time + TicksPerSec ELSE c.time
               /\ c.time < IF whole THEN r.signing_cert.not_after * TicksPerSec
                           ELSE (r.signing_cert.not_after + 1) * TicksPerSec

\* "the current time are rounded up conservatively" (verification.rs:36): no report is
\* stored whose certificate had run out when its command began.
UnexpiredWhenStored ==
    \A a \in Address : rows[a] # None /\ rows[a].eavr # None /\ checked[a].by = "ias" =>
        checked[a].time <= rows[a].eavr.signing_cert.not_after * TicksPerSec

\* What the service lists as available it can also describe: the rows that
\* available_keys selects by attested_at all have the report that the conversion
\* to EnclaveKeyInfo needs, with the time they are sorted by.  The query for one key
\* gives the same answer, and an error for a key that is not in the list.
AvailableKeysServed ==
    \A mr \in Mrenclave : \A keys \in available_keys(mr) :
        /\ available_enclave_keys(keys) =
               [i \in DOMAIN keys |-> [address          |-> keys[i],
                                      attestation_time |-> rows[keys[i]].attested_at]]
        /\ \A a \in Address : load(a) # Err /\ load(a).mrenclave = mr =>
               \/ enclave_key(a) = Err /\ rows[a].attested_at = None
               \/ \E i \in DOMAIN keys :
                      keys[i] = a /\ enclave_key(a) = available_enclave_keys(keys)[i]

\* A command that returned Ok is durable: the key it generated is in the table, the
\* key it attested is attested, whatever other processes do and whenever they are
\* killed.  Only prune takes a key away.
SuccessIsDurable ==
    \A a \in Address \ pruned :
        /\ <<"generate", a>> \in answered => rows[a] # None
        /\ <<"attest", a>> \in answered => rows[a] # None /\ rows[a].attested_at # None

\* A key that was pruned never comes back: an attestation that was under way when the
\* row went finds none to UPDATE (save_avr), and a new key has a new address.
PrunedStaysGone == \A a \in Address : a \in pruned => rows[a] = None

\* "Prune keys after the expiration time(secs) from the attestation time"
\* (keymanager/src/lib.rs:226): a prune with expiration e deletes no key that was
\* attested less than e seconds ago.
PrunesOnlyExpired ==
    [][\A a \in Address \ pruned : a \in pruned' =>
           \E e \in Expiration :
               /\ rows[a].attested_at <= secs(now) - e
               /\ \A b \in Address : rows[b] # None /\ rows[b].attested_at # None
                                     /\ b \notin pruned' => rows[b].attested_at > secs(now) - e
      ]_kvars
=============================================================================
