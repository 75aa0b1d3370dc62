-------------------------------- MODULE App --------------------------------
(***************************************************************************)
(* The program lcp (app/src): every invocation is a process that sets up   *)
(* its environment, the RocksDB store of the home directory, then loads    *)
(* the enclave with the key manager (EnclaveKeys) and runs one command.    *)
(* The service and the elc commands open the store for writing, the        *)
(* enclave and attestation commands read-only, so that keys are managed    *)
(* beside a running service.                                               *)
(***************************************************************************)
EXTENDS EnclaveKeys

ASSUME AppAssumption == None \notin Process

VARIABLES
    dir,   \* the directory `state`: absent, partial (being made) or ready
    lock,  \* the process that holds RocksDB's LOCK file
    env    \* env[p]: how far CliCmd::run of process p is

avars == <<dir, lock, env>>

\* `saw` is the directory when open_read_only looked, `held` the holder of the lock
\* when the set-up of the environment failed.
NoEnv == [at |-> "none", cmd |-> None, saw |-> None, held |-> None]

CliCmd == {"enclave", "attestation", "elc", "service"}

ReadOnlyCmd == {"enclave", "attestation"}

ReadOnly(p) == env[p].cmd \in ReadOnlyCmd

AInit ==
    /\ KInit
    /\ dir = "absent"
    /\ lock = None
    /\ env = [p \in Process |-> NoEnv]

-----------------------------------------------------------------------------
(* setup_env and setup_read_only_env. *)

\* Mutant of open_read_only: the store is opened for writing to make sure it is there.
open_read_only_always(cmd) == "open"

\* RocksDBStore::open_read_only makes the store first, but only if it sees none.
open_read_only(cmd) == IF dir = "absent" THEN "open" ELSE "open_for_read_only"

\* CliCmd::run: which store a command opens.
cli_run(p) ==
    /\ env[p].at \in {"none", "failed"}
    /\ commands < MaxCommands
    /\ \E cmd \in CliCmd :
           env' = [env EXCEPT ![p] =
               IF cmd \in ReadOnlyCmd
               THEN [NoEnv EXCEPT !.cmd = cmd, !.at = open_read_only(cmd), !.saw = dir]
               ELSE [NoEnv EXCEPT !.cmd = cmd, !.at = "open"]]
    /\ UNCHANGED <<dir, lock, kvars>>

\* `unwrap` of an error of RocksDB: the process ends.
setup_fails(p) == env' = [env EXCEPT ![p].at = "failed", ![p].held = lock]

\* TransactionDB::open_default makes the directory and takes the LOCK file; it fails
\* when another process has it.
open_default(p) ==
    /\ env[p].at = "open"
    /\ dir' = IF dir = "absent" THEN "partial" ELSE dir
    /\ IF lock = None
       THEN lock' = p /\ env' = [env EXCEPT ![p].at = "recover"]
       ELSE setup_fails(p) /\ UNCHANGED lock
    /\ UNCHANGED kvars

\* The store is open: the environment of the process is set, once.
set_environment(p) == env' = [env EXCEPT ![p].at = "ready", ![p].saw = None]

\* Under the lock the database is created or recovered.
recovered(p) ==
    /\ env[p].at = "recover"
    /\ dir' = "ready"
    /\ IF ReadOnly(p) THEN env' = [env EXCEPT ![p].at = "drop"] ELSE set_environment(p)
    /\ UNCHANGED <<lock, kvars>>

\* The store that open_read_only made is dropped, with its lock.
drop_store(p) ==
    /\ env[p].at = "drop"
    /\ lock' = None
    /\ env' = [env EXCEPT ![p].at = "open_for_read_only"]
    /\ UNCHANGED <<dir, kvars>>

\* DB::open_for_read_only takes no lock; it fails on a directory without a database.
open_for_read_only(p) ==
    /\ env[p].at = "open_for_read_only"
    /\ IF dir = "ready" THEN set_environment(p) ELSE setup_fails(p)
    /\ UNCHANGED <<dir, lock, kvars>>

-----------------------------------------------------------------------------
(* The commands, in the environment that was set up. *)

\* A process that ends closes its store.
exit(p) ==
    /\ env' = [env EXCEPT ![p] = NoEnv]
    /\ lock' = IF lock = p THEN None ELSE lock

\* A step A of the command, which ends the process or does not.
command(p, A) ==
    /\ env[p].at = "ready"
    /\ A
    /\ IF proc'[p].pc = "down" THEN exit(p) ELSE UNCHANGED <<env, lock>>
    /\ UNCHANGED dir

\* EnclaveLoader::load opens the key manager and creates the enclave.
load_enclave(p) == command(p, exists(p) \/ open(p) \/ init_db(p))

EnclaveCmd_run(p) ==
    /\ env[p].cmd = "enclave"
    /\ command(p, generate_enclave_key(p) \/ save(p) \/ list_keys(p) \/ prune(p))

AttestationCmd_run(p) ==
    /\ env[p].cmd = "attestation"
    /\ command(p, \/ execute_command(p)
                  \/ run_ias_remote_attestation(p) \/ simulate_attestation(p)
                  \/ save_avr(p))

\* run_print_metadata reads the enclave file: no key manager, no enclave.
run_print_metadata(p) ==
    /\ env[p].at = "ready" /\ env[p].cmd = "enclave" /\ proc[p].pc = "down"
    /\ exit(p)
    /\ UNCHANGED <<dir, kvars>>

\* ELCCmd::run sends one message to the enclave, which leaves the keys alone.
ELCCmd_run(p) ==
    /\ env[p].cmd = "elc"
    /\ command(p, list_keys(p))

\* ServiceCmd::run only returns when the address of the service is wrong or taken;
\* what a service does with the keys is to read them.
ServiceCmd_run(p) ==
    /\ env[p].cmd = "service"
    /\ command(p, list_keys(p))

\* A process is killed at any point.
kill_process(p) ==
    /\ env[p].at \notin {"none", "failed"}
    /\ exit(p)
    /\ IF proc[p].pc = "down" THEN UNCHANGED kvars ELSE kill(p)
    /\ UNCHANGED dir

ANext ==
    \/ tick /\ UNCHANGED avars
    \/ \E p \in Process :
           \/ cli_run(p) \/ open_default(p) \/ recovered(p) \/ drop_store(p)
           \/ open_for_read_only(p)
           \/ load_enclave(p) \/ EnclaveCmd_run(p) \/ AttestationCmd_run(p)
           \/ run_print_metadata(p) \/ ELCCmd_run(p) \/ ServiceCmd_run(p)
           \/ kill_process(p)

ASpec == AInit /\ [][ANext]_<<avars, kvars>>

-----------------------------------------------------------------------------
(* Properties. *)

\* Keys are managed beside a service: the set-up of an enclave or attestation command
\* (setup_read_only_env) fails only if it saw no directory and another process then
\* had the lock, so was making the store at the same time, or if the directory that it
\* saw had no complete store; a service or an elc command (setup_env) fails only while
\* another process has the store open.
StartsBesideService ==
    \A p \in Process : env[p].at = "failed" =>
        \/ env[p].held \notin {None, p} /\ (ReadOnly(p) => env[p].saw = "absent")
        \/ ReadOnly(p) /\ env[p].saw = "partial"
=============================================================================
