# LCP: TLA+ models, model checking and proofs

LCP (Light Client Proxy) lets a chain follow another chain through a light client
that runs inside an SGX enclave. The enclave verifies headers of the upstream chain
and signs a *proxy message* for each verified step; the *LCP client* on the
downstream chain checks the signature instead of the headers. The host around the
enclave keeps the light client's states in a transactional store, and registers
the enclave's signing keys with attestation reports.

This directory holds TLA+ modules of the parts below, TLC configurations for small
instances, and TLAPS proofs for all instances. Paths are relative to `src/`.

## 1. The system and what is modelled

| part | source | module | status |
|---|---|---|---|
| Host store over RocksDB | `modules/store/src/rocksdb.rs`, `store.rs`, `modules/host-environment` | `RocksDBStore`, `App` (opening) | partly: all but the direct `KVStore` calls that no command makes |
| The promise of the `CommitStore` trait | `modules/store/src/transaction.rs` | `CommitStore` | modelled (abstract) |
| In-memory store | `modules/store/src/memory.rs` | `MemStore` | modelled |
| Running a command | `modules/enclave-api/src/api/primitive.rs`, `enclave.rs`, `enclave-modules/runtime/src/ecalls.rs` | `ExecuteCommand`, `ExecuteCommandRace` | modelled |
| Store of the enclave: cache and ocalls | `modules/store/src/cache.rs`, `enclave-modules/host-api`, `modules/host`, `modules/ocall-handler` | `CacheKVS`, `EnclaveStore`, `EnclaveView`, `ExecuteCommand` (action `ocall`) | cache modelled, ocalls partly |
| Requests and their routes | `modules/service`, `modules/enclave-api/src/api/proto.rs`, `modules/ecall-commands/src/msgs.rs`, `proto/src/prost` | `Service` | modelled; generated code partly |
| Enclave command handlers | `enclave-modules/ecall-handler`, `modules/enclave-api/src/api/command.rs` | `ELC` | modelled |
| Light client context and registry | `modules/light-client`, `modules/context` | `LightClientContext`, `ELC` | modelled |
| Tendermint and mock light clients | `modules/tendermint-lc`, `modules/mock-lc` | `Tendermint`, `MockClient` | modelled, header verification external |
| Proxy messages and contexts | `modules/commitments` | `Commitments`, `Codec` | modelled |
| Text, ABI and protobuf forms | `modules/types`, `modules/commitments`, `modules/lcp-client`, `modules/light-client/src/path.rs` | `Codec` | partly |
| LCP client on the downstream chain | `modules/lcp-client` | `LCPClient` | modelled |
| The proxy end to end | | `LCPSystem` | composition |
| Key manager and key commands | `modules/keymanager`, `modules/service/src/enclave.rs` | `EnclaveKeys` | modelled |
| Attestation and its reports | `enclave-modules/remote-attestation`, `modules/attestation-report` | `RemoteAttestation` | reports modelled, remote attestation partly |
| The program `lcp` | `app` | `App` | partly: all but argument parsing and output |
| Cryptography | `modules/crypto` | `Codec`, `EnclaveKeys` | partly: signatures, recovery and sealing as ideal operations |

How they interact: a gRPC request runs on a thread of the service. The thread calls
`execute_command`, which begins a store transaction under the command's *update key*
(a client id, or a client type for `init_client`), enters the enclave, serves its
store ocalls from that transaction, and commits when the enclave answered with
success. The answer carries a signed proxy message. A relayer takes messages to the
LCP client, in any order and as often as it likes. Beside the service, an operator runs
commands on the same home directory that generate, attest and prune enclave keys.

## 2. Modules

### RocksDBStore

Variables are the fields of the store: `inner` (which `InnerDB`), `db`,
`latest_tx_id`, `txs`, `mutex` (the map of `Rc<Mutex>` by update key), and beside
them `strong` (the `Rc`s' counts), `handle` (the `RocksDBTx` each thread owns) and
`rwlock` (the `RwLock<HostStore>` of `Environment`).

There is one action per call. `create_transaction` has a read case, an update case
and two error cases (empty update key, id overflow). `prepare` blocks on the mutex
without the `RwLock`; every other call runs under it and is one step. `tx_write` is
`tx_set` and `tx_remove`; when RocksDB refuses the write, `.unwrap()` panics under
the lock and poisons it (`tx_write_panic`), and later calls fail (`poisoned_call`).
`commit` and `rollback` end in `finalize_tx`, which removes the mutex when the count
says nobody else uses it. `crash` ends the process and opens the database again.

A key carries the id of the transaction that committed it (`by`), which stands for
RocksDB's sequence number. `Conflict` is RocksDB's pessimistic check (external): a
row is locked by another transaction, or changed after the snapshot. `Footprint`
gives the keys the commands of an update key may write. With disjoint footprints
the store is used as intended; the shared footprint is the client counter that
`init_client` writes under every client type.

### CommitStore

What the trait promises to a command with an update key: it runs alone for that
key, reads the data that was committed when it began, and at its end replaces the
data of its footprint in one step or not at all. `RocksDBStore` and `MemStore` are
shown to implement it (`ImplementsCommitStore`); the mapping shows the running
thread of each update key and the data its snapshot holds.

### MemStore

The test store, called as `execute_command` calls it. It knows neither ids nor
update keys and asserts that no other transaction runs; a failed assertion poisons
its mutex.

### ExecuteCommand

Extends `RocksDBStore` with the command around a transaction. `call` says where a
thread's enclave call is, `poisoned` which update key mutexes are. Two exits never
reach `finalize_tx`: the `?` after the key manager's `load` drops the handle, and a
panic (conflicting write, poisoned lock, output of the buffer's size) drops it while
unwinding, which poisons its mutex. `ExecuteCommandRace` adds what dropping a
handle does to the non-atomic count when it happens outside the `RwLock`: two
read-modify-writes of the count may overlap, and one of them is lost.

### Commitments

Pure operators: `context_validate`, `context_aggregate`, `aggregate`,
`aggregate_messages`, `ethabi_encode`, `ethabi_decode`. The ABI has no options:
`None` is written as zero and zero is read back as `None`. Heights are numbers
(the code orders pairs of revision and height totally); emitted states are counted.

### LCPClient

`client` is the client's part of the chain's store: latest height, frozen flag, a
consensus state per height, an expiry per enclave key. `accepted` and `attested` are
history. A submission is an encoded message, the signer it names and the key that
signed it. `update_client`, `register_enclave_key` and `submit_misbehaviour` are the
three client messages; an error or a failed assertion changes nothing, and so is not a
step. `verify_membership` changes nothing and is a predicate. `tick` is the host's
clock. Consensus states and the key expiration are stored through protobuf, which keeps seconds.

### CacheKVS, EnclaveStore, EnclaveView

`CacheKVS` has pure operators. `NewStore` is a `CacheKVS` over a `TxStore`;
`cache_get`, `cache_set` and `cache_remove` are its methods; each miss and each write is an
ocall (`ocall_execute_command` on the host, `execute_command_result` in the enclave), whose
answer has a length and may be an error. Between accesses the host's data may change
(`op = "host"`), which the enclave cannot exclude. `EnclaveStore` folds `access` over sequences
of bounded length, for TLC. `EnclaveView` makes the same accesses the steps of a state machine,
for the proofs: `store` is the `CacheKVS` of the command, `own` and `first` are the history of what
the command wrote last and of what the host had when a key was first read. `KVStore` declares the
keys and values that the stores share.

### Service

A gRPC request is a path and a message. The stubs set the path, `serve` finds the
method by the path (`MsgRoute`, `QueryRoute`), and the method converts the message to the
input of a command. A field that is missing or does not parse (`None`) is an error, which is
the status `aborted`; an unknown path is `Unimplemented`.

### LightClientContext, Tendermint, MockClient, ELC

`LightClientContext` reads and writes the enclave's store by path. `Tendermint` and
`MockClient` are the two light clients: pure functions from the store and a message to what the
client writes and what it wants signed, or `Err`. Verification of a header is external
(`header_verifies`: it is within the trusting period and follows the trusted block); a chain
state is a map from paths to values, so that proofs of membership can be right or wrong.

`ELC` runs the handlers. `job[t]` is the request of a thread of the service. `request` converts
it and takes its time stamp, `execute` waits for the update key, runs the handler on the
committed store and holds the result, `commit_tx` or `rollback_tx` end it, and `crash` loses all
jobs. A write of a row that another open transaction has written is refused (`Refused`). That the
store gives transactions this behaviour is the subject of `RocksDBStore` and `ExecuteCommand`.
`signed` holds the proofs that left the service; `verified` is history: the transitions that
`update_client` signed, as the signed message has them. That a light client signs only what its
verification accepted is in `tm_update_client` and `mock_update_client`, and what verification
accepts is external: for the mock client it is what ibc-rs's mock accepts (`mock_check_header`,
`mock_check_misbehaviour`).

### LCPSystem

`ELC` and `LCPClient` (by `INSTANCE`) share the clock. Any proof in `signed` may be delivered at
any time, repeatedly or never: this is the relayer. The LCP client's operations are the
actions of `LCPClient`.

### Codec

What the other modules abstract, byte by byte where it matters: `height_to_string` and its
parser, identifiers and their validation, the paths of the store, the buffer whose digest is a
state id, the ABI words of a trusting-period context (two times in one word), the encodings
of the three proxy messages and of the client's messages. Its properties justify
the tuples, records and whole seconds of the other modules. `MCLCPClient` extends it, so they are
checked with the run of the LCP client.

### RemoteAttestation

Pure operators: an attestation is the sequence of answers `h` of the quoting enclave and of the
attestation service (headers, certificate, signature, status, time) and the function
`create_attestation_report` from them to a report, `Err` or `Panic`; then `verify_report` and
`validate_quote_status`. The simulated attestation is the same with a certificate of the operator.

### EnclaveKeys and App

`EnclaveKeys`: `file` is `km.sqlite` (absent, without a table, ready), `rows` the table, `proc` the
processes. One action per SQL statement or enclave call, so processes interleave between
statements, and `kill` ends one anywhere. `attested_at` is text and is compared as text;
`available_keys` is the set of the orders in which SQLite may list the keys, since equal times
leave it a choice.
`App` puts the program around it: `cli_run` chooses the way the RocksDB store is opened, the
set-up has one action per call on the file system (`dir`, `lock`), and the commands of
`EnclaveKeys` run only in the environment that was set up.

## 3. Runs

Bounds: transaction ids stop at `MaxTxId = 3`, which lets one mutex be created, shared,
removed and created again, and lets the id overflow happen; two threads meet in every
pair of calls, three also queue on one mutex; two update keys and two keys give the
same-key and different-key cases; one value and `None` tell written from unwritten. Both runs of
three threads have one key: in `store` both update keys write it (the client counter), in
`command_safety` one does and the other key's commands write nothing, so footprints are disjoint.
For the client: heights 0 to 3 hold the initial state, a state and two
more that extend it; `NanosPerSec = 2` tells times inside a second apart; the clock runs past
the expiry of every report; contexts end inside and outside the clock's range.
For the codecs: numbers go to 21, so that they have one and two digits and one is a prefix of
another; identifiers are as short and as long as allowed; encodings of states have
different lengths and contain zeros. For an enclave's store: four accesses of one key, the least
that writes, removes, loses a host answer and reads again. For the keys: two processes, two
versions of the enclave, two keys, four commands, two ticks to a second (rounding), a "day" of one
second, and certificates that begin and end within the clock's range. The second version of the
enclave unseals the keys of the first and not the reverse. Of the answers that an attestation may get
(`Answer`) the runs take those with at most one part out of order, and an answer of the quoting enclave to an
earlier request together with any other such part; the proofs take every combination. For the system: two threads, two
Tendermint histories that fork at height 2, a mock client, four requests, one enclave key and a
clock that reaches the end of a trusting period; a creation, two updates and their aggregation, or a
creation, an update and a misbehaviour, fit.

| run | checks | shows |
|---|---|---|
| `store` | `TypeOK`, `MutualExclusion`, `EntryPresent`, `NoLeftovers`, `NoLostUpdate`, `ReadsRepeatable`, `Quiesces` | one writer per update key, and the counted map of mutexes neither leaks nor loses an entry; with a shared key writes are refused and poison the store, but no update is lost; once no transaction is created, all end and the maps are empty |
| `memory_refine` | `RunningWhileBegun`, `ImplementsCommitStore` | the in-memory store keeps it too, by failing on overlap |
| `command_safety` | `EntryPresentAfterDrops`, `LeftLocksAreFenced`, `StoreUsable`, `FootprintStable`, `AnswersMatchData`, `ImplementsCommitStore` | with disjoint footprints: dropped handles and panics leave locks that are fenced by poison, snapshots stay current, data changes exactly when a command is answered with success, and the store keeps the trait's promise |
| `command_live` | `CommandsEnd`, `ReadsAreStable` | every issued command ends, panics included; within a command the enclave reads one store whatever the host answers |
| `lcp_safety` | `LTypeOK`, `LatestIsStored`, `VerifiesWithFreshKeys`, `ExtendsAccepted`, `AggregationAgrees`, `FrozenIsFinal`, `NamesDistinct`, `SignedIsAccepted`, `StoredExpirationIsNoLater` | the client under duplicated and reordered messages; an aggregate acts like its parts; paths and state ids are unambiguous, and what the enclave signs the client reads as signed |
| `keys` | `AttestedAsItself`, `VerifiedWhenStored`, `AvailableKeysServed`, `SuccessIsDurable`, `StartsBesideService`, `PrunesOnlyExpired`, `PrunedStaysGone` | processes on one home directory, killed anywhere: stored reports are verified and of the right key, answers are durable, pruned keys do not come back, the service can describe what it lists, and commands start beside a service |
| `system` | `FreshClientIds`, `ClientsQueryable`, `SignedStatesAreStored`, `AcceptedIsVerified`, `OneLineage`, `MembershipHolds`, `FreezeIsFinal` | from request to downstream chain: what the LCP client accepts was verified by a light client and is still within its trusting period, along one history |
| `command_output` | `OutputFitsBuffer` *violated* | finding 1 |
| `command_rc_race` | `EntryPresentUnderRaces` *violated* | finding 2 |
| `lcp_precision` | `SecondPrecision` *violated* | finding 3 |
| `keys_prune` | `PrunesOnlyExpired` *violated* | finding 4 |
| `keys_certificate` | `UnexpiredWhenStored` *violated* | finding 5 |

Three of these properties are about functions and not about a state machine.
`NamesDistinct` and `SignedIsAccepted` range over all their inputs in the states in
which the client has received nothing, and `ReadsAreStable` ranges over the accesses
of the first command after each start of the service, from whatever data is committed
then. The other states would only repeat the same evaluation.

The runs `lcp_safety`, `keys` and `system` do not check for deadlock: their clocks and the
number of requests are bounded, and a client nobody writes to may rest.

Each property has a mutant: a variant of one definition (next to it in the module,
marked "Mutant of") that makes the mistake the property guards against.

### Findings

1. The enclave accepts a response of exactly `output_maxlen` bytes
   (`ecalls.rs:39`); the host asserts that it is shorter (`primitive.rs:69`).
2. `execute_command` leaves its transaction open when the enclave key cannot be
   loaded (`primitive.rs:23`). The handle dropped there decrements an `Rc` outside the lock,
   concurrently with other threads; a lost decrement or increment makes `finalize_tx` remove an
   entry in use, against the comment at `rocksdb.rs:72`.
3. `TrustingPeriodContext` is documented to have second precision
   (`context.rs:158`) and is validated and encoded in nanoseconds.
4. `prune` compares times as text (`keymanager/src/lib.rs:233`, the column at `:56`): when the
   cut-off has fewer digits than the stored times, keys that were just attested are deleted.
   The model scales ten digits down to two. In `keys` the expiration is short enough that this
   does not happen, and `PrunesOnlyExpired` holds.
5. `verify_report` says that it rounds the time up (`verification.rs:36`) and does so only for a time
   without a fraction; a certificate that expired within the current second is accepted.
   `VerifiedWhenStored` states what the code ensures: the certificate is valid at the second that
   `verify_report` takes.

Observed while modelling, and part of the models without a property of their own:

- A process that is killed between opening `km.sqlite` and `init_db` (`keymanager/src/lib.rs:22-26`)
  leaves a file without a table, and no later command creates it; of two first commands at the
  same time one fails.
- `save_avr` of a row that was pruned meanwhile changes nothing and returns `Ok`, so the operator is told
  that a key is attested that is gone. `SuccessIsDurable` is about keys that were not pruned.
- A report registered with the LCP client replaces the key's expiry even if it is older than the one before
  (`client_def.rs:148`); no line of the repository says which should win.
- With the in-memory store, the transaction left open at `primitive.rs:23` makes the next
  command fail the assertion at `memory.rs:126`.
- A command's time stamp is taken before it waits for the mutex (`msgs.rs:28`, `:46`), so the
  enclave may verify a header with an old time. `AcceptedIsVerified` shows that the validation
  context in the signed message makes up for it.
- A first command that is killed while it creates the RocksDB directory leaves one that read-only
  commands cannot open until a service or an elc command has. A command that manages keys and sees no
  directory opens the store for writing, and fails if another process has begun to make it;
  `StartsBesideService` allows these two cases and no other.
- An unregistered type URL (`init_client.rs:20`), a simulated report whose time is a whole second
  (`simulate.rs:144`), an attestation service that is down or answers without a certificate, and a quote
  status out of the list end the enclave call by a panic.
- The doc of `generate_enclave_key` (`command.rs:14`) says that it also attests the key; it does not.

### Fairness

`Fairness` in `RocksDBStore`: a thread that may lock the mutex, begin, or end its
transaction does so. The threads run straight-line code, so each step that stays
enabled is taken: weak fairness. `prepare` needs no strong fairness because the
property is about a store to which no more transactions come, so a mutex that is free
stays free for someone and the queue shrinks. `CFairness` in `ExecuteCommand` says the
same of a command, and that an enclave call returns. Nothing is assumed of new
requests, of crashes or of ocalls.

## 4. Proofs

Proved by TLAPS for all threads, processes, keys, footprints, ids, heights, messages and times.
The assumptions are the modules' ASSUMEs, which TLC evaluates on the instances of the runs:
constants that stand for "absent", "error" or "panic" are not values (`OptionAssumption`,
`ResultAssumption`, `RowAssumption`, `AppAssumption`, `MemStoreAssumption`, `CacheAssumption`); footprints are
functions; `NanosPerSec` and `KeyExpiration` are not zero; what a client is created with and what
a message carries decodes to values of the right types, and no header is at height zero
(`InputAssumption`); answers are members of `Answer` (`AnswerAssumption`). A proof that needs more says so in its statement (`DisjointFootprints`).

| module | theorems |
|---|---|
| `RocksDBStore_proofs` | `TypeCorrect`, `MutualExclusionHolds`, `EntryPresentHolds`, `NoLeftoversHolds`, `NoLostUpdateHolds`, `ReadsRepeatableHolds`; for disjoint footprints `NeverPoisonedHolds`, `FootprintStableHolds`, `StoreImplementsCommitStore` |
| `ExecuteCommand_proofs` | `EntryPresentAfterDropsHolds`, `CommandsMutuallyExclude`, `AnswersMatchDataHolds`; for disjoint footprints `LeftLocksAreFencedHolds`, `StoreUsableHolds`, `CommandsImplementCommitStore` |
| `Stores_proofs` | `RunningWhileBegunHolds`, `MemStoreImplementsCommitStore`; for the enclave's store `ReadsAtMostOnce`, `EnclaveSeesOneStore`, `BadAnswersEndCommand` |
| `Commitments_proofs` | lemmas `AggregateTwo`, `MergedContext` |
| `LCPClient_proofs` | `LTypeCorrect`, `LatestIsStoredHolds`, `VerifiesWithFreshKeysHolds`, `ExtendsAcceptedHolds`, `FrozenIsFinalHolds`, `AggregationAgreesHolds`, `StoredExpirationIsNoLaterHolds` |
| `ELC_proofs` | `FreshClientIdsHolds`, `ClientsQueryableHolds`, `SignedStatesAreStoredHolds`, `FreezeIsFinalHolds` |
| `LCPSystem_proofs` | `AcceptedIsVerifiedHolds`, `OneLineageHolds`, `MembershipHoldsHolds`; `ClientsHold` and `FreezeIsFinalInSystem` carry the results of `ELC_proofs` over |
| `App_proofs` | `AttestedAsItselfHolds`, `VerifiedWhenStoredHolds`, `AvailableKeysServedHolds`, `SuccessIsDurableHolds`, `PrunedStaysGoneHolds`, `StartsBesideServiceHolds` |

### The store

None of the properties is inductive. `IInv` of `RocksDBStore_proofs` says, while the `RwLock` is
usable: handles have distinct ids not above `latest_tx_id` (`HandleInv`); mutex objects are not
shared between update keys (`MutexInv`); every update handle points to the map's current mutex for
its key (`OwnsEntry`); the strong count of a mutex is one for the map plus one for each handle
that uses it (`CountInv`); at most one handle per update key holds the guard (`GuardInv`);
`txs` holds the begun transactions (`TxsInv`), and nothing else (`NothingLeft`). All but the last
are `Core`. The argument turns on `finalize_tx`: a count of 2 means that the finalizing
handle is the only user, so nobody can be waiting on a mutex that leaves the map. It is a proof
about the number of users, which TLC can check only for three. That n handles use a mutex is
stated by a numbering of them (`Counts`), so that no assumption is needed on the set of threads.

`NoLostUpdate` and `ReadsRepeatable` hold for any footprints, so also for the client counter
that creations of different types share. `LockedInv` adds `RowLocks`: a row that a
transaction has written is written by no other and is as the snapshot has it.

For disjoint footprints `Isolation` adds that transactions write only in their footprint and
that the snapshot of a running update transaction equals the database there. Two running
transactions have different update keys, hence disjoint footprints, hence no conflict, hence no
panic (`NeverPoisonedHolds`; the runs check `StoreUsable`, which adds the commands). The refinement maps each call to `Begin`, `Commit`, `Rollback` or a stutter.

A command may drop its handle without `finalize_tx`, and then `NothingLeft` is lost.
`ExecuteCommand_proofs` shows that `Core` is not: the handle takes its count with it
(`CommandInv`). For disjoint footprints `FencedInv` replaces `NothingLeft` by the
property itself, `LeftLocksAreFenced`; it is inductive together with two facts: no
thread holds the guard of a poisoned mutex (`GuardsClean`), and a transaction has no writes before
its command enters the enclave (`NoEarlyWrites`), so that the early return of `load(addr)?`
leaves no row lock. With the footprints disjoint a command that reaches `tx.put` cannot meet
a lock that was left, and the `RwLock` stays usable. The refinement is proved again for the
commands, with dropped handles as `Rollback`.

The in-memory store needs no footprints: its assertion lets one command in at a time. `MInv`
adds that uncommitted writes are those of a command in the enclave.

The enclave's store is proved about as a state machine (`EnclaveView`), because what a fold over a
sequence of any length computes is outside the prover's reach and what holds after any number of
steps is not. `ViewInv` says that, until the command panics, a key is in the cache exactly when the
command has written or read it, that the cache then holds what it wrote last or else read first,
and that a key that is not in the cache was never asked for. A panic is the exception: a get whose
answer is refused has asked and caches nothing, and only the end of the command keeps the key from
being asked for again. No run checks `EnclaveView`; `ReadsAreStable` checks the same operators.

### The LCP client

`LInv` adds that every stored state above height zero was accepted (`StatesAccepted`) and that every
expiry comes from a registered report (`KeysAttested`). `ExtendsAccepted` then rests on the ABI: a
message cannot name the empty state at height zero, because zero is read as `None`. Freshness of
keys and of the stored expiration needs that truncation to seconds is monotone (`SecsMonotone`).

`AggregationAgrees` and the system theorems share two lemmas of `Commitments_proofs`: the fold of
`aggregate_messages` over two messages is one `aggregate` (`AggregateTwo`), and a merged context is
valid at a time exactly when both parts are (`MergedContext`), provided that the trusting periods
of the parts end at a representable time.
The enclave's `aggregate_messages` validates each part first, which ensures that.

### The enclave's light clients

`EInv` of `ELC_proofs` has five parts. `StoreOK`: the committed store has only paths of clients with ids
below the counter, each with a client state of its type and a consensus state at its
latest height. `JobsOK`: what a command computed when it ran (`ResultOK`) is still right for the store as
it is now, although others commit meanwhile. `KeysExclude` and `WritesExclude` say why: running
commands have different update keys, and their write sets are disjoint. `SignedOK`: a proof that
left the service names states that are in the store. The heart of it is that a commit only *advances*
clients (`Advances`): consensus states are added and never replaced, and of the client state only the
two heights change, on which `canonicalize_state` does not depend; so ids that were signed stay
the ids of stored states. The same facts about both light clients, each by its own code, are
`Outcome` of `tm_update_client` and of `mock_update_client`.

### The system

`SInv` adds to `EInv` what a signature stands for. `Derived(p, E)`: at *any* time at which the message of
`p` is valid, its posterior state descends from its previous one by transitions in `E` that are valid at
that time. The quantification over all times is what makes it inductive: `aggregate_messages`
makes a message of two signed ones, and is called at another time than the one at which the
client receives the result. `Descends` is the least set that is closed under transitions, so
paths are followed without induction over their length. `AcceptedIsVerified` takes the time
at which the message is delivered. A transition counts as verified when the enclave signed it in an
update, so these theorems are about aggregation, delivery and the client; that the signed states
are those that a light client stored is `SignedStatesAreStored`. `OneLineage` is part of the invariant (`ClientInv`): the
client stores a message only if it has its previous state, which was accepted.

### The keys

The lemmas about reports say that whatever combination of the modelled answers (`Answer`) the quoting
enclave and the attestation service give, a report that `create_attestation_report` accepts attests the
key of the request (`Attests`) and is verified (`Verified`). `KInv` carries this from the
step in which a process obtains the report to the one in which it stores it (`PendingReport`,
`StoredReport`), with processes killed and rows pruned in between. `PrunedStaysGone` needs that addresses are
never made twice (`KeysMade`). Each step of the program
is a step or a stutter of `KNext`, so the invariant holds in `App` too. `AInv` relates how far
each process is in its set-up to the `LOCK` file and the directory. `AvailableKeysServed` follows
from `StoredReport`: the columns that are selected by and the ones that are converted are set
together.

### Only model-checked

- `Quiesces`, `CommandsEnd`: liveness under fairness, outside the prover's reach.
- `ReadsAreStable`: a fold over sequences, which needs induction over data. `EnclaveSeesOneStore` and
  the two theorems beside it say the same of the steps of `EnclaveView`.
- `NamesDistinct`, `SignedIsAccepted`: what recursive conversions to text and bytes compute.
- `PrunesOnlyExpired`: it compares decimal texts, which are computed by recursion, and it holds only
  for cut-offs with as many digits as the stored times (finding 4).
- `ExecuteCommandRace` and the properties that are violated.

## 5. Not modelled

- Cryptography, certificate chains, Merkle proofs and the verification of headers: libraries.
  The models take them as ideal operations, so nothing here says that they are right.
- TLS, HTTP bytes, bincode and protobuf wire formats, and the HTTP/2 transport of the generated
  code: no state of the system depends on their bytes beyond what `Codec` and
  `RemoteAttestation` keep (lengths, outcomes, missing fields). The 2048-byte quote buffer of
  `remote_attestation.rs` is among them.
- `google.protobuf.rs` and the message types of `proto/src/prost`: generated declarations.
- The direct `KVStore` implementation of `RocksDBStore`, which no command reaches, and
  `modules/service/src/ibc.rs`, which is not compiled.
- Argument parsing, printing, logging, errors' texts, build scripts, tests.
- Power loss: a commit that RocksDB or SQLite has returned is taken as durable.

## 6. Plan

1. That `execute` and `commit_tx` of `ELC` are what `ExecuteCommand` does for a command: the
   composition of the two refinements. At present `ELC` takes the store's behaviour, which the
   proofs about `RocksDBStore` establish, as the guards of its actions.
