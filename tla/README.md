# Verification of the peer

TLA+ models of the peer in `src/` (a Fabric 1.0 peer extended with aggregate
writes, lists, block statistics, a customer registry, joint approvals and
messages to the orderer), the TLC instances that check them, and TLAPS proofs of
the properties that matter most.

## 1. The system and its modules

| Part of the peer | Module | What makes it hard |
|---|---|---|
| kvledger, lockbasedtxmgr, historydb, stateleveldb: one channel's ledger | `KVLedger`, abstract specification `SerialLedger` | three durable steps for each block with a crash between any two; readers against the writer; a batch prepared without the lock |
| statebasedval, rwsetutil: MVCC, phantoms, aggregates, statistics | `StateBasedValidator`, `RangeQuery` | order inside a block, several namespaces, hashed scans, replay without validation |
| RList and its cache | `RList` | a tree of slices that splits and merges, cached by the validator and reloaded by readers |
| statecouchdb, the couchdb client | `StateCouchDB` | goroutines nobody waits for, retries with revisions, a savepoint that is a document |
| ledger provider, ledgermgmt | `LedgerProvider` | crash or error in the middle of a creation |
| peer, cscc, comm/server: channels, configuration, trusted roots | `PeerChannels`, which extends `LedgerProvider` | configuration blocks committed while the channel is being brought up; channels that share a server |
| container controller | `VMController` | a lock deleted while it is waited for |
| chaincode support: launch, registration, stop | `ChaincodeSupport`, which extends `VMController` | launches that overlap, timeouts, processes that end at any moment |
| handler and shim: one chaincode stream | `ChaincodeStream` | messages that overtake each other, late answers, a blocking send under a lock |
| rbccustomer, lscc with ccprovider, rbcapproval | `RBCCustomer`, `LifeCycleSysCC`, and `RBCApproval`, which extends both | transactions simulated side by side, approvals whose effect comes later |
| txvalidator, msgvalidation, vscc, policy | `TxValidator` | everything is evaluated on the ledger before the block |
| endorser, escc, committer | `TxPipeline`, which extends `TxValidator` | upgrades, approvals and configurations that meet invocations in one block |
| deliverservice, blocksprovider | `BlockDelivery` | close racing connect, a shared counter, restarts of a delivery |

The parts meet as follows. The delivery service receives blocks from the
ordering service (`BlockDelivery`); gossip hands them to the committer in
order, which validates (`TxValidator`), tells the channel about a configuration
(`PeerChannels`) and commits (`KVLedger`). The endorser runs a chaincode against
a simulator of the channel's ledger (`TxPipeline`), starting it if needed
(`ChaincodeSupport`) and talking to it over its stream (`ChaincodeStream`). The
ledger provider owns the ledgers; the peer opens them at its start and creates
one for each join.

The models are composed where components share state: `ChaincodeSupport` takes
and gives back the controller's locks through `VMController`'s actions,
`PeerChannels` drives the ledgers through `LedgerProvider`'s, `RBCApproval` runs
lscc and rbccustomer inside its transactions, and `StateBasedValidator` compares
scans with `RangeQuery`. Elsewhere the interface is small enough to be restated:
`TxPipeline`, for example, has MVCC by versions only, because `KVLedger` and
`StateBasedValidator` are about the rest of it.

Each module is named in `PROJECT.json` with the lines its definitions translate.
An operator marked as a mutant in a comment, or defined just before the
definition it varies and listed under `mutants`, is a plausible bug: the run's
property must notice it.

## 2. Modules

### KVLedger, SerialLedger

One channel. `blocks`, `db`/`savepoint` and `history`/`histSavepoint` are
durable and are written in that order by `AddBlock`, `CommitState` and
`CommitHistory`; `pc` says which step of `kvLedger.Commit` comes next.
`ValidateAndPrepare` gives the flags as the fixed point of `MVCCFlag` (each flag
depends on the earlier ones). `CommitState` needs the write lock, so it waits
until `Readers` is empty, and from `AddBlock` on, when the committer asks for the
lock, no new simulator starts. `CommitError` is an error from validation or from
the block store; an error after that is a panic, which is a `Crash`. `Restart` is
`newKVLedger`; `RecommitState` and `RecommitHistory` are one block of
`recommitLostBlocks` each, the lagging database first. `LoseStateDB` is the
removal of the state database by an operator to have it rebuilt.

A written value is identified with its transaction, and a scan runs to its end
and records every key of the range, absent ones included. Numbering starts at 1
where the code starts at 0. Keys are of one namespace without the `__CAL_` and
`__RLIST_` prefixes, which are the subject of the next two sections.

`SerialLedger` is what the ledger promises: a chain grows by blocks whose valid
transactions each saw what a serial execution shows, and a state is served that
is the serial execution of a prefix of the chain. `KVLedger` ends with the
refinement mapping: what a transaction read and scanned are the values it has
`seen`, and while the peer is not up nothing is served.

### StateBasedValidator, RangeQuery

The validator for several namespaces, with writes to `__CAL_ADD`, `__CAL_MUL` and
values with `##RCOUNT##`, scans, and block statistics. `ValidateTx`, `CalWriteSet`,
`AddWriteSetToBatch`, `MoveCalsToUpdate` and `calStatistics1` follow the code's
order; the replay of a block is the same function with `doMVCCValidation` false.
Integers have `IntBits` bits. `RangeQuery` is the results helper's Merkle tree and
the two validators of a recorded scan; the combined iterator over database and
batch is in `StateBasedValidator`. Hashing is taken to be injective. A transaction
the committer has refused, and one that is no endorser transaction, is `Skipped`:
neither validated nor counted. `CommitFails` is an error of the state database
half way through the validation, or of the block store after it; the block comes
again. The reference executes the valid transactions one after the other on exact
integers.

### RList

The object graph of a list with its buckets, the pending writes of its stub, and
the committed buckets. `BucketList` and `IdList` are slices of arrays in a heap, with
Go's rule for when `append` writes in place and when it copies: the two halves of a
split share an array. `WriteAdd`, `WriteAddByIndex` and `WriteDel` are the list
operations of `calWriteSet`, any number of times for one id; `Prepare` is
`moveCalsToUpdate`, `Commit` the block store and the application of the batch.
`CommitFails` leaves the cached graph as the block has made it; `Crash` falls
before the block is stored or after, when the replay leaves the list writes out;
`Expire` is the loss of the cached graph between two blocks.

`harm` records what has happened to a graph that its callers do not expect (section
6): an append into the array of another bucket, a second write of an id removed in
the same block, the relisting of a leaf three levels down, a block tried again, an
index out of range. `KeepsList` and `CacheIsTransparent` speak of lists without
harm. The run reaches every harm.

### StateCouchDB

`ApplyUpdates` starts one goroutine for each key (`th`), flushes, and saves the
savepoint document; the committer's `pc` runs through the start of the peer
(verification, creation of the databases, recovery) and the commit of a block. A
request may be lost, performed late or refused; `docs` is what CouchDB answers
with, `disk` what a crash leaves. `astray` collects the keys of which a write escaped
the flush of its block: its goroutine had not ended or had failed, its request was
still on its way, or CouchDB lost it in a crash between the write and the flush, which
the committer does not notice. `StateFollowsLedger` is about each key that has not gone
astray, whatever became of the others; `SavepointIsFenced`, which the comment of
`recordSavepoint` claims of all of them, is the run `couch_fence`.

### LedgerProvider, PeerChannels

`ids` and `flag` are the id store, `height` the block store of each ledger. The
lock of ledgermgmt is held during a creation, so `create` is the one in progress;
its points are those between two durable writes. The start of the peer is
`RecoverUnderConstructionLedger`, `GetLedgerIDs` and the opening of each listed
ledger, any of which may fail. A panic and the endless loop are states of `proc`,
which `AlwaysStarts` excludes.

`PeerChannels` adds what `createChain` does after the ledger exists: the
configuration manager with its callbacks, gossip, the entry of `chains.list`,
the deployment of system chaincodes; `SetCurrConfigBlock`; the committers'
configuration updates; and `updateTrustedRoots` in its steps under the locks of
the code. A configuration is its sequence number, and `Certs` says which
authorities each configuration of a channel names, some of which may not parse: then
`SetClientRootCAs` returns an error, which is logged, and the server keeps what it
has. A channel whose `createChain` returned an error has the stage "failed": its
ledger is open, so that joining it again is refused, until the peer is restarted.

### VMController, ChaincodeSupport

`VMController` is one entry of the controller's map: the lock object, its
reference count, and the requests that wait for it or are inside. In
`ChaincodeSupport` each client calls `Launch` and `Execute` for one canonical
name. Its actions are the critical sections of `runningChaincodes`, the start and
stop of the container inside the controller's lock, the wait for registration with
its timeout, and the events of a stream: REGISTER, ready, end of the stream,
deregistration. The container is a docker container or an in-process one; Docker may
refuse to stop it, which the code ignores; the process may end at any moment.

### ChaincodeStream

One stream in the ready state. Messages in flight are sets, since each is sent by a
goroutine of its own. The peer's loop handles a message (`HandleMessage`), with
`notify` under the handler's lock; each request has a goroutine (`work`) that checks
the transaction id, finds the context, uses the simulator, deletes the entry and
answers directly or through the loop. Executions create their context, send, wait
with a timeout, delete the context and end their simulator. The shim has one
channel for each transaction id. Contexts are found by transaction id only, and two
runs may share one; runs of one transaction execute the same proposal, so that all
send INIT or all send TRANSACTION. A call of another chaincode begins
(`InvokeChaincode`) and returns (`InvokeReturns`) in two steps, with NewTxSimulator,
lscc, Launch and Execute of the called one in between; it need not return.
`failed` are the runs whose goroutine in the shim ended with ERROR.

An execution is abandoned (`Abandoned`) when it ended by a timeout, an ERROR or a
message of another run, and its context is deleted; another execution of its
transaction is then `Disturbed`. This is the proviso under which messages and writes
of one run may meet another. Two more come from the ERROR a run may end with, which
the shim also passes to the channel of its transaction and so to another run of it.
That run takes the answer of one call for the answer of the next, so that it may
take a write for acknowledged that is not made (the exception in
`AckedWritesApplied`), and the shim's loop may wait for a run that has its answer,
with the lock held (`ShimDeadlock`). A stub call may wait as long as a goroutine of its
transaction is in a call of another chaincode (`Calling`).

### RBCCustomer, LifeCycleSysCC, RBCApproval

A chaincode function is an operator that returns the read and write set its
simulation leaves, an error or a panic. `RBCApproval` has the state machine: a
proposal is simulated on the committed state, and committed later if what it read is
current. `approval` counts signatures by the three veto types, and the sign that
decides calls rbccustomer or lscc in its own transaction, or another chaincode,
which leaves the registry and lscc's entries alone (a call of rbcapproval itself
fails). lscc works on packages on each peer's disk. The size of a list, and its
members, are read without being recorded in the read set, as in the code; the entities
of the page that queryAll returns are recorded. A page has `PageSize` entries, 20 in
the code; the order of a list is left out, so that any members may be on it. An error
of `putChaincodeData` is not looked at by `updateToVersion`: the approval passes and
the entry stays as it was. Writes accumulate with `Put`, later ones over
earlier ones. Proposals are typed by `Operation`, entities on the ledger by
`CustomerEntity`, `CCData` and `ApprovalEntity`.

`CustomersIndexed` says of the status lists only that a customer is in some:
`modifyInfo` leaves the list of the old status when type and status change together,
and a later change of status leaves whatever list the entity then names.

### TxValidator, TxPipeline

`TxValidator` is a function of the ledger before the block: the form of an envelope,
duplicates, the creator's signature, writes to system namespaces, versions and
policies of the called chaincodes, vscc's rules for lscc, and the rule about
upgrades in one block. `TxPipeline` has proposals, endorsements, envelopes, blocks,
and the committer in two steps (validate, which applies a configuration; commit
with the MVCC check), with a crash and a restart between them. A configuration that
cannot be read or applied is an error of the whole block (`ConfigError`), which is
validated again. The
client and the orderer are external: the client may submit what it gathered at any
time, and the orderer may order an envelope twice.

### BlockDelivery

One `broadcastClient` for each delivery: its goroutine connects, sleeps between
attempts, sends its seek, receives and hands over; `StopDeliverForChannel`, `Stop`
and `SendToOrderer` run beside it and meet it at any point. The attempt counter is
one package variable for all, and `SendToOrderer` replaces clients in the map
without the lock, as in the code.

## 3. Runs

| Run | Instance | Shows |
|---|---|---|
| `ledger` | 2 transactions of 2 operations, 2 keys, blocks of up to 2, height 3, no crash; or 2 transactions of 1 operation (one rejected by the VSCC), 1 key, height 3, 2 crashes | a simulation sees one height; valid transactions are serializable; the state database is the serial execution of its blocks; a transaction ordered in several blocks is valid in one; stored blocks reach both databases; the ledger implements `SerialLedger` |
| `aggregates` | 4 disciplined aggregate transactions; 3 aggregate, refused and configuration transactions with a failing commit; 3 plain ones over 2 namespaces, a failing commit and 2 crashes; 4 that write or scan 4 keys, and 4 over 9 keys, with a tree of degree 2 | state, reads and statistics are those of serial execution; what a transaction is refused for did change |
| `aggregates_replay` | 2 disciplined aggregate transactions, 1 crash | expected to be violated, see section 6 |
| `channels` | 2 channels that share an organisation, height 3, 1 error, 2 crashes, an authority that does not parse | creation is atomic; the peer can start; the cached configuration is not behind; the server trusts what the configurations say; a stored genesis block is listed; a listed channel comes up, or its creation has failed |
| `chaincode_launch` | 2 clients, 2 lock objects, 2 failures or timeouts, of a start or a stop, container or in-process | no placeholder is left behind; an entry has a stream; every launch and execution returns |
| `chaincode_stream` | 2 or 3 executions of 1 or of 2 transactions in 6 mixes of requests and endings, an Init that is run twice among them | answers and writes go to their own run; acknowledged writes are endorsed; when notify may block; calls return |
| `governance` | registrations that collide; a veto while a super user is added; type and status changed together and then the status; two approvals about one customer with 3 super users and pages of 2; an approved registration; deploy, upgrade and change back on 2 peers, some with data lscc refuses | lists and indices are true; verdicts are final, not based on too high a count, and do what was asked |
| `pipeline` | 7 mixes of 2 or 3 requests, 2 organisations, 2 blocks, 1 crash or duplicate | valid transactions ran the current versions, satisfied the current policies and were created by members; upgrades exclude invocations; deploys and upgrades are current |
| `delivery` | 1 channel, 2 blocks, 3 clients: 2 deliveries and 2 failures, or 1 delivery beside 2 sends to the orderer and 1 failure | an ended receiver has no connection; no gap; a stopped receiver ends; blocks arrive |
| `rlist` | lists of 4, 7 and 11 ids in buckets of 2, of 6 and 30 ids in buckets of 4, so of 2 and 3 levels; 1 to 3 writes after filling, 1 failed commit or crash | reading gives the list; a cached and a reloaded list write the same |
| `couch` | 2 keys, 2 blocks, JSON, binary and deletes; up to 2 faults, 2 crashes, 1 scan | reads, scans and savepoints follow the ledger; the committer becomes idle |
| `couch_fence` | as `couch` | expected to be violated, see section 6 |

**Bounds.** Conflicts, phantoms and lost updates need two transactions and one key;
the second key lets a scan or a transaction span two. Three blocks and two crashes
let the databases lag by different amounts and a crash interrupt a recovery. Two
launches suffice for one to delete the entry, the lock object or the container of
another, and two lock objects for a deleted lock to be created again. Two
executions of one transaction, the first abandoned, are the case in which a context
is found by the wrong run; a third one, of another transaction, waits for a shim that
the first two have blocked. Three super users distinguish the three veto types, and are
one more than a page. Nine keys let a scan's tree of hashes grow by a level. The lists
are filled until a leaf splits, then until a bucket of buckets splits, before the
writes begin. Numbers of four bits let aggregates overflow after three
operations. A run with several workloads chooses one at its start; the workload
bounds the crashes, failures, faults and calls.

**Termination.** Where a workload is used up the system may stop; those runs do not
check deadlock. `KVLedger`, `StateBasedValidator` and `PeerChannels` have a
`Finished` step for that, and there deadlock is checked.

**Fairness.** Weak fairness only, and only of goroutines that keep running:

* `StoredBlockReachesDBs`: a simulation ends (the endorser calls `Done` when it
  returns, and an execution has a timeout), the committer goes on once a block is in
  flight, and a stopped peer is started again.
* `GenesisIsListed`, `ListedComesUp`: the goroutine inside `CreateLedger` or
  `createChain`, and each channel's committer, run until they return; a stopped
  peer is started again.
* `LaunchReturns`: each client's goroutine and each stream's loop go on. No process is
  assumed to register: the startup timeout is what ends the wait.
* `CallsReturnWhileUp`: each execution, the peer's loop, the request goroutines and
  the shim's loop go on; messages in flight are received in the end. The
  chaincode itself need not answer, and a call of another chaincode need not return.
* `StopTerminates`, `BlocksDelivered`: each delivery goroutine goes on, and the ledger
  commits what is in the payload buffer. Failures are finitely many.
* `CommitterBecomesIdle`: the committer and the goroutines of the keys go on, and a
  scan ends.

Nobody is assumed to submit transactions, join channels or call `Stop`.

## 4. Proofs

All for every value of the constants, from the named assumptions of each module. Most
of them say that bounds are naturals, that `Nil` is none of the other values and that
sets that are counted are finite. In the proof modules a leaf is proved by Zenon
(`USE Zenon` at the top) unless it names the SMT solver. The assumptions that say more:

* `StreamAssumption`: the runs of one transaction agree on INIT or TRANSACTION.
* `WorkloadAssumption` of `RBCApproval`: proposals are of the forms rbccustomer, rbcapproval and lscc
  accept, and founders have different numbers, as registrations leave them.
* `CouchAssumption`: a block's batch gives each of its keys a JSON value, a binary value
  or a deletion, and `Nil` is no value, document or request body.
* `PipelineAssumption`: user chaincodes have none of the system chaincodes' names. The
  `WorkloadAssumption` of `TxPipeline`: requests name user chaincodes, and an entry of
  lscc has a policy.

`KVLedgerProofs`, for any number of transactions, keys, blocks and crashes:

* `TypeCorrect`: `TypeOK` and `Protocol`. `Protocol` is the inductive invariant: blocks
  are numbered by their position and have a flag for each transaction (`WellFormed`),
  the savepoints are where `pc` says they are (`LevelAt`), and during recovery each
  recoverer has a block to replay (`RecoveryPending`). Without it a step of recovery
  could read past the end of the block store.
* `AlwaysLevelWhenIdle`: recovery leaves both databases level; from `Protocol`.
* `StateAlwaysMatchesChain`: applying the updates of block n+1 to a database that
  matches the first n blocks gives one that matches n+1 (`ApplyNextBlock`), and
  appending a block leaves what the earlier ones show unchanged (`AppendAgree`,
  `CurrentAgree`). The last writer of a key in a block exists by well-foundedness of
  the naturals (`LargestIndex`).
* `HistoryAlwaysMatchesChain`: the history database indexes exactly the valid writes
  up to its savepoint; from `HistoryNextBlock`.
* `AlwaysValidInOneBlock`: with the strengthening `FreshInFlight`, that the block in
  flight holds no valid transaction that is stored already. It holds because one
  committer commits a channel's blocks: nothing is stored between the duplicate check
  and `AddBlock`.

On top of these, in the same module, what simulations and clients see:

* `AlwaysSimulationSnapshot`: while a simulator is open nobody commits the state, so
  what it has read so far is what the database holds (`ReadersSeeDB`); afterwards what
  it read is the state of an earlier height, which appending does not change.
* `AlwaysSerializable`: a version names its value (`VersionNamesValue`), so a read whose
  version is current has the current value. `PreparedSerial` says of the block in flight
  that its valid transactions saw what comes before them, in the chain and in the block;
  it is established by the MVCC check and carried to the chain by `AddBlock`.
* `LedgerImplementsSerialLedger`: the two properties before, and that the fold of
  `SerialLedger` over the blocks gives the state `CurrentAt` describes, position by
  position (`StateAt`). `AddBlock` is `Extend`, the commit of the state and the end of
  recovery are `Publish`, a crash is `Stop`, everything else stutters.

`PeerChannelsProofs`, for any set of channels. First the ledgers:
`CreationAlwaysAtomic` (`CreationIsAtomic`), `PeerAlwaysStarts` (`AlwaysStarts`) and
`ChainsAlwaysOpen`, from the inductive
invariant `Construction`. Its conjuncts say that a creation's ledger is the flagged
one, that a flagged ledger is not listed and has at most its genesis block, and that an
unlisted genesis block is that of a creation in progress or cut off by a crash. Then
the channels: every step of `PeerChannels` is a step of `LedgerProvider` or leaves the
ledgers alone (`StepRefines`). So the peer's channels implement `LedgerProvider` (the
lemma `ChannelsImplementLedgerProvider`), which gives `ChannelsCreationAtomic`.
`CachedConfigNeverBehind` (`CachedConfigNotBehind`) rests on the invariant that ties a
channel's stage to the entry of `chains.list` and the configuration applied (`Listing`,
`Configured`). `TrustAlwaysFollowsChannels` adds that while a channel collects
authorities nobody else writes them. Its property speaks of the time when all
certificates collected parse: with one that does not, the server keeps what it has.

`ChaincodeSupportProofs`, for any number of clients:

* `ContainerMutualExclusion`, of `VMController`, from `LockInv`: the reference count is
  the number of requests that wait or are inside, so the entry is deleted only when
  nobody refers to it (`Counted`), and a lock object is taken exactly when a request is
  inside with it (`Held`).
* `StartStopExclusion`: a step of the composed system is a step of `VMController` or
  leaves its state alone (`StepsOfController`), so `LockInv` carries over.
* `RegistryCorrect`: a placeholder is awaited, an entry has a handler, the two ends of a
  launch's channel agree on whether it was notified.
* `EntryAlwaysHasStream`: a registered entry has a stream whose loop runs, or whose
  deregistration is still to come: no step takes a stream out of `WithLoop` unless
  the entry goes (`Harmless`), and the end of a process touches only a stream that is
  not open yet (`EndsPending`).

`ChaincodeStreamProofs`, for any number of executions, transactions and stub calls:
`AlwaysAnsweredByOwnRun`, `AckedWritesAlwaysApplied` and `NotifyAlwaysWaitsAfterError`,
from `StreamInv`. The idea is what is in flight for a run (`Flight`): a request in the
stream, the goroutine that serves it, its answer, or what a waiting notify holds. As long
as no execution of a transaction was abandoned, its runs follow each other and a run has
one thing in flight at a time, the one its chaincode waits for (`FlightOK`). With an
abandoned one (`Torn`) this goes on until a run of the transaction ends with ERROR
(`Clean`), which may then answer another run's call. A run's final
message is in one place (`Finals`); and when its COMPLETED has arrived nothing of it is
in flight (`Settled`). `Lanes`, `Contexts` and `Channels` tie the executor, the context
and the shim's channel together, `Meetings` says whose messages an execution may meet,
and `Acks` that an acknowledged write of a clean transaction was made in the simulator
of its own run.

`TxPipelineProofs`, for any organisations, chaincodes, requests, blocks and crashes:
`AlwaysRanCurrentVersion`, `PolicyAlwaysHeld`, `LifecycleAlwaysCurrent`,
`CreatorAlwaysMember` and `UpgradesExcludeInvocations`, from `PipelineInv`. It says that
an invocation read lscc's entry of every chaincode that ran, and that as long as the
entry has not been written since it names the version that ran (`Faithful`, of every
endorsement, envelope and block), which holds on because what is written later has
a version of a later block (`Grows`). The ledger inside a block is reached through its
stages, one transaction at a time; `BoundedInduction`, an induction over a set of
indices from well-foundedness, takes a fact along them.

`RBCApprovalProofs`, for any customers, approvals, chaincodes, peers and number of
transactions: `RegistryIndexed`, `VerdictIsFinal`, `CountIsNotTooHigh` and
`ApprovedEffects`, from `GovernanceInv`. Transactions are simulated on one state and
committed on another. `EndorsedOK` says that as long as what a transaction read is
current (`Fresh`), its read and write set stands to the committed state as it did when it
was simulated (`Effect`: it leaves the customers alone, registers one that is not there,
or edits one from what it is; and it only decides approvals that are pending). A commit
that could disturb this writes a key the other one read, which ends its freshness for
good, because a version is the transaction that wrote it (`VersionsOK`). For
the count the same is said of the super users that were read and are still listed:
as far as it is within a page, for any `PageSize`, it is no higher than their number
when the verdict commits. `ApprovedEffects` says that an approved edit leaves exactly
what the edit makes of the customer as it then is.
`NumbersIndexed`, the index of numbers, is what makes two registrations of one number
meet in a key both read.

`StateCouchDBProofs`, for any number of keys and blocks, any batches, faults and crashes:
`AlwaysStateFollowsLedger`, from `CouchInv`. `StateFollowsLedger` is not inductive: it says
nothing of the moments between two blocks, of requests the peer gave up and CouchDB may
still perform, or of the calls that go on. It speaks of the keys that are not `astray`,
of which no write escaped the flush of its block, and says nothing once the
savepoint is astray.
`CouchInv` says that, unless the savepoint is astray, there is a block f (`Fenced`) that
all agree on: the committer is at the block after f or at the savepoint of f (`At`), the
savepoints in the documents and on disk are at most f (`Heights`), and a savepoint on its
way is that of f (`SavepointLate`). Each key that is not astray follows f
(`Follows`): the documents and the disk have its writes up to f, a request for it on its
way is of a later block, so that performing it late does no harm (`KeyLate`), and the
calls for it that go on are of the block that is written, one that ended well having
written the key (`KeyCalls`). A flush moves f on by one, and sends astray the keys whose
call is still going on or has failed, or for which a request is on its way. A
crash falls back to the documents on disk, which follow the same f, and recovery starts
at or below it; a block replayed gives its keys the values they are to have. That keys
go astray at all is what `ApplyUpdates` does (section 6).

`BlockDeliveryProofs`, for any number of channels, clients, blocks and failures:
`EndedAlwaysDisconnected`, `AtMostOneDelivery` and `NeverAGap`, from an invariant that
says at each point of the goroutine what it holds (`Sound`), which clients the map of
providers names (`Registered`, `AdHoc`), and where the next block of an open stream
lies (`Received`). Most of the work is the product of the goroutine's points with
`Close`.

## 5. Only model-checked

* Liveness, which needs reasoning about fairness: `StoredBlockReachesDBs`,
  `GenesisIsListed`, `ListedComesUp`, `LaunchReturns`, `CallsReturnWhileUp`,
  `StopTerminates`, `BlocksDelivered`, `CommitterBecomesIdle`.
* The properties of `StateBasedValidator` (with `RangeQuery`) and of `RList`: these
  modules compute recursively over data of any size, and what such a definition computes
  needs an induction over that data which the provers at hand cannot do.

## 6. Where the code and its comments disagree

Two runs are expected to be violated (`findings` in `PROJECT.json`).

* `aggregates_replay`: a block replayed after a crash loses its aggregates, because
  the replay skips `calWriteSet` and drops the `__CAL_` keys, while the comment of
  `recoverDBs` says that recommitting the last valid blocks recovers the database.
* `couch_fence`: `ApplyUpdates` of statecouchdb (`:300-322`) starts a goroutine for
  each key and neither waits for them nor sees their errors, so a savepoint may be
  recorded while writes of its block are still to be made, or have failed. The comment
  at `:362-365` says "we need to fence the savepoint with sync", "to ensure all block
  writes are flushed".

Other places met while modelling, which the models reproduce and the properties step
around with a stated proviso:

* Aggregates are right when they are only added to, multiplied and counted, a
  transaction's reads are in the first namespace it touches, and no crash falls
  between the block store and the state database. Otherwise a transaction that
  conflicts in its second namespace leaves the aggregates of its first in the batch
  (`state_based_validator.go:307`), a reader of an aggregate is not failed by a
  preceding change of it (`:557`), and a direct write between two calculations is
  lost (`:343`).
* A transaction ordered twice in one block is valid twice, because the duplicate check
  asks only the block store (`txvalidator/validator.go:159-161`).
* A scan that grows by a whole level of the Merkle tree may index a hash that is not
  there (`range_query_validator.go:148`), and the committer ends with a panic, although
  the comment at 107-108 considers the case. The `aggregates` run reaches it.
* The statistics of the current block (`state_based_validator.go:41`) and the cache of
  lists (`:40`) are variables of the package, shared by all channels, and the cache has
  a list's name for its key, without the namespace (`:396`). A block that is retried
  after an error counts twice in the statistics.
* Lists (`rlist.go`). `IndexOf` overlooks a pending deletion (`:546-553`), so that a
  second write in one block of an id that is removed there removes another one. The two
  halves of a split share an array, and an append to the first overwrites the second
  (`:343-371`, `:430`). A leaf below a bucket other than the root that merges lists its ids
  again through the bucket it was detached from, and ids of the following bucket are
  removed. An error after the writes were prepared leaves the cached list ahead of the
  database, and the retried block writes to it once more. An index may be out of range,
  which is a panic. The module notes each of these in `harm`; the run reaches all, and
  its properties are about lists without them. A block replayed after a crash loses its
  `__RLIST_` writes (`state_based_validator.go:279`).
* With the code's bucket size a list's order changes when a leaf falls below half
  and its ids are added again at the end of a neighbour.
* Executing on, or sending ready to, a stream whose loop has ended waits without the
  timeout the comments speak of (`chaincode_support.go:509`, `:668`). An in-process stop
  of a chaincode that ended by itself hangs.
* Veto type 2 passes at a third of the votes, rounded up, where
  `rbcapproval.go:63` and `:251` say two thirds; type 3 can stay undecided for an
  odd number of super users.
* A customer's type can be modified, although `rbccustomer.go:49` says it cannot, and a
  change of type and status together leaves the old status list.
* lscc answers success although `putChaincodeData` may have refused (`lscc.go:911`,
  `:951`). "rbc platform close deploy function" (`:762-764`) and its counterpart for
  upgrades (`:822-824`) build an error and do not return it, so both functions stay open.
* `queryAll` reads the first page of 20 (`rbccustomer.go:466-478`), so that a super user
  beyond it who is removed meanwhile is not noticed by a verdict.
* In a call of another chaincode an error of `Execute` is assigned to a variable that
  hides the one tested later (`handler.go:1215`), and is answered RESPONSE with an empty
  payload.
* When an execution of a transaction was abandoned and a run of it ends with ERROR, the
  error may answer a call of another run of the transaction, or block the shim.
* A certificate that does not parse stops the update of the server's authorities. A
  channel whose `createChain` failed can be brought up again only by a restart.
* `Stop` of the delivery service does not close connections made for `SendToOrderer`
  (`deliveryclient.go:54`).
* The server keys authorities by subject, so of two with one subject only one is
  trusted: `TrustFollowsChannels` is about subjects.

## 7. Not modelled

* The block store, leveldb, gossip, the MSP and the ordering service are not part of
  this repository. They are external: a block and a batch are stored atomically, and
  blocks reach the committer in order.
* Packaging, platforms, docker image building, credentials, configuration files and the
  command line: conversions and I/O without a protocol of their own.
* Read-only queries (qscc, history and list queries, rbcapproval's reports), events to
  listeners, and the text of errors. They change no state of the peer.
* Rich queries in the ledger, which validation does not re-execute; in
  `ChaincodeStream` they are requests like the others.
* The encrypted proposals of the fork's endorser, whose cryptography is external.
* A chaincode that calls one of another channel: it opens a simulator of the other
  ledger while its own is open, and two such calls with two waiting committers wait
  for each other until the execution times out. In `ChaincodeStream` such a call may
  never return, but the locks of the two ledgers are not composed with it: it would
  take `KVLedger` twice below
  two `ChaincodeStream`s, which is out of TLC's reach.
* The cache over installed packages (`ccinfocache.go`) and how a chaincode's code is
  found for a launch.
* Keepalive messages, logging, metrics.
