------------------------------ MODULE KVLedger ------------------------------
(***************************************************************************)
(* The ledger of one channel: transaction simulation under the commit      *)
(* lock, the commit of a block (committer, MVCC validation, block store,   *)
(* state DB, history DB), crashes between any two durable steps and the    *)
(* recovery that runs when the ledger is opened again.                     *)
(*                                                                         *)
(* Sources: kvledger/kv_ledger.go, lockbasedtxmgr/*.go, statebasedval/     *)
(* state_based_validator.go, stateleveldb.go, historyleveldb.go,           *)
(* committer_impl.go, txvalidator/validator.go.                            *)
(*                                                                         *)
(* Keys are the keys of one chaincode namespace that carry neither the     *)
(* __CAL_ nor the __RLIST_ prefix (see StateBasedValidator), and a written *)
(* value is identified with the transaction that writes it.  Blocks and    *)
(* transactions are numbered from 1: blocks[n] is block number n-1, and    *)
(* blocks[1] is the genesis block.                                         *)
(***************************************************************************)
EXTENDS Naturals, Sequences, FiniteSets

CONSTANTS TxIds,        \* transaction ids; each is simulated at most once
          BadTxs,       \* those whose endorsements the VSCC rejects
          Keys,         \* keys of the namespace
          Ranges,       \* key ranges a chaincode may scan
          Nil,          \* the nil pointer: no value, no entry
          MaxHeight,    \* bound: blocks in the block store
          MaxBlockTxs,  \* bound: transactions in a block
          MaxOps,       \* bound: reads, scans and writes of a simulation
          MaxCrashes    \* bound: crashes of the peer

ASSUME KVLedgerAssumption ==
    /\ BadTxs \subseteq TxIds
    /\ Ranges \subseteq SUBSET Keys
    /\ Nil \notin TxIds /\ Nil \notin {"PUT", "DEL"}
    /\ Nil \notin [val : TxIds \cup {Nil}, ver : Nat \X Nat]
    /\ MaxHeight \in Nat /\ MaxBlockTxs \in Nat
    /\ MaxOps \in Nat /\ MaxCrashes \in Nat

VARIABLES
    blocks,         \* block store (durable): sequence of [num, txs, flags]
    db,             \* state DB (durable): key -> [val, ver]
    savepoint,      \* its savepoint: number of blocks applied, 0 is none
    history,        \* history DB (durable): set of <<key, version>>
    histSavepoint,  \* its savepoint
    histEnabled,    \* ledger.history.enableHistoryDatabase
    pc,             \* where the committer, or the recovery, stands
    currentBlock,   \* the block in flight
    batch,          \* txmgr.batch: key -> update
    recoverers,     \* DBs being recovered, the lagging one first
    status,         \* of each transaction's simulation
    rwset,          \* the read-write set it has built
    crashes         \* crashes so far

storeVars  == <<blocks, db, savepoint, history, histSavepoint>>
memVars    == <<pc, currentBlock, batch, recoverers>>
simVars    == <<status, rwset>>
vars == <<storeVars, memVars, histEnabled, simVars, crashes>>

-----------------------------------------------------------------------------
(* Versions, values and read-write sets. *)

NoVersion == <<0, 0>>
Version   == Nat \X Nat

\* A key that has never been written, or was deleted.
Absent == [val |-> Nil, ver |-> NoVersion]

VersionedValue == [val : TxIds \cup {Nil}, ver : Version]

Flags == {"VALID", "DUPLICATE_TXID", "ENDORSEMENT_POLICY_FAILURE",
          "MVCC_READ_CONFLICT", "PHANTOM_READ_CONFLICT"}

\* An entry for some of the keys, Nil for the others.
Entries(T) == [Keys -> T \cup {Nil}]
NoEntries == [k \in Keys |-> Nil]

\* The read-write set of a transaction: versioned reads, the results of a
\* range query, and writes.
TxRwSet == [id     : TxIds,
            reads  : Entries(VersionedValue),
            scan   : Entries(VersionedValue),
            writes : Entries({"PUT", "DEL"})]

NewTx(t) == [id |-> t, reads |-> NoEntries, scan |-> NoEntries, writes |-> NoEntries]

Block == [num : Nat, txs : Seq(TxRwSet), flags : Seq(Flags)]

Genesis == [num |-> 1, txs |-> << >>, flags |-> << >>]
NoBlock == [num |-> 0, txs |-> << >>, flags |-> << >>]

\* Transaction i of block b is valid and writes key k.
WritesKey(b, i, k) == b.flags[i] = "VALID" /\ b.txs[i].writes[k] # Nil

\* addWriteSetToBatch over the valid transactions of a block, in order: the
\* last valid writer of a key determines its update; a nil value is a delete.
Updates(b) ==
    [k \in Keys |->
        IF \A i \in 1..Len(b.txs) : ~WritesKey(b, i, k) THEN Nil
        ELSE LET last == CHOOSE i \in 1..Len(b.txs) :
                            /\ WritesKey(b, i, k)
                            /\ \A j \in 1..Len(b.txs) : WritesKey(b, j, k) => j <= i
             IN  [val |-> IF b.txs[last].writes[k] = "DEL"
                          THEN Nil ELSE b.txs[last].id,
                  ver |-> <<b.num, last>>]]

\* One atomic leveldb write: puts, and deletes for the nil values.
ApplyUpdates(d, u) ==
    [k \in Keys |-> IF u[k] = Nil THEN d[k]
                    ELSE IF u[k].val = Nil THEN Absent ELSE u[k]]

\* The history index entries of a block: one for each write of a valid one.
HistoryEntries(b) ==
    {e \in Keys \X ({b.num} \X (1..Len(b.txs))) : WritesKey(b, e[2][2], e[1])}

-----------------------------------------------------------------------------
(* Simulation: lockBasedTxSimulator, holding commitRWLock.RLock. *)

Readers == {t \in TxIds : status[t] = "simulating"}

Open == pc \notin {"down", "recover"}

\* Once the committer asks for the write lock no reader gets in.
NewTxSimulator(t) ==
    /\ Open /\ pc # "added"
    /\ status[t] = "new"
    /\ status' = [status EXCEPT ![t] = "simulating"]
    /\ UNCHANGED <<storeVars, memVars, histEnabled, rwset, crashes>>

Ops(t) == Cardinality({k \in Keys : rwset[t].reads[k] # Nil})
            + Cardinality({k \in Keys : rwset[t].writes[k] # Nil})
            + (IF rwset[t].scan = NoEntries THEN 0 ELSE 1)

Simulating(t) == status[t] = "simulating" /\ Ops(t) < MaxOps

\* The read set records the version; val is what the chaincode is handed.
\* There is no read-your-writes: the answer always comes from the state DB.
GetState(t, k) ==
    /\ Simulating(t)
    /\ rwset' = [rwset EXCEPT ![t].reads[k] = db[k]]
    /\ UNCHANGED <<storeVars, memVars, histEnabled, status, crashes>>

\* A scan of a range to its end; absent keys of the range are part of what
\* was seen.
GetStateRangeScanIterator(t, R) ==
    /\ Simulating(t)
    /\ rwset[t].scan = NoEntries
    /\ rwset' = [rwset EXCEPT ![t].scan = [k \in Keys |-> IF k \in R THEN db[k] ELSE Nil]]
    /\ UNCHANGED <<storeVars, memVars, histEnabled, status, crashes>>

SetState(t, k) ==
    /\ Simulating(t)
    /\ rwset' = [rwset EXCEPT ![t].writes[k] = "PUT"]
    /\ UNCHANGED <<storeVars, memVars, histEnabled, status, crashes>>

DeleteState(t, k) ==
    /\ Simulating(t)
    /\ rwset' = [rwset EXCEPT ![t].writes[k] = "DEL"]
    /\ UNCHANGED <<storeVars, memVars, histEnabled, status, crashes>>

\* Done() releases the lock, then the read-write set is handed out.
GetTxSimulationResults(t) ==
    /\ status[t] = "simulating"
    /\ status' = [status EXCEPT ![t] = "endorsed"]
    /\ UNCHANGED <<storeVars, memVars, histEnabled, rwset, crashes>>

\* Done() of a simulation whose results nobody asks for.
Done(t) ==
    /\ status[t] = "simulating"
    /\ status' = [status EXCEPT ![t] = "aborted"]
    /\ UNCHANGED <<storeVars, memVars, histEnabled, rwset, crashes>>

-----------------------------------------------------------------------------
(* The commit of a block. *)

\* Blocks the ordering service may deliver next: endorsed transactions, in
\* any order, possibly submitted more than once.
Endorsed == {t \in TxIds : status[t] = "endorsed"}
Orderable == UNION {[1..n -> {rwset[t] : t \in Endorsed}] : n \in 1..MaxBlockTxs}

Stored(t) == \E n \in 1..Len(blocks) :
                \E i \in 1..Len(blocks[n].txs) : blocks[n].txs[i].id = t

\* Mutant: the block store is not asked for the transaction.
ValidatorFlagNoDuplicates(t) ==
    IF t \in BadTxs THEN "ENDORSEMENT_POLICY_FAILURE" ELSE "VALID"

\* txValidator: duplicate id in the block store, then the VSCC.
ValidatorFlag(t) ==
    IF Stored(t) THEN "DUPLICATE_TXID"
    ELSE IF t \in BadTxs THEN "ENDORSEMENT_POLICY_FAILURE" ELSE "VALID"

Validate ==
    /\ pc = "idle" /\ Len(blocks) < MaxHeight
    /\ \E txs \in Orderable :
         currentBlock' = [num   |-> Len(blocks) + 1,
                          txs   |-> txs,
                          flags |-> [i \in 1..Len(txs) |-> ValidatorFlag(txs[i].id)]]
    /\ pc' = "validated"
    /\ UNCHANGED <<storeVars, batch, recoverers, histEnabled, simVars, crashes>>

\* Mutant: only the committed version is compared.
ReadConflictCommittedOnly(b, flags, i) ==
    \E k \in Keys : b.txs[i].reads[k] # Nil /\ db[k].ver # b.txs[i].reads[k].ver

\* validateKVRead: the key is in the updates of a preceding valid transaction
\* of the block, or its committed version is not the version read.
ReadConflict(b, flags, i) ==
    \E k \in Keys :
        /\ b.txs[i].reads[k] # Nil
        /\ \/ \E j \in 1..(i-1) : flags[j] = "VALID" /\ b.txs[j].writes[k] # Nil
           \/ db[k].ver # b.txs[i].reads[k].ver

\* The key as the combined iterator (state DB under the updates) has it when
\* transaction i is validated: the version a preceding valid transaction of
\* the block gives it, no version if that one deletes it, else the committed.
CombinedVersion(b, flags, i, k) ==
    LET prior == {j \in 1..(i-1) : flags[j] = "VALID"
                                    /\ b.txs[j].writes[k] # Nil}
        last  == CHOOSE j \in prior : \A l \in prior : l <= j
    IN  IF prior = {} THEN db[k].ver
        ELSE IF b.txs[last].writes[k] = "DEL" THEN NoVersion
        ELSE <<b.num, last>>

\* validateRangeQuery: the scan, run again, returns other keys or versions.
PhantomConflict(b, flags, i) ==
    \E k \in Keys :
        /\ b.txs[i].scan[k] # Nil
        /\ CombinedVersion(b, flags, i, k) # b.txs[i].scan[k].ver

\* The flag of transaction i, given the flags of those before it.
MVCCFlag(b, flags, i) ==
    IF b.flags[i] # "VALID" THEN b.flags[i]
    ELSE IF ReadConflict(b, flags, i) THEN "MVCC_READ_CONFLICT"
    ELSE IF PhantomConflict(b, flags, i) THEN "PHANTOM_READ_CONFLICT"
    ELSE "VALID"

\* flags are those the validator computes: each is determined by the earlier.
FlagsOf(b, flags) ==
    \A i \in 1..Len(b.txs) : flags[i] = MVCCFlag(b, flags, i)

\* ValidateAndPrepare(block, true): flags go into the block's metadata, the
\* writes of the valid transactions into txmgr.batch.  No lock is held.
ValidateAndPrepare ==
    /\ pc = "validated"
    /\ \E flags \in [1..Len(currentBlock.txs) -> Flags] :
         /\ FlagsOf(currentBlock, flags)
         /\ currentBlock' = [currentBlock EXCEPT !.flags = flags]
    /\ batch' = Updates(currentBlock')
    /\ pc' = "prepared"
    /\ UNCHANGED <<storeVars, recoverers, histEnabled, simVars, crashes>>

\* blockStore.AddBlock, durable when it returns.
AddBlock ==
    /\ pc = "prepared"
    /\ blocks' = Append(blocks, currentBlock)
    /\ pc' = "added"
    /\ UNCHANGED <<db, savepoint, history, histSavepoint, currentBlock, batch,
                   recoverers, histEnabled, simVars, crashes>>

\* An error from ValidateAndPrepare or AddBlock ends Commit; the batch stays.
CommitError ==
    /\ pc \in {"validated", "prepared"}
    /\ pc' = "idle"
    /\ UNCHANGED <<storeVars, currentBlock, batch, recoverers, histEnabled, simVars, crashes>>

\* Mutant: the batch is applied without waiting for the write lock.
CommitStateUnlocked ==
    /\ pc = "added"
    /\ db' = ApplyUpdates(db, batch)
    /\ savepoint' = currentBlock.num
    /\ batch' = NoEntries
    /\ pc' = IF histEnabled THEN "stateCommitted" ELSE "idle"
    /\ UNCHANGED <<blocks, history, histSavepoint, currentBlock, recoverers,
                   histEnabled, simVars, crashes>>

\* txmgr.Commit under the write lock: one atomic batch with the savepoint.
CommitState ==
    /\ pc = "added" /\ Readers = {}
    /\ db' = ApplyUpdates(db, batch)
    /\ savepoint' = currentBlock.num
    /\ batch' = NoEntries
    /\ pc' = IF histEnabled THEN "stateCommitted" ELSE "idle"
    /\ UNCHANGED <<blocks, history, histSavepoint, currentBlock, recoverers,
                   histEnabled, simVars, crashes>>

\* historyDB.Commit: one atomic batch with the savepoint.
CommitHistory ==
    /\ pc = "stateCommitted"
    /\ history' = history \cup HistoryEntries(currentBlock)
    /\ histSavepoint' = currentBlock.num
    /\ pc' = "idle"
    /\ UNCHANGED <<blocks, db, savepoint, currentBlock, batch, recoverers,
                   histEnabled, simVars, crashes>>

-----------------------------------------------------------------------------
(* Crash, restart and recovery. *)

Crash ==
    /\ pc # "down" /\ crashes < MaxCrashes
    /\ crashes' = crashes + 1
    /\ pc' = "down"
    /\ currentBlock' = NoBlock /\ batch' = NoEntries /\ recoverers' = << >>
    /\ status' = [t \in TxIds |-> IF status[t] = "simulating" THEN "aborted"
                                 ELSE status[t]]
    /\ UNCHANGED <<storeVars, histEnabled, rwset>>

\* The operator removes the state DB of a stopped peer to have it rebuilt:
\* ShouldRecover then finds no savepoint.
LoseStateDB ==
    /\ pc = "down" /\ savepoint # 0
    /\ db' = [k \in Keys |-> Absent] /\ savepoint' = 0
    /\ UNCHANGED <<blocks, history, histSavepoint, memVars, histEnabled, simVars, crashes>>

ShouldRecover(sp) == sp # Len(blocks)

\* recoverDBs: the DBs out of step with the block store, the lagger first.
Recoverers(histOn) ==
    LET st == ShouldRecover(savepoint)
        hi == histOn /\ ShouldRecover(histSavepoint)
    IN  IF ~st /\ ~hi THEN << >>
        ELSE IF ~hi THEN <<"state">>
        ELSE IF ~st THEN <<"history">>
        ELSE IF savepoint > histSavepoint THEN <<"history", "state">>
        ELSE <<"state", "history">>

\* The configuration may turn the history DB on or off at a restart.
Restart ==
    /\ pc = "down"
    /\ \E histOn \in BOOLEAN :
         /\ histEnabled' = histOn
         /\ recoverers' = Recoverers(histOn)
    /\ pc' = IF recoverers' = << >> THEN "idle" ELSE "recover"
    /\ UNCHANGED <<storeVars, currentBlock, batch, simVars, crashes>>

SavepointOf(r) == IF r = "state" THEN savepoint ELSE histSavepoint

\* recommitLostBlocks: the lagger alone until it is level, then both block
\* by block, the lagger first.
NextRecoverer ==
    IF Len(recoverers) = 2 /\ SavepointOf(recoverers[1]) > SavepointOf(recoverers[2])
    THEN recoverers[2] ELSE recoverers[1]

\* The last recoverer to act has just reached the end of the block store.
RecoveryDone ==
    \A i \in 1..Len(recoverers) :
        (IF recoverers[i] = "state" THEN savepoint' ELSE histSavepoint') = Len(blocks)

\* Mutant: recovery takes the DBs to be at most one block behind.
AfterRecommitOneBlock == pc' = "idle" /\ recoverers' = << >>

AfterRecommit ==
    /\ pc' = IF RecoveryDone THEN "idle" ELSE "recover"
    /\ recoverers' = IF RecoveryDone THEN << >> ELSE recoverers

\* Mutant: only the last block is taken to be lost.
RecommitStateLastBlock ==
    /\ pc = "recover" /\ NextRecoverer = "state"
    /\ db' = ApplyUpdates(db, Updates(blocks[Len(blocks)]))
    /\ savepoint' = Len(blocks)
    /\ currentBlock' = blocks[Len(blocks)]
    /\ batch' = NoEntries
    /\ UNCHANGED <<blocks, history, histSavepoint, histEnabled, simVars, crashes>>
    /\ AfterRecommit

\* txmgr.CommitLostBlock: ValidateAndPrepare(block, false) takes the stored
\* flags as they are, Commit applies the batch and clears it.
RecommitState ==
    /\ pc = "recover" /\ NextRecoverer = "state"
    /\ db' = ApplyUpdates(db, Updates(blocks[savepoint + 1]))
    /\ savepoint' = blocks[savepoint + 1].num
    /\ currentBlock' = blocks[savepoint + 1]
    /\ batch' = NoEntries
    /\ UNCHANGED <<blocks, history, histSavepoint, histEnabled, simVars, crashes>>
    /\ AfterRecommit

\* historyDB.CommitLostBlock.
RecommitHistory ==
    /\ pc = "recover" /\ NextRecoverer = "history"
    /\ history' = history \cup HistoryEntries(blocks[histSavepoint + 1])
    /\ histSavepoint' = blocks[histSavepoint + 1].num
    /\ UNCHANGED <<blocks, db, savepoint, currentBlock, batch, histEnabled, simVars, crashes>>
    /\ AfterRecommit

-----------------------------------------------------------------------------
Init ==
    /\ blocks = <<Genesis>>
    /\ db = [k \in Keys |-> Absent] /\ savepoint = 1
    /\ history = {} /\ histEnabled \in BOOLEAN
    /\ histSavepoint = IF histEnabled THEN 1 ELSE 0
    /\ pc = "idle" /\ currentBlock = NoBlock /\ batch = NoEntries
    /\ recoverers = << >>
    /\ status = [t \in TxIds |-> "new"]
    /\ rwset = [t \in TxIds |-> NewTx(t)]
    /\ crashes = 0

Simulate(t) ==
    \/ NewTxSimulator(t) \/ GetTxSimulationResults(t) \/ Done(t)
    \/ \E k \in Keys : GetState(t, k) \/ SetState(t, k) \/ DeleteState(t, k)
    \/ \E R \in Ranges : GetStateRangeScanIterator(t, R)

Commit ==
    \/ Validate \/ ValidateAndPrepare \/ AddBlock \/ CommitError
    \/ CommitState \/ CommitHistory

Recover == Restart \/ RecommitState \/ RecommitHistory

Next ==
    \/ \E t \in TxIds : Simulate(t)
    \/ Commit
    \/ Recover
    \/ Crash \/ LoseStateDB

Spec == Init /\ [][Next]_vars

\* A simulation ends (the endorser runs Done when it returns, and a chaincode
\* execution has a timeout); the committer's goroutine and the restarted peer
\* keep running.
Fairness ==
    /\ \A t \in TxIds : WF_vars(GetTxSimulationResults(t) \/ Done(t))
    /\ WF_vars(ValidateAndPrepare \/ AddBlock \/ CommitState \/ CommitHistory)
    /\ WF_vars(Recover)

FairSpec == Spec /\ Fairness

-----------------------------------------------------------------------------
(* What the ledger promises. *)

\* Positions of transactions in the chain bs.
Positions(bs) == UNION {{n} \X (1..Len(bs[n].txs)) : n \in 1..Len(bs)}

Precedes(p, q) == p[1] < q[1] \/ (p[1] = q[1] /\ p[2] < q[2])

TxAt(bs, p) == bs[p[1]].txs[p[2]]
IsValid(bs, p) == bs[p[1]].flags[p[2]] = "VALID"
ValidWrite(bs, p, k) == IsValid(bs, p) /\ TxAt(bs, p).writes[k] # Nil

\* What key k holds after the write at position p.
Written(bs, p, k) ==
    IF TxAt(bs, p).writes[k] = "DEL" THEN Absent
    ELSE [val |-> TxAt(bs, p).id, ver |-> p]

\* q is the last valid write of k before position p.
LastWrite(bs, k, p, q) ==
    /\ Precedes(q, p) /\ ValidWrite(bs, q, k)
    /\ \A r \in Positions(bs) : Precedes(r, p) /\ ValidWrite(bs, r, k) => ~Precedes(q, r)

\* vv is what k holds when exactly the valid transactions before position p
\* have been executed, one after the other.
CurrentAt(bs, k, p, vv) ==
    \/ /\ vv = Absent
       /\ \A q \in Positions(bs) : Precedes(q, p) => ~ValidWrite(bs, q, k)
    \/ \E q \in Positions(bs) : LastWrite(bs, k, p, q) /\ vv = Written(bs, q, k)

AfterBlock(n) == <<n + 1, 0>>

\* What a transaction read or scanned of k, if anything, is what k holds at p.
SawAt(bs, t, k, p) ==
    /\ t.reads[k] # Nil => CurrentAt(bs, k, p, t.reads[k])
    /\ t.scan[k] # Nil => CurrentAt(bs, k, p, t.scan[k])

\* The types of the variables.
TypeOK ==
    /\ blocks \in Seq(Block)
    /\ db \in [Keys -> VersionedValue] /\ savepoint \in Nat
    /\ history \subseteq Keys \X Version /\ histSavepoint \in Nat
    /\ histEnabled \in BOOLEAN
    /\ pc \in {"idle", "validated", "prepared", "added", "stateCommitted",
              "down", "recover"}
    /\ currentBlock \in Block
    /\ batch \in Entries(VersionedValue)
    /\ recoverers \in Seq({"state", "history"})
    /\ status \in [TxIds -> {"new", "simulating", "endorsed", "aborted"}]
    /\ rwset \in [TxIds -> TxRwSet]
    /\ crashes \in Nat

\* The state DB is the serial execution of the valid transactions of the
\* blocks up to its savepoint, at every moment: during a commit, after a
\* crash at any point of it, and during and after recovery
\* (kvLedger.Commit, recoverDBs, CommitLostBlock).
StateMatchesChain ==
    \A k \in Keys : CurrentAt(blocks, k, AfterBlock(savepoint), db[k])

\* The history DB indexes exactly the writes of the valid transactions of the
\* blocks up to its savepoint (historyDB.Commit and CommitLostBlock).
HistoryMatchesChain ==
    history = {e \in Keys \X Positions(blocks) :
                    e[2][1] <= histSavepoint /\ ValidWrite(blocks, e[2], e[1])}

\* Both DBs are level with the block store whenever a block may be committed
\* or a transaction simulated and no commit is in flight: recovery never
\* leaves a DB behind, however far it lagged (recoverDBs).
LevelWhenIdle ==
    pc \in {"idle", "validated", "prepared"} =>
        /\ savepoint = Len(blocks)
        /\ histEnabled => histSavepoint = Len(blocks)

\* Everything a simulation reads, it reads from one committed height: a block
\* commit never becomes visible half way through (commitRWLock).
SimulationSnapshot ==
    \A t \in TxIds : \E n \in 1..Len(blocks) : \A k \in Keys :
        SawAt(blocks, rwset[t], k, AfterBlock(n))

\* A transaction marked valid saw, for each key it read or scanned, exactly
\* the value a serial execution in chain order would have shown it
\* (validateTx: MVCC and phantom checks against the DB and the block).
Serializable ==
    \A p \in Positions(blocks) : IsValid(blocks, p) =>
        \A k \in Keys : SawAt(blocks, TxAt(blocks, p), k, p)

\* A transaction ordered in several blocks is valid in at most one of them,
\* crashes and recoveries between them included: the duplicate check of
\* txValidator.Validate against the block store.
ValidInOneBlock ==
    \A p, q \in Positions(blocks) :
        /\ IsValid(blocks, p) /\ IsValid(blocks, q)
        /\ TxAt(blocks, p).id = TxAt(blocks, q).id
        => p[1] = q[1]

\* A block once stored reaches the state DB and, when it is enabled, the
\* history DB, whatever crashes come between.
StoredBlockReachesDBs ==
    \A n \in 1..MaxHeight :
        Len(blocks) >= n ~> savepoint >= n /\ (histEnabled => histSavepoint >= n)

-----------------------------------------------------------------------------
(* The ledger implements SerialLedger. *)

SerialTx(b, i) ==
    LET t == b.txs[i]
    IN  [id |-> t.id, valid |-> b.flags[i] = "VALID", writes |-> t.writes,
         seen |-> {<<k, t.reads[k].val>> : k \in {l \in Keys : t.reads[l] # Nil}}
                    \cup {<<k, t.scan[k].val>> : k \in {l \in Keys : t.scan[l] # Nil}}]

SerialBlock(b) == [i \in 1..Len(b.txs) |-> SerialTx(b, i)]

Serial == INSTANCE SerialLedger WITH
    chain  <- [n \in 1..Len(blocks) |-> SerialBlock(blocks[n])],
    served <- IF Open THEN savepoint ELSE 0,
    view   <- [k \in Keys |-> IF Open THEN db[k].val ELSE Nil]

\* Clients of the ledger cannot tell it from one that executes the valid
\* transactions of whole blocks one at a time: what MVCC validation accepts is
\* serially valid, and commit, crash and recovery only ever expose the outcome
\* of whole blocks (kvLedger.Commit, recoverDBs, ValidateAndPrepareBatch).
ImplementsSerialLedger == Serial!Spec
=============================================================================
