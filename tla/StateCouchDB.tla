---------------------------- MODULE StateCouchDB ----------------------------
(***************************************************************************)
(* The state database on CouchDB (statedb/statecouchdb and util/couchdb):  *)
(* one document per key, guarded by a revision, written over HTTP.         *)
(*                                                                         *)
(* ApplyUpdates starts one goroutine per key of a block (CommitThread),    *)
(* does not wait for them, flushes the database and writes the savepoint   *)
(* document; the ledger replays the blocks above the savepoint when the    *)
(* peer starts.  A request may fail, or time out although CouchDB performs *)
(* it, at once or later; handleRequest repeats it with the same revision,  *)
(* and a revision conflict makes handleRequestWithRevisionRetry read the   *)
(* revision again.  CouchDB answers a request in one step, holds documents *)
(* in docs and on disk what the last flush wrote; it and the peer may      *)
(* crash.                                                                  *)
(*                                                                         *)
(* th[b][k] is the call that writes key k of block b; th[b][Savepoint] the *)
(* call that saves the savepoint of block b.  A value is its kind and the  *)
(* block that wrote it.                                                    *)
(***************************************************************************)
EXTENDS Naturals, Sequences, FiniteSets

CONSTANTS
    NKeys,       \* the keys are 1 .. NKeys
    MaxBlocks,   \* blocks that are committed
    MaxRetries,  \* couchDBConfig.maxRetries
    QueryLimit,  \* ledger.state.queryLimit
    Workloads,   \* the batches a run commits and the faults it meets
    Nil

Keys == 1 .. NKeys
Savepoint == 0
Blocks == 1 .. MaxBlocks
SystemDatabases == 3    \* _users, _replicator, _global_changes

\* A batch says of the keys that a block writes what it does to them.
Batch == UNION {[S -> {"json", "binary", "delete"}] : S \in SUBSET Keys}

Workload == [batch : [Blocks -> Batch], faults : Nat, crashes : Nat, scans : Nat]

StateValue == {"json", "binary"} \X Blocks

\* A document, and the parts of the request that saves it.
CouchDoc == [version : Blocks, data : StateValue \cup {Nil}, attachment : StateValue \cup {Nil}]
Body == [json : [version : Blocks, data : StateValue \cup {Nil}], parts : SUBSET StateValue]

ASSUME CouchAssumption ==
    /\ {NKeys, MaxBlocks, MaxRetries, QueryLimit} \subseteq Nat \ {0}
    /\ Workloads \subseteq Workload
    /\ Nil \notin StateValue \cup CouchDoc \cup Body

VARIABLES
    databases, \* how many of the databases exist (the system's, the channel's)
    docs,      \* the documents: [rev, doc], doc Nil when there is none
    disk,      \* the documents as last flushed
    late,      \* requests given up by the peer that CouchDB may still perform
    th,        \* the calls of SaveDoc and DeleteDoc
    committer, \* the goroutine that commits: [pc, block]
    stored,    \* blocks in the block store
    scan,      \* a range scan or query of a simulation, Nil when there is none
    astray,    \* documents whose writes escaped the flush of their block (EscapesFlush,
               \* EscapesRecovery, LostBeforeFlush)
    load       \* [batch, faults, crashes, scans]: the workload and what remains of it

vars == <<databases, docs, disk, late, th, committer, stored, scan, astray, load>>

-----------------------------------------------------------------------------
(* Documents.                                                              *)

IsJSON(value) == value[1] = "json"

\* A JSON value is wrapped in the document, any other is its attachment.
addVersionAndChainCodeID(value) ==
    [version |-> value[2], data |-> IF IsJSON(value) THEN value ELSE Nil,
     attachment |-> IF IsJSON(value) THEN Nil ELSE value]

removeDataWrapper(doc) ==
    IF doc.data = Nil /\ doc.attachment # Nil THEN doc.attachment ELSE doc.data

\* What CouchDB compares a request's revision with; a document that does not
\* exist is written without one.
Revision(k) == IF docs[k].doc = Nil THEN 0 ELSE docs[k].rev

Accepts(r) == r.rev = Revision(r.key) /\ (r.body = Nil => docs[r.key].doc # Nil)

\* CouchDB keeps the parts together; it returns them together to ReadDoc.
Stored(r) ==
    [docs EXCEPT ![r.key] =
        [rev |-> @.rev + 1,
         doc |-> IF r.body = Nil THEN Nil
                 ELSE [version |-> r.body.json.version, data |-> r.body.json.data,
                       attachment |-> IF r.body.parts = {} THEN Nil
                                      ELSE CHOOSE p \in r.body.parts : TRUE]]]

\* Nil for a document that does not exist.
ReadDoc(k) == docs[k].doc

GetState(k) == IF ReadDoc(k) = Nil THEN Nil ELSE removeDataWrapper(ReadDoc(k))

GetLatestSavePoint == IF ReadDoc(Savepoint) = Nil THEN 0 ELSE ReadDoc(Savepoint).version

-----------------------------------------------------------------------------
(* A call of SaveDoc or DeleteDoc: "rev" before it reads the revision,     *)
(* "req" before it sends the request, "done" or "failed".                  *)

NoCall == [st |-> "none", rev |-> 0, sent |-> 0, conflicts |-> 0]
Start == [NoCall EXCEPT !.st = "rev"]
Done == [NoCall EXCEPT !.st = "done"]
Failed == [NoCall EXCEPT !.st = "failed"]

\* The requests of the two kinds of call.  A document with an attachment is
\* sent in parts, the JSON and the attachment.
createAttachmentPart(doc) == [json |-> [version |-> doc.version, data |-> doc.data],
                              parts |-> IF doc.attachment = Nil THEN {} ELSE {doc.attachment}]

SaveDoc(k, rev, doc) == [key |-> k, rev |-> rev, body |-> createAttachmentPart(doc)]

DeleteDoc(k, rev) == [key |-> k, rev |-> rev, body |-> Nil]

couchSavepointData(b) == [version |-> b, data |-> Nil, attachment |-> Nil]

\* What the goroutine of key k of block b asks of CouchDB.
CommitThread(b, k, rev) ==
    IF load.batch[b][k] = "delete" THEN DeleteDoc(k, rev)
    ELSE SaveDoc(k, rev, addVersionAndChainCodeID(<<load.batch[b][k], b>>))

Request(b, k) ==
    IF k = Savepoint THEN SaveDoc(k, th[b][k].rev, couchSavepointData(b))
    ELSE CommitThread(b, k, th[b][k].rev)

Becomes(b, k, call) == th' = [th EXCEPT ![b][k] = call]

\* The rest of the state while a call makes a step.
Elsewhere == UNCHANGED <<databases, disk, committer, stored, scan, astray>>

Faults(n) ==
    /\ load.faults >= n
    /\ load' = [load EXCEPT !.faults = @ - n]

\* A read that fails (each of its attempts does) leaves the revision empty.
getDocumentRevision(b, k) ==
    /\ th[b][k].st = "rev"
    /\ \/ /\ Becomes(b, k, [th[b][k] EXCEPT !.st = "req", !.rev = Revision(k)])
          /\ UNCHANGED load
       \/ /\ Faults(MaxRetries)
          /\ Becomes(b, k, [th[b][k] EXCEPT !.st = "req"])
    /\ Elsewhere /\ UNCHANGED <<docs, late>>

RetriesSameRevision(b, k) == th[b][k]

\* A conflict: the revision is read again, MaxRetries times in all.
handleRequestWithRevisionRetry(b, k) ==
    LET n == th[b][k].conflicts + 1
    IN IF n = MaxRetries THEN Failed
       ELSE [th[b][k] EXCEPT !.st = "rev", !.rev = 0, !.sent = 0, !.conflicts = n]

\* A request that got no answer is sent again, MaxRetries times in all.
handleRequest(b, k) ==
    LET n == th[b][k].sent + 1
    IN IF n = MaxRetries THEN Failed ELSE [th[b][k] EXCEPT !.sent = n]

\* CouchDB performs the request and the peer gets the answer.
Answered(b, k) ==
    LET r == Request(b, k)
    IN /\ th[b][k].st = "req"
       /\ IF r.body = Nil /\ docs[k].doc = Nil      \* 404 for a deletion
          THEN Becomes(b, k, Done) /\ UNCHANGED docs
          ELSE IF Accepts(r)
          THEN Becomes(b, k, Done) /\ docs' = Stored(r)
          ELSE Becomes(b, k, handleRequestWithRevisionRetry(b, k)) /\ UNCHANGED docs
       /\ Elsewhere /\ UNCHANGED <<late, load>>

\* The answer is lost, or the request, or the request is delayed.
TimesOut(b, k) ==
    LET r == Request(b, k)
    IN /\ th[b][k].st = "req"
       /\ Faults(1)
       /\ Becomes(b, k, handleRequest(b, k))
       /\ \/ Accepts(r) /\ docs' = Stored(r) /\ UNCHANGED late
          \/ UNCHANGED <<docs, late>>
          \/ late' = late \cup {r} /\ UNCHANGED docs
       /\ Elsewhere

\* A delayed request is performed if its revision is still the document's.
Late(r) ==
    /\ late' = late \ {r}
    /\ docs' = IF Accepts(r) THEN Stored(r) ELSE docs
    /\ UNCHANGED <<databases, disk, th, committer, stored, scan, astray, load>>

-----------------------------------------------------------------------------
(* Starting: the connection is checked, the databases created, the blocks  *)
(* above the savepoint committed again.                                    *)

NoCalls == [b \in Blocks |-> [k \in Keys \cup {Savepoint} |-> NoCall]]

\* The peer ends (its committer panics, or it crashes) and starts again; the
\* requests it had sent may still arrive.
Restarts ==
    /\ \E R \in SUBSET {Request(c[1], c[2]) :
                          c \in {d \in Blocks \X (Keys \cup {Savepoint}) :
                                   th[d[1]][d[2]].st = "req"}} : late' = late \cup R
    /\ th' = NoCalls
    /\ committer' = [pc |-> "verify", block |-> 0]
    /\ scan' = Nil
    /\ UNCHANGED <<docs, disk, stored, astray>>

Goes(pc, b) ==
    /\ committer' = [pc |-> pc, block |-> b]
    /\ UNCHANGED <<docs, late, stored, scan>>

\* A request of the committer that keeps failing.
RequestFails(pc) == committer.pc = pc /\ Faults(MaxRetries) /\ Restarts /\ UNCHANGED databases

VerifyCouchConfig ==
    \/ /\ committer.pc = "verify"
       /\ Goes("system", 1)
       /\ UNCHANGED <<databases, disk, th, astray, load>>
    \/ RequestFails("verify")

\* The n-th database is looked up and created if it is missing.  If it is
\* created but the answer is lost, the repeated request is refused.
CreateDatabaseIfNotExist(n, next) ==
    \/ /\ next
       /\ databases' = IF n > databases THEN n ELSE databases
       /\ UNCHANGED <<disk, th, astray, load>>
    \/ n > databases /\ Faults(1) /\ databases' = n /\ Restarts

CreateSystemDatabasesIfNotExist ==
    LET n == committer.block
    IN \/ /\ committer.pc = "system"
          /\ CreateDatabaseIfNotExist(n, IF n = SystemDatabases THEN Goes("open", 0)
                                         ELSE Goes("system", n + 1))
       \/ RequestFails("system")

\* GetDBHandle: the database of the channel.
CreateCouchDatabase ==
    \/ committer.pc = "open" /\ CreateDatabaseIfNotExist(SystemDatabases + 1, Goes("recover", 0))
    \/ RequestFails("open")

\* Whether the state database is behind the block store.
ShouldRecoverOffByOne == GetLatestSavePoint + 1 < stored

ShouldRecover == GetLatestSavePoint # stored

\* A savepoint request of an earlier life of the peer, still on its way when the
\* savepoint is read.
EscapesRecovery == {Savepoint} \cap {r.key : r \in late}

\* recoverDBs, with the state database behind the block store or level with it.
recoverDBs ==
    \/ /\ committer.pc = "recover"
       /\ IF ShouldRecover THEN Goes("apply", GetLatestSavePoint + 1)
          ELSE Goes("idle", 0)
       /\ astray' = astray \cup EscapesRecovery
       /\ UNCHANGED <<databases, disk, th, load>>
    \/ RequestFails("recover")

-----------------------------------------------------------------------------
(* Committing.                                                             *)

\* The ledger adds a block to the block store and commits it to the state; no
\* simulation runs meanwhile (commitRWLock).
AddBlock ==
    /\ committer.pc = "idle" /\ scan = Nil
    /\ stored < MaxBlocks
    /\ stored' = stored + 1
    /\ committer' = [pc |-> "apply", block |-> stored + 1]
    /\ UNCHANGED <<databases, docs, disk, late, th, scan, astray, load>>

ApplyUpdates ==
    LET b == committer.block
    IN /\ committer.pc = "apply"
       /\ th' = [th EXCEPT ![b] = [k \in Keys \cup {Savepoint} |->
                                     IF k \in DOMAIN load.batch[b] THEN Start ELSE NoCall]]
       /\ Goes("flush", b)
       /\ UNCHANGED <<databases, disk, astray, load>>

\* What the flush of block b misses: a call that is still going on or has failed,
\* for nothing waits for the calls, and a request still on its way.
EscapesFlush(b) ==
    {r.key : r \in late} \cup {k \in DOMAIN load.batch[b] : th[b][k].st # "done"}

EnsureFullCommit ==
    \/ /\ committer.pc = "flush"
       /\ disk' = docs
       /\ astray' = astray \cup EscapesFlush(committer.block)
       /\ Goes("info", committer.block)
       /\ UNCHANGED <<databases, th, load>>
    \/ RequestFails("flush")

GetDatabaseInfo ==
    \/ /\ committer.pc = "info"
       /\ th' = [th EXCEPT ![committer.block][Savepoint] = Start]
       /\ Goes("save", committer.block)
       /\ UNCHANGED <<databases, disk, astray, load>>
    \/ RequestFails("info")

\* The savepoint is saved; recommitLostBlocks goes on with the next block.
recordSavepoint ==
    LET b == committer.block
    IN /\ committer.pc = "save"
       /\ \/ /\ th[b][Savepoint].st = "done"
             /\ IF b < stored THEN Goes("apply", b + 1) ELSE Goes("idle", 0)
             /\ th' = [th EXCEPT ![b][Savepoint] = NoCall]
             /\ UNCHANGED <<disk, astray>>
          \/ th[b][Savepoint].st = "failed" /\ Restarts
       /\ UNCHANGED <<databases, load>>

-----------------------------------------------------------------------------
(* Reading.  A listing holds the JSON of the documents; a document with an *)
(* attachment is read again for it.                                        *)

Listing(S) ==
    {k \in S : Cardinality({j \in S : j <= k}) <= QueryLimit}

\* The rows of a range and of a query, whose selector keeps all documents of
\* the namespace or those with a field in their data.
ReadDocRange == Listing({k \in Keys : docs[k].doc # Nil})

QueryDocuments(onData) ==
    Listing({k \in Keys : docs[k].doc # Nil /\ (onData => docs[k].doc.data # Nil)})

Scan(kind, rows) ==
    /\ committer.pc = "idle" /\ scan = Nil
    /\ load.scans > 0
    /\ load' = [load EXCEPT !.scans = @ - 1]
    /\ scan' = [kind |-> kind, rows |-> rows,
                got |-> [k \in {j \in rows : docs[j].doc.attachment = Nil} |->
                           removeDataWrapper(docs[k].doc)]]
    /\ UNCHANGED <<databases, docs, disk, late, th, committer, stored, astray>>

GetStateRangeScanIterator == Scan("all", ReadDocRange)

ExecuteQuery ==
    \/ Scan("all", QueryDocuments(FALSE))
    \/ Scan("data", QueryDocuments(TRUE))

\* The second read; a document that is gone is Nil, which the code
\* dereferences.
ReadAttachment(k) ==
    /\ scan # Nil
    /\ k \in scan.rows \ DOMAIN scan.got
    /\ scan' = [scan EXCEPT !.got = [j \in DOMAIN scan.got \cup {k} |->
                                       IF j = k THEN GetState(k) ELSE scan.got[j]]]
    /\ UNCHANGED <<databases, docs, disk, late, th, committer, stored, astray, load>>

EndScan ==
    /\ scan # Nil
    /\ scan' = Nil
    /\ UNCHANGED <<databases, docs, disk, late, th, committer, stored, astray, load>>

-----------------------------------------------------------------------------
Crashes(n) == load.crashes >= n /\ load' = [load EXCEPT !.crashes = @ - n]

PeerCrash == Crashes(1) /\ Restarts /\ UNCHANGED databases

\* The writes that ended well and that CouchDB loses: the committer, which has
\* still to flush them, does not learn of it and records the savepoint.
LostBeforeFlush ==
    {k \in Keys : /\ committer.pc = "flush"
                  /\ th[committer.block][k].st = "done" /\ docs[k] # disk[k]}

\* CouchDB restarts and loses what was not flushed; the peer only sees
\* requests that fail, and goes on.
CouchCrash ==
    /\ Crashes(1)
    /\ docs' = disk /\ late' = {}
    /\ astray' = astray \cup LostBeforeFlush
    /\ UNCHANGED <<databases, disk, th, committer, stored, scan>>

NoDocs == [k \in Keys \cup {Savepoint} |-> [rev |-> 0, doc |-> Nil]]

Init ==
    /\ databases = 0
    /\ docs = NoDocs /\ disk = NoDocs
    /\ late = {}
    /\ th = NoCalls
    /\ committer = [pc |-> "verify", block |-> 0]
    /\ stored = 0
    /\ scan = Nil
    /\ astray = {}
    /\ load \in Workloads

Call(b, k) == getDocumentRevision(b, k) \/ Answered(b, k) \/ TimesOut(b, k)

Commit ==
    \/ VerifyCouchConfig \/ CreateSystemDatabasesIfNotExist \/ CreateCouchDatabase \/ recoverDBs
    \/ ApplyUpdates \/ EnsureFullCommit \/ GetDatabaseInfo \/ recordSavepoint

Read == GetStateRangeScanIterator \/ ExecuteQuery \/ EndScan \/ \E k \in Keys : ReadAttachment(k)

Next ==
    \/ AddBlock \/ Commit
    \/ \E b \in Blocks, k \in Keys \cup {Savepoint} : Call(b, k)
    \/ \E r \in late : Late(r)
    \/ Read \/ PeerCrash \/ CouchCrash

Spec == Init /\ [][Next]_vars

\* The committer and every call go on; a scan ends.
Fairness ==
    /\ WF_vars(Commit)
    /\ \A b \in Blocks, k \in Keys \cup {Savepoint} : WF_vars(Call(b, k))
    /\ WF_vars(EndScan)

FairSpec == Spec /\ Fairness

-----------------------------------------------------------------------------
(* Properties.                                                             *)

\* What key k holds once blocks 1 .. b are committed.
Committed(b, k) ==
    LET writers == {c \in 1 .. b : k \in DOMAIN load.batch[c]}
        last == CHOOSE c \in writers : \A d \in writers : d <= c
    IN IF writers = {} \/ load.batch[last][k] = "delete" THEN Nil
       ELSE <<load.batch[last][k], last>>

Value(d) == IF d.doc = Nil THEN Nil ELSE removeDataWrapper(d.doc)

Height(D) == IF D[Savepoint].doc = Nil THEN 0 ELSE D[Savepoint].doc.version

\* Documents D hold in key k the writes of the blocks up to s.
Covers(D, k, s) == \E b \in s .. stored : Value(D[k]) = Committed(b, k)

\* Whether a scan of the committed state shows key k: it is one of the first
\* QueryLimit of the keys that match.
Shows(kind, k) ==
    LET Matches(v) == v # Nil /\ (kind = "data" => IsJSON(v))
        present == {j \in 1 .. k : Matches(Committed(stored, j))}
    IN k \in present /\ Cardinality(present) <= QueryLimit

\* What a scan has of key k is the committed value, read at once or later, and
\* k is among its rows if it is to be shown (ReadDocRange, QueryDocuments).
ScanFollows(k) ==
    /\ k \in DOMAIN scan.got => scan.got[k] = Committed(stored, k)
    /\ 1 .. k \cap astray = {} => (k \in scan.rows <=> Shows(scan.kind, k))

\* CouchDB follows the ledger in every key that did not go astray, whatever was
\* repeated, delayed or replayed and whatever happened to the other keys
\* (CommitThread, SaveDoc, DeleteDoc, recoverDBs).  While the committer is idle
\* the key has the value of the last block that wrote it; a scan shows one
\* committed state; and a savepoint, in memory or on disk, covers the key's
\* writes of the blocks up to it, so that a crash at any moment leaves a state
\* the replay can start from (recordSavepoint).
StateFollowsLedger ==
    Savepoint \notin astray =>
        \A k \in Keys \ astray :
            /\ committer.pc = "idle" => GetState(k) = Committed(stored, k)
            /\ scan # Nil => ScanFollows(k)
            /\ Covers(docs, k, Height(docs)) /\ Covers(disk, k, Height(disk))

\* What the comment in recordSavepoint says of the code: EnsureFullCommit is
\* called before the savepoint is recorded "to ensure all block writes are
\* flushed".  All of them, up to the savepoint, would be on disk.
SavepointIsFenced == \A k \in Keys : Covers(disk, k, Height(docs))

\* Commits and recoveries end: the committer becomes idle again and again, over
\* restarts of the peer and of CouchDB, lost answers and revision conflicts
\* (recoverDBs, recordSavepoint, handleRequest).
CommitterBecomesIdle == []<>(committer.pc = "idle")
=============================================================================
