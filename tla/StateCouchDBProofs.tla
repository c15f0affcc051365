------------------------- MODULE StateCouchDBProofs -------------------------
(***************************************************************************)
(* Machine-checked proof that CouchDB follows the ledger, for every number *)
(* of keys and blocks, every batch and any number of faults and crashes.   *)
(***************************************************************************)
EXTENDS StateCouchDB, TLAPS

\* A leaf is proved by Zenon, unless it names another prover.
USE Zenon

-----------------------------------------------------------------------------
(* The inductive invariant. *)

DocKeys == Keys \cup {Savepoint}

\* The documents the peer saves under a key of the state and as a savepoint.
StateDoc == {addVersionAndChainCodeID(v) : v \in StateValue}
SavepointDoc == {couchSavepointData(b) : b \in Blocks}

DocsOK(D) ==
    /\ D \in [DocKeys -> [rev : Nat, doc : CouchDoc \cup {Nil}]]
    /\ \A k \in Keys : D[k].doc \in StateDoc \cup {Nil}
    /\ D[Savepoint].doc \in SavepointDoc \cup {Nil}

RequestOK(r) ==
    \/ r.key = Savepoint /\ \E d \in SavepointDoc : r.body = createAttachmentPart(d)
    \/ r.key \in Keys /\ (r.body = Nil \/ \E d \in StateDoc : r.body = createAttachmentPart(d))

CallRecord == [st : {"none", "rev", "req", "done", "failed"}, rev : Nat, sent : Nat, conflicts : Nat]

LoadOK == load = [batch |-> load.batch, faults |-> load.faults,
                  crashes |-> load.crashes, scans |-> load.scans]

TypeOK ==
    /\ DocsOK(docs) /\ DocsOK(disk)
    /\ \A r \in late : RequestOK(r)
    /\ th \in [Blocks -> [DocKeys -> CallRecord]]
    /\ \A b \in Blocks, k \in Keys : th[b][k].st # "none" => k \in DOMAIN load.batch[b]
    /\ committer = [pc |-> committer.pc, block |-> committer.block]
    /\ stored \in 0 .. MaxBlocks
    /\ scan = Nil \/ scan = [kind |-> scan.kind, rows |-> scan.rows, got |-> scan.got]
    /\ load.batch \in [Blocks -> Batch]
    /\ LoadOK

\* A request on its way saves the savepoint of block b, or is of a key of block b.
SavesPoint(r, b) == r.key = Savepoint /\ r.body = createAttachmentPart(couchSavepointData(b))

Writes(r, b) ==
    /\ b \in 1 .. stored /\ r.key \in DOMAIN load.batch[b]
    /\ r.body = CommitThread(b, r.key, 0).body

\* The committer is at the block after f, or at the savepoint of f.
At(f) ==
    /\ committer.pc \in {"apply", "flush"} => committer.block = f + 1 /\ f + 1 <= stored
    /\ committer.pc \in {"info", "save"} => committer.block = f /\ f \in Blocks
    /\ committer.pc = "idle" => f = stored

\* The savepoints are of f or of blocks before it, and that of f is the only one
\* that may be on its way.
Heights(f) == Height(disk) <= Height(docs) /\ Height(docs) <= f

SavepointLate(f) == \A r \in late : r.key = Savepoint => f \in Blocks /\ SavesPoint(r, f)

Level(f) == At(f) /\ Heights(f) /\ SavepointLate(f)

\* A savepoint is saved by the committer, which waits for it.
SavepointCalls ==
    \A b \in Blocks : th[b][Savepoint].st \in {"rev", "req"} =>
        committer.pc = "save" /\ b = committer.block

\* The requests for key k that are on their way are of blocks after f.
KeyLate(k, f) == \A r \in late : r.key = k => \E c \in f + 1 .. stored : Writes(r, c)

\* The calls for key k that go on are of the block that is written, and one that
\* ended well has written the key.
KeyCalls(k) ==
    /\ \A b \in Blocks : th[b][k].st \in {"rev", "req"} =>
         committer.pc = "flush" /\ b = committer.block
    /\ committer.pc = "flush" /\ th[committer.block][k].st = "done" =>
         Covers(docs, k, committer.block)

\* Key k has the writes of the blocks up to f, in the documents and on disk.
Follows(k, f) ==
    /\ Covers(docs, k, f) /\ Covers(disk, k, f)
    /\ KeyLate(k, f) /\ KeyCalls(k)

Scanning == scan # Nil => committer.pc = "idle" /\ \A k \in Keys \ astray : ScanFollows(k)

Fenced ==
    /\ SavepointCalls /\ Scanning
    /\ \E f \in 0 .. stored : Level(f) /\ \A k \in Keys \ astray : Follows(k, f)

CouchInv == TypeOK /\ (Savepoint \notin astray => Fenced)

-----------------------------------------------------------------------------
(* Documents. *)

\* The document that CouchDB puts together from the parts of a request.
Joined(body) ==
    [version |-> body.json.version, data |-> body.json.data,
     attachment |-> IF body.parts = {} THEN Nil ELSE CHOOSE p \in body.parts : TRUE]

\* What is read of a document is the value it was saved with, whether it is in
\* the document or in its attachment.
LEMMA StateDocFacts ==
    ASSUME NEW v \in StateValue
    PROVE  /\ v # Nil /\ v = <<v[1], v[2]>> /\ v[2] \in Blocks
           /\ addVersionAndChainCodeID(v) \in CouchDoc
           /\ removeDataWrapper(addVersionAndChainCodeID(v)) = v
           /\ addVersionAndChainCodeID(v).data # Nil <=> IsJSON(v)
           /\ addVersionAndChainCodeID(v).attachment = Nil <=> IsJSON(v)
<1>1. v # Nil /\ v = <<v[1], v[2]>> /\ v[2] \in Blocks
  BY CouchAssumption, SMT DEF StateValue
<1> QED
  BY <1>1 DEF addVersionAndChainCodeID, removeDataWrapper, CouchDoc

\* The savepoint's document is not one of the state's.
LEMMA KeysFacts == \A k \in Keys : k # Savepoint /\ k \in DocKeys
  BY CouchAssumption, SMT DEF Keys, Savepoint, DocKeys

\* A saved document is not Nil, nor is its request, and CouchDB joins the parts
\* of the request to the document.
LEMMA JoinedFacts ==
    ASSUME NEW d \in StateDoc \cup SavepointDoc
    PROVE  /\ d \in CouchDoc /\ d # Nil
           /\ createAttachmentPart(d) # Nil
           /\ Joined(createAttachmentPart(d)) = d
<1>1. d \in CouchDoc
  <2>1. CASE d \in StateDoc
    BY <2>1, StateDocFacts DEF StateDoc
  <2>2. CASE d \in SavepointDoc
    BY <2>2, SMT DEF SavepointDoc, couchSavepointData, CouchDoc
  <2> QED
    BY <2>1, <2>2
<1>2. createAttachmentPart(d) \in Body
  BY <1>1 DEF createAttachmentPart, CouchDoc, Body
<1>3. Joined(createAttachmentPart(d)) = [version |-> d.version, data |-> d.data,
                                         attachment |-> d.attachment]
  BY DEF Joined, createAttachmentPart
<1>4. d = [version |-> d.version, data |-> d.data, attachment |-> d.attachment]
  BY <1>1 DEF CouchDoc
<1> QED
  BY <1>1, <1>2, <1>3, <1>4, CouchAssumption

\* A savepoint's height is the block it was saved for.
LEMMA HeightFacts ==
    ASSUME NEW D, DocsOK(D)
    PROVE  /\ Height(D) \in 0 .. MaxBlocks
           /\ \A b \in Blocks : D[Savepoint].doc = couchSavepointData(b) => Height(D) = b
<1>1. MaxBlocks \in Nat \ {0}
  BY CouchAssumption
<1>2. ASSUME NEW b \in Blocks, D[Savepoint].doc = couchSavepointData(b) PROVE Height(D) = b
  <2>1. couchSavepointData(b) # Nil
    BY JoinedFacts DEF SavepointDoc
  <2> QED
    BY <1>2, <2>1, SMT DEF Height, couchSavepointData
<1>3. CASE D[Savepoint].doc = Nil
  BY <1>1, <1>2, <1>3, SMT DEF Height
<1>4. CASE D[Savepoint].doc \in SavepointDoc
  BY <1>1, <1>2, <1>4, SMT DEF SavepointDoc, Blocks
<1> QED
  BY <1>2, <1>3, <1>4 DEF DocsOK

\* A request changes its own document, to what it says.
LEMMA StoredFacts ==
    ASSUME DocsOK(docs), NEW r, RequestOK(r), docs' = Stored(r)
    PROVE  /\ DocsOK(docs)'
           /\ \A k \in DocKeys : k # r.key => docs'[k] = docs[k]
           /\ docs'[r.key].doc = IF r.body = Nil THEN Nil ELSE Joined(r.body)
<1> DEFINE doc == IF r.body = Nil THEN Nil ELSE Joined(r.body)
<1>1. r.key \in DocKeys
  BY DEF RequestOK, DocKeys
<1>2. docs' = [docs EXCEPT ![r.key] = [rev |-> @.rev + 1, doc |-> doc]]
  BY DEF Stored, Joined
<1>3. /\ r.key \in Keys => doc \in StateDoc \cup {Nil}
      /\ r.key = Savepoint => doc \in SavepointDoc \cup {Nil}
  BY JoinedFacts, SMT DEF RequestOK, Keys, Savepoint
<1>4. doc \in CouchDoc \cup {Nil}
  BY <1>1, <1>3, JoinedFacts DEF DocKeys
<1> HIDE DEF doc
<1>5. docs \in [DocKeys -> [rev : Nat, doc : CouchDoc \cup {Nil}]]
  BY DEF DocsOK
<1>6. docs[r.key].rev + 1 \in Nat
  BY <1>1, <1>5, SMT
<1>7. /\ docs' \in [DocKeys -> [rev : Nat, doc : CouchDoc \cup {Nil}]]
      /\ \A k \in DocKeys : k # r.key => docs'[k] = docs[k]
      /\ docs'[r.key].doc = doc
  BY <1>1, <1>2, <1>4, <1>5, <1>6, SMT
<1>8. DocsOK(docs')
  BY <1>3, <1>7 DEF DocsOK, DocKeys
<1> QED
  BY <1>7, <1>8 DEF doc, DocsOK, DocKeys, StateDoc, SavepointDoc

-----------------------------------------------------------------------------
(* What the chain says a key holds. *)

\* The blocks up to b that write key k, and what the last of a set of blocks
\* wrote.
Writers(batch, b, k) == {c \in 1 .. b : k \in DOMAIN batch[c]}

WrittenLast(batch, W, k) ==
    LET last == CHOOSE c \in W : \A d \in W : d <= c
    IN IF W = {} \/ batch[last][k] = "delete" THEN Nil ELSE <<batch[last][k], last>>

\* What a key holds is what the last of its writers wrote.
LEMMA CommittedIs ==
    \A b, k : Committed(b, k) = WrittenLast(load.batch, Writers(load.batch, b, k), k)
  BY DEF Committed, WrittenLast, Writers

\* It depends on the batches only.
LEMMA CommittedSame ==
    ASSUME load'.batch = load.batch
    PROVE  \A b, k : Committed(b, k)' = Committed(b, k)
<1>1. \A b, k : Committed(b, k)' = WrittenLast(load'.batch, Writers(load'.batch, b, k), k)
  BY DEF Committed, WrittenLast, Writers
<1> QED
  BY <1>1, CommittedIs

\* A key that a block writes holds what the block wrote.
LEMMA CommittedWritten ==
    ASSUME NEW b \in Blocks, NEW k \in DOMAIN load.batch[b]
    PROVE  Committed(b, k) = IF load.batch[b][k] = "delete" THEN Nil ELSE <<load.batch[b][k], b>>
<1> DEFINE writers == {c \in 1 .. b : k \in DOMAIN load.batch[c]}
           last == CHOOSE c \in writers : \A d \in writers : d <= c
<1>1. b \in writers /\ \A d \in writers : d <= b
  BY CouchAssumption, SMT DEF Blocks
<1>2. last \in writers /\ \A d \in writers : d <= last
  BY <1>1
<1>3. last = b
  <2> HIDE DEF last
  <2>1. last <= b /\ b <= last /\ last \in Nat /\ b \in Nat
    BY <1>1, <1>2, CouchAssumption, SMT DEF Blocks
  <2> QED
    BY <2>1, SMT
<1>4. writers # {}
  BY <1>1
<1>5. Committed(b, k) = IF writers = {} \/ load.batch[last][k] = "delete" THEN Nil
                        ELSE <<load.batch[last][k], last>>
  BY DEF Committed
<1> HIDE DEF writers, last
<1> QED
  BY <1>3, <1>4, <1>5

\* A key that a block does not write keeps its value.
LEMMA CommittedKept ==
    ASSUME NEW b \in Nat, NEW k, k \notin DOMAIN load.batch[b + 1]
    PROVE  Committed(b + 1, k) = Committed(b, k)
<1>1. 1 .. b + 1 = (1 .. b) \cup {b + 1}
  BY SMT
<1>2. Writers(load.batch, b + 1, k) = Writers(load.batch, b, k)
  BY <1>1 DEF Writers
<1> QED
  BY <1>2, CommittedIs

\* Before the first block there is nothing.
LEMMA CommittedNone == \A k : Committed(0, k) = Nil
<1>1. 1 .. 0 = {}
  BY SMT
<1> QED
  BY <1>1 DEF Committed

\* What covers the blocks from t on covers those from s on.
LEMMA CoversBelow ==
    ASSUME NEW D, NEW k, NEW s \in Nat, NEW t \in Nat, s <= t, stored \in Nat, Covers(D, k, t)
    PROVE  Covers(D, k, s)
  BY SMT DEF Covers

\* What covers the blocks up to b covers the next one, if that does not write
\* the key.
LEMMA CoversNext ==
    ASSUME NEW D, NEW k, NEW b \in Nat, stored \in Nat, b + 1 <= stored,
           k \notin DOMAIN load.batch[b + 1], Covers(D, k, b)
    PROVE  Covers(D, k, b + 1)
<1>1. PICK c \in b .. stored : Value(D[k]) = Committed(c, k)
  BY DEF Covers
<1>2. (c = b \/ c \in b + 1 .. stored) /\ b + 1 \in b + 1 .. stored
  BY SMT
<1>3. Committed(b + 1, k) = Committed(b, k)
  BY CommittedKept
<1> QED
  BY <1>1, <1>2, <1>3 DEF Covers

-----------------------------------------------------------------------------
(* Requests. *)

\* A block writes keys of the state, and puts values in them or deletes them.
LEMMA BatchFacts ==
    ASSUME TypeOK, NEW b \in Blocks, NEW k \in DOMAIN load.batch[b]
    PROVE  /\ k \in Keys /\ k # Savepoint
           /\ load.batch[b][k] # "delete" => <<load.batch[b][k], b>> \in StateValue
<1>1. load.batch[b] \in Batch
  BY DEF TypeOK
<1>2. PICK S \in SUBSET Keys : load.batch[b] \in [S -> {"json", "binary", "delete"}]
  BY <1>1 DEF Batch
<1>3. k \in S /\ load.batch[b][k] \in {"json", "binary", "delete"}
  BY <1>2
<1> QED
  BY <1>2, <1>3, CouchAssumption, SMT DEF Keys, Savepoint, StateValue

\* What the goroutine of a key asks for: the document is deleted, or holds the
\* value of the block.
LEMMA ThreadFacts ==
    ASSUME TypeOK, NEW b \in Blocks, NEW k \in DOMAIN load.batch[b]
    PROVE  /\ \A rev : /\ CommitThread(b, k, rev).key = k
                       /\ CommitThread(b, k, rev).body = CommitThread(b, k, 0).body
           /\ CommitThread(b, k, 0).body = Nil <=> load.batch[b][k] = "delete"
           /\ load.batch[b][k] # "delete" =>
                CommitThread(b, k, 0).body
                  = createAttachmentPart(addVersionAndChainCodeID(<<load.batch[b][k], b>>))
<1>1. CASE load.batch[b][k] = "delete"
  BY <1>1 DEF CommitThread, DeleteDoc
<1>2. CASE load.batch[b][k] # "delete"
  <2>1. addVersionAndChainCodeID(<<load.batch[b][k], b>>) \in StateDoc
    BY <1>2, BatchFacts DEF StateDoc
  <2>2. createAttachmentPart(addVersionAndChainCodeID(<<load.batch[b][k], b>>)) # Nil
    BY <2>1, JoinedFacts
  <2> QED
    BY <1>2, <2>2 DEF CommitThread, SaveDoc
<1> QED
  BY <1>1, <1>2

\* A goroutine deletes a key that its block leaves empty.
LEMMA DeletesFacts ==
    ASSUME TypeOK, NEW b \in Blocks, NEW k \in DOMAIN load.batch[b],
           CommitThread(b, k, 0).body = Nil
    PROVE  Committed(b, k) = Nil
<1>1. load.batch[b][k] = "delete"
  BY ThreadFacts
<1> QED
  BY <1>1, CommittedWritten

\* A request is of its call's key and says what the call is to write.
LEMMA RequestFacts ==
    ASSUME TypeOK, NEW b \in Blocks, NEW k \in DocKeys, th[b][k].st = "req"
    PROVE  /\ RequestOK(Request(b, k)) /\ Request(b, k).key = k
           /\ k = Savepoint => SavesPoint(Request(b, k), b)
           /\ k # Savepoint => /\ k \in DOMAIN load.batch[b]
                               /\ Request(b, k).body = CommitThread(b, k, 0).body
<1>1. CASE k = Savepoint
  <2>1. Request(b, k) = SaveDoc(k, th[b][k].rev, couchSavepointData(b))
    BY <1>1 DEF Request
  <2>2. SavesPoint(Request(b, k), b) /\ Request(b, k).key = k
    BY <1>1, <2>1, SMT DEF SaveDoc, SavesPoint
  <2> QED
    BY <1>1, <2>2 DEF SavesPoint, RequestOK, SavepointDoc
<1>2. CASE k # Savepoint
  <2>1. k \in Keys /\ k \in DOMAIN load.batch[b]
    BY <1>2 DEF DocKeys, TypeOK
  <2>2. Request(b, k) = CommitThread(b, k, th[b][k].rev)
    BY <1>2 DEF Request
  <2>3. /\ Request(b, k).key = k /\ Request(b, k).body = CommitThread(b, k, 0).body
        /\ Request(b, k).body # Nil =>
             Request(b, k).body
               = createAttachmentPart(addVersionAndChainCodeID(<<load.batch[b][k], b>>))
        /\ Request(b, k).body # Nil => <<load.batch[b][k], b>> \in StateValue
    BY <2>1, <2>2, ThreadFacts, BatchFacts, SMT
  <2>4. RequestOK(Request(b, k))
    BY <2>1, <2>3 DEF RequestOK, StateDoc
  <2> QED
    BY <1>2, <2>1, <2>3, <2>4
<1> QED
  BY <1>1, <1>2

\* A request of a key of block b, when it is performed, leaves in the key what
\* block b wrote.
LEMMA WritesValue ==
    ASSUME TypeOK, NEW b \in Blocks, NEW r, r.key \in DOMAIN load.batch[b],
           r.body = CommitThread(b, r.key, 0).body, docs' = Stored(r)
    PROVE  /\ RequestOK(r)
           /\ Value(docs'[r.key]) = Committed(b, r.key)
<1> DEFINE v == <<load.batch[b][r.key], b>>
<1>1. r.key \in Keys /\ (load.batch[b][r.key] # "delete" => v \in StateValue)
  BY BatchFacts
<1>2. /\ r.body = Nil <=> load.batch[b][r.key] = "delete"
      /\ r.body # Nil => r.body = createAttachmentPart(addVersionAndChainCodeID(v))
  BY ThreadFacts, SMT
<1>3. Committed(b, r.key) = IF load.batch[b][r.key] = "delete" THEN Nil ELSE v
  BY CommittedWritten
<1> HIDE DEF v
<1>4. RequestOK(r)
  BY <1>1, <1>2 DEF RequestOK, StateDoc
<1>5. docs'[r.key].doc = IF r.body = Nil THEN Nil ELSE Joined(r.body)
  BY <1>4, StoredFacts DEF TypeOK
<1>6. CASE r.body = Nil
  BY <1>2, <1>3, <1>4, <1>5, <1>6 DEF Value
<1>7. CASE r.body # Nil
  <2>1. addVersionAndChainCodeID(v) \in StateDoc /\ v \in StateValue
    BY <1>1, <1>2, <1>7 DEF StateDoc
  <2>2. docs'[r.key].doc = addVersionAndChainCodeID(v) /\ docs'[r.key].doc # Nil
    BY <1>2, <1>5, <1>7, <2>1, JoinedFacts
  <2>3. Value(docs'[r.key]) = v
    BY <2>1, <2>2, StateDocFacts DEF Value
  <2> QED
    BY <1>2, <1>3, <1>4, <1>7, <2>3
<1> QED
  BY <1>6, <1>7

\* A request for a savepoint, when it is performed, makes its block the height.
LEMMA SavesHeight ==
    ASSUME TypeOK, NEW b \in Blocks, NEW r, SavesPoint(r, b), docs' = Stored(r)
    PROVE  RequestOK(r) /\ Height(docs') = b
<1>1. couchSavepointData(b) \in SavepointDoc
  BY DEF SavepointDoc
<1>2. RequestOK(r)
  BY <1>1 DEF RequestOK, SavesPoint
<1>3. DocsOK(docs') /\ docs'[Savepoint].doc = couchSavepointData(b)
  <2>1. DocsOK(docs)' /\ docs'[Savepoint].doc = IF r.body = Nil THEN Nil ELSE Joined(r.body)
    BY <1>2, StoredFacts DEF TypeOK, SavesPoint
  <2>2. r.body # Nil /\ Joined(r.body) = couchSavepointData(b)
    BY <1>1, JoinedFacts DEF SavesPoint
  <2> QED
    BY <2>1, <2>2 DEF DocsOK, DocKeys, StateDoc, SavepointDoc
<1> QED
  BY <1>2, <1>3, HeightFacts

-----------------------------------------------------------------------------
(* What steps leave alone. *)

\* The workload keeps its batches.
SameBatches == load'.batch = load.batch /\ LoadOK'

\* Faults, crashes and scans are taken from the workload; its batches stay.
LEMMA LoadSteps ==
    ASSUME TypeOK
    PROVE  /\ UNCHANGED load => SameBatches
           /\ \A n : Faults(n) => SameBatches
           /\ \A n : Crashes(n) => SameBatches
           /\ load' = [load EXCEPT !.scans = @ - 1] => SameBatches
<1>1. LoadOK
  BY DEF TypeOK
<1>2. UNCHANGED load => SameBatches
  BY <1>1 DEF SameBatches, LoadOK
<1>3. ASSUME NEW n, Faults(n) PROVE SameBatches
  BY <1>1, <1>3 DEF SameBatches, LoadOK, Faults
<1>4. ASSUME NEW n, Crashes(n) PROVE SameBatches
  BY <1>1, <1>4 DEF SameBatches, LoadOK, Crashes
<1>5. ASSUME load' = [load EXCEPT !.scans = @ - 1] PROVE SameBatches
  BY <1>1, <1>5 DEF SameBatches, LoadOK
<1> QED
  BY <1>2, <1>3, <1>4, <1>5

\* What the documents hold, and what a request is about, changes only with them
\* while no block is added.
LEMMA CoversSame ==
    ASSUME UNCHANGED stored, SameBatches
    PROVE  /\ \A k, s : Covers(docs, k, s)' <=> \E b \in s .. stored : Value(docs'[k]) = Committed(b, k)
           /\ \A k, s : Covers(disk, k, s)' <=> \E b \in s .. stored : Value(disk'[k]) = Committed(b, k)
<1>1. \A b, k : Committed(b, k)' = Committed(b, k)
  BY CommittedSame DEF SameBatches
<1> QED
  BY <1>1 DEF Covers, Value, removeDataWrapper

LEMMA WritesSame ==
    ASSUME SameBatches, 1 .. stored \subseteq 1 .. stored'
    PROVE  /\ \A r, c : Writes(r, c) => Writes(r, c)'
           /\ \A r, c : SavesPoint(r, c)' <=> SavesPoint(r, c)
  BY DEF Writes, SavesPoint, CommitThread, SameBatches

\* A key follows the blocks up to f as long as its document stays.
LEMMA FollowsStays ==
    ASSUME UNCHANGED stored, SameBatches, NEW k, NEW f, Follows(k, f),
           docs'[k] = docs[k], disk'[k] = disk[k],
           \A r \in late' : r.key = k => r \in late, KeyCalls(k)'
    PROVE  Follows(k, f)'
<1>1. Covers(docs, k, f)' /\ Covers(disk, k, f)'
  BY CoversSame DEF Follows, Covers
<1>2. KeyLate(k, f)'
  BY WritesSame DEF Follows, KeyLate
<1> QED
  BY <1>1, <1>2 DEF Follows

\* The calls for a key are as they were.
LEMMA KeyCallsStay ==
    ASSUME UNCHANGED <<stored, committer>>, SameBatches, NEW k, KeyCalls(k),
           docs'[k] = docs[k], \A b \in Blocks : th'[b][k] = th[b][k],
           committer.pc = "flush" => committer.block \in Blocks
    PROVE  KeyCalls(k)'
<1>1. PICK n : n = committer.block
  OBVIOUS
<1>2. Covers(docs, k, n)' <=> Covers(docs, k, n)
  BY CoversSame DEF Covers
<1> QED
  BY <1>1, <1>2 DEF KeyCalls

\* A scan that follows the ledger in a key goes on doing so.
LEMMA ShowsSame ==
    ASSUME UNCHANGED stored, SameBatches
    PROVE  \A kind, k : Shows(kind, k)' = Shows(kind, k)
<1>1. \A b, k : Committed(b, k)' = Committed(b, k)
  BY CommittedSame DEF SameBatches
<1> QED
  BY <1>1 DEF Shows, IsJSON

LEMMA ScanStays ==
    ASSUME UNCHANGED <<stored, scan>>, SameBatches, astray \subseteq astray',
           NEW k, ScanFollows(k)
    PROVE  ScanFollows(k)'
<1>1. PICK kind : kind = scan.kind
  OBVIOUS
<1>2. Shows(kind, k)' = Shows(kind, k) /\ Committed(stored, k)' = Committed(stored, k)
  BY ShowsSame, CommittedSame DEF SameBatches
<1>3. 1 .. k \cap astray' = {} => 1 .. k \cap astray = {}
  OBVIOUS
<1> QED
  BY <1>1, <1>2, <1>3 DEF ScanFollows

\* While the committer stays where it is the block that it writes is a block.
LEMMA FlushedBlock ==
    ASSUME TypeOK, NEW f \in 0 .. stored, At(f)
    PROVE  /\ stored \in Nat /\ f \in Nat /\ f <= stored /\ stored <= MaxBlocks /\ MaxBlocks \in Nat
           /\ committer.pc \in {"apply", "flush"} =>
                /\ committer.block = f + 1 /\ f + 1 \in Blocks
                /\ f + 1 <= stored /\ f + 1 \in f .. stored /\ f + 1 \in f + 1 .. stored
                /\ f + 1 \in 1 .. stored
<1>1. stored \in Nat /\ f \in Nat /\ f <= stored /\ stored <= MaxBlocks /\ MaxBlocks \in Nat
  BY CouchAssumption, SMT DEF TypeOK
<1>2. committer.pc \in {"apply", "flush"} => committer.block = f + 1 /\ f + 1 <= stored
  BY DEF At
<1>3. f + 1 <= stored => /\ f + 1 \in 1 .. stored /\ f + 1 \in f .. stored
                         /\ f + 1 \in f + 1 .. stored /\ f + 1 \in 1 .. MaxBlocks
  BY <1>1, SMT
<1> QED
  BY <1>1, <1>2, <1>3 DEF Blocks

-----------------------------------------------------------------------------
(* The calls. *)

\* A request for key k is performed: the key has what a block after f wrote.
LEMMA KeyPerformed ==
    ASSUME TypeOK, NEW f, NEW c \in f .. stored, NEW k \in Keys, NEW r, r.key = k, Writes(r, c),
           docs' = Stored(r), UNCHANGED stored, SameBatches, stored \in Nat, stored <= MaxBlocks
    PROVE  Covers(docs, k, f)' /\ Value(docs'[k]) = Committed(c, k)
<1>1. c \in Blocks
  BY CouchAssumption, SMT DEF Writes, Blocks
<1>2. Value(docs'[k]) = Committed(c, k)
  BY <1>1, WritesValue DEF Writes
<1> QED
  BY <1>2, CoversSame

\* The savepoints while a request on its way is performed.
LEMMA HeightsPerformed ==
    ASSUME TypeOK, NEW f \in 0 .. stored, Heights(f), NEW r, RequestOK(r), UNCHANGED disk,
           docs' = Stored(r), r.key = Savepoint => f \in Blocks /\ SavesPoint(r, f)
    PROVE  Heights(f)'
<1>1. Height(disk)' = Height(disk)
  BY DEF Height
<1>2. Height(disk) \in Nat /\ Height(docs) \in Nat /\ f \in Nat
  BY HeightFacts, CouchAssumption, SMT DEF TypeOK
<1>3. CASE r.key = Savepoint
  <2>1. Height(docs)' = f
    BY <1>3, SavesHeight DEF Height
  <2>2. Height(disk) <= f /\ f <= f
    BY <1>2, SMT DEF Heights
  <2> QED
    BY <1>1, <2>1, <2>2 DEF Heights
<1>4. CASE r.key # Savepoint
  <2>1. Savepoint \in DocKeys
    BY DEF DocKeys
  <2>2. docs'[Savepoint] = docs[Savepoint]
    BY <1>4, <2>1, StoredFacts DEF TypeOK
  <2>3. Height(docs)' = Height(docs)
    BY <2>2 DEF Height
  <2> QED
    BY <1>1, <2>3 DEF Heights
<1> QED
  BY <1>3, <1>4

\* A call makes a step: its request is performed, or is on its way, or neither,
\* and it ends well only when its document is as it wants it.
LEMMA CallStep ==
    ASSUME CouchInv, NEW b \in Blocks, NEW k \in DocKeys, NEW c \in CallRecord,
           th[b][k].st \in {"rev", "req"}, Becomes(b, k, c),
           UNCHANGED <<disk, committer, stored, scan, astray>>, SameBatches,
           docs' = docs \/ (th[b][k].st = "req" /\ docs' = Stored(Request(b, k))),
           late' = late \/ (th[b][k].st = "req" /\ late' = late \cup {Request(b, k)}),
           c.st = "done" => /\ th[b][k].st = "req"
                            /\ \/ docs' = Stored(Request(b, k))
                               \/ Request(b, k).body = Nil /\ docs'[k].doc = Nil
    PROVE  CouchInv'
<1> USE DEF CouchInv
<1>0. /\ th \in [Blocks -> [DocKeys -> CallRecord]]
      /\ th' = [th EXCEPT ![b] = [th[b] EXCEPT ![k] = c]]
  BY DEF TypeOK, Becomes
<1>1. /\ th' \in [Blocks -> [DocKeys -> CallRecord]]
      /\ th'[b][k] = c
      /\ \A a \in Blocks, j \in DocKeys : a # b \/ j # k => th'[a][j] = th[a][j]
  BY <1>0
<1>2. th[b][k].st = "req" => RequestOK(Request(b, k)) /\ Request(b, k).key = k
  BY RequestFacts
<1>3. TypeOK'
  <2>1. DocsOK(docs)'
    <3>1. CASE docs' = docs
      BY <3>1 DEF TypeOK, DocsOK, DocKeys, StateDoc, SavepointDoc
    <3>2. CASE docs' # docs
      BY <1>2, <3>2, StoredFacts DEF TypeOK
    <3> QED
      BY <3>1, <3>2
  <2>2. DocsOK(disk)'
    BY DEF TypeOK, DocsOK
  <2>3. \A r \in late' : RequestOK(r)
    BY <1>2 DEF TypeOK
  <2>4. \A a \in Blocks, j \in Keys : th'[a][j].st # "none" => j \in DOMAIN load'.batch[a]
    <3>1. \A a \in Blocks, j \in Keys : th'[a][j].st # "none" => th[a][j].st # "none"
      BY <1>1 DEF DocKeys
    <3> QED
      BY <3>1 DEF TypeOK, SameBatches
  <2> QED
    BY <1>1, <2>1, <2>2, <2>3, <2>4 DEF TypeOK, SameBatches, DocKeys
<1>4. ASSUME Savepoint \notin astray PROVE Fenced'
  <2>0. SavepointCalls /\ Scanning
    BY <1>4 DEF Fenced
  <2>1. PICK f \in 0 .. stored : Level(f) /\ \A j \in Keys \ astray : Follows(j, f)
    BY <1>4 DEF Fenced
  <2>2. /\ stored \in Nat /\ f \in Nat /\ f <= stored /\ stored <= MaxBlocks
        /\ committer.pc = "flush" =>
             /\ committer.block = f + 1 /\ f + 1 \in Blocks /\ f + 1 \in f .. stored
             /\ f + 1 \in f + 1 .. stored /\ f + 1 \in 1 .. stored
    BY <2>1, FlushedBlock DEF Level
  <2>3. \A j \in DocKeys : j # k => docs'[j] = docs[j]
    <3>1. CASE docs' = docs
      BY <3>1
    <3>2. CASE docs' # docs
      BY <1>2, <3>2, StoredFacts DEF TypeOK
    <3> QED
      BY <3>1, <3>2
  <2>4. k = Savepoint /\ th[b][k].st = "req" => f \in Blocks /\ SavesPoint(Request(b, k), f)
    <3> SUFFICES ASSUME k = Savepoint, th[b][k].st = "req"
                 PROVE  f \in Blocks /\ SavesPoint(Request(b, k), f)
      OBVIOUS
    <3>1. committer.pc = "save" /\ b = committer.block
      BY <2>0 DEF SavepointCalls
    <3>2. b = f /\ f \in Blocks
      BY <2>1, <3>1 DEF Level, At
    <3>3. SavesPoint(Request(b, k), b)
      BY RequestFacts
    <3> QED
      BY <3>2, <3>3
  <2>5. Level(f)'
    <3>1. At(f)'
      BY <2>1 DEF Level, At
    <3>2. Heights(f)'
      <4>1. CASE docs' = docs
        BY <2>1, <4>1 DEF Level, Heights, Height
      <4>2. CASE docs' # docs
        BY <1>2, <2>1, <2>4, <4>2, HeightsPerformed DEF Level
      <4> QED
        BY <4>1, <4>2
    <3>3. SavepointLate(f)'
      <4>1. \A r : SavesPoint(r, f)' <=> SavesPoint(r, f)
        BY WritesSame
      <4>2. \A r \in late' : r \in late \/ (r = Request(b, k) /\ r.key = k /\ th[b][k].st = "req")
        BY <1>2
      <4> QED
        BY <2>1, <2>4, <4>1, <4>2 DEF Level, SavepointLate
    <3> QED
      BY <3>1, <3>2, <3>3 DEF Level
  <2>6. ASSUME NEW j \in Keys \ astray PROVE Follows(j, f)'
    <3>0. j \in Keys /\ j \in DocKeys /\ Follows(j, f)
      BY <2>1 DEF DocKeys
    <3>1. CASE j # k
      <4>1. docs'[j] = docs[j] /\ disk'[j] = disk[j] /\ \A a \in Blocks : th'[a][j] = th[a][j]
        BY <1>1, <2>3, <3>0, <3>1
      <4>2. \A r \in late' : r.key = j => r \in late
        BY <1>2, <3>1
      <4>3. KeyCalls(j)'
        BY <2>2, <3>0, <4>1, KeyCallsStay DEF Follows
      <4> QED
        BY <3>0, <4>1, <4>2, <4>3, FollowsStays
    <3>2. CASE j = k
      <4>0. k \in Keys /\ Follows(k, f) /\ k # Savepoint
        BY <3>0, <3>2, KeysFacts
      <4>1. committer.pc = "flush" /\ b = f + 1 /\ k \in DOMAIN load.batch[b]
        <5>1. committer.pc = "flush" /\ b = committer.block
          BY <4>0 DEF Follows, KeyCalls
        <5>2. th[b][k].st # "none"
          OBVIOUS
        <5> QED
          BY <2>2, <4>0, <5>1, <5>2 DEF TypeOK
      <4>2. th[b][k].st = "req" => /\ Request(b, k).body = CommitThread(b, k, 0).body
                                   /\ Writes(Request(b, k), f + 1)
        <5> SUFFICES ASSUME th[b][k].st = "req"
                     PROVE  /\ Request(b, k).body = CommitThread(b, k, 0).body
                            /\ Writes(Request(b, k), f + 1)
          OBVIOUS
        <5>1. Request(b, k).body = CommitThread(b, k, 0).body /\ Request(b, k).key = k
          BY <4>0, RequestFacts
        <5> QED
          BY <2>2, <4>1, <5>1 DEF Writes
      <4>3. docs' = Stored(Request(b, k)) /\ th[b][k].st = "req" =>
              Covers(docs, k, f)' /\ Value(docs'[k]) = Committed(f + 1, k)
        <5> SUFFICES ASSUME docs' = Stored(Request(b, k)), th[b][k].st = "req"
                     PROVE  Covers(docs, k, f)' /\ Value(docs'[k]) = Committed(f + 1, k)
          OBVIOUS
        <5>1. Request(b, k).key = k /\ Writes(Request(b, k), f + 1) /\ f + 1 \in f .. stored
          BY <1>2, <2>2, <4>1, <4>2
        <5> QED
          BY <2>2, <4>0, <5>1, KeyPerformed
      <4>4. Covers(docs, k, f)' /\ Covers(disk, k, f)'
        <5>1. CASE docs' = docs
          BY <4>0, <5>1, CoversSame DEF Follows, Covers
        <5>2. CASE docs' # docs
          BY <4>0, <4>3, <5>2, CoversSame DEF Follows, Covers
        <5> QED
          BY <5>1, <5>2
      <4>5. KeyLate(k, f)'
        <5>1. \A r, a : Writes(r, a) => Writes(r, a)'
          BY WritesSame
        <5>2. \A r \in late' : r \in late \/ (r = Request(b, k) /\ th[b][k].st = "req")
          OBVIOUS
        <5> QED
          BY <2>2, <4>0, <4>1, <4>2, <5>1, <5>2 DEF Follows, KeyLate
      <4>6. KeyCalls(k)'
        <5>1. \A a \in Blocks : th'[a][k].st \in {"rev", "req"} => th[a][k].st \in {"rev", "req"}
          BY <1>1
        <5>2. ASSUME th'[b][k].st = "done" PROVE Covers(docs, k, f + 1)'
          <6>1. th[b][k].st = "req" /\ \/ docs' = Stored(Request(b, k))
                                       \/ Request(b, k).body = Nil /\ docs'[k].doc = Nil
            BY <1>1, <5>2
          <6>2. Value(docs'[k]) = Committed(f + 1, k)
            <7>1. CASE docs' = Stored(Request(b, k))
              BY <4>3, <6>1, <7>1
            <7>2. CASE Request(b, k).body = Nil /\ docs'[k].doc = Nil
              BY <4>1, <4>2, <6>1, <7>2, DeletesFacts DEF Value
            <7> QED
              BY <6>1, <7>1, <7>2
          <6> QED
            BY <2>2, <4>1, <6>2, CoversSame
        <5> QED
          BY <2>2, <4>0, <4>1, <5>1, <5>2 DEF Follows, KeyCalls
      <4> QED
        BY <4>4, <4>5, <4>6, <3>2 DEF Follows
    <3> QED
      BY <3>1, <3>2
  <2>7. SavepointCalls'
    <3>1. \A a \in Blocks : th'[a][Savepoint].st \in {"rev", "req"} =>
                              th[a][Savepoint].st \in {"rev", "req"}
      BY <1>1 DEF DocKeys
    <3> QED
      BY <2>0, <3>1 DEF SavepointCalls
  <2>8. Scanning'
    BY <2>0, ScanStays DEF Scanning
  <2> QED
    BY <2>5, <2>6, <2>7, <2>8 DEF Fenced
<1> QED
  BY <1>3, <1>4

\* What a call may become.
LEMMA CallRecords ==
    ASSUME TypeOK, NEW b \in Blocks, NEW k \in DocKeys
    PROVE  /\ Done \in CallRecord /\ Done.st = "done"
           /\ [th[b][k] EXCEPT !.st = "req"] \in CallRecord
           /\ [th[b][k] EXCEPT !.st = "req"].st = "req"
           /\ [th[b][k] EXCEPT !.st = "req", !.rev = Revision(k)] \in CallRecord
           /\ [th[b][k] EXCEPT !.st = "req", !.rev = Revision(k)].st = "req"
           /\ handleRequest(b, k) \in CallRecord
           /\ handleRequest(b, k).st \in {th[b][k].st, "failed"}
           /\ handleRequestWithRevisionRetry(b, k) \in CallRecord
           /\ handleRequestWithRevisionRetry(b, k).st \in {"rev", "failed"}
<1>1. th[b][k] \in CallRecord
  BY DEF TypeOK
<1>2. Done \in CallRecord /\ Done.st = "done" /\ Failed \in CallRecord /\ Failed.st = "failed"
  BY DEF Done, Failed, NoCall, CallRecord
<1>3. Revision(k) \in Nat
  BY DEF TypeOK, DocsOK, Revision
<1>4. /\ [th[b][k] EXCEPT !.st = "req"] \in CallRecord
      /\ [th[b][k] EXCEPT !.st = "req"].st = "req"
      /\ [th[b][k] EXCEPT !.st = "req", !.rev = Revision(k)] \in CallRecord
      /\ [th[b][k] EXCEPT !.st = "req", !.rev = Revision(k)].st = "req"
  BY <1>1, <1>3 DEF CallRecord
<1>5. handleRequest(b, k) \in CallRecord /\ handleRequest(b, k).st \in {th[b][k].st, "failed"}
  <2>1. th[b][k].sent + 1 \in Nat
    BY <1>1, SMT DEF CallRecord
  <2>2. /\ [th[b][k] EXCEPT !.sent = th[b][k].sent + 1] \in CallRecord
        /\ [th[b][k] EXCEPT !.sent = th[b][k].sent + 1].st = th[b][k].st
    BY <1>1, <2>1 DEF CallRecord
  <2> QED
    BY <1>2, <2>2 DEF handleRequest
<1>6. /\ handleRequestWithRevisionRetry(b, k) \in CallRecord
      /\ handleRequestWithRevisionRetry(b, k).st \in {"rev", "failed"}
  <2> DEFINE n == th[b][k].conflicts + 1
             c == [th[b][k] EXCEPT !.st = "rev", !.rev = 0, !.sent = 0, !.conflicts = n]
  <2>1. n \in Nat
    BY <1>1, SMT DEF CallRecord
  <2>2. c \in CallRecord /\ c.st = "rev"
    BY <1>1, <2>1 DEF CallRecord
  <2> QED
    BY <1>2, <2>2 DEF handleRequestWithRevisionRetry
<1> QED
  BY <1>2, <1>4, <1>5, <1>6

\* Every step of a call keeps the invariant.
LEMMA NextCall ==
    ASSUME CouchInv, NEW b \in Blocks, NEW k \in DocKeys, Call(b, k)
    PROVE  CouchInv'
<1>0. TypeOK
  BY DEF CouchInv
<1>1. CASE getDocumentRevision(b, k)
  <2>1. PICK c \in CallRecord : Becomes(b, k, c) /\ c.st = "req"
    BY <1>0, <1>1, CallRecords, ZenonT(40) DEF getDocumentRevision
  <2>2. SameBatches
    BY <1>0, <1>1, LoadSteps DEF getDocumentRevision
  <2>3. /\ th[b][k].st = "rev"
        /\ UNCHANGED <<docs, late, disk, committer, stored, scan, astray>>
    BY <1>1 DEF getDocumentRevision, Elsewhere
  <2> QED
    BY <2>1, <2>2, <2>3, CallStep
<1>2. CASE Answered(b, k)
  <2>1. /\ th[b][k].st = "req"
        /\ UNCHANGED <<late, disk, committer, stored, scan, astray>>
    BY <1>2 DEF Answered, Elsewhere
  <2>2. SameBatches
    BY <1>0, <1>2, LoadSteps DEF Answered
  <2>3. PICK c \in CallRecord :
          /\ Becomes(b, k, c)
          /\ docs' = docs \/ docs' = Stored(Request(b, k))
          /\ c.st = "done" => \/ docs' = Stored(Request(b, k))
                              \/ Request(b, k).body = Nil /\ docs'[k].doc = Nil
    <3>1. CASE Request(b, k).body = Nil /\ docs[k].doc = Nil
      <4>1. Becomes(b, k, Done) /\ docs' = docs
        BY <1>2, <3>1 DEF Answered
      <4> QED
        BY <1>0, <3>1, <4>1, CallRecords
    <3>2. CASE ~(Request(b, k).body = Nil /\ docs[k].doc = Nil) /\ Accepts(Request(b, k))
      <4>1. Becomes(b, k, Done) /\ docs' = Stored(Request(b, k))
        BY <1>2, <3>2 DEF Answered
      <4> QED
        BY <1>0, <4>1, CallRecords
    <3>3. CASE ~(Request(b, k).body = Nil /\ docs[k].doc = Nil) /\ ~Accepts(Request(b, k))
      <4>1. Becomes(b, k, handleRequestWithRevisionRetry(b, k)) /\ docs' = docs
        BY <1>2, <3>3 DEF Answered
      <4>2. handleRequestWithRevisionRetry(b, k) \in CallRecord
            /\ handleRequestWithRevisionRetry(b, k).st # "done"
        BY <1>0, CallRecords
      <4> QED
        BY <4>1, <4>2
    <3> QED
      BY <3>1, <3>2, <3>3
  <2> QED
    BY <2>1, <2>2, <2>3, CallStep
<1>3. CASE TimesOut(b, k)
  <2>1. /\ th[b][k].st = "req" /\ Becomes(b, k, handleRequest(b, k))
        /\ UNCHANGED <<disk, committer, stored, scan, astray>>
        /\ docs' = docs \/ docs' = Stored(Request(b, k))
        /\ late' = late \/ late' = late \cup {Request(b, k)}
    BY <1>3 DEF TimesOut, Elsewhere
  <2>2. SameBatches
    BY <1>0, <1>3, LoadSteps DEF TimesOut
  <2>3. handleRequest(b, k) \in CallRecord /\ handleRequest(b, k).st # "done"
    BY <1>0, <2>1, CallRecords
  <2> QED
    BY <2>1, <2>2, <2>3, CallStep
<1> QED
  BY <1>1, <1>2, <1>3 DEF Call

\* A delayed request is performed, or refused.
LEMMA NextLate ==
    ASSUME CouchInv, NEW r \in late, Late(r)
    PROVE  CouchInv'
<1> USE DEF CouchInv
<1>0. /\ late' \subseteq late /\ (docs' = docs \/ docs' = Stored(r))
      /\ UNCHANGED <<disk, th, committer, stored, scan, astray, load>>
  BY DEF Late
<1>1. SameBatches
  BY <1>0, LoadSteps
<1>2. DocsOK(docs)' /\ \A k \in DocKeys : k # r.key => docs'[k] = docs[k]
  <2>1. CASE docs' = docs
    BY <2>1 DEF TypeOK, DocsOK
  <2>2. CASE docs' = Stored(r)
    BY <2>2, StoredFacts DEF TypeOK
  <2> QED
    BY <1>0, <2>1, <2>2
<1>3. TypeOK'
  BY <1>0, <1>1, <1>2 DEF TypeOK, SameBatches, DocsOK, RequestOK
<1>4. ASSUME Savepoint \notin astray PROVE Fenced'
  <2>0. SavepointCalls /\ Scanning
    BY <1>4 DEF Fenced
  <2>1. PICK f \in 0 .. stored : Level(f) /\ \A k \in Keys \ astray : Follows(k, f)
    BY <1>4 DEF Fenced
  <2>2. /\ stored \in Nat /\ f \in Nat /\ f <= stored /\ stored <= MaxBlocks
        /\ committer.pc = "flush" => /\ committer.block = f + 1 /\ f + 1 \in Blocks
                                     /\ f + 1 <= stored
    BY <2>1, FlushedBlock DEF Level
  <2>3. Level(f)'
    <3>1. At(f)'
      BY <1>0, <2>1 DEF Level, At
    <3>2. Heights(f)'
      <4>1. CASE docs' = docs
        BY <1>0, <2>1, <4>1 DEF Level, Heights, Height
      <4>2. CASE docs' = Stored(r)
        BY <1>0, <2>1, <4>2, HeightsPerformed DEF Level, SavepointLate, TypeOK
      <4> QED
        BY <1>0, <4>1, <4>2
    <3>3. SavepointLate(f)'
      BY <1>0, <1>1, <2>1, WritesSame DEF Level, SavepointLate
    <3> QED
      BY <3>1, <3>2, <3>3 DEF Level
  <2>4. ASSUME NEW k \in Keys \ astray PROVE Follows(k, f)'
    <3>0. k \in Keys /\ k \in DocKeys /\ Follows(k, f)
      BY <2>1 DEF DocKeys
    <3>1. CASE docs'[k] = docs[k]
      <4>1. KeyCalls(k)'
        BY <1>0, <1>1, <2>2, <3>0, <3>1, KeyCallsStay DEF Follows
      <4> QED
        BY <1>0, <1>1, <3>0, <3>1, <4>1, FollowsStays
    <3>2. CASE docs'[k] # docs[k]
      <4>1. r.key = k /\ docs' = Stored(r)
        BY <1>0, <1>2, <3>0, <3>2
      <4>2. PICK c \in f + 1 .. stored : Writes(r, c)
        BY <3>0, <4>1 DEF Follows, KeyLate
      <4>3. c \in f .. stored
        BY <2>2, SMT
      <4>4. Covers(docs, k, f)' /\ Value(docs'[k]) = Committed(c, k)
        BY <1>0, <1>1, <2>2, <3>0, <4>1, <4>2, <4>3, KeyPerformed
      <4>5. Covers(disk, k, f)'
        BY <1>0, <1>1, <3>0, CoversSame DEF Follows, Covers
      <4>6. KeyLate(k, f)'
        BY <1>0, <1>1, <3>0, WritesSame DEF Follows, KeyLate
      <4>7. KeyCalls(k)'
        <5>1. Covers(docs, k, f + 1)'
          BY <1>0, <1>1, <4>4, CoversSame
        <5> QED
          BY <1>0, <2>2, <3>0, <5>1 DEF Follows, KeyCalls
      <4> QED
        BY <4>4, <4>5, <4>6, <4>7 DEF Follows
    <3> QED
      BY <3>1, <3>2
  <2>5. SavepointCalls'
    BY <1>0, <2>0 DEF SavepointCalls
  <2>6. Scanning'
    BY <1>0, <1>1, <2>0, ScanStays DEF Scanning
  <2> QED
    BY <1>0, <2>3, <2>4, <2>5, <2>6 DEF Fenced
<1> QED
  BY <1>0, <1>3, <1>4

-----------------------------------------------------------------------------
(* The committer. *)

\* The peer starts again: the requests it had sent are on their way.
LEMMA NextRestarts ==
    ASSUME CouchInv, Restarts, SameBatches
    PROVE  CouchInv'
<1> USE DEF CouchInv
<1>0. /\ th' = NoCalls /\ committer' = [pc |-> "verify", block |-> 0] /\ scan' = Nil
      /\ UNCHANGED <<docs, disk, stored, astray>>
  BY DEF Restarts
<1>1. \A r \in late' : r \in late \/ \E b \in Blocks, k \in DocKeys :
                                       th[b][k].st = "req" /\ r = Request(b, k)
  BY SMT DEF Restarts, DocKeys
<1>2. NoCall \in CallRecord /\ NoCall.st = "none"
  BY DEF NoCall, CallRecord
<1>3. /\ th' \in [Blocks -> [DocKeys -> CallRecord]]
      /\ \A b \in Blocks, k \in DocKeys : th'[b][k].st = "none"
  BY <1>0, <1>2 DEF NoCalls, DocKeys
<1>4. TypeOK'
  <2>1. \A r \in late' : RequestOK(r)
    BY <1>1, RequestFacts DEF TypeOK
  <2>2. committer' = [pc |-> committer'.pc, block |-> committer'.block]
    BY <1>0
  <2> QED
    BY <1>0, <1>3, <2>1, <2>2 DEF TypeOK, SameBatches, DocsOK, DocKeys, RequestOK
<1>5. ASSUME Savepoint \notin astray PROVE Fenced'
  <2>1. PICK f \in 0 .. stored : Level(f) /\ \A k \in Keys \ astray : Follows(k, f)
    BY <1>5 DEF Fenced
  <2>2. committer.pc = "flush" =>
          /\ committer.block = f + 1 /\ f + 1 \in f + 1 .. stored /\ f + 1 \in 1 .. stored
    BY <2>1, FlushedBlock DEF Level
  <2>3. SavepointLate(f)'
    <3>1. ASSUME NEW b \in Blocks, NEW k \in DocKeys, th[b][k].st = "req",
                 Request(b, k).key = Savepoint
          PROVE  f \in Blocks /\ SavesPoint(Request(b, k), f)
      <4>1. k = Savepoint /\ SavesPoint(Request(b, k), b)
        BY <3>1, RequestFacts
      <4>2. committer.pc = "save" /\ b = committer.block
        BY <1>5, <3>1, <4>1 DEF Fenced, SavepointCalls
      <4>3. b = f /\ f \in Blocks
        BY <2>1, <4>2 DEF Level, At
      <4> QED
        BY <4>1, <4>3
    <3>2. \A r \in late' : r.key = Savepoint => f \in Blocks /\ SavesPoint(r, f)
      BY <1>1, <2>1, <3>1 DEF Level, SavepointLate
    <3> QED
      BY <1>0, <3>2, WritesSame DEF SavepointLate
  <2>4. Level(f)'
    BY <1>0, <2>1, <2>3 DEF Level, At, Heights, Height
  <2>5. ASSUME NEW k \in Keys \ astray PROVE Follows(k, f)'
    <3>0. k \in Keys /\ k \in DocKeys /\ k # Savepoint /\ Follows(k, f)
      BY <2>1, KeysFacts
    <3>1. ASSUME NEW b \in Blocks, NEW j \in DocKeys, th[b][j].st = "req", Request(b, j).key = k
          PROVE  \E c \in f + 1 .. stored : Writes(Request(b, j), c)
      <4>1. /\ j = k /\ k \in DOMAIN load.batch[b]
            /\ Request(b, j).body = CommitThread(b, k, 0).body
        BY <3>0, <3>1, RequestFacts
      <4>2. committer.pc = "flush" /\ b = f + 1
        BY <2>2, <3>0, <3>1, <4>1 DEF Follows, KeyCalls
      <4>3. Writes(Request(b, j), f + 1)
        BY <2>2, <3>1, <4>1, <4>2 DEF Writes
      <4> QED
        BY <2>2, <4>2, <4>3
    <3>2. \A r \in late' : r.key = k => \E c \in f + 1 .. stored : Writes(r, c)
      <4> SUFFICES ASSUME NEW r \in late', r.key = k
                   PROVE  \E c \in f + 1 .. stored : Writes(r, c)
        OBVIOUS
      <4>1. CASE r \in late
        BY <3>0, <4>1 DEF Follows, KeyLate
      <4>2. CASE r \notin late
        <5>1. PICK b \in Blocks, j \in DocKeys : th[b][j].st = "req" /\ r = Request(b, j)
          BY <1>1, <4>2
        <5> QED
          BY <3>1, <5>1
      <4> QED
        BY <4>1, <4>2
    <3>3. KeyLate(k, f)'
      BY <1>0, <3>2, WritesSame DEF KeyLate
    <3>4. KeyCalls(k)'
      BY <1>0, <1>3, <3>0 DEF KeyCalls
    <3>5. Covers(docs, k, f)' /\ Covers(disk, k, f)'
      BY <1>0, <3>0, CoversSame DEF Follows, Covers
    <3> QED
      BY <3>3, <3>4, <3>5 DEF Follows
  <2>6. SavepointCalls' /\ Scanning'
    BY <1>0, <1>3 DEF SavepointCalls, Scanning, DocKeys
  <2> QED
    BY <1>0, <2>4, <2>5, <2>6 DEF Fenced
<1> QED
  BY <1>0, <1>4, <1>5

\* The committer goes on, with the documents and the block store as they are.
LEMMA CommitterStep ==
    ASSUME CouchInv, NEW pc, NEW n, Goes(pc, n), UNCHANGED disk, SameBatches,
           th' \in [Blocks -> [DocKeys -> CallRecord]],
           \A b \in Blocks, k \in Keys : th'[b][k].st # "none" => k \in DOMAIN load.batch[b],
           astray \subseteq astray',
           Savepoint \notin astray' =>
             /\ scan = Nil /\ SavepointCalls'
             /\ \E f \in 0 .. stored :
                  /\ At(f)' /\ Heights(f) /\ SavepointLate(f)
                  /\ \A k \in Keys \ astray' : /\ Covers(docs, k, f) /\ Covers(disk, k, f)
                                               /\ KeyLate(k, f) /\ KeyCalls(k)'
    PROVE  CouchInv'
<1> USE DEF CouchInv
<1>0. committer' = [pc |-> pc, block |-> n] /\ UNCHANGED <<docs, late, stored, scan>>
  BY DEF Goes
<1>1. TypeOK'
  <2>1. committer' = [pc |-> committer'.pc, block |-> committer'.block]
    BY <1>0
  <2> QED
    BY <1>0, <2>1 DEF TypeOK, SameBatches, DocsOK, RequestOK
<1>2. ASSUME Savepoint \notin astray' PROVE Fenced'
  <2>1. PICK f \in 0 .. stored :
          /\ At(f)' /\ Heights(f) /\ SavepointLate(f)
          /\ \A k \in Keys \ astray' : /\ Covers(docs, k, f) /\ Covers(disk, k, f)
                                       /\ KeyLate(k, f) /\ KeyCalls(k)'
    BY <1>2
  <2>2. Level(f)'
    <3>1. Heights(f)'
      BY <1>0, <2>1 DEF Heights, Height
    <3>2. SavepointLate(f)'
      BY <1>0, <2>1, WritesSame DEF SavepointLate
    <3> QED
      BY <2>1, <3>1, <3>2 DEF Level
  <2>3. ASSUME NEW k \in Keys \ astray' PROVE Follows(k, f)'
    <3>1. Covers(docs, k, f)' /\ Covers(disk, k, f)'
      BY <1>0, <2>1, <2>3, CoversSame DEF Covers
    <3>2. KeyLate(k, f)'
      BY <1>0, <2>1, <2>3, WritesSame DEF KeyLate
    <3> QED
      BY <2>1, <2>3, <3>1, <3>2 DEF Follows
  <2>4. Scanning'
    BY <1>0, <1>2 DEF Scanning
  <2> QED
    BY <1>0, <1>2, <2>2, <2>3, <2>4 DEF Fenced
<1> QED
  BY <1>1, <1>2

\* While no call goes on none does after a step that starts none.
LEMMA CallsStay ==
    ASSUME UNCHANGED th, SavepointCalls, committer.pc \notin {"flush", "save"},
           committer'.pc # "flush"
    PROVE  SavepointCalls' /\ \A k \in Keys : KeyCalls(k) => KeyCalls(k)'
<1>1. SavepointCalls'
  BY DEF SavepointCalls
<1>2. \A k \in Keys : KeyCalls(k) => KeyCalls(k)'
  BY DEF KeyCalls
<1> QED
  BY <1>1, <1>2

\* The peer checks the connection and its databases.
LEMMA NextStart ==
    ASSUME CouchInv, VerifyCouchConfig \/ CreateSystemDatabasesIfNotExist \/ CreateCouchDatabase
    PROVE  CouchInv'
<1>0. TypeOK
  BY DEF CouchInv
<1>1. ASSUME NEW pc \in {"system", "open", "recover"}, NEW n, Goes(pc, n),
             UNCHANGED <<disk, th, astray, load>>,
             committer.pc \in {"verify", "system", "open"}
      PROVE  CouchInv'
  <2>1. SameBatches
    BY <1>0, <1>1, LoadSteps
  <2>2. committer'.pc = pc
    BY <1>1 DEF Goes
  <2>3. ASSUME Savepoint \notin astray'
        PROVE  /\ scan = Nil /\ SavepointCalls'
               /\ \E f \in 0 .. stored :
                    /\ At(f)' /\ Heights(f) /\ SavepointLate(f)
                    /\ \A k \in Keys \ astray' : /\ Covers(docs, k, f) /\ Covers(disk, k, f)
                                                 /\ KeyLate(k, f) /\ KeyCalls(k)'
    <3>1. Fenced
      BY <1>1, <2>3 DEF CouchInv
    <3>2. scan = Nil /\ SavepointCalls' /\ \A k \in Keys : KeyCalls(k) => KeyCalls(k)'
      BY <1>1, <2>2, <3>1, CallsStay DEF Fenced, Scanning
    <3>3. \A f : At(f)'
      BY <1>1, <2>2 DEF At
    <3>4. PICK f \in 0 .. stored : Level(f) /\ \A k \in Keys \ astray : Follows(k, f)
      BY <3>1 DEF Fenced
    <3> QED
      BY <1>1, <3>2, <3>3, <3>4 DEF Level, Follows
  <2> QED
    BY <1>0, <1>1, <2>1, <2>3, CommitterStep DEF TypeOK
<1>2. ASSUME NEW n, Faults(n), Restarts PROVE CouchInv'
  BY <1>0, <1>2, NextRestarts, LoadSteps
<1>3. CASE VerifyCouchConfig
  BY <1>1, <1>2, <1>3 DEF VerifyCouchConfig, RequestFails
<1>4. CASE CreateSystemDatabasesIfNotExist
  BY <1>1, <1>2, <1>4 DEF CreateSystemDatabasesIfNotExist, CreateDatabaseIfNotExist, RequestFails
<1>5. CASE CreateCouchDatabase
  BY <1>1, <1>2, <1>5 DEF CreateCouchDatabase, CreateDatabaseIfNotExist, RequestFails
<1> QED
  BY <1>3, <1>4, <1>5

\* The recovery starts from the savepoint that CouchDB has.
LEMMA NextRecover ==
    ASSUME CouchInv, recoverDBs
    PROVE  CouchInv'
<1>0. TypeOK
  BY DEF CouchInv
<1>1. CASE RequestFails("recover")
  BY <1>0, <1>1, NextRestarts, LoadSteps DEF RequestFails
<1>2. CASE ~RequestFails("recover")
  <2>0. PICK h : h = Height(docs)
    OBVIOUS
  <2> DEFINE pc == IF h # stored THEN "apply" ELSE "idle"
             n == IF h # stored THEN h + 1 ELSE 0
  <2>1. /\ committer.pc = "recover" /\ astray' = astray \cup EscapesRecovery
        /\ UNCHANGED <<disk, th, load>>
    BY <1>2 DEF recoverDBs
  <2>2. Goes(pc, n)
    BY <1>2, <2>0 DEF recoverDBs, ShouldRecover, GetLatestSavePoint, ReadDoc, Height
  <2>3. SameBatches
    BY <1>0, <2>1, LoadSteps
  <2>4. ASSUME Savepoint \notin astray'
        PROVE  /\ scan = Nil /\ SavepointCalls'
               /\ \E f \in 0 .. stored :
                    /\ At(f)' /\ Heights(f) /\ SavepointLate(f)
                    /\ \A k \in Keys \ astray' : /\ Covers(docs, k, f) /\ Covers(disk, k, f)
                                                 /\ KeyLate(k, f) /\ KeyCalls(k)'
    <3>1. Fenced /\ \A r \in late : r.key # Savepoint
      BY <2>1, <2>4 DEF CouchInv, EscapesRecovery
    <3>2. committer'.pc = pc /\ committer'.block = n /\ UNCHANGED stored
      BY <2>2 DEF Goes
    <3>3. scan = Nil /\ SavepointCalls' /\ \A k \in Keys : KeyCalls(k) => KeyCalls(k)'
      BY <2>1, <3>1, <3>2, CallsStay DEF Fenced, Scanning
    <3>4. PICK f \in 0 .. stored : Level(f) /\ \A k \in Keys \ astray : Follows(k, f)
      BY <3>1 DEF Fenced
    <3>5. stored \in Nat /\ f \in Nat /\ h \in Nat /\ h <= f /\ f <= stored /\ Height(disk) <= h
      BY <1>0, <2>0, <3>4, HeightFacts, CouchAssumption, SMT DEF TypeOK, Level, Heights
    <3>6. ASSUME NEW k \in Keys \ astray'
          PROVE  /\ Covers(docs, k, h) /\ Covers(disk, k, h)
                 /\ KeyLate(k, h) /\ KeyCalls(k)'
      <4>1. k \in Keys /\ Follows(k, f)
        BY <2>1, <3>4
      <4>2. Covers(docs, k, h) /\ Covers(disk, k, h)
        BY <3>5, <4>1, CoversBelow DEF Follows
      <4>3. f + 1 .. stored \subseteq h + 1 .. stored
        BY <3>5, SMT
      <4> QED
        BY <3>3, <4>1, <4>2, <4>3 DEF Follows, KeyLate
    <3>7. Heights(h) /\ SavepointLate(h)
      <4>1. h <= h
        BY <3>5, SMT
      <4> QED
        BY <2>0, <3>1, <3>5, <4>1 DEF Heights, SavepointLate
    <3>8. h \in 0 .. stored /\ (h # stored => h + 1 <= stored)
      BY <3>5, SMT
    <3>9. At(h)'
      BY <3>2, <3>8 DEF At
    <3> QED
      BY <3>3, <3>6, <3>7, <3>8, <3>9
  <2>5. astray \subseteq astray'
    BY <2>1
  <2> HIDE DEF pc, n
  <2> QED
    BY <1>0, <2>1, <2>2, <2>3, <2>4, <2>5, CommitterStep DEF TypeOK
<1> QED
  BY <1>1, <1>2

\* A block is added; the documents hold every block before it.
LEMMA NextAddBlock ==
    ASSUME CouchInv, AddBlock
    PROVE  CouchInv'
<1> USE DEF CouchInv
<1>0. /\ committer.pc = "idle" /\ scan = Nil /\ stored < MaxBlocks /\ stored' = stored + 1
      /\ committer' = [pc |-> "apply", block |-> stored + 1]
      /\ UNCHANGED <<docs, disk, late, th, scan, astray, load>>
  BY DEF AddBlock
<1>1. SameBatches
  BY <1>0, LoadSteps
<1>2. stored \in Nat /\ stored' \in 0 .. MaxBlocks /\ 0 .. stored \subseteq 0 .. stored'
      /\ 1 .. stored \subseteq 1 .. stored'
      /\ \A s \in Nat : s .. stored \subseteq s .. stored' /\ s + 1 .. stored \subseteq s + 1 .. stored'
  BY <1>0, CouchAssumption, SMT DEF TypeOK
<1>3. TypeOK'
  <2>1. committer' = [pc |-> committer'.pc, block |-> committer'.block]
    BY <1>0
  <2> QED
    BY <1>0, <1>1, <1>2, <2>1 DEF TypeOK, SameBatches, DocsOK, RequestOK
<1>4. ASSUME Savepoint \notin astray PROVE Fenced'
  <2>1. PICK f \in 0 .. stored : Level(f) /\ \A k \in Keys \ astray : Follows(k, f)
    BY <1>4 DEF Fenced
  <2>2. f = stored /\ f \in Nat
    BY <1>0, <1>2, <2>1 DEF Level, At
  <2>3. \A b, k : Committed(b, k)' = Committed(b, k)
    BY <1>1, CommittedSame DEF SameBatches
  <2>4. /\ \A r, c : Writes(r, c) => Writes(r, c)'
        /\ \A r, c : SavesPoint(r, c)' <=> SavesPoint(r, c)
    BY <1>1, <1>2, WritesSame
  <2>5. SavepointCalls' /\ \A k \in Keys : KeyCalls(k) => KeyCalls(k)'
    BY <1>0, <1>4, CallsStay DEF Fenced
  <2>6. Level(f)'
    <3>1. At(f)'
      BY <1>0, <1>2, <2>2, SMT DEF At
    <3>2. Heights(f)' /\ SavepointLate(f)'
      BY <1>0, <2>1, <2>4 DEF Level, Heights, Height, SavepointLate
    <3> QED
      BY <3>1, <3>2 DEF Level
  <2>7. ASSUME NEW k \in Keys \ astray PROVE Follows(k, f)'
    <3>0. k \in Keys /\ Follows(k, f)
      BY <2>1
    <3>1. Covers(docs, k, f)' /\ Covers(disk, k, f)'
      BY <1>0, <1>2, <2>2, <2>3, <3>0 DEF Follows, Covers, Value, removeDataWrapper
    <3>2. KeyLate(k, f)'
      BY <1>0, <1>2, <2>2, <2>4, <3>0 DEF Follows, KeyLate
    <3> QED
      BY <2>5, <3>0, <3>1, <3>2 DEF Follows
  <2>8. Scanning'
    BY <1>0 DEF Scanning
  <2> QED
    BY <1>0, <1>2, <2>1, <2>5, <2>6, <2>7, <2>8 DEF Fenced
<1> QED
  BY <1>0, <1>3, <1>4

\* The goroutines of a block start.
LEMMA NextApply ==
    ASSUME CouchInv, ApplyUpdates
    PROVE  CouchInv'
<1>0. TypeOK
  BY DEF CouchInv
<1> DEFINE b == committer.block
           calls == [k \in DocKeys |-> IF k \in DOMAIN load.batch[b] THEN Start ELSE NoCall]
<1>1. /\ committer.pc = "apply" /\ Goes("flush", b) /\ th' = [th EXCEPT ![b] = calls]
      /\ UNCHANGED <<disk, astray, load>>
  BY DEF ApplyUpdates, DocKeys
<1>2. SameBatches
  BY <1>0, <1>1, LoadSteps
<1>3. Start \in CallRecord /\ Start.st = "rev" /\ NoCall \in CallRecord /\ NoCall.st = "none"
  BY DEF Start, NoCall, CallRecord
<1>4. calls \in [DocKeys -> CallRecord] /\ \A k \in DocKeys :
        /\ calls[k].st \in {"none", "rev"}
        /\ calls[k].st # "none" => k \in DOMAIN load.batch[b]
  BY <1>3
<1> HIDE DEF calls
<1>5. /\ th' \in [Blocks -> [DocKeys -> CallRecord]]
      /\ \A a \in Blocks : th'[a] = IF a = b THEN calls ELSE th[a]
  BY <1>0, <1>1, <1>4 DEF TypeOK
<1>6. \A a \in Blocks, k \in Keys : th'[a][k].st # "none" => k \in DOMAIN load.batch[a]
  BY <1>0, <1>4, <1>5 DEF TypeOK, DocKeys
<1>7. ASSUME Savepoint \notin astray'
      PROVE  /\ scan = Nil /\ SavepointCalls'
             /\ \E f \in 0 .. stored :
                  /\ At(f)' /\ Heights(f) /\ SavepointLate(f)
                  /\ \A k \in Keys \ astray' : /\ Covers(docs, k, f) /\ Covers(disk, k, f)
                                               /\ KeyLate(k, f) /\ KeyCalls(k)'
  <2>1. Fenced
    BY <1>1, <1>7 DEF CouchInv
  <2>2. committer'.pc = "flush" /\ committer'.block = b /\ UNCHANGED stored
    BY <1>1 DEF Goes
  <2>3. PICK f \in 0 .. stored : Level(f) /\ \A k \in Keys \ astray : Follows(k, f)
    BY <2>1 DEF Fenced
  <2>4. b = f + 1 /\ f + 1 <= stored /\ b \in Blocks
    BY <1>0, <1>1, <2>3, FlushedBlock DEF Level
  <2>5. SavepointCalls'
    <3>1. \A a \in Blocks : th[a][Savepoint].st \notin {"rev", "req"}
      BY <1>1, <2>1 DEF Fenced, SavepointCalls
    <3>2. Savepoint \in DocKeys /\ Savepoint \notin DOMAIN load.batch[b]
      BY <1>0, <2>4, BatchFacts DEF DocKeys
    <3> QED
      BY <1>4, <1>5, <3>1, <3>2 DEF SavepointCalls
  <2>6. ASSUME NEW k \in Keys \ astray PROVE KeyCalls(k)'
    <3>1. \A a \in Blocks : th[a][k].st \notin {"rev", "req"}
      BY <1>1, <2>3 DEF Follows, KeyCalls
    <3>2. k \in DocKeys
      BY DEF DocKeys
    <3>3. th'[b][k].st # "done"
      BY <1>4, <1>5, <2>4, <3>2
    <3> QED
      BY <1>5, <2>2, <3>1, <3>3 DEF KeyCalls
  <2>7. At(f)'
    BY <2>2, <2>4 DEF At
  <2>8. scan = Nil
    BY <1>1, <2>1 DEF Fenced, Scanning
  <2> QED
    BY <1>1, <2>3, <2>5, <2>6, <2>7, <2>8 DEF Level, Follows
<1> HIDE DEF b
<1> QED
  BY <1>0, <1>1, <1>2, <1>5, <1>6, <1>7, CommitterStep DEF TypeOK

\* The flush: a key whose call ended well, with no request on its way, is written
\* in memory and on disk; the others go astray.
LEMMA NextFlush ==
    ASSUME CouchInv, EnsureFullCommit
    PROVE  CouchInv'
<1>0. TypeOK
  BY DEF CouchInv
<1>1. CASE RequestFails("flush")
  BY <1>0, <1>1, NextRestarts, LoadSteps DEF RequestFails
<1>2. CASE ~RequestFails("flush")
  <2>1. /\ committer.pc = "flush" /\ disk' = docs
        /\ astray' = astray \cup EscapesFlush(committer.block)
        /\ committer' = [pc |-> "info", block |-> committer.block]
        /\ UNCHANGED <<docs, late, stored, scan, th, load>>
    BY <1>2 DEF EnsureFullCommit, Goes
  <2>2. SameBatches
    BY <1>0, <2>1, LoadSteps
  <2>3. ASSUME Savepoint \notin astray' PROVE Fenced'
    <3>1. Fenced /\ astray \subseteq astray'
      BY <2>1, <2>3 DEF CouchInv
    <3>2. PICK f \in 0 .. stored : Level(f) /\ \A k \in Keys \ astray : Follows(k, f)
      BY <3>1 DEF Fenced
    <3>3. /\ committer.block = f + 1 /\ f + 1 \in Blocks /\ f + 1 <= stored
          /\ stored \in Nat /\ f \in Nat
      BY <1>0, <2>1, <3>2, FlushedBlock DEF Level
    <3>4. f + 1 \in 0 .. stored
      BY <3>3, SMT
    <3>5. Level(f + 1)'
      <4>1. Height(docs) \in Nat /\ Height(docs) <= f
        BY <1>0, <3>2, HeightFacts, CouchAssumption, SMT DEF TypeOK, Level, Heights
      <4>2. Height(docs) <= Height(docs) /\ Height(docs) <= f + 1
        BY <3>3, <4>1, SMT
      <4>3. Height(disk)' = Height(docs) /\ Height(docs)' = Height(docs)
        BY <2>1 DEF Height
      <4>4. \A r \in late' : r.key # Savepoint
        BY <2>1, <2>3 DEF EscapesFlush
      <4> QED
        BY <2>1, <3>3, <4>2, <4>3, <4>4 DEF Level, At, Heights, SavepointLate
    <3>6. ASSUME NEW k \in Keys \ astray' PROVE Follows(k, f + 1)'
      <4>0. k \in Keys /\ Follows(k, f)
        BY <3>1, <3>2
      <4>1. /\ \A r \in late : r.key # k
            /\ k \in DOMAIN load.batch[f + 1] => th[f + 1][k].st = "done"
        BY <2>1, <3>3 DEF EscapesFlush
      <4>2. Covers(docs, k, f + 1)
        <5>1. CASE k \in DOMAIN load.batch[f + 1]
          BY <2>1, <3>3, <4>0, <4>1, <5>1 DEF Follows, KeyCalls
        <5>2. CASE k \notin DOMAIN load.batch[f + 1]
          BY <3>3, <4>0, <5>2, CoversNext DEF Follows
        <5> QED
          BY <5>1, <5>2
      <4>3. Covers(docs, k, f + 1)' /\ Covers(disk, k, f + 1)'
        BY <2>1, <2>2, <4>2, CoversSame DEF Covers
      <4>4. KeyLate(k, f + 1)'
        BY <2>1, <4>1 DEF KeyLate
      <4>5. KeyCalls(k)'
        <5>1. \A b \in Blocks : th[b][k].st \notin {"rev", "req"}
          <6> SUFFICES ASSUME NEW b \in Blocks, th[b][k].st \in {"rev", "req"} PROVE FALSE
            OBVIOUS
          <6>1. b = f + 1
            BY <3>3, <4>0 DEF Follows, KeyCalls
          <6>2. k \in DOMAIN load.batch[b]
            BY <1>0, <4>0 DEF TypeOK
          <6> QED
            BY <4>1, <6>1, <6>2
        <5> QED
          BY <2>1, <5>1 DEF KeyCalls
      <4> QED
        BY <4>3, <4>4, <4>5 DEF Follows
    <3>7. SavepointCalls' /\ Scanning'
      BY <2>1, <3>1 DEF Fenced, SavepointCalls, Scanning
    <3> QED
      BY <2>1, <3>4, <3>5, <3>6, <3>7 DEF Fenced
  <2>4. TypeOK'
    <3>1. committer' = [pc |-> committer'.pc, block |-> committer'.block]
      BY <2>1
    <3> QED
      BY <1>0, <2>1, <2>2, <3>1 DEF TypeOK, SameBatches, DocsOK, RequestOK
  <2> QED
    BY <2>3, <2>4 DEF CouchInv
<1> QED
  BY <1>1, <1>2

\* The call for the savepoint starts or ends.
LEMMA SavepointCall ==
    ASSUME TypeOK, NEW b, NEW c \in CallRecord, th' = [th EXCEPT ![b][Savepoint] = c]
    PROVE  /\ th' \in [Blocks -> [DocKeys -> CallRecord]]
           /\ \A a \in Blocks, k \in DocKeys :
                th'[a][k] = IF a = b /\ k = Savepoint THEN c ELSE th[a][k]
           /\ \A a \in Blocks, k \in Keys : th'[a][k].st # "none" => k \in DOMAIN load.batch[a]
<1>1. th \in [Blocks -> [DocKeys -> CallRecord]] /\ Savepoint \in DocKeys
  BY DEF TypeOK, DocKeys
<1>2. /\ th' \in [Blocks -> [DocKeys -> CallRecord]]
      /\ \A a \in Blocks, k \in DocKeys :
           th'[a][k] = IF a = b /\ k = Savepoint THEN c ELSE th[a][k]
  BY <1>1
<1>3. \A k \in Keys : k # Savepoint /\ k \in DocKeys
  BY CouchAssumption, SMT DEF Keys, Savepoint, DocKeys
<1> QED
  BY <1>2, <1>3 DEF TypeOK

\* The committer has the database's description, and saves the savepoint.
LEMMA NextInfo ==
    ASSUME CouchInv, GetDatabaseInfo
    PROVE  CouchInv'
<1>0. TypeOK
  BY DEF CouchInv
<1>1. CASE RequestFails("info")
  BY <1>0, <1>1, NextRestarts, LoadSteps DEF RequestFails
<1>2. CASE ~RequestFails("info")
  <2>1. /\ committer.pc = "info" /\ Goes("save", committer.block)
        /\ th' = [th EXCEPT ![committer.block][Savepoint] = Start]
        /\ UNCHANGED <<disk, astray, load>>
    BY <1>2 DEF GetDatabaseInfo
  <2>2. SameBatches
    BY <1>0, <2>1, LoadSteps
  <2>3. Start \in CallRecord
    BY DEF Start, NoCall, CallRecord
  <2>4. /\ th' \in [Blocks -> [DocKeys -> CallRecord]]
        /\ \A a \in Blocks, k \in DocKeys :
             th'[a][k] = IF a = committer.block /\ k = Savepoint THEN Start ELSE th[a][k]
        /\ \A a \in Blocks, k \in Keys : th'[a][k].st # "none" => k \in DOMAIN load.batch[a]
    BY <1>0, <2>1, <2>3, SavepointCall
  <2>5. ASSUME Savepoint \notin astray'
        PROVE  /\ scan = Nil /\ SavepointCalls'
               /\ \E f \in 0 .. stored :
                    /\ At(f)' /\ Heights(f) /\ SavepointLate(f)
                    /\ \A k \in Keys \ astray' : /\ Covers(docs, k, f) /\ Covers(disk, k, f)
                                                 /\ KeyLate(k, f) /\ KeyCalls(k)'
    <3>1. Fenced
      BY <2>1, <2>5 DEF CouchInv
    <3>2. committer'.pc = "save" /\ committer'.block = committer.block /\ UNCHANGED stored
      BY <2>1 DEF Goes
    <3>3. SavepointCalls'
      <4>1. \A a \in Blocks : th[a][Savepoint].st \notin {"rev", "req"}
        BY <2>1, <3>1 DEF Fenced, SavepointCalls
      <4>2. \A a \in Blocks : a # committer.block => th'[a][Savepoint] = th[a][Savepoint]
        BY <2>4 DEF DocKeys
      <4> QED
        BY <3>2, <4>1, <4>2 DEF SavepointCalls
    <3>4. \A f : At(f) => At(f)'
      BY <2>1, <3>2 DEF At
    <3>5. ASSUME NEW k \in Keys, KeyCalls(k) PROVE KeyCalls(k)'
      <4>1. \A a \in Blocks : th'[a][k] = th[a][k]
        BY <2>4, KeysFacts
      <4> QED
        BY <2>1, <3>2, <3>5, <4>1 DEF KeyCalls
    <3>6. PICK f \in 0 .. stored : Level(f) /\ \A k \in Keys \ astray : Follows(k, f)
      BY <3>1 DEF Fenced
    <3>7. scan = Nil
      BY <2>1, <3>1 DEF Fenced, Scanning
    <3> QED
      BY <2>1, <3>3, <3>4, <3>5, <3>6, <3>7 DEF Level, Follows
  <2> QED
    BY <1>0, <2>1, <2>2, <2>4, <2>5, CommitterStep DEF TypeOK
<1> QED
  BY <1>1, <1>2

\* The savepoint is saved and the committer goes on, or the peer panics.
LEMMA NextSavepoint ==
    ASSUME CouchInv, recordSavepoint
    PROVE  CouchInv'
<1>0. TypeOK
  BY DEF CouchInv
<1>1. SameBatches
  BY <1>0, LoadSteps DEF recordSavepoint
<1>2. CASE Restarts
  BY <1>1, <1>2, NextRestarts
<1>3. CASE ~Restarts
  <2> DEFINE b == committer.block
             pc == IF b < stored THEN "apply" ELSE "idle"
             n == IF b < stored THEN b + 1 ELSE 0
  <2>1. /\ committer.pc = "save" /\ Goes(pc, n)
        /\ th' = [th EXCEPT ![b][Savepoint] = NoCall]
        /\ UNCHANGED <<disk, astray>>
    BY <1>3 DEF recordSavepoint
  <2>2. NoCall \in CallRecord /\ NoCall.st = "none"
    BY DEF NoCall, CallRecord
  <2>3. /\ th' \in [Blocks -> [DocKeys -> CallRecord]]
        /\ \A a \in Blocks, k \in DocKeys :
             th'[a][k] = IF a = b /\ k = Savepoint THEN NoCall ELSE th[a][k]
        /\ \A a \in Blocks, k \in Keys : th'[a][k].st # "none" => k \in DOMAIN load.batch[a]
    BY <1>0, <2>1, <2>2, SavepointCall
  <2>4. ASSUME Savepoint \notin astray'
        PROVE  /\ scan = Nil /\ SavepointCalls'
               /\ \E f \in 0 .. stored :
                    /\ At(f)' /\ Heights(f) /\ SavepointLate(f)
                    /\ \A k \in Keys \ astray' : /\ Covers(docs, k, f) /\ Covers(disk, k, f)
                                                 /\ KeyLate(k, f) /\ KeyCalls(k)'
    <3>1. Fenced
      BY <2>1, <2>4 DEF CouchInv
    <3>2. committer'.pc = pc /\ committer'.block = n /\ UNCHANGED stored
      BY <2>1 DEF Goes
    <3>3. SavepointCalls'
      <4>1. \A a \in Blocks : th[a][Savepoint].st \in {"rev", "req"} => a = b
        BY <2>1, <3>1 DEF Fenced, SavepointCalls
      <4>2. \A a \in Blocks : th'[a][Savepoint].st \notin {"rev", "req"}
        BY <2>2, <2>3, <4>1 DEF DocKeys
      <4> QED
        BY <4>2 DEF SavepointCalls
    <3>4. PICK f \in 0 .. stored : Level(f) /\ \A k \in Keys \ astray : Follows(k, f)
      BY <3>1 DEF Fenced
    <3>5. b = f /\ f \in Nat /\ stored \in Nat /\ f <= stored
      BY <1>0, <2>1, <3>4, SMT DEF Level, At, TypeOK
    <3>6. /\ b < stored => f + 1 <= stored
          /\ ~(b < stored) => f = stored
      BY <3>5, SMT
    <3>7. At(f)'
      BY <3>2, <3>5, <3>6 DEF At
    <3>8. ASSUME NEW k \in Keys, KeyCalls(k) PROVE KeyCalls(k)'
      <4>1. \A a \in Blocks : th'[a][k] = th[a][k]
        BY <2>3, KeysFacts
      <4> QED
        BY <2>1, <3>2, <3>8, <4>1 DEF KeyCalls
    <3>9. scan = Nil
      BY <2>1, <3>1 DEF Fenced, Scanning
    <3> QED
      BY <2>1, <3>3, <3>4, <3>7, <3>8, <3>9 DEF Level, Follows
  <2> HIDE DEF pc, n
  <2> QED
    BY <1>0, <1>1, <2>1, <2>3, <2>4, CommitterStep DEF TypeOK
<1> QED
  BY <1>2, <1>3

-----------------------------------------------------------------------------
(* Reading. *)

\* A key has a document when it has a value, and data when the value is JSON.
LEMMA DocMatches ==
    ASSUME DocsOK(docs), NEW k \in Keys
    PROVE  /\ docs[k].doc # Nil <=> Value(docs[k]) # Nil
           /\ docs[k].doc # Nil => /\ removeDataWrapper(docs[k].doc) = Value(docs[k])
                                   /\ docs[k].doc.data # Nil <=> IsJSON(Value(docs[k]))
<1>1. CASE docs[k].doc = Nil
  BY <1>1 DEF Value
<1>2. CASE docs[k].doc # Nil
  <2>1. PICK v \in StateValue : docs[k].doc = addVersionAndChainCodeID(v)
    BY <1>2 DEF DocsOK, StateDoc
  <2> QED
    BY <1>2, <2>1, StateDocFacts DEF Value
<1> QED
  BY <1>1, <1>2

\* While the committer is idle the documents are the committed state.
LEMMA IdleValues ==
    ASSUME TypeOK, Fenced, committer.pc = "idle"
    PROVE  \A k \in Keys \ astray : Value(docs[k]) = Committed(stored, k)
<1>1. PICK f \in 0 .. stored : Level(f) /\ \A k \in Keys \ astray : Follows(k, f)
  BY DEF Fenced
<1>2. \A k \in Keys \ astray : Covers(docs, k, stored)
  BY <1>1 DEF Level, At, Follows
<1>3. stored \in Nat
  BY SMT DEF TypeOK
<1>4. \A b \in stored .. stored : b = stored
  BY <1>3, SMT
<1> QED
  BY <1>2, <1>4 DEF Covers

\* A step of a scan keeps the rest.
LEMMA ScanStep ==
    ASSUME CouchInv, UNCHANGED <<docs, disk, late, th, committer, stored, astray>>, SameBatches,
           scan' = Nil \/ scan' = [kind |-> scan'.kind, rows |-> scan'.rows, got |-> scan'.got],
           Savepoint \notin astray => Scanning'
    PROVE  CouchInv'
<1> USE DEF CouchInv
<1>1. TypeOK'
  BY DEF TypeOK, SameBatches, DocsOK, RequestOK
<1>2. ASSUME Savepoint \notin astray PROVE Fenced'
  <2>1. PICK f \in 0 .. stored : Level(f) /\ \A k \in Keys \ astray : Follows(k, f)
    BY <1>2 DEF Fenced
  <2>2. Level(f)'
    <3>1. SavepointLate(f)'
      BY <2>1, WritesSame DEF Level, SavepointLate
    <3> QED
      BY <2>1, <3>1 DEF Level, At, Heights, Height
  <2>3. ASSUME NEW k \in Keys \ astray PROVE Follows(k, f)'
    <3>1. committer.pc = "flush" => committer.block \in Blocks
      BY <2>1, FlushedBlock DEF Level
    <3>2. KeyCalls(k)'
      BY <2>1, <2>3, <3>1, KeyCallsStay DEF Follows
    <3> QED
      BY <2>1, <2>3, <3>2, FollowsStays
  <2>4. SavepointCalls'
    BY <1>2 DEF Fenced, SavepointCalls
  <2> QED
    BY <1>2, <2>1, <2>2, <2>3, <2>4 DEF Fenced
<1> QED
  BY <1>1, <1>2

\* The rows of a query up to a key, while CouchDB follows the ledger in these
\* keys.
LEMMA RowsFacts ==
    ASSUME TypeOK, NEW kind, NEW k \in Keys,
           \A j \in 1 .. k : Value(docs[j]) = Committed(stored, j)
    PROVE  k \in QueryDocuments(kind = "data") <=> Shows(kind, k)
<1> DEFINE Matches(v) == v # Nil /\ (kind = "data" => IsJSON(v))
           S == {j \in Keys : docs[j].doc # Nil /\ (kind = "data" => docs[j].doc.data # Nil)}
           present == {j \in 1 .. k : Matches(Committed(stored, j))}
<1>1. \A j \in Keys : j <= k <=> j \in 1 .. k
  BY CouchAssumption, SMT DEF Keys
<1>2. 1 .. k \subseteq Keys /\ k \in 1 .. k /\ k <= k
  BY CouchAssumption, SMT DEF Keys
<1>3. \A j \in Keys : j \in S <=> Matches(Value(docs[j]))
  BY DocMatches, ZenonT(40) DEF TypeOK
<1> HIDE DEF S
<1>4. {j \in S : j <= k} = present
  <2>1. S \subseteq Keys
    BY DEF S
  <2> QED
    BY <1>1, <1>2, <1>3, <2>1
<1>5. k \in S <=> k \in present
  BY <1>2, <1>4
<1>6. QueryDocuments(kind = "data") = Listing(S)
  BY DEF QueryDocuments, S
<1>7. k \in Listing(S) <=> k \in S /\ Cardinality(present) <= QueryLimit
  BY <1>4 DEF Listing
<1>8. Shows(kind, k) <=> k \in present /\ Cardinality(present) <= QueryLimit
  BY DEF Shows
<1> QED
  BY <1>5, <1>6, <1>7, <1>8

\* A scan starts with the first rows that match in the committed state.
LEMMA NextScan ==
    ASSUME CouchInv, NEW kind \in {"all", "data"}, Scan(kind, QueryDocuments(kind = "data"))
    PROVE  CouchInv'
<1> DEFINE rows == QueryDocuments(kind = "data")
           got == [k \in {j \in rows : docs[j].doc.attachment = Nil} |->
                     removeDataWrapper(docs[k].doc)]
<1>0. TypeOK
  BY DEF CouchInv
<1>1. /\ committer.pc = "idle" /\ scan' = [kind |-> kind, rows |-> rows, got |-> got]
      /\ UNCHANGED <<docs, disk, late, th, committer, stored, astray>>
      /\ load' = [load EXCEPT !.scans = @ - 1]
  BY DEF Scan
<1>2. SameBatches
  BY <1>0, <1>1, LoadSteps
<1>3. scan'.kind = kind /\ scan'.rows = rows /\ scan'.got = got
  BY <1>1
<1>4. ASSUME Savepoint \notin astray, NEW k \in Keys \ astray PROVE ScanFollows(k)'
  <2>1. \A j \in Keys \ astray : Value(docs[j]) = Committed(stored, j)
    BY <1>0, <1>1, <1>4, IdleValues DEF CouchInv
  <2>2. rows \subseteq {j \in Keys : docs[j].doc # Nil}
    BY DEF QueryDocuments, Listing
  <2>3. k \in DOMAIN got => got[k] = Committed(stored, k)
    BY <1>0, <2>1, <2>2, DocMatches DEF TypeOK
  <2>4. 1 .. k \subseteq Keys
    BY CouchAssumption, SMT DEF Keys
  <2>5. 1 .. k \cap astray = {} => (k \in rows <=> Shows(kind, k))
    BY <1>0, <2>1, <2>4, RowsFacts
  <2> HIDE DEF rows, got
  <2>6. Shows(kind, k)' = Shows(kind, k) /\ Committed(stored, k)' = Committed(stored, k)
    BY <1>1, <1>2, ShowsSame, CommittedSame DEF SameBatches
  <2> QED
    BY <1>1, <1>3, <2>3, <2>5, <2>6 DEF ScanFollows
<1> HIDE DEF rows, got
<1>5. Savepoint \notin astray => Scanning'
  BY <1>1, <1>4 DEF Scanning
<1>6. scan' = [kind |-> scan'.kind, rows |-> scan'.rows, got |-> scan'.got]
  BY <1>1, <1>3
<1> QED
  BY <1>1, <1>2, <1>5, <1>6, ScanStep

\* A scan reads an attachment, or ends.
LEMMA NextRead ==
    ASSUME CouchInv, Read
    PROVE  CouchInv'
<1>0. TypeOK
  BY DEF CouchInv
<1>1. CASE GetStateRangeScanIterator
  <2>1. ReadDocRange = QueryDocuments(FALSE)
    BY DEF ReadDocRange, QueryDocuments
  <2>2. Scan("all", QueryDocuments("all" = "data"))
    <3>1. ("all" = "data") = FALSE
      OBVIOUS
    <3> QED
      BY <1>1, <2>1, <3>1 DEF GetStateRangeScanIterator
  <2> QED
    BY <2>2, NextScan
<1>2. CASE ExecuteQuery
  <2>1. ("all" = "data") = FALSE /\ ("data" = "data") = TRUE
    OBVIOUS
  <2>2. Scan("all", QueryDocuments("all" = "data")) \/ Scan("data", QueryDocuments("data" = "data"))
    BY <1>2, <2>1 DEF ExecuteQuery
  <2> QED
    BY <2>2, NextScan
<1>3. CASE EndScan
  <2>1. /\ scan' = Nil
        /\ UNCHANGED <<docs, disk, late, th, committer, stored, astray, load>>
    BY <1>3 DEF EndScan
  <2> QED
    BY <1>0, <2>1, LoadSteps, ScanStep DEF Scanning
<1>4. ASSUME NEW k \in Keys, ReadAttachment(k) PROVE CouchInv'
  <2> DEFINE got == [j \in DOMAIN scan.got \cup {k} |-> IF j = k THEN GetState(k) ELSE scan.got[j]]
  <2>1. /\ scan # Nil /\ scan' = [scan EXCEPT !.got = got]
        /\ UNCHANGED <<docs, disk, late, th, committer, stored, astray, load>>
    BY <1>4 DEF ReadAttachment
  <2>2. scan = [kind |-> scan.kind, rows |-> scan.rows, got |-> scan.got]
    BY <1>0, <2>1 DEF TypeOK
  <2>3. scan' = [kind |-> scan.kind, rows |-> scan.rows, got |-> got]
    BY <2>1, <2>2
  <2>4. scan'.kind = scan.kind /\ scan'.rows = scan.rows /\ scan'.got = got
    BY <2>3
  <2>5. SameBatches
    BY <1>0, <2>1, LoadSteps
  <2>6. ASSUME Savepoint \notin astray PROVE Scanning'
    <3>1. Fenced /\ committer.pc = "idle" /\ \A j \in Keys \ astray : ScanFollows(j)
      BY <2>1, <2>6 DEF CouchInv, Fenced, Scanning
    <3>2. k \notin astray => GetState(k) = Committed(stored, k)
      BY <1>0, <1>4, <3>1, IdleValues DEF GetState, ReadDoc, Value
    <3>3. ASSUME NEW j \in Keys \ astray PROVE ScanFollows(j)'
      <4>1. PICK kind : kind = scan.kind
        OBVIOUS
      <4>2. Shows(kind, j)' = Shows(kind, j) /\ Committed(stored, j)' = Committed(stored, j)
        BY <2>1, <2>5, ShowsSame, CommittedSame DEF SameBatches
      <4>3. j \in DOMAIN got => got[j] = Committed(stored, j)
        BY <3>1, <3>2, <3>3 DEF ScanFollows
      <4>4. 1 .. j \cap astray = {} => (j \in scan.rows <=> Shows(scan.kind, j))
        BY <3>1, <3>3 DEF ScanFollows
      <4> HIDE DEF got
      <4> QED
        BY <2>1, <2>4, <4>1, <4>2, <4>3, <4>4 DEF ScanFollows
    <3> HIDE DEF got
    <3> QED
      BY <2>1, <3>1, <3>3 DEF Scanning
  <2> HIDE DEF got
  <2> QED
    BY <2>1, <2>3, <2>4, <2>5, <2>6, ScanStep
<1> QED
  BY <1>1, <1>2, <1>3, <1>4 DEF Read

-----------------------------------------------------------------------------
(* The theorem. *)

\* CouchDB comes back with what was flushed, which covers the same blocks; the
\* writes that ended well and are lost go astray.
LEMMA NextCouchCrash ==
    ASSUME CouchInv, CouchCrash
    PROVE  CouchInv'
<1> USE DEF CouchInv
<1>0. /\ docs' = disk /\ late' = {} /\ astray' = astray \cup LostBeforeFlush
      /\ UNCHANGED <<disk, th, committer, stored, scan>>
  BY DEF CouchCrash
<1>1. SameBatches
  BY LoadSteps DEF CouchCrash
<1>2. TypeOK'
  BY <1>0, <1>1 DEF TypeOK, SameBatches, DocsOK
<1>3. ASSUME Savepoint \notin astray' PROVE Fenced'
  <2>1. Fenced /\ astray \subseteq astray'
    BY <1>0, <1>3
  <2>2. PICK f \in 0 .. stored : Level(f) /\ \A k \in Keys \ astray : Follows(k, f)
    BY <2>1 DEF Fenced
  <2>3. Level(f)'
    <3>1. Height(disk) \in Nat /\ Height(docs) \in Nat /\ f \in Nat
      BY HeightFacts, CouchAssumption, SMT DEF TypeOK
    <3>2. Height(disk) <= Height(disk) /\ Height(disk) <= f
      BY <2>2, <3>1, SMT DEF Level, Heights
    <3>3. Height(docs)' = Height(disk) /\ Height(disk)' = Height(disk)
      BY <1>0 DEF Height
    <3> QED
      BY <1>0, <2>2, <3>2, <3>3 DEF Level, At, Heights, SavepointLate
  <2>4. ASSUME NEW k \in Keys \ astray' PROVE Follows(k, f)'
    <3>0. k \in Keys /\ Follows(k, f)
      BY <2>1, <2>2
    <3>1. Covers(docs, k, f)' /\ Covers(disk, k, f)'
      BY <1>0, <1>1, <3>0, CoversSame DEF Follows, Covers
    <3>2. KeyLate(k, f)'
      BY <1>0 DEF KeyLate
    <3>3. KeyCalls(k)'
      <4>1. PICK n : n = committer.block
        OBVIOUS
      <4>2. committer.pc = "flush" /\ th[n][k].st = "done" => docs'[k] = docs[k] /\ Covers(docs, k, n)
        BY <1>0, <3>0, <4>1 DEF LostBeforeFlush, Follows, KeyCalls
      <4>3. committer.pc = "flush" /\ th[n][k].st = "done" => Covers(docs, k, n)'
        BY <1>0, <1>1, <4>2, CoversSame DEF Covers
      <4> QED
        BY <1>0, <3>0, <4>1, <4>3 DEF Follows, KeyCalls
    <3> QED
      BY <3>1, <3>2, <3>3 DEF Follows
  <2>5. SavepointCalls'
    BY <1>0, <2>1 DEF Fenced, SavepointCalls
  <2>6. Scanning'
    BY <1>0, <1>1, <2>1, ScanStays DEF Fenced, Scanning
  <2> QED
    BY <1>0, <2>2, <2>3, <2>4, <2>5, <2>6 DEF Fenced
<1> QED
  BY <1>2, <1>3

\* At the start there are no documents and no blocks.
LEMMA InitInv == Init => CouchInv
<1> SUFFICES ASSUME Init PROVE CouchInv
  OBVIOUS
<1>1. load \in Workload
  BY CouchAssumption DEF Init
<1>2. load.batch \in [Blocks -> Batch] /\ LoadOK
  BY <1>1 DEF Workload, LoadOK
<1>3. DocsOK(docs) /\ DocsOK(disk) /\ \A k \in DocKeys : docs[k].doc = Nil /\ disk[k].doc = Nil
  BY DEF Init, NoDocs, DocsOK, DocKeys
<1>4. /\ th \in [Blocks -> [DocKeys -> CallRecord]]
      /\ \A b \in Blocks, k \in DocKeys : th[b][k].st = "none"
  BY DEF Init, NoCalls, NoCall, CallRecord, DocKeys
<1>5. stored = 0 /\ stored \in 0 .. MaxBlocks
  BY CouchAssumption, SMT DEF Init
<1>6. TypeOK
  BY <1>2, <1>3, <1>4, <1>5 DEF Init, TypeOK, DocKeys
<1>7. SavepointCalls /\ Scanning /\ \A k \in Keys : KeyCalls(k)
  BY <1>4 DEF Init, SavepointCalls, KeyCalls, Scanning, DocKeys
<1>8. \A k \in Keys : Covers(docs, k, 0) /\ Covers(disk, k, 0)
  <2>1. 0 \in 0 .. stored
    BY <1>5, SMT
  <2>2. \A k \in Keys : Value(docs[k]) = Nil /\ Value(disk[k]) = Nil
    BY <1>3 DEF Value, DocKeys
  <2> QED
    BY <2>1, <2>2, CommittedNone DEF Covers
<1>9. Height(docs) = 0 /\ Height(disk) = 0
  BY <1>3 DEF Height, DocKeys
<1>10. Level(0)
  <2>1. 0 <= 0
    BY SMT
  <2> QED
    BY <1>9, <2>1 DEF Init, Level, At, Heights, SavepointLate
<1>11. \A k \in Keys : KeyLate(k, 0)
  BY DEF Init, KeyLate
<1>12. 0 \in 0 .. stored
  BY <1>5, SMT
<1> QED
  BY <1>6, <1>7, <1>8, <1>10, <1>11, <1>12 DEF CouchInv, Fenced, Follows

\* Every step keeps the invariant.
LEMMA NextInv == CouchInv /\ [Next]_vars => CouchInv'
<1> SUFFICES ASSUME CouchInv, [Next]_vars PROVE CouchInv'
  OBVIOUS
<1>0. TypeOK
  BY DEF CouchInv
<1>1. CASE AddBlock
  BY <1>1, NextAddBlock
<1>2. CASE Commit
  BY <1>2, NextStart, NextRecover, NextApply, NextFlush, NextInfo, NextSavepoint DEF Commit
<1>3. ASSUME NEW b \in Blocks, NEW k \in DocKeys, Call(b, k) PROVE CouchInv'
  BY <1>3, NextCall
<1>4. ASSUME NEW r \in late, Late(r) PROVE CouchInv'
  BY <1>4, NextLate
<1>5. CASE Read
  BY <1>5, NextRead
<1>6. CASE PeerCrash
  BY <1>0, <1>6, NextRestarts, LoadSteps DEF PeerCrash
<1>7. CASE CouchCrash
  BY <1>7, NextCouchCrash
<1>8. CASE UNCHANGED vars
  <2>1. UNCHANGED <<docs, disk, late, th, committer, stored, scan, astray, load>>
    BY <1>8 DEF vars
  <2>2. SameBatches
    BY <1>0, <2>1, LoadSteps
  <2>3. scan' = Nil \/ scan' = [kind |-> scan'.kind, rows |-> scan'.rows, got |-> scan'.got]
    BY <1>0, <2>1 DEF TypeOK
  <2>4. Savepoint \notin astray => Scanning'
    BY <2>1, <2>2, ScanStays DEF CouchInv, Fenced, Scanning
  <2> QED
    BY <2>1, <2>2, <2>3, <2>4, ScanStep
<1> QED
  BY <1>1, <1>2, <1>3, <1>4, <1>5, <1>6, <1>7, <1>8 DEF Next, DocKeys

\* The invariant says that CouchDB follows the ledger.
LEMMA InvFollows == CouchInv => StateFollowsLedger
<1> SUFFICES ASSUME CouchInv, Savepoint \notin astray, NEW k \in Keys \ astray
             PROVE  /\ committer.pc = "idle" => GetState(k) = Committed(stored, k)
                    /\ scan # Nil => ScanFollows(k)
                    /\ Covers(docs, k, Height(docs)) /\ Covers(disk, k, Height(disk))
  BY DEF StateFollowsLedger
<1>0. TypeOK /\ Fenced
  BY DEF CouchInv
<1>1. committer.pc = "idle" => GetState(k) = Committed(stored, k)
  BY <1>0, IdleValues DEF GetState, ReadDoc, Value
<1>2. scan # Nil => ScanFollows(k)
  BY <1>0 DEF Fenced, Scanning
<1>3. PICK f \in 0 .. stored : Level(f) /\ Follows(k, f)
  BY <1>0 DEF Fenced
<1>4. /\ Height(disk) \in Nat /\ Height(docs) \in Nat /\ f \in Nat /\ stored \in Nat
      /\ Height(docs) <= f /\ Height(disk) <= f
  BY <1>0, <1>3, HeightFacts, CouchAssumption, SMT DEF TypeOK, Level, Heights
<1>5. Covers(docs, k, Height(docs)) /\ Covers(disk, k, Height(disk))
  BY <1>3, <1>4, CoversBelow DEF Follows
<1> QED
  BY <1>1, <1>2, <1>5

\* The documents, the requests and the calls are always of their types.
THEOREM TypeCorrect == Spec => []TypeOK
<1>1. CouchInv => TypeOK
  BY DEF CouchInv
<1> QED
  BY <1>1, InitInv, NextInv, PTL DEF Spec

\* CouchDB follows the ledger in every key none of whose writes escaped the flush
\* of its block, whatever becomes of the other keys: over lost, delayed and
\* repeated requests, revision conflicts, crashes of the peer and of CouchDB at
\* any moment, that between the writes and the flush included, and the replay of
\* blocks (ApplyUpdates, CommitThread, recordSavepoint, recoverDBs).
THEOREM AlwaysStateFollowsLedger == Spec => []StateFollowsLedger
  BY InitInv, NextInv, InvFollows, PTL DEF Spec
=============================================================================
