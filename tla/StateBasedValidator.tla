------------------------ MODULE StateBasedValidator ------------------------
(***************************************************************************)
(* The state-based validator beyond the plain reads and writes of          *)
(* KVLedger.  A chaincode that writes __CAL_ADD:x or __CAL_MUL:x leaves    *)
(* the new value of x to be computed when the block is validated, and      *)
(* ##RCOUNT##x##RCOUNT## in a written value is replaced then by the        *)
(* current value of x.  A scan is recorded and validated as RangeQuery     *)
(* has it.  A transaction has one read-write set for each namespace it     *)
(* touched.  The validator keeps statistics of the transactions it sees.   *)
(* After a crash a stored block is replayed without validation.  A block   *)
(* whose validation or storing fails is offered again.                     *)
(*                                                                         *)
(* Source: txmgmt/validator/statebasedval/state_based_validator.go and     *)
(* combined_iterator.go.  Blocks are numbered from 1; int64 is cut to      *)
(* IntBits bits.                                                           *)
(***************************************************************************)
EXTENDS Integers, FiniteSets, TLC, RangeQuery

CONSTANTS Namespaces,   \* chaincode namespaces
          Keys,         \* keys in each of them, numbered from 1
          Text,         \* a value that is not a number, or an unresolved RCOUNT
          Workloads,    \* bound: [templates, txs, crashes, faults]: the transactions
                        \* there may be (their type, the committer's verdict on them
                        \* and <<[ns, reads, scans, writes], ...>>), how many of
                        \* them, and how many crashes and failed attempts
          IntBits,      \* bound: width of the integers
          MaxBlockTxs   \* bound: transactions in a block

VARIABLES
    pool,       \* simulated transactions that wait to be ordered
    offered,    \* size of the block at the head of pool whose commit failed, or 0
    blocks,     \* block store: sequence of [txs, flags]
    db,         \* state DB: <<ns, key>> -> [val, ver]
    statDb,     \* its statistics (namespace qscc): [cur, links]
    savepoint,  \* blocks applied to it
    batch,      \* txmgr.batch: the updates, and the statistics
    curBlockStatistics,  \* the global of that name, Nil when not read yet
    pc,         \* "idle", "added", "down", or "panic"
    load,       \* the workload
    simulated,  \* transactions simulated so far
    replayed,   \* (history) numbers of the blocks applied by a replay
    spare,      \* (history) failed attempts, <<[block, seen], ...>>, that the
                \* statistics in memory and in the state DB have counted
    crashes,
    faults

vars == <<pool, offered, blocks, db, statDb, savepoint, batch, curBlockStatistics, pc, load,
          simulated, replayed, spare, crashes, faults>>

Names == Namespaces \X Keys

-----------------------------------------------------------------------------
(* Values. *)

Absent == [val |-> Nil, ver |-> <<0, 0>>]

NoUpdates == [x \in Names |-> Nil]

\* Two's complement.
Wrap(i) == ((i + 2^(IntBits - 1)) % 2^IntBits) - 2^(IntBits - 1)

\* strconv.ParseInt, 0 on an error.
ParseInt(v) == IF v \in {Nil, Text} THEN 0 ELSE v

Calculate(op, value, param) ==
    CASE op = "ADD" -> value + param
      [] op = "MUL" -> value * param

IsCal(w) == w.op \in {"ADD", "MUL"}

\* GetLatestSavePoint of the state DB.
SavepointHeight == <<savepoint, Len(blocks[savepoint].txs)>>

-----------------------------------------------------------------------------
(* Validation of a transaction.  st is what is threaded through a block:   *)
(* updates and cals of the batch; and, of the transaction at hand, its     *)
(* flag and its plain writes with RCOUNT resolved.                         *)

\* Mutant: the aggregates already computed in this block are not looked up.
ExistingIgnoringCals(st, x) ==
    IF st.updates[x] # Nil THEN st.updates[x]
    ELSE IF db[x] # Absent THEN db[x] ELSE [val |-> 0, ver |-> SavepointHeight]

\* The value a calculation starts from: this block's aggregate, this block's
\* plain write, the committed value, or 0.
Existing(st, x) ==
    IF st.cals[x] # Nil THEN st.cals[x]
    ELSE IF st.updates[x] # Nil THEN st.updates[x]
    ELSE IF db[x] # Absent THEN db[x] ELSE [val |-> 0, ver |-> SavepointHeight]

\* A __CAL_ write: the result keeps the version of the value it started from.
CalWrite(st, ns, w) ==
    LET x == <<ns, w.key>>
        e == Existing(st, x)
        v == Wrap(Calculate(w.op, ParseInt(e.val), w.arg))
    IN  [st EXCEPT !.cals[x] = [val |-> v, ver |-> e.ver], !.updates[x] = Nil]

\* A value with ##RCOUNT##arg##RCOUNT##: plain writes of this block are not
\* consulted, and the value found becomes an aggregate of the block.
CountWrite(st, ns, w) ==
    LET x == <<ns, w.arg>>
        e == IF st.cals[x] # Nil THEN st.cals[x]
             ELSE IF db[x] # Absent THEN db[x] ELSE [val |-> 0, ver |-> SavepointHeight]
    IN  [st EXCEPT !.cals[x] = e,
                   !.puts = Append(@, [name |-> <<ns, w.key>>, val |-> ParseInt(e.val)])]

PlainWrite(st, ns, w) ==
    [st EXCEPT !.puts = Append(@, [name |-> <<ns, w.key>>,
                                   val  |-> IF w.op = "DEL" THEN Nil ELSE w.arg])]

\* calWriteSet: the calculations first, then the values of the other writes.
CalWriteSet(st, ns, writes) ==
    LET cal == FoldLeft(LAMBDA s, w : IF IsCal(w) THEN CalWrite(s, ns, w) ELSE s, st, writes)
    IN  FoldLeft(LAMBDA s, w : CASE w.op = "RCOUNT" -> CountWrite(s, ns, w)
                                 [] IsCal(w)        -> s
                                 [] OTHER           -> PlainWrite(s, ns, w),
                 cal, writes)

\* validateReadSet: aggregates of this block are not among the updates.
ValidateReadSet(st, rw) ==
    \A k \in DOMAIN rw.reads :
        /\ st.updates[<<rw.ns, k>>] = Nil
        /\ db[<<rw.ns, k>>].ver = rw.reads[k].ver

\* A set of numbers in ascending order.
Ascending(S) ==
    [i \in 1..Cardinality(S) |-> CHOOSE k \in S : Cardinality({l \in S : l < k}) = i - 1]

\* What a scan of the state DB finds between two keys, in order.
Found(ns, keys, vv(_)) ==
    LET ks == Ascending({k \in keys : vv(<<ns, k>>).val # Nil})
    IN  [i \in 1..Len(ks) |-> [key |-> ks[i], ver |-> vv(<<ns, ks[i]>>).ver]]

Between(start, end) == {k \in Keys : start <= k /\ k < end}

\* combinedIterator.Next: of two items for one key the one of the updates.
Combined(st, x) == IF st.updates[x] # Nil THEN st.updates[x] ELSE db[x]

\* Mutant: the last key seen is not served.
CombinedIteratorNoEndKey(st, ns, rq) ==
    Found(ns, Between(rq.start, rq.end), LAMBDA x : Combined(st, x))

\* The combined iterator of the scan run again: up to the last key seen when
\* the chaincode left it half way (serveEndKeyIfNeeded).
CombinedIterator(st, ns, rq) ==
    Found(ns, Between(rq.start, rq.end) \cup (IF rq.exhausted THEN {} ELSE {rq.end}),
          LAMBDA x : Combined(st, x))

FirstBad(verdicts) ==
    LET bad == SelectSeq(verdicts, LAMBDA v : v # "valid")
    IN  IF bad = << >> THEN "valid" ELSE bad[1]

\* validateRangeQueries: the verdict on the first scan that is not valid.
ValidateRangeQueries(st, rw) ==
    FirstBad([i \in 1..Len(rw.ranges) |->
                validate(rw.ranges[i], CombinedIterator(st, rw.ns, rw.ranges[i]))])

ValidateNs(st, rw, verdict) ==
    CASE verdict = "invalid" -> [st EXCEPT !.flag = "PHANTOM_READ_CONFLICT"]
      [] verdict = "panic"   -> [st EXCEPT !.flag = "PANIC"]
      [] OTHER               -> CalWriteSet(st, rw.ns, rw.writes)

\* validateTx: namespace after namespace; what an earlier one has put among
\* the aggregates stays there when a later one conflicts.
ValidateTx(st, t) ==
    FoldLeft(LAMBDA s, rw :
               CASE s.flag # "VALID" -> s
                 [] ~ValidateReadSet(s, rw) -> [s EXCEPT !.flag = "MVCC_READ_CONFLICT"]
                 [] OTHER -> ValidateNs(s, rw, ValidateRangeQueries(s, rw)),
             [st EXCEPT !.flag = "VALID", !.puts = << >>], t.rws)

\* addWriteSetToBatch.
AddWriteSetToBatch(st, height) ==
    [st EXCEPT !.updates =
        FoldLeft(LAMBDA u, p : [u EXCEPT ![p.name] = [val |-> p.val, ver |-> height]],
                 @, st.puts)]

-----------------------------------------------------------------------------
(* Validation of a block. *)

NewBatch(stats) == [updates |-> NoUpdates, cals |-> NoUpdates, puts |-> << >>,
                    flag |-> "VALID", flags |-> << >>, stats |-> stats, links |-> {}]

\* The statistics a validator starts from: the global, read from the state DB
\* the first time.
Statistics == IF curBlockStatistics = Nil THEN statDb.cur ELSE curBlockStatistics

\* The classes a transaction is counted in, as calStatistics lists them: all,
\* its flag, its chaincode, its chaincode and flag.  A chaincode stands for a
\* chaincode and a function of it.
StatKeys(t, flag) ==
    LET cc == t.rws[1].ns IN <<<<Nil, Nil>>, <<Nil, flag>>, <<cc, Nil>>, <<cc, flag>>>>

\* Mutant: the link of a transaction is to itself.
calStatistics1OwnLink(st, id, key) ==
    IF key \in DOMAIN st.stats
    THEN [st EXCEPT !.stats[key] = [sum |-> @.sum + 1, pre |-> id],
                    !.links = @ \cup {[tx |-> id, key |-> key, pre |-> id]}]
    ELSE [st EXCEPT !.stats = (key :> [sum |-> 1, pre |-> id]) @@ @]

\* One more of class key: the transaction is linked to the one before it.
calStatistics1(st, id, key) ==
    IF key \in DOMAIN st.stats
    THEN [st EXCEPT !.stats[key] = [sum |-> @.sum + 1, pre |-> id],
                    !.links = @ \cup {[tx |-> id, key |-> key, pre |-> st.stats[key].pre]}]
    ELSE [st EXCEPT !.stats = (key :> [sum |-> 1, pre |-> id]) @@ @]

calStatistics(st, t, flag) ==
    FoldLeft(LAMBDA s, key : calStatistics1(s, t.id, key), st, StatKeys(t, flag))

\* moveCalsToUpdate: a plain write that came after the aggregate stands.
MoveCalsToUpdate(st) ==
    [x \in Names |-> IF st.updates[x] = Nil THEN st.cals[x] ELSE st.updates[x]]

\* What validateTx has found of transaction t goes into the batch.
AddTx(st, t, n) ==
    LET w == IF st.flag = "VALID" THEN AddWriteSetToBatch(st, <<n, Len(st.flags) + 1>>) ELSE st
    IN  calStatistics([w EXCEPT !.flags = Append(@, st.flag)], t, st.flag)

\* A transaction the committer has refused, or that no endorser signed, keeps
\* its flag: it is neither validated nor counted.
Skipped(t) == t.verdict # "VALID" \/ t.type # "ENDORSER_TRANSACTION"

\* ValidateAndPrepareBatch(block, true).
ValidateBlock(txs, n) ==
    FoldLeft(LAMBDA st, t : IF Skipped(t) THEN [st EXCEPT !.flags = Append(@, t.verdict)]
                            ELSE AddTx(ValidateTx(st, t), t, n),
             NewBatch(Statistics), txs)

\* The writes of a transaction as the block has them: calculations are left
\* out, RCOUNT is text.
StoredPuts(t) ==
    FoldLeft(LAMBDA ps, rw :
               ps \o FoldLeft(LAMBDA qs, w :
                                IF IsCal(w) THEN qs
                                ELSE Append(qs, [name |-> <<rw.ns, w.key>>,
                                                 val  |-> CASE w.op = "DEL"    -> Nil
                                                            [] w.op = "RCOUNT" -> Text
                                                            [] OTHER           -> w.arg]),
                              << >>, rw.writes),
             << >>, t.rws)

\* A valid transaction of a block that is replayed.
ReplayTx(st, b, n, i) ==
    calStatistics(AddWriteSetToBatch([st EXCEPT !.puts = StoredPuts(b.txs[i])], <<n, i>>),
                  b.txs[i], "VALID")

\* ValidateAndPrepareBatch(block, false): validateTx is not called, and what
\* the stored flags rule out is skipped.
ReplayBlock(b, n) ==
    LET step(st, i) == IF b.flags[i] # "VALID" \/ Skipped(b.txs[i]) THEN st
                       ELSE ReplayTx(st, b, n, i)
    IN  FoldLeft(step, NewBatch(Statistics), [i \in 1..Len(b.txs) |-> i])

ApplyUpdates(d, u) ==
    [x \in Names |-> IF u[x] = Nil THEN d[x]
                     ELSE IF u[x].val = Nil THEN Absent ELSE u[x]]

\* What a validated or replayed block leaves in txmgr.batch.
Batch(st) == [updates |-> MoveCalsToUpdate(st), stats |-> st.stats, links |-> st.links]

ApplyStatistics(d, b) == [cur |-> b.stats, links |-> d.links \cup b.links]

-----------------------------------------------------------------------------
(* The peer. *)

Init ==
    /\ pool = << >> /\ offered = 0
    /\ blocks = <<[txs |-> << >>, flags |-> << >>]>>
    /\ db = [x \in Names |-> Absent]
    /\ statDb = [cur |-> << >>, links |-> {}]
    /\ savepoint = 1 /\ batch = Nil /\ pc = "idle"
    /\ curBlockStatistics = Nil
    /\ load \in Workloads
    /\ simulated = 0 /\ crashes = 0 /\ faults = 0
    /\ replayed = {} /\ spare = [mem |-> << >>, disk |-> << >>]

\* The answers to sc.take calls of Next on a scan.
NextResults(ns, sc) ==
    LET all == Found(ns, Between(sc.start, sc.end), LAMBDA x : db[x])
    IN  IF sc.take > Len(all) THEN Append(all, Nil) ELSE SubSeq(all, 1, sc.take)

\* A scan as it is recorded; vals (history) is what the chaincode was handed.
Scan(ns, sc) ==
    LET rs == NextResults(ns, sc)
        q  == RangeQueryInfo(sc.start, sc.end, rs)
        n  == IF q.exhausted THEN Len(rs) - 1 ELSE Len(rs)
    IN  [start |-> q.start, end |-> q.end, exhausted |-> q.exhausted, raw |-> q.raw,
         merkle |-> q.merkle,
         seen |-> [i \in 1..n |-> [key |-> rs[i].key, ver |-> rs[i].ver,
                                   val |-> db[<<ns, rs[i].key>>].val]]]

\* AddToRangeQuerySet: the first of two scans over the same keys is kept.
AddToRangeQuerySet(rqs, q) ==
    IF \E r \in Range(rqs) : r.start = q.start /\ r.end = q.end /\ r.exhausted = q.exhausted
    THEN rqs ELSE Append(rqs, q)

\* A chaincode runs against the committed state; reads record what it saw.  The
\* verdict is the one the committer's validator will reach.
Simulate(tpl) ==
    /\ pc = "idle" /\ simulated < load.txs
    /\ simulated' = simulated + 1
    /\ pool' = Append(pool,
         [id |-> simulated + 1, type |-> tpl.type, verdict |-> tpl.verdict,
          rws |-> [i \in 1..Len(tpl.rws) |->
                  LET rw == tpl.rws[i]
                  IN  [ns     |-> rw.ns,
                       reads  |-> [k \in rw.reads |-> db[<<rw.ns, k>>]],
                       ranges |-> FoldLeft(LAMBDA rqs, sc : AddToRangeQuerySet(rqs, Scan(rw.ns, sc)),
                                           << >>, rw.scans),
                       writes |-> rw.writes]]])
    /\ UNCHANGED <<offered, blocks, db, statDb, savepoint, batch, curBlockStatistics, pc, load,
                   replayed, spare, crashes, faults>>

\* AddBlock, after a validation that ended in st.  An index out of range in
\* the validation ends the peer before it.
AddBlock(txs, st) ==
    IF "PANIC" \in Range(st.flags)
    THEN /\ pc' = "panic"
         /\ UNCHANGED <<blocks, batch, curBlockStatistics>>
    ELSE /\ blocks' = Append(blocks, [txs |-> txs, flags |-> st.flags])
         /\ batch' = Batch(st)
         /\ curBlockStatistics' = st.stats
         /\ pc' = "added"

\* kvLedger.Commit up to AddBlock, for a block of the first m transactions.
\* A block that was offered before is offered as it was.
ValidateAndAdd(m) ==
    /\ pc = "idle" /\ offered \in {0, m}
    /\ AddBlock(SubSeq(pool, 1, m), ValidateBlock(SubSeq(pool, 1, m), Len(blocks) + 1))
    /\ IF pc' = "panic" THEN UNCHANGED <<pool, offered>>
       ELSE pool' = SubSeq(pool, m + 1, Len(pool)) /\ offered' = 0
    /\ UNCHANGED <<db, statDb, savepoint, load, simulated, replayed, spare, crashes, faults>>

\* kvLedger.Commit returns an error: AddBlock fails (j = m), or the state DB does while
\* transaction j + 1 is validated.  The j transactions before it have been counted in the
\* global by then.
CommitFails(m, j) ==
    /\ pc = "idle" /\ offered \in {0, m} /\ faults < load.faults
    /\ j < m => ~Skipped(pool[j + 1])
    /\ LET st   == ValidateBlock(SubSeq(pool, 1, j), Len(blocks) + 1)
           seen == SelectSeq([i \in 1..j |-> [tx |-> pool[i], flag |-> st.flags[i]]],
                             LAMBDA e : ~Skipped(e.tx))
       IN  /\ "PANIC" \notin Range(st.flags)
           /\ curBlockStatistics' = st.stats
           /\ batch' = IF j = m THEN Batch(st) ELSE batch
           /\ spare' = [spare EXCEPT !.mem = Append(@, [block |-> Len(blocks) + 1, seen |-> seen])]
    /\ offered' = m
    /\ faults' = faults + 1
    /\ UNCHANGED <<pool, blocks, db, statDb, savepoint, pc, load, simulated, replayed, crashes>>

CommitState ==
    /\ pc = "added"
    /\ db' = ApplyUpdates(db, batch.updates)
    /\ statDb' = ApplyStatistics(statDb, batch)
    /\ savepoint' = Len(blocks)
    /\ spare' = [spare EXCEPT !.disk = spare.mem]
    /\ batch' = Nil
    /\ pc' = "idle"
    /\ UNCHANGED <<pool, offered, blocks, curBlockStatistics, load, simulated, replayed, crashes,
                   faults>>

Crash ==
    /\ pc \in {"idle", "added"} /\ crashes < load.crashes
    /\ crashes' = crashes + 1
    /\ batch' = Nil /\ curBlockStatistics' = Nil
    /\ spare' = [spare EXCEPT !.mem = spare.disk]
    /\ pc' = "down"
    /\ UNCHANGED <<pool, offered, blocks, db, statDb, savepoint, load, simulated, replayed, faults>>

\* newKVLedger and recoverDBs; at most the last block is missing.
Restart ==
    /\ pc = "down"
    /\ IF savepoint = Len(blocks) THEN UNCHANGED <<db, statDb, curBlockStatistics, replayed>>
       ELSE LET b == Batch(ReplayBlock(blocks[Len(blocks)], Len(blocks)))
            IN  /\ db' = ApplyUpdates(db, b.updates)
                /\ statDb' = ApplyStatistics(statDb, b)
                /\ curBlockStatistics' = b.stats
                /\ replayed' = replayed \cup {Len(blocks)}
    /\ savepoint' = Len(blocks)
    /\ pc' = "idle"
    /\ UNCHANGED <<pool, offered, blocks, batch, load, simulated, spare, crashes, faults>>

Next ==
    \/ \E tpl \in load.templates : Simulate(tpl)
    \/ \E m \in 1..MaxBlockTxs :
          m <= Len(pool) /\ (ValidateAndAdd(m) \/ \E j \in 0..m : CommitFails(m, j))
    \/ CommitState \/ Crash \/ Restart

Spec == Init /\ [][Next]_vars

-----------------------------------------------------------------------------
(* The reference: valid transactions execute one after the other, on exact *)
(* integers.                                                               *)

ExecNs(s, rw) ==
    LET cal == FoldLeft(LAMBDA r, w :
                          IF IsCal(w)
                          THEN [r EXCEPT ![<<rw.ns, w.key>>] =
                                   Calculate(w.op, ParseInt(@), w.arg)]
                          ELSE r, s, rw.writes)
    IN  FoldLeft(LAMBDA r, w :
                   CASE w.op = "PUT"    -> [r EXCEPT ![<<rw.ns, w.key>>] = w.arg]
                     [] w.op = "DEL"    -> [r EXCEPT ![<<rw.ns, w.key>>] = Nil]
                     [] w.op = "RCOUNT" -> [r EXCEPT ![<<rw.ns, w.key>>] =
                                               ParseInt(cal[<<rw.ns, w.arg>>])]
                     [] OTHER           -> r,
                 cal, rw.writes)

ExecTx(s, t) == FoldLeft(ExecNs, s, t.rws)

\* The valid transactions of the first n blocks, in order.
ValidTxs(n) ==
    FoldLeft(LAMBDA ts, b :
               ts \o [j \in 1..Len(SelectSeq(b.flags, LAMBDA f : f = "VALID")) |->
                        b.txs[Ascending({i \in 1..Len(b.txs) : b.flags[i] = "VALID"})[j]]],
             << >>, SubSeq(blocks, 1, n))

SerialStateOf(ts) == FoldLeft(ExecTx, [x \in Names |-> Nil], ts)

Same(v, w) == IF w \in {Nil, Text} THEN v = w ELSE v = Wrap(w)

\* Position <<n, i>> of the chain comes before position p.
Before(n, i, p) == n < p[1] \/ (n = p[1] /\ i < p[2])

\* The positions of the applied blocks.
Positions == UNION {{n} \X (1..Len(blocks[n].txs)) : n \in 1..Len(blocks)}

FlagAt(p) == blocks[p[1]].flags[p[2]]
TxAt(p) == blocks[p[1]].txs[p[2]]

\* The plain writes of name x in a transaction.
WritesOf(t, x) ==
    {w \in UNION {{<<i, j>> : j \in 1..Len(t.rws[i].writes)} : i \in 1..Len(t.rws)} :
        t.rws[w[1]].ns = x[1] /\ t.rws[w[1]].writes[w[2]].key = x[2]}

\* What name x holds for the transaction at p: the version of the last valid
\* write before it, Nil if that was a deletion.
VersionBefore(p, x) ==
    LET ws   == {q \in Positions : /\ Before(q[1], q[2], p) /\ FlagAt(q) = "VALID"
                                  /\ WritesOf(TxAt(q), x) # {}}
        last == CHOOSE q \in ws : \A r \in ws : ~Before(q[1], q[2], r)
        w    == CHOOSE u \in WritesOf(TxAt(last), x) : TRUE
    IN  IF ws = {} \/ TxAt(last).rws[w[1]].writes[w[2]].op = "DEL" THEN Nil ELSE last

\* The keys a recorded scan covers.
Covered(rq) == Between(rq.start, rq.end) \cup (IF rq.exhausted THEN {} ELSE {rq.end})

\* The state DB is what the valid transactions give when they execute one
\* after the other, aggregates of one block included: no increment of a
\* preceding transaction is lost, and a wrap-around is the one of int64
\* (calWriteSet, moveCalsToUpdate, addWriteSetToBatch).
SerialState ==
    LET s == SerialStateOf(ValidTxs(savepoint))
    IN  \A x \in Names : Same(db[x].val, s[x])

\* What a valid transaction read, key by key or in a scan whose results were
\* recorded or hashed, is what the valid transactions before it, of earlier
\* blocks and of its own, have left (validateReadSet, validateRangeQuery).
ReadsAreCurrent ==
    LET ts == ValidTxs(Len(blocks))
    IN  \A i \in 1..Len(ts) :
          LET s == SerialStateOf(SubSeq(ts, 1, i - 1))
          IN  \A rw \in Range(ts[i].rws) :
                /\ \A k \in DOMAIN rw.reads : Same(rw.reads[k].val, s[<<rw.ns, k>>])
                /\ \A rq \in Range(rw.ranges) :
                     LET ks == Ascending({k \in Covered(rq) : s[<<rw.ns, k>>] # Nil})
                     IN  /\ Len(ks) = Len(rq.seen)
                         /\ \A j \in 1..Len(ks) : /\ rq.seen[j].key = ks[j]
                                                  /\ Same(rq.seen[j].val, s[<<rw.ns, ks[j]>>])

\* A transaction is refused for a key only when that key has another version
\* now, or a valid transaction of the block before it wrote it: an invalid one
\* fails nobody (validateKVRead).  It is refused as a phantom read only when one
\* of its scans would now return other keys or versions: neither the Merkle
\* summary nor a scan left half way makes a conflict of an unchanged range
\* (validateRangeQuery, rangeQueryHashValidator.validate, updateRangeQueryInfo).
ConflictsAreReal ==
    \A p \in Positions :
      /\ FlagAt(p) = "MVCC_READ_CONFLICT" =>
           \E rw \in Range(TxAt(p).rws) : \E k \in DOMAIN rw.reads :
             \/ rw.reads[k].ver # VersionBefore(p, <<rw.ns, k>>)
             \/ \E i \in 1..(p[2] - 1) : /\ FlagAt(<<p[1], i>>) = "VALID"
                                        /\ WritesOf(TxAt(<<p[1], i>>), <<rw.ns, k>>) # {}
      /\ FlagAt(p) = "PHANTOM_READ_CONFLICT" =>
           \E rw \in Range(TxAt(p).rws) : \E rq \in Range(rw.ranges) :
             LET now == {[key |-> k, ver |-> VersionBefore(p, <<rw.ns, k>>)] :
                           k \in {l \in Covered(rq) : VersionBefore(p, <<rw.ns, l>>) # Nil}}
             IN  now # {[key |-> r.key, ver |-> r.ver] : r \in Range(rq.seen)}

\* What the statistics in the state DB have counted, in order: for each block the attempts
\* at it that failed, and its own transactions; of a replayed block the valid ones.
CountedIn(n) ==
    LET tries == SelectSeq(spare.disk, LAMBDA a : a.block = n)
        own   == [i \in 1..Len(blocks[n].txs) |->
                    [tx |-> blocks[n].txs[i], flag |-> blocks[n].flags[i], own |-> TRUE]]
        tried == FoldLeft(LAMBDA es, a : es \o a.seen, << >>, tries)
    IN  [i \in 1..Len(tried) |-> [tx |-> tried[i].tx, flag |-> tried[i].flag, own |-> FALSE]]
        \o SelectSeq(own, LAMBDA e : ~Skipped(e.tx) /\ (n \in replayed => e.flag = "VALID"))

Counted ==
    FoldLeft(LAMBDA es, n : es \o CountedIn(n), << >>, [n \in 1..savepoint |-> n])

\* The statistics in the state DB count each transaction an endorser signed and the
\* committer let pass once in each of its classes, and once more for each attempt at its
\* block that failed after it, unless a crash took that attempt's count away; a replayed
\* block counts its valid transactions only.  The link of a transaction in a class is to the
\* one counted before it (calStatistics1, the global curBlockStatistics, which an error of
\* kvLedger.Commit leaves advanced, and its reload after a restart).
StatisticsMatchChain ==
    LET all == Counted
        of  == [key \in UNION {Range(StatKeys(e.tx, e.flag)) : e \in Range(all)} |->
                  SelectSeq(all, LAMBDA e : key \in Range(StatKeys(e.tx, e.flag)))]
    IN  /\ DOMAIN statDb.cur = DOMAIN of
        /\ \A key \in DOMAIN of :
             /\ statDb.cur[key].sum = Len(of[key])
             /\ statDb.cur[key].pre = Last(of[key]).tx.id
        /\ statDb.links =
             UNION {{[tx |-> of[key][i].tx.id, key |-> key, pre |-> of[key][i - 1].tx.id] :
                       i \in {k \in 2..Len(of[key]) : of[key][k].own}} : key \in DOMAIN of}
=============================================================================
