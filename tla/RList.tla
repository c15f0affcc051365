------------------------------- MODULE RList -------------------------------
(***************************************************************************)
(* The "RList" of the state database: an ordered list of ids kept as a     *)
(* tree of buckets in the key-value state, each bucket under its own key   *)
(* and, for every id, the bucket that holds it (core/ledger/kvledger/      *)
(* txmgmt/statedb/rlist.go).  The validator writes it while it validates a *)
(* block (calWriteSet, moveCalsToUpdate) through one object graph that it  *)
(* caches for some seconds; simulations read it through a graph of their   *)
(* own, loaded from the committed state.                                   *)
(*                                                                         *)
(* rList is the object graph: o the bucket objects in order of creation    *)
(* (several may stand for one bucket: a child is created when its parent   *)
(* is loaded, and again when an id leads to its bucket), map the code's    *)
(* mapRList, put and stub the pending writes of its putStub (the bucket of *)
(* an id; the data of a bucket).  Object 1 is the root, bucket 0.          *)
(*                                                                         *)
(* BucketList and IdList are slices of arrays in heap, as in Go: a split   *)
(* leaves two slices of one array, and an append to the first writes into  *)
(* the second.  harm (history) says what has happened to a graph that its  *)
(* callers do not expect:                                                  *)
(*   "shared"     an append wrote into the slice of another bucket;        *)
(*   "rewritten"  an id of the committed list, removed in this block, was  *)
(*                written again: IndexOf took its old bucket;              *)
(*   "relisted"   a leaf three or more levels down gave up its ids:        *)
(*                IndexOf took the leaf, already taken out of the list;    *)
(*   "retried"    the graph has the writes of a block whose commit failed; *)
(*   "panic"      an index was out of range, which ends the peer.          *)
(***************************************************************************)
EXTENDS Integers, Sequences, FiniteSets, SequencesExt

CONSTANTS
    Workloads,  \* what a run starts from: records [num, fill, ids, at, writes,
                \* faults], the ids and positions that writes may name and how
                \* many writes, failures and crashes there may be
    Nil

ASSUME RListAssumption ==
    \A w \in Workloads :
        w.num \in Nat \ {0} /\ w.fill \in Nat /\ w.writes \in Nat /\ w.faults \in Nat

VARIABLES
    BUCKET_NUM, \* the target size of a bucket (a package variable)
    db,         \* the committed state: the buckets, and the bucket of each id
    rList,      \* the cached object graph, Nil when rListCache has none
    touched,    \* whether the block being validated has written the list
    batch,      \* what the validated block writes into db, Nil when there is none
    list,       \* the list a caller of Add, AddByIndex and Remove expects
    saved,      \* that list at the last commit
    harm,       \* (history) the harms of the graphs that were committed
    todo        \* what remains of the workload

vars == <<BUCKET_NUM, db, rList, touched, batch, list, saved, harm, todo>>

Root == 1
SplitAt == (BUCKET_NUM * 15) \div 10
HalfAt == (BUCKET_NUM * 5) \div 10

-----------------------------------------------------------------------------
(* Slices: len items of array a after the first off.                       *)

NoSlice == [a |-> 0, off |-> 0, len |-> 0]

Items(L, s) == [i \in 1 .. s.len |-> L.heap[s.a][s.off + i]]
BucketList(L, x) == Items(L, L.o[x].buckets)
IdList(L, x) == Items(L, L.o[x].ids)

Harmed(L, reason) == [L EXCEPT !.harm = @ \cup {reason}]

\* s[i:j].
Cut(s, i, j) == [s EXCEPT !.off = @ + i, !.len = j - i]

\* The capacity append gives n items when cap is too small: double, in the size
\* classes of 8-byte pointers and of 16-byte strings.
growslice(f, cap, n) ==
    LET c == IF n > 2 * cap THEN n ELSE 2 * cap
    IN IF f = "ids" \/ c <= 2 THEN c ELSE c + (c % 2)

\* Slice f of object x in a new array.
NewArray(L, x, f, items, cap) ==
    [L EXCEPT !.heap = Append(@, items \o [i \in 1 .. (cap - Len(items)) |-> 0]),
              !.o[x][f] = [a |-> Len(L.heap) + 1, off |-> 0, len |-> Len(items)]]

\* A slice made by appending parts to an empty one.
Rebuild(L, x, f, parts) ==
    LET items == FlattenSeq(parts)
        grow(s, p) == LET n == s.len + Len(p)
                      IN [len |-> n, cap |-> IF n <= s.cap THEN s.cap ELSE growslice(f, s.cap, n)]
        cap == FoldLeft(grow, [len |-> 0, cap |-> 0], parts).cap
    IN NewArray(L, x, f, items, cap)

Covers(s, a, i) == s.a = a /\ s.off < i /\ i <= s.off + s.len

\* append of one item to slice f of x: in place when the array has room.
AppendItem(L, x, f, v) ==
    LET s    == L.o[x][f]
        i    == s.off + s.len + 1
        room == s.a # 0 /\ i <= Len(L.heap[s.a])
        hit  == /\ L.heap[s.a][i] # v
                /\ \E y \in 1 .. Len(L.o) : Covers(L.o[y][f], s.a, i)
        M    == [L EXCEPT !.heap[s.a][i] = v, !.o[x][f].len = @ + 1]
        cap  == IF s.a = 0 THEN 0 ELSE Len(L.heap[s.a]) - s.off
    IN IF room THEN [M EXCEPT !.harm = IF hit THEN @ \cup {"shared"} ELSE @]
       ELSE NewArray(L, x, f, Append(Items(L, s), v), growslice(f, cap, s.len + 1))

\* Item v inserted at position k, which is appended when k is past the end.
InsertItem(L, x, f, k, v) ==
    LET q == Items(L, L.o[x][f])
    IN IF k > Len(q) THEN AppendItem(L, x, f, v)
       ELSE Rebuild(L, x, f, <<SubSeq(q, 1, k - 1), <<v>>, SubSeq(q, k, Len(q))>>)

\* The first item is cut off, another one is left out of a copy.
RemoveItem(L, x, f, k) ==
    LET q == Items(L, L.o[x][f])
    IN IF q = <<>> THEN Harmed(L, "panic")
       ELSE IF k = 1 THEN [L EXCEPT !.o[x][f] = Cut(@, 1, @.len)]
       ELSE Rebuild(L, x, f, <<SubSeq(q, 1, k - 1), SubSeq(q, k + 1, Len(q))>>)

-----------------------------------------------------------------------------
(* Objects.                                                                *)

\* A bucket object as the code allocates it.
Bucket(b) ==
    [bucket |-> b, seq |-> 0, parent |-> 0, buckets |-> NoSlice, ids |-> NoSlice,
     size |-> 0, isLoad |-> FALSE, needSave |-> FALSE, needDelete |-> FALSE]

With(f, k, v) == [j \in DOMAIN f \cup {k} |-> IF j = k THEN v ELSE f[j]]

Allocate(L, obj) ==
    [L EXCEPT !.o = Append(@, obj), !.map = With(@, obj.bucket, Len(L.o) + 1)]

newBucket(L) ==
    LET n == L.o[Root].seq + 1
    IN Allocate([L EXCEPT !.o[Root].seq = n],
                [Bucket(n) EXCEPT !.seq = n, !.needSave = TRUE])

newRListByBucketId(L, b) == IF b \in DOMAIN L.map THEN L ELSE Allocate(L, Bucket(b))

-----------------------------------------------------------------------------
(* Reading a bucket, and the fields that are kept up to the root.          *)

RECURSIVE load(_, _)

\* A bucket by its id, loaded.
loadBucket(L, b) == LET M == newRListByBucketId(L, b) IN load(M, M.map[b])

\* Object x with the data d of its bucket, and an object for each child.
Loaded(L, x, d) ==
    LET children == [k \in 1 .. Len(d.buckets) |->
                       [Bucket(d.buckets[k].bucket) EXCEPT
                          !.parent = x, !.size = d.buckets[k].size]]
        obj == [L.o[x] EXCEPT
                  !.seq = d.seq, !.size = d.size,
                  !.parent = IF d.parent = Nil THEN @ ELSE L.map[d.parent],
                  !.isLoad = TRUE, !.needSave = FALSE]
        M == [L EXCEPT !.o = [L.o EXCEPT ![x] = obj] \o children,
                       !.map = With(@, obj.bucket, x)]
    IN Rebuild(Rebuild(M, x, "buckets", [k \in 1 .. Len(children) |-> <<Len(L.o) + k>>]),
               x, "ids", [k \in 1 .. Len(d.ids) |-> <<d.ids[k]>>])

load(L, x) ==
    LET b == L.o[x].bucket
    IN IF L.o[x].isLoad THEN L
       ELSE IF b \notin DOMAIN db.bucket THEN [L EXCEPT !.o[x].isLoad = TRUE]
       ELSE LET d == db.bucket[b]
            IN Loaded(IF d.parent = Nil THEN L ELSE loadBucket(L, d.parent), x, d)

RECURSIVE addSize(_, _, _)
addSize(L, x, num) ==
    IF x = 0 THEN L
    ELSE addSize([L EXCEPT !.o[x].size = @ + num], L.o[x].parent, num)

SizeBefore(L, x, k) ==
    FoldLeft(LAMBDA n, v : n + L.o[v].size, 0, SubSeq(BucketList(L, x), 1, k - 1))

RECURSIVE setSize(_, _)
setSize(L, x) ==
    LET n == L.o[x].buckets.len
        M == IF n > 0 THEN [L EXCEPT !.o[x].size = SizeBefore(L, x, n + 1)] ELSE L
    IN IF L.o[x].parent = 0 THEN M ELSE setSize(M, L.o[x].parent)

RECURSIVE setNeedSave(_, _)
setNeedSave(L, x) ==
    IF x = 0 THEN L
    ELSE setNeedSave([L EXCEPT !.o[x].needSave = TRUE], L.o[x].parent)

\* The position of a bucket among its parent's, by its id; the first one's
\* when the parent does not list it.
bucketIndex(L, p, x) ==
    LET at == {k \in 1 .. L.o[p].buckets.len :
                  L.o[BucketList(L, p)[k]].bucket = L.o[x].bucket}
    IN IF at = {} THEN 1 ELSE CHOOSE k \in at : \A j \in at : k <= j

\* The child that holds position i, 0 when the sizes name none.
ChildAt(L, x, i) ==
    LET at == {k \in 1 .. L.o[x].buckets.len : SizeBefore(L, x, k + 1) > i}
    IN IF at = {} THEN 0 ELSE CHOOSE k \in at : \A j \in at : k <= j

\* Mutant: the new bucket goes before the one it was split from.
addBucketBefore(L, p, k, b) ==
    setNeedSave([InsertItem(L, p, "buckets", IF k > 1 THEN k - 1 ELSE 1, b) EXCEPT
                   !.o[b].parent = p], b)

addBucket(L, p, k, b) ==
    setNeedSave([InsertItem(L, p, "buckets", k, b) EXCEPT !.o[b].parent = p], b)

RemoveBucket(L, p, x) == RemoveItem(L, p, "buckets", bucketIndex(L, p, x))

-----------------------------------------------------------------------------
(* Positions are counted from 0, as in the code.                           *)

RECURSIVE getIndex(_, _)
getIndex(L, x) ==
    LET p == L.o[x].parent
        before == {k \in 1 .. L.o[p].buckets.len :
                     L.o[BucketList(L, p)[k]].bucket = L.o[x].bucket}
    IN IF p = 0 THEN 0
       ELSE getIndex(L, p)
            + SizeBefore(L, p, IF before = {} THEN L.o[p].buckets.len + 1
                               ELSE bucketIndex(L, p, x))

\* The bucket an id is in: the pending write, else (also after a pending
\* deletion) the committed one.
BucketOf(L, id) ==
    IF id \in DOMAIN L.put /\ L.put[id] # Nil THEN L.put[id]
    ELSE IF id \in DOMAIN db.ids THEN db.ids[id] ELSE Nil

PositionIn(L, x, id) ==
    LET in == {k \in 1 .. L.o[x].ids.len : IdList(L, x)[k] = id}
    IN getIndex(L, x) + IF in = {} THEN L.o[x].ids.len
                        ELSE (CHOOSE k \in in : \A j \in in : k <= j) - 1

\* IndexOf: the graph after the loads it makes, and the position.
IndexOf(L, id) ==
    LET b == BucketOf(L, id)
        found(M) == [L |-> M, num |-> PositionIn(M, M.map[b], id)]
    IN IF b = Nil THEN [L |-> L, num |-> -1] ELSE found(loadBucket(L, b))

RECURSIVE GetIdByIndex(_, _, _)

IdAt(L, x, i) ==
    LET k == ChildAt(L, x, i)
    IN IF i < 0 \/ i >= L.o[x].size THEN Nil
       ELSE IF L.o[x].buckets.len = 0
            THEN IF i >= L.o[x].ids.len THEN Nil ELSE IdList(L, x)[i + 1]
       ELSE IF k = 0 THEN Nil
       ELSE GetIdByIndex(L, BucketList(L, x)[k], i - SizeBefore(L, x, k))

GetIdByIndex(L, x, i) == IdAt(load(L, x), x, i)

-----------------------------------------------------------------------------
(* Adding.                                                                 *)

PutAll(put, ids, b) ==
    [j \in DOMAIN put \cup ToSet(ids) |-> IF j \in ToSet(ids) THEN b ELSE put[j]]

\* The newest bucket gets the ids of x past the first BUCKET_NUM, in the array of x.
SplitLeaf(L, x) ==
    LET p    == L.o[x].parent
        ids  == L.o[x].ids
        M    == newBucket([L EXCEPT !.o[x].ids = Cut(ids, 0, BUCKET_NUM),
                                    !.o[x].size = BUCKET_NUM, !.o[x].needSave = TRUE])
        next == Len(M.o)
        rest == Cut(ids, BUCKET_NUM, ids.len)
        N    == [M EXCEPT !.o[next].parent = p, !.o[next].ids = rest, !.o[next].size = rest.len,
                          !.put = PutAll(@, Items(L, rest), M.o[next].bucket)]
    IN addBucket(N, p, bucketIndex(N, p, x) + 1, next)

AddToLeaf(L, x, i, id) ==
    LET K == InsertItem(L, x, "ids", IF i >= L.o[x].size THEN L.o[x].ids.len + 1 ELSE i + 1, id)
        M == setNeedSave(addSize(K, x, 1), x)
        N == [M EXCEPT !.put = With(@, id, L.o[x].bucket)]
    IN IF L.o[x].ids.len < i /\ i < L.o[x].size THEN Harmed(L, "panic")
       ELSE IF N.o[x].ids.len >= SplitAt /\ L.o[x].parent # 0 THEN SplitLeaf(N, x) ELSE N

\* The newest bucket takes over some buckets of another.
TakeOver(L, bs) ==
    LET next == Len(L.o)
    IN setSize(FoldLeft(LAMBDA G, v :
                          [load(G, v) EXCEPT !.o[v].parent = next, !.o[v].needSave = TRUE],
                        [L EXCEPT !.o[next].isLoad = TRUE, !.o[next].buckets = bs], Items(L, bs)),
               next)

\* A new bucket, object Len(L.o) + 1, with a slice of the buckets of another.
Adopt(L, bs) == TakeOver(newBucket(L), bs)

SplitBucket(L, x) ==
    LET bs == L.o[x].buckets
        p == L.o[x].parent
        M == Adopt(L, Cut(bs, BUCKET_NUM, bs.len))
        N == setSize([M EXCEPT !.o[x].buckets = Cut(bs, 0, BUCKET_NUM)], x)
    IN setSize(addBucket(N, p, bucketIndex(L, p, x) + 1, Len(L.o) + 1), p)

SplitRoot(L) ==
    LET bs == L.o[Root].buckets
        M == Adopt(L, Cut(bs, 0, BUCKET_NUM))
        N == Adopt(M, Cut(bs, BUCKET_NUM, bs.len))
        E == [N EXCEPT !.o[Root].buckets = NoSlice]
    IN setSize(addBucket(addBucket(E, Root, 1, Len(L.o) + 1), Root, 2, Len(M.o) + 1),
               Root)

Split(L, x) ==
    IF L.o[x].buckets.len <= SplitAt THEN L
    ELSE IF L.o[x].parent # 0 THEN SplitBucket(L, x) ELSE SplitRoot(L)

RECURSIVE AddIndexId(_, _, _, _), removeIdx(_, _, _, _)

AddToBuckets(L, x, i, id) ==
    LET k == ChildAt(L, x, i)
        last == Last(BucketList(L, x))
    IN IF i >= L.o[x].size THEN AddIndexId(L, last, L.o[last].size, id)
       ELSE IF k = 0 THEN L
       ELSE AddIndexId(L, BucketList(L, x)[k], i - SizeBefore(L, x, k), id)

\* RemoveIndex of what IndexOf found; -1 removes nothing.
RemoveFound(q) == IF q.num >= 0 THEN removeIdx(q.L, Root, q.num, q.num) ELSE q.L

\* The pending deletion of a committed id is not seen (BucketOf).
RemovedBefore(L, id) == id \in DOMAIN L.put /\ L.put[id] = Nil /\ id \in DOMAIN db.ids

RemoveId(L, id) ==
    RemoveFound(IndexOf(IF RemovedBefore(L, id) THEN Harmed(L, "rewritten") ELSE L, id))

AddLoaded(L, x, i, id) ==
    IF L.o[x].buckets.len > 0 THEN Split(AddToBuckets(L, x, i, id), x)
    ELSE AddToLeaf(L, x, i, id)

AddIndex(L, x, index, id) ==
    LET i == IF index > L.o[x].size THEN L.o[x].size ELSE IF index < 0 THEN 0 ELSE index
    IN AddLoaded(load(L, x), x, i, id)

\* An id already in the list is removed first.
AddIndexId(L, x, index, id) ==
    AddIndex(IF x = Root THEN RemoveId(L, id) ELSE L, x, index, id)

AddId(L, id) == AddIndexId(L, Root, L.o[Root].size, id)

-----------------------------------------------------------------------------
(* Removing.                                                               *)

\* for k, v := range ids: the items are read one by one.
Relist(L, ids, abs) ==
    FoldLeft(LAMBDA G, k : AddIndexId(G, Root, abs + k - 1, Items(G, ids)[k]), L,
             [k \in 1 .. ids.len |-> k])

\* A leaf that falls below half of its size gives its ids up to the rest of
\* the list, from the position of the id that was removed.
MergeLeaf(L, x, abs) ==
    LET ids == L.o[x].ids
        p   == L.o[x].parent
        M   == RemoveBucket(addSize(L, x, -ids.len), p, x)
    IN Relist(IF ids.len > 0 /\ p # Root THEN Harmed(M, "relisted") ELSE M, ids, abs)

RemoveFromLeaf(L, x, i, abs) ==
    LET id == IdList(L, x)[i + 1]
        p == L.o[x].parent
        M == setNeedSave(addSize(L, x, -1), x)
        N == RemoveItem([M EXCEPT !.put = With(@, id, Nil)], x, "ids", i + 1)
    IN IF i >= L.o[x].ids.len THEN Harmed(L, "panic")
       ELSE IF p # 0 /\ N.o[x].ids.len < HalfAt /\ N.o[p].buckets.len > 1
       THEN MergeLeaf(N, x, abs) ELSE N

\* A bucket left with less than half of its buckets gives them to a neighbour.
MergeBuckets(L, x) ==
    LET p == L.o[x].parent
        at == bucketIndex(L, p, x)
        bs == L.o[x].buckets
        to == BucketList(L, p)[IF at > 1 THEN at - 1 ELSE 2]
        M == addSize(addSize(load(L, to), p, -L.o[x].size), to, L.o[x].size)
        give(G, k) == LET v == Items(G, bs)[k]
                      IN addBucket(load(G, v), to,
                                   IF at = 1 THEN k ELSE G.o[to].buckets.len + 1, v)
        N == FoldLeft(give, M, [k \in 1 .. bs.len |-> k])
    IN IF p # 0 /\ bs.len < HalfAt /\ L.o[p].buckets.len > 1
       THEN [RemoveBucket(N, p, x) EXCEPT !.o[x].needDelete = TRUE]
       ELSE L

\* A bucket left without ids is taken out of the list.
DropEmpty(L, x) ==
    IF L.o[x].size = 0 /\ L.o[x].parent # 0
    THEN [RemoveBucket(L, L.o[x].parent, x) EXCEPT !.o[x].needDelete = TRUE]
    ELSE L

RemoveFromBuckets(L, x, i, abs) ==
    LET k == ChildAt(L, x, i)
        M == IF k = 0 THEN L
             ELSE removeIdx(L, BucketList(L, x)[k], i - SizeBefore(L, x, k), abs)
    IN DropEmpty(MergeBuckets(M, x), x)

RemoveLoaded(L, x, i, abs) ==
    IF L.o[x].buckets.len > 0 THEN RemoveFromBuckets(L, x, i, abs)
    ELSE RemoveFromLeaf(L, x, i, abs)

removeIdx(L, x, i, abs) ==
    IF i < 0 \/ i >= L.o[x].size THEN L ELSE RemoveLoaded(load(L, x), x, i, abs)

-----------------------------------------------------------------------------
(* Creating the graph, and saving it.                                      *)

\* A list without buckets gets its first one.
FirstBucket(L) ==
    LET M == newBucket(L)
        child == Len(M.o)
    IN IF L.o[Root].buckets.len > 0 THEN L
       ELSE AppendItem([M EXCEPT !.o[child].parent = Root, !.o[child].isLoad = TRUE],
                       Root, "buckets", child)

NewRList ==
    FirstBucket(load([o |-> <<[Bucket(0) EXCEPT !.needSave = TRUE]>>,
                      map |-> [b \in {0} |-> Root], heap |-> <<>>, harm |-> {},
                      put |-> [id \in {} |-> Nil], stub |-> [b \in {} |-> Nil]], Root))

BucketListData(L, x) ==
    [k \in 1 .. L.o[x].buckets.len |->
       LET v == BucketList(L, x)[k] IN [bucket |-> L.o[v].bucket, size |-> L.o[v].size]]

\* Mutant: the number of the last bucket is not saved.
getSaveDataNoSeq(L, x) ==
    [seq |-> 0, size |-> L.o[x].size, ids |-> IdList(L, x),
     parent |-> IF L.o[x].parent = 0 THEN Nil ELSE L.o[L.o[x].parent].bucket,
     buckets |-> BucketListData(L, x)]

getSaveData(L, x) ==
    [seq |-> L.o[x].seq, size |-> L.o[x].size, ids |-> IdList(L, x),
     parent |-> IF L.o[x].parent = 0 THEN Nil ELSE L.o[L.o[x].parent].bucket,
     buckets |-> BucketListData(L, x)]

SaveState(L) ==
    LET held(b) == L.o[L.map[b]]
        dirty == {b \in DOMAIN L.map : held(b).needDelete \/ held(b).needSave}
        written == {L.map[b] : b \in {c \in dirty : ~held(c).needDelete}}
    IN [L EXCEPT !.stub = [b \in dirty |-> IF held(b).needDelete THEN Nil
                                           ELSE getSaveData(L, L.map[b])],
                 !.o = [x \in 1 .. Len(L.o) |->
                          [L.o[x] EXCEPT !.needSave = @ /\ x \notin written]]]

-----------------------------------------------------------------------------
(* The list as its callers see it.                                         *)

Without(s, id) == SelectSeq(s, LAMBDA j : j # id)

\* What Add and AddByIndex mean: an id is in the list once, where it was last
\* added.
Listed(s, i, id) ==
    LET r == Without(s, id) IN InsertAt(r, IF i > Len(r) THEN Len(r) + 1 ELSE i + 1, id)

\* What a simulation reads (LEN, then GET for every position).
Read(L) == [i \in 1 .. L.o[Root].size |-> GetIdByIndex(L, Root, i - 1)]

\* calWriteSet takes the graph from the cache, or builds it.
Graph == IF rList = Nil THEN NewRList ELSE rList

\* What moveCalsToUpdate puts into the batch; Nil deletes.
moveCalsToUpdate(L) == LET S == SaveState(L) IN [bucket |-> S.stub, ids |-> S.put]

\* The putStub is empty and the graph stays in the cache.
Saved(L) == [SaveState(L) EXCEPT !.stub = [b \in {} |-> Nil], !.put = [id \in {} |-> Nil]]

Merge(old, new) ==
    [k \in {j \in DOMAIN old \cup DOMAIN new : j \in DOMAIN new => new[j] # Nil}
       |-> IF k \in DOMAIN new THEN new[k] ELSE old[k]]

ApplyUpdates(d, b) == [bucket |-> Merge(d.bucket, b.bucket), ids |-> Merge(d.ids, b.ids)]

-----------------------------------------------------------------------------
Init ==
    /\ todo \in Workloads
    /\ BUCKET_NUM = todo.num
    /\ db = [bucket |-> [b \in {} |-> Nil], ids |-> [id \in {} |-> Nil]]
    /\ rList = Nil
    /\ touched = FALSE /\ batch = Nil
    /\ list = <<>> /\ saved = <<>>
    /\ harm = {}

\* The block that fills the list, id after id.
Fill ==
    /\ todo.fill > 0
    /\ rList' = AddId(Graph, Len(list) + 1)
    /\ list' = Append(list, Len(list) + 1)
    /\ touched' = TRUE
    /\ todo' = [todo EXCEPT !.fill = @ - 1]
    /\ UNCHANGED <<BUCKET_NUM, db, batch, saved, harm>>

\* A write of calWriteSet; after a panic the block comes again.
Write(L, s) ==
    /\ todo.fill = 0 /\ todo.writes > 0 /\ batch = Nil
    /\ IF "panic" \in L.harm THEN rList' = Nil /\ list' = saved /\ touched' = FALSE
       ELSE rList' = L /\ list' = s /\ touched' = TRUE
    /\ todo' = [todo EXCEPT !.writes = @ - 1]
    /\ UNCHANGED <<BUCKET_NUM, db, batch, saved, harm>>

WriteAdd(id) == Write(AddId(Graph, id), Listed(list, Len(list), id))

WriteAddByIndex(i, id) == Write(AddIndexId(Graph, Root, i, id), Listed(list, i, id))

WriteDel(id) == Write(RemoveId(Graph, id), Without(list, id))

\* The validation of the block ends.
Prepare ==
    /\ todo.fill = 0 /\ touched
    /\ batch' = moveCalsToUpdate(rList)
    /\ rList' = Saved(rList)
    /\ touched' = FALSE
    /\ UNCHANGED <<BUCKET_NUM, db, list, saved, harm, todo>>

\* The block is stored and the batch is applied.
Commit ==
    /\ batch # Nil
    /\ db' = ApplyUpdates(db, batch)
    /\ batch' = Nil
    /\ saved' = list
    /\ harm' = harm \cup rList.harm
    /\ UNCHANGED <<BUCKET_NUM, rList, touched, list, todo>>

\* The validation of a later transaction fails, or AddBlock does: the graph keeps what the
\* block has written, and the block comes again.
CommitFails ==
    /\ todo.fill = 0 /\ todo.faults > 0
    /\ touched \/ batch # Nil
    /\ rList' = Harmed(rList, "retried")
    /\ touched' = FALSE /\ batch' = Nil
    /\ list' = saved
    /\ todo' = [todo EXCEPT !.faults = @ - 1]
    /\ UNCHANGED <<BUCKET_NUM, db, saved, harm>>

\* The peer restarts.  A block that was not stored comes again; one that was is replayed,
\* and addWriteSetToBatch leaves its list writes out.
Crash ==
    /\ todo.fill = 0 /\ todo.faults > 0
    /\ rList' = Nil
    /\ touched' = FALSE /\ batch' = Nil
    /\ list' = saved
    /\ todo' = [todo EXCEPT !.faults = @ - 1]
    /\ UNCHANGED <<BUCKET_NUM, db, saved, harm>>

\* The cache drops the graph; a block in validation keeps it to its end.
Expire ==
    /\ rList # Nil /\ ~touched /\ batch = Nil
    /\ rList' = Nil
    /\ UNCHANGED <<BUCKET_NUM, db, touched, batch, list, saved, harm, todo>>

Next ==
    \/ Fill
    \/ \E id \in todo.ids :
          WriteAdd(id) \/ WriteDel(id) \/ \E i \in todo.at : WriteAddByIndex(i, id)
    \/ Prepare \/ Commit \/ CommitFails \/ Crash \/ Expire

Spec == Init /\ [][Next]_vars

-----------------------------------------------------------------------------
\* The ids of the list, once each, and in its order while a leaf merges only when empty.
Shows(r, s) ==
    /\ Len(r) = Len(s) /\ ToSet(r) = ToSet(s)
    /\ HalfAt <= 1 => r = s

\* As long as no harm was committed, a simulation, which loads the committed buckets, reads
\* position by position every id that was added and not removed, once, however the buckets
\* were split, merged, saved and loaded, and whatever the validator does meanwhile; the
\* writes of a block that was replayed after a crash are missing.  The validator's graph,
\* while it is unharmed, has the writes of the block at hand besides (AddIndexId, removeIdx,
\* SaveState, load).
KeepsList ==
    harm = {} =>
      /\ Shows(Read(NewRList), saved)
      /\ Graph.harm = {} => Shows(Read(Graph), list)

\* What a block writes into the state database does not depend on the cache: for each next
\* operation the graph in the cache and one loaded from the committed buckets write the same
\* (load, getSaveData, SaveState, moveCalsToUpdate), unless the operation of the cached one
\* appends into an array that two buckets share.
CacheIsTransparent ==
    (harm = {} /\ rList # Nil /\ rList.harm = {} /\ ~touched /\ batch = Nil) =>
      \A id \in todo.ids :
         LET same(c, n) == c.harm = {} => moveCalsToUpdate(c) = moveCalsToUpdate(n)
         IN /\ same(AddId(rList, id), AddId(NewRList, id))
            /\ same(RemoveId(rList, id), RemoveId(NewRList, id))
            /\ \A i \in todo.at :
                 same(AddIndexId(rList, Root, i, id), AddIndexId(NewRList, Root, i, id))
=============================================================================
