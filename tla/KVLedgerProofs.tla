--------------------------- MODULE KVLedgerProofs ---------------------------
(***************************************************************************)
(* Machine-checked proofs about KVLedger, for every set of transactions,   *)
(* keys and ranges and every bound: the DBs follow the chain over crashes  *)
(* and recovery; a simulation reads one committed height, a valid          *)
(* transaction read what a serial execution in chain order shows it, and   *)
(* the ledger implements SerialLedger.                                     *)
(***************************************************************************)
EXTENDS KVLedger, TLAPS, WellFoundedInduction

\* A leaf is proved by Zenon, unless it names another prover.
USE Zenon

-----------------------------------------------------------------------------
(* Lemmas about the operators. *)

\* A sequence is a function on its indices.
LEMMA SequenceFacts ==
    ASSUME NEW S, NEW s \in Seq(S)
    PROVE  Len(s) \in Nat /\ s \in [1..Len(s) -> S] /\ DOMAIN s = 1..Len(s)
  BY SMT

\* The elements of a sequence over a set are of the set.
LEMMA ElementFacts ==
    ASSUME NEW S, NEW s \in Seq(S), NEW i \in 1..Len(s)
    PROVE  s[i] \in S
  BY SMT

\* Appending keeps the elements and adds one at the end.
LEMMA AppendFacts ==
    ASSUME NEW S, NEW s \in Seq(S), NEW e \in S
    PROVE  /\ Append(s, e) \in Seq(S) /\ Append(s, e) # << >>
           /\ Len(Append(s, e)) = Len(s) + 1
           /\ \A i \in 1..Len(s) : Append(s, e)[i] = s[i]
           /\ Append(s, e)[Len(s) + 1] = e
  BY SMT

\* A non-empty set of indices has a largest one.
LEMMA LargestIndex ==
    ASSUME NEW n \in Nat, NEW S \in SUBSET (1..n), S # {}
    PROVE  \E i \in S : \A j \in S : j <= i
<1> DEFINE T == {n - i : i \in S}
<1>1. T \subseteq Nat /\ T # {}
  <2>1. \A i \in S : n - i \in Nat
    BY SMT
  <2>2. PICK i \in S : TRUE
    OBVIOUS
  <2>3. n - i \in T
    BY <2>2
  <2> QED
    BY <2>1, <2>3
<1>2. PICK x \in T : \A y \in T : ~(<<y, x>> \in OpToRel(<, Nat))
  BY <1>1, WFMin, NatLessThanWellFounded
<1>3. \A y \in T : ~(y < x)
  BY <1>1, <1>2 DEF OpToRel
<1>4. PICK i \in S : x = n - i
  OBVIOUS
<1>5. \A j \in S : j <= i
  <2> TAKE j \in S
  <2>1. n - j \in T
    OBVIOUS
  <2>2. ~(n - j < n - i)
    BY <2>1, <1>3, <1>4
  <2> QED
    BY <2>2, SMT
<1> QED
  BY <1>5

\* A key that some valid transaction of a block writes has a last writer.
LEMMA LastWriter ==
    ASSUME NEW b \in Block, NEW k \in Keys,
           NEW h \in 1..Len(b.txs), WritesKey(b, h, k)
    PROVE  \E i \in 1..Len(b.txs) :
              /\ WritesKey(b, i, k)
              /\ \A j \in 1..Len(b.txs) : WritesKey(b, j, k) => j <= i
<1> DEFINE W == {j \in 1..Len(b.txs) : WritesKey(b, j, k)}
<1>1. Len(b.txs) \in Nat
  BY SequenceFacts DEF Block
<1>2. W \in SUBSET (1..Len(b.txs)) /\ h \in W
  OBVIOUS
<1> HIDE DEF W
<1>3. PICK i \in W : \A j \in W : j <= i
  BY <1>1, <1>2, LargestIndex
<1> QED
  BY <1>3 DEF W

\* The update a block makes to a key: none, or what its last writer wrote.
UpdateBy(b, k, i) ==
    /\ i \in 1..Len(b.txs) /\ WritesKey(b, i, k)
    /\ \A j \in 1..Len(b.txs) : WritesKey(b, j, k) => j <= i
    /\ Updates(b)[k] = [val |-> IF b.txs[i].writes[k] = "DEL" THEN Nil ELSE b.txs[i].id,
                        ver |-> <<b.num, i>>]

\* The update of a key is that of the last valid transaction that writes it.
LEMMA UpdatesOf ==
    ASSUME NEW b \in Block, NEW k \in Keys
    PROVE  \/ /\ \A i \in 1..Len(b.txs) : ~WritesKey(b, i, k)
              /\ Updates(b)[k] = Nil
           \/ \E i \in 1..Len(b.txs) : UpdateBy(b, k, i)
<1>1. CASE \A i \in 1..Len(b.txs) : ~WritesKey(b, i, k)
  BY <1>1 DEF Updates
<1>2. CASE ~\A i \in 1..Len(b.txs) : ~WritesKey(b, i, k)
  <2> DEFINE IsLast(i) == /\ WritesKey(b, i, k)
                          /\ \A j \in 1..Len(b.txs) : WritesKey(b, j, k) => j <= i
             last == CHOOSE i \in 1..Len(b.txs) : IsLast(i)
  <2>1. \E i \in 1..Len(b.txs) : IsLast(i)
    BY <1>2, LastWriter
  <2>2. last \in 1..Len(b.txs) /\ IsLast(last)
    BY <2>1
  <2>3. Updates(b)[k] = [val |-> IF b.txs[last].writes[k] = "DEL" THEN Nil
                                 ELSE b.txs[last].id,
                         ver |-> <<b.num, last>>]
    BY <1>2 DEF Updates
  <2> HIDE DEF last
  <2> QED
    BY <2>2, <2>3 DEF UpdateBy
<1> QED
  BY <1>1, <1>2

\* The batch of a block is well typed (addWriteSetToBatch).
LEMMA UpdatesType ==
    ASSUME NEW b \in Block
    PROVE  Updates(b) \in Entries(VersionedValue)
<1>1. ASSUME NEW k \in Keys
      PROVE  Updates(b)[k] \in VersionedValue \cup {Nil}
  <2>1. CASE Updates(b)[k] = Nil
    BY <2>1
  <2>2. ASSUME NEW i \in 1..Len(b.txs), UpdateBy(b, k, i)
        PROVE  Updates(b)[k] \in VersionedValue
    <3>1. b.txs[i].id \in TxIds
      <4>1. b.txs \in Seq(TxRwSet)
        BY DEF Block
      <4>2. b.txs[i] \in TxRwSet
        BY <4>1, ElementFacts
      <4> QED
        BY <4>2 DEF TxRwSet
    <3>2. b.num \in Nat /\ i \in Nat
      BY SequenceFacts, SMT DEF Block
    <3> QED
      BY <2>2, <3>1, <3>2, SMT DEF UpdateBy, VersionedValue, Version
  <2> QED
    BY <2>1, <2>2, UpdatesOf
<1>2. Updates(b) = [k \in Keys |-> Updates(b)[k]]
  BY DEF Updates
<1> QED
  BY <1>1, <1>2 DEF Entries

\* Applying a batch keeps the state DB well typed.
LEMMA ApplyUpdatesType ==
    ASSUME NEW d \in [Keys -> VersionedValue], NEW u \in Entries(VersionedValue)
    PROVE  ApplyUpdates(d, u) \in [Keys -> VersionedValue]
BY DEF ApplyUpdates, Entries, Absent, NoVersion, VersionedValue, Version

-----------------------------------------------------------------------------
(* Lemmas about the serial execution of a chain. *)

\* The positions of a chain, one block and one transaction at a time.
LEMMA InPositions ==
    ASSUME NEW bs, NEW q
    PROVE  q \in Positions(bs) <=>
              \E n \in 1..Len(bs) : \E i \in 1..Len(bs[n].txs) : q = <<n, i>>
BY SMT DEF Positions

\* Two chains that agree before p.
Agree(bs, cs, p) ==
    \A q : Precedes(q, p) =>
        /\ q \in Positions(bs) <=> q \in Positions(cs)
        /\ q \in Positions(bs) => /\ TxAt(bs, q) = TxAt(cs, q)
                                  /\ IsValid(bs, q) <=> IsValid(cs, q)

\* What a key holds at p depends only on the chain before p.
LEMMA CurrentAgree ==
    ASSUME NEW bs, NEW cs, NEW k, NEW p, NEW vv,
           Agree(bs, cs, p), CurrentAt(bs, k, p, vv)
    PROVE  CurrentAt(cs, k, p, vv)
<1>1. \A q : Precedes(q, p) /\ q \in Positions(bs) =>
          /\ ValidWrite(bs, q, k) <=> ValidWrite(cs, q, k)
          /\ Written(bs, q, k) = Written(cs, q, k)
  BY SMT DEF Agree, ValidWrite, Written
<1>2. \A q : Precedes(q, p) => (q \in Positions(bs) <=> q \in Positions(cs))
  BY DEF Agree
<1>3. CASE /\ vv = Absent
           /\ \A q \in Positions(bs) : Precedes(q, p) => ~ValidWrite(bs, q, k)
  BY <1>1, <1>2, <1>3 DEF CurrentAt
<1>4. ASSUME NEW q \in Positions(bs), LastWrite(bs, k, p, q), vv = Written(bs, q, k)
      PROVE  CurrentAt(cs, k, p, vv)
  <2>1. q \in Positions(cs) /\ LastWrite(cs, k, p, q)
    BY <1>1, <1>2, <1>4 DEF LastWrite
  <2>2. vv = Written(cs, q, k)
    BY <1>1, <1>4 DEF LastWrite
  <2> QED
    BY <2>1, <2>2 DEF CurrentAt
<1> QED
  BY <1>3, <1>4 DEF CurrentAt

\* Appending a block changes nothing before it.
LEMMA AppendAgree ==
    ASSUME NEW bs \in Seq(Block), NEW b \in Block, NEW p \in Nat \X Nat,
           p[1] <= Len(bs) \/ p = AfterBlock(Len(bs))
    PROVE  Agree(bs, Append(bs, b), p)
<1> DEFINE cs == Append(bs, b)
<1>1. /\ Len(bs) \in Nat /\ Len(cs) = Len(bs) + 1
      /\ \A n \in 1..Len(bs) : cs[n] = bs[n]
  BY AppendFacts, SequenceFacts, SMT
<1> HIDE DEF cs
<1> SUFFICES ASSUME NEW q, Precedes(q, p)
             PROVE  /\ q \in Positions(bs) <=> q \in Positions(cs)
                    /\ q \in Positions(bs) => /\ TxAt(bs, q) = TxAt(cs, q)
                                              /\ IsValid(bs, q) <=> IsValid(cs, q)
  BY DEF Agree, cs
<1>2. ASSUME q \in Positions(bs)
      PROVE  /\ q \in Positions(cs) /\ TxAt(bs, q) = TxAt(cs, q)
             /\ IsValid(bs, q) <=> IsValid(cs, q)
  <2>1. PICK n \in 1..Len(bs) : \E j \in 1..Len(bs[n].txs) : q = <<n, j>>
    BY <1>2, InPositions, SMT
  <2>0. PICK i \in 1..Len(bs[n].txs) : q = <<n, i>>
    BY <2>1
  <2>2. n \in 1..Len(cs) /\ cs[n] = bs[n]
    BY <1>1, SMT
  <2> QED
    BY <2>0, <2>2, InPositions DEF TxAt, IsValid
<1>3. ASSUME q \in Positions(cs) PROVE q \in Positions(bs)
  <2>1. PICK n \in 1..Len(cs) : \E j \in 1..Len(cs[n].txs) : q = <<n, j>>
    BY <1>3, InPositions, SMT
  <2>0. PICK i \in 1..Len(cs[n].txs) : q = <<n, i>>
    BY <2>1
  <2>2. i \in Int /\ i >= 1
    BY SMT
  <2>3. n <= Len(bs)
    BY <1>1, <2>0, <2>2, SMT DEF Precedes, AfterBlock
  <2>4. n \in 1..Len(bs) /\ cs[n] = bs[n]
    BY <1>1, <2>3, SMT
  <2> QED
    BY <2>0, <2>4, InPositions
<1> QED
  BY <1>2, <1>3

\* A position precedes the end of block n exactly when it is in one of the
\* first n blocks.
LEMMA BeforeAfterBlock ==
    ASSUME NEW bs \in Seq(Block), NEW q \in Positions(bs), NEW n \in Nat
    PROVE  /\ q \in Nat \X Nat /\ q[1] \in 1..Len(bs)
           /\ Precedes(q, AfterBlock(n)) <=> q[1] <= n
<1>1. PICK m \in 1..Len(bs) : \E j \in 1..Len(bs[m].txs) : q = <<m, j>>
  BY InPositions, SMT
<1>0. PICK i \in 1..Len(bs[m].txs) : q = <<m, i>>
  BY <1>1
<1>2. Len(bs) \in Nat
  BY SequenceFacts
<1>3. i \in Nat /\ i >= 1
  BY SMT
<1> QED
  BY <1>0, <1>2, <1>3, SMT DEF Precedes, AfterBlock

\* The transactions of block m, as positions of the chain.
LEMMA BlockPositions ==
    ASSUME NEW bs \in Seq(Block), NEW m \in 1..Len(bs), NEW k
    PROVE  /\ \A i \in 1..Len(bs[m].txs) :
                 /\ <<m, i>> \in Positions(bs)
                 /\ ValidWrite(bs, <<m, i>>, k) <=> WritesKey(bs[m], i, k)
           /\ \A q \in Positions(bs) : q[1] = m =>
                 \E i \in 1..Len(bs[m].txs) : q = <<m, i>>
<1>1. \A i \in 1..Len(bs[m].txs) : <<m, i>> \in Positions(bs)
  BY InPositions
<1>2. \A i : ValidWrite(bs, <<m, i>>, k) <=> WritesKey(bs[m], i, k)
  BY DEF ValidWrite, WritesKey, IsValid, TxAt
<1>3. ASSUME NEW q \in Positions(bs), q[1] = m
      PROVE  \E i \in 1..Len(bs[m].txs) : q = <<m, i>>
  <2>1. PICK n \in 1..Len(bs) : \E i \in 1..Len(bs[n].txs) : q = <<n, i>>
    BY InPositions, SMT
  <2> QED
    BY <1>3, <2>1, SMT
<1> QED
  BY <1>1, <1>2, <1>3

\* Applying the updates of the next block to a state that is the execution of
\* the first n blocks gives the execution of the first n + 1.
LEMMA ApplyNextBlock ==
    ASSUME NEW bs \in Seq(Block), NEW n \in Nat, n + 1 \in 1..Len(bs),
           bs[n + 1].num = n + 1,
           NEW d, NEW k \in Keys, CurrentAt(bs, k, AfterBlock(n), d[k])
    PROVE  CurrentAt(bs, k, AfterBlock(n + 1), ApplyUpdates(d, Updates(bs[n + 1]))[k])
<1> DEFINE b == bs[n + 1]
           u == Updates(b)
<1>1. b \in Block
  BY ElementFacts
<1>2. \A q \in Positions(bs) :
          /\ q \in Nat \X Nat
          /\ Precedes(q, AfterBlock(n)) <=> q[1] <= n
          /\ Precedes(q, AfterBlock(n + 1)) <=> q[1] <= n + 1
  BY BeforeAfterBlock, SMT
<1>3. ASSUME \A i \in 1..Len(b.txs) : ~WritesKey(b, i, k), u[k] = Nil
      PROVE  CurrentAt(bs, k, AfterBlock(n + 1), ApplyUpdates(d, u)[k])
  <2>1. ApplyUpdates(d, u)[k] = d[k]
    BY <1>3 DEF ApplyUpdates
  <2>2. \A q \in Positions(bs) : ValidWrite(bs, q, k) =>
            (Precedes(q, AfterBlock(n + 1)) <=> Precedes(q, AfterBlock(n)))
    <3> TAKE q \in Positions(bs)
    <3> HAVE ValidWrite(bs, q, k)
    <3>1. q[1] # n + 1
      BY <1>3, BlockPositions, SMT
    <3> QED
      BY <1>2, <3>1, SMT
  <2> QED
    BY <2>1, <2>2 DEF CurrentAt, LastWrite
<1>4. ASSUME NEW i \in 1..Len(b.txs), UpdateBy(b, k, i)
      PROVE  CurrentAt(bs, k, AfterBlock(n + 1), ApplyUpdates(d, u)[k])
  <2> DEFINE p == <<n + 1, i>>
  <2>1. p \in Positions(bs) /\ ValidWrite(bs, p, k)
    BY <1>4, BlockPositions DEF UpdateBy
  <2>2. Precedes(p, AfterBlock(n + 1))
    BY <1>2, <2>1, SMT
  <2>3. ASSUME NEW r \in Positions(bs), Precedes(r, AfterBlock(n + 1)), ValidWrite(bs, r, k)
        PROVE  ~Precedes(p, r)
    <3>1. CASE r[1] = n + 1
      <4>1. PICK j \in 1..Len(b.txs) : r = <<n + 1, j>>
        BY <3>1, BlockPositions
      <4>2. j <= i
        BY <1>4, <2>3, <4>1, BlockPositions DEF UpdateBy
      <4>3. i \in Int /\ j \in Int
        BY SMT
      <4> QED
        BY <4>1, <4>2, <4>3, SMT DEF Precedes
    <3>2. CASE r[1] # n + 1
      BY <1>2, <2>3, <3>2, SMT DEF Precedes
    <3> QED
      BY <3>1, <3>2
  <2>4. LastWrite(bs, k, AfterBlock(n + 1), p)
    BY <2>1, <2>2, <2>3 DEF LastWrite
  <2>5. ApplyUpdates(d, u)[k] = Written(bs, p, k)
    <3>1. b.txs[i].id \in TxIds
      <4>1. b.txs \in Seq(TxRwSet)
        BY <1>1 DEF Block
      <4>2. b.txs[i] \in TxRwSet
        BY <4>1, ElementFacts
      <4> QED
        BY <4>2 DEF TxRwSet
    <3>2. u[k] = [val |-> IF b.txs[i].writes[k] = "DEL" THEN Nil ELSE b.txs[i].id,
                  ver |-> p]
      BY <1>4 DEF UpdateBy
    <3>3. u[k] # Nil
      BY <3>1, <3>2, KVLedgerAssumption, SMT
    <3>4. CASE b.txs[i].writes[k] = "DEL"
      BY <3>2, <3>3, <3>4, SMTT(30) DEF ApplyUpdates, Written, TxAt
    <3>5. CASE b.txs[i].writes[k] # "DEL"
      BY <3>1, <3>2, <3>3, <3>5, KVLedgerAssumption, SMT DEF ApplyUpdates, Written, TxAt
    <3> QED
      BY <3>4, <3>5
  <2> QED
    BY <2>1, <2>4, <2>5 DEF CurrentAt
<1> QED
  BY <1>1, <1>3, <1>4, UpdatesOf

\* The index of the writes of the first h blocks.
HistoryOf(bs, h) ==
    {e \in Keys \X Positions(bs) : e[2][1] <= h /\ ValidWrite(bs, e[2], e[1])}

\* Adding the entries of the next block gives the index of one more block.
LEMMA HistoryNextBlock ==
    ASSUME NEW bs \in Seq(Block), NEW h \in Nat, h + 1 \in 1..Len(bs),
           bs[h + 1].num = h + 1
    PROVE  HistoryOf(bs, h) \cup HistoryEntries(bs[h + 1]) = HistoryOf(bs, h + 1)
<1> DEFINE b == bs[h + 1]
<1>1. \A q \in Positions(bs) : q \in Nat \X Nat
  BY BeforeAfterBlock
<1>2. ASSUME NEW e \in HistoryOf(bs, h) PROVE e \in HistoryOf(bs, h + 1)
  BY <1>1, SMT DEF HistoryOf
<1>3. ASSUME NEW e \in HistoryEntries(b) PROVE e \in HistoryOf(bs, h + 1)
  <2>1. /\ e \in Keys \X ({h + 1} \X (1..Len(b.txs)))
        /\ WritesKey(b, e[2][2], e[1])
    BY DEF HistoryEntries
  <2>2. PICK k \in Keys : \E j \in 1..Len(b.txs) : e = <<k, <<h + 1, j>>>>
    BY <2>1, SMT
  <2>3. PICK j \in 1..Len(b.txs) : e = <<k, <<h + 1, j>>>>
    BY <2>2
  <2>4. <<h + 1, j>> \in Positions(bs) /\ ValidWrite(bs, <<h + 1, j>>, k)
    BY <2>1, <2>3, BlockPositions
  <2>5. k \in Keys /\ e[1] = k /\ e[2] = <<h + 1, j>> /\ e[2][1] = h + 1 /\ h + 1 <= h + 1
    BY <2>3, SMT
  <2> QED
    BY <2>3, <2>4, <2>5 DEF HistoryOf
<1>4. ASSUME NEW e \in HistoryOf(bs, h + 1), e \notin HistoryOf(bs, h)
      PROVE  e \in HistoryEntries(b)
  <2>1. /\ e \in Keys \X Positions(bs) /\ e[2] \in Positions(bs)
        /\ ValidWrite(bs, e[2], e[1])
        /\ e[2][1] <= h + 1 /\ ~(e[2][1] <= h)
    BY <1>4 DEF HistoryOf
  <2>2. e[2][1] = h + 1
    BY <1>1, <2>1, SMT
  <2>3. PICK j \in 1..Len(b.txs) : e[2] = <<h + 1, j>>
    BY <2>1, <2>2, BlockPositions
  <2>4. WritesKey(b, j, e[1])
    BY <2>1, <2>3, BlockPositions
  <2>5. e \in Keys \X ({b.num} \X (1..Len(b.txs))) /\ e[2][2] = j
    BY <2>1, <2>3, SMT
  <2> QED
    BY <2>4, <2>5 DEF HistoryEntries
<1> QED
  BY <1>2, <1>3, <1>4

\* Appending a block leaves the index of the blocks before it as it is.
LEMMA HistoryAppend ==
    ASSUME NEW bs \in Seq(Block), NEW b \in Block, NEW h \in 0..Len(bs)
    PROVE  HistoryOf(Append(bs, b), h) = HistoryOf(bs, h)
<1> DEFINE cs == Append(bs, b)
<1>0. Len(bs) \in Nat /\ cs \in Seq(Block)
  BY SequenceFacts, AppendFacts
<1>1. Agree(bs, cs, AfterBlock(Len(bs)))
  BY <1>0, AppendAgree, SMT DEF AfterBlock
<1> HIDE DEF cs
<1>2. ASSUME NEW q, q \in Positions(bs) \/ q \in Positions(cs), q[1] <= h
      PROVE  /\ q \in Positions(bs) /\ q \in Positions(cs)
             /\ \A k : ValidWrite(bs, q, k) <=> ValidWrite(cs, q, k)
  <2>1. q \in Nat \X Nat
    BY <1>0, <1>2, BeforeAfterBlock
  <2>2. Precedes(q, AfterBlock(Len(bs)))
    BY <1>0, <1>2, <2>1, SMT DEF Precedes, AfterBlock
  <2> QED
    BY <1>1, <1>2, <2>2 DEF Agree, ValidWrite
<1>3. ASSUME NEW e \in HistoryOf(bs, h) PROVE e \in HistoryOf(cs, h)
  BY <1>2 DEF HistoryOf
<1>4. ASSUME NEW e \in HistoryOf(cs, h) PROVE e \in HistoryOf(bs, h)
  BY <1>2 DEF HistoryOf
<1> QED
  BY <1>3, <1>4 DEF cs

-----------------------------------------------------------------------------
(* The inductive invariant: how the stores and the block in flight relate,  *)
(* at each place of the commit and of the recovery.                         *)

WellFormed(b, n) == b.num = n /\ Len(b.flags) = Len(b.txs)

\* Both DBs have the first h blocks.
LevelAt(h) == savepoint = h /\ (histEnabled => histSavepoint = h)

\* Recovery has a DB to bring forward, and leaves out only level ones.
RecoveryPending ==
    /\ recoverers \in {<<"state">>, <<"history">>, <<"state", "history">>,
                       <<"history", "state">>}
    /\ recoverers = <<"history">> => savepoint = Len(blocks)
    /\ recoverers = <<"state">> /\ histEnabled => histSavepoint = Len(blocks)
    /\ \E i \in 1..Len(recoverers) : SavepointOf(recoverers[i]) # Len(blocks)

Protocol ==
    /\ Len(blocks) >= 1
    /\ \A n \in 1..Len(blocks) : WellFormed(blocks[n], n)
    /\ savepoint <= Len(blocks) /\ histSavepoint <= Len(blocks)
    /\ pc \in {"idle", "validated", "prepared"} => LevelAt(Len(blocks))
    /\ pc \in {"validated", "prepared"} => WellFormed(currentBlock, Len(blocks) + 1)
    /\ pc \in {"prepared", "added"} => batch = Updates(currentBlock)
    /\ pc = "added" => LevelAt(Len(blocks) - 1)
    /\ pc = "stateCommitted" =>
          savepoint = Len(blocks) /\ histSavepoint = Len(blocks) - 1
    /\ pc \in {"added", "stateCommitted"} => currentBlock = blocks[Len(blocks)]
    /\ pc = "recover" => RecoveryPending

-----------------------------------------------------------------------------
(* Type correctness. *)

\* The new ledger is well typed.
LEMMA InitTypeOK == Init => TypeOK
<1> SUFFICES ASSUME Init PROVE TypeOK
  OBVIOUS
<1>1. Genesis \in Block /\ NoBlock \in Block
  BY SMT DEF Genesis, NoBlock, Block
<1>2. blocks \in Seq(Block) /\ currentBlock \in Block /\ recoverers \in Seq({"state", "history"})
  BY <1>1, SMT DEF Init
<1>3. NoEntries \in Entries(VersionedValue) /\ NoEntries \in Entries({"PUT", "DEL"})
  BY DEF NoEntries, Entries
<1>4. rwset \in [TxIds -> TxRwSet]
  BY <1>3 DEF Init, NewTx, TxRwSet
<1>5. db \in [Keys -> VersionedValue]
  BY DEF Init, Absent, VersionedValue, Version, NoVersion
<1> QED
  BY <1>2, <1>3, <1>4, <1>5 DEF Init, TypeOK

\* A step of a simulation keeps the types.
LEMMA SimulateTypeOK ==
    ASSUME TypeOK, NEW t \in TxIds, Simulate(t)
    PROVE  TypeOK'
<1> USE DEF TypeOK, storeVars, memVars
<1>1. CASE NewTxSimulator(t)
  BY <1>1 DEF NewTxSimulator
<1>2. CASE GetTxSimulationResults(t)
  BY <1>2 DEF GetTxSimulationResults
<1>3. CASE Done(t)
  BY <1>3 DEF Done
<1>4. ASSUME NEW k \in Keys, GetState(t, k) PROVE TypeOK'
  <2>1. rwset'[t] \in TxRwSet
    BY <1>4, ZenonT(40) DEF GetState, TxRwSet, Entries
  <2> QED
    BY <1>4, <2>1 DEF GetState
<1>5. ASSUME NEW k \in Keys, SetState(t, k) PROVE TypeOK'
  <2>1. rwset'[t] \in TxRwSet
    BY <1>5, ZenonT(40) DEF SetState, TxRwSet, Entries
  <2> QED
    BY <1>5, <2>1 DEF SetState
<1>6. ASSUME NEW k \in Keys, DeleteState(t, k) PROVE TypeOK'
  <2>1. rwset'[t] \in TxRwSet
    BY <1>6, ZenonT(40) DEF DeleteState, TxRwSet, Entries
  <2> QED
    BY <1>6, <2>1 DEF DeleteState
<1>7. ASSUME NEW R \in Ranges, GetStateRangeScanIterator(t, R) PROVE TypeOK'
  <2>1. rwset'[t] \in TxRwSet
    BY <1>7, ZenonT(40) DEF GetStateRangeScanIterator, TxRwSet, Entries
  <2> QED
    BY <1>7, <2>1 DEF GetStateRangeScanIterator
<1> QED
  BY <1>1, <1>2, <1>3, <1>4, <1>5, <1>6, <1>7 DEF Simulate

\* A step of the commit of a block keeps the types.
LEMMA CommitTypeOK ==
    ASSUME TypeOK, Commit
    PROVE  TypeOK'
<1> USE DEF TypeOK, storeVars, simVars
<1>1. CASE Validate
  <2>1. PICK txs \in Orderable :
            currentBlock' = [num   |-> Len(blocks) + 1, txs |-> txs,
                             flags |-> [j \in 1..Len(txs) |-> ValidatorFlag(txs[j].id)]]
    BY <1>1 DEF Validate
  <2>2. txs \in Seq(TxRwSet)
    <3>1. PICK n \in 1..MaxBlockTxs : txs \in [1..n -> {rwset[t] : t \in Endorsed}]
      BY DEF Orderable
    <3>2. {rwset[t] : t \in Endorsed} \subseteq TxRwSet
      BY DEF Endorsed
    <3>3. n \in Nat /\ txs \in [1..n -> TxRwSet]
      BY <3>1, <3>2, KVLedgerAssumption, SMTT(30)
    <3> QED
      BY <3>3, SMT
  <2>3. [j \in 1..Len(txs) |-> ValidatorFlag(txs[j].id)] \in Seq(Flags)
    BY <2>2, SequenceFacts, SMT DEF ValidatorFlag, Flags
  <2>4. currentBlock' \in Block
    BY <2>1, <2>2, <2>3, SequenceFacts, SMT DEF Block
  <2> QED
    BY <1>1, <2>4 DEF Validate
<1>2. CASE ValidateAndPrepare
  <2>1. PICK flags \in [1..Len(currentBlock.txs) -> Flags] :
            currentBlock' = [currentBlock EXCEPT !.flags = flags]
    BY <1>2 DEF ValidateAndPrepare
  <2>2. flags \in Seq(Flags)
    BY SequenceFacts, SMT DEF Block
  <2>3. currentBlock' \in Block
    BY <2>1, <2>2 DEF Block
  <2>4. batch' \in Entries(VersionedValue)
    BY <1>2, <2>3, UpdatesType DEF ValidateAndPrepare
  <2> QED
    BY <1>2, <2>3, <2>4 DEF ValidateAndPrepare
<1>3. CASE AddBlock
  BY <1>3, AppendFacts DEF AddBlock
<1>4. CASE CommitError
  BY <1>4 DEF CommitError
<1>5. CASE CommitState
  <2>1. db' \in [Keys -> VersionedValue]
    BY <1>5, ApplyUpdatesType DEF CommitState
  <2>2. batch' \in Entries(VersionedValue) /\ savepoint' \in Nat
    BY <1>5 DEF CommitState, NoEntries, Entries, Block
  <2> QED
    BY <1>5, <2>1, <2>2 DEF CommitState
<1>6. CASE CommitHistory
  <2>1. HistoryEntries(currentBlock) \subseteq Keys \X Version
    BY SequenceFacts, SMT DEF HistoryEntries, Block, Version
  <2>2. histSavepoint' \in Nat
    BY <1>6 DEF CommitHistory, Block
  <2> QED
    BY <1>6, <2>1, <2>2 DEF CommitHistory
<1> QED
  BY <1>1, <1>2, <1>3, <1>4, <1>5, <1>6 DEF Commit

\* A crash, or the loss of the state DB, keeps the types.
LEMMA CrashTypeOK ==
    ASSUME TypeOK, Crash \/ LoseStateDB
    PROVE  TypeOK'
<1> USE DEF TypeOK, storeVars, memVars, simVars
<1>1. CASE Crash
  <2>1. currentBlock' \in Block /\ recoverers' \in Seq({"state", "history"})
    BY <1>1, SMT DEF Crash, NoBlock, Block
  <2>2. batch' \in Entries(VersionedValue)
    BY <1>1 DEF Crash, NoEntries, Entries
  <2> QED
    BY <1>1, <2>1, <2>2, SMT DEF Crash
<1>2. CASE LoseStateDB
  BY <1>2 DEF LoseStateDB, Absent, VersionedValue, Version, NoVersion
<1> QED
  BY <1>1, <1>2

\* The recoverer that acts next has a block to take from the block store.
LEMMA NextRecovererLags ==
    ASSUME TypeOK, Protocol, pc = "recover"
    PROVE  /\ NextRecoverer \in {"state", "history"}
           /\ NextRecoverer = "state" => savepoint + 1 \in 1..Len(blocks)
           /\ NextRecoverer = "history" => histSavepoint + 1 \in 1..Len(blocks)
<1> USE DEF TypeOK, Protocol, RecoveryPending, NextRecoverer, SavepointOf
<1>0. Len(blocks) \in Nat
  BY SequenceFacts
<1>1. CASE recoverers = <<"state">>
  BY <1>0, <1>1, SMT
<1>2. CASE recoverers = <<"history">>
  BY <1>0, <1>2, SMT
<1>3. CASE recoverers = <<"state", "history">>
  BY <1>0, <1>3, SMT
<1>4. CASE recoverers = <<"history", "state">>
  BY <1>0, <1>4, SMT
<1> QED
  BY <1>1, <1>2, <1>3, <1>4

\* A step of recoverDBs keeps the types: the block it replays exists.
LEMMA RecoverTypeOK ==
    ASSUME TypeOK, Protocol, Recover
    PROVE  TypeOK'
<1> USE DEF TypeOK, storeVars, simVars
<1>1. CASE Restart
  <2>1. PICK histOn \in BOOLEAN : histEnabled' = histOn /\ recoverers' = Recoverers(histOn)
    BY <1>1 DEF Restart
  <2>2. Recoverers(histOn) \in {<< >>, <<"state">>, <<"history">>,
                               <<"history", "state">>, <<"state", "history">>}
    BY DEF Recoverers
  <2>3. recoverers' \in Seq({"state", "history"})
    <3> DEFINE Rs == Seq({"state", "history"})
    <3>1. << >> \in Rs /\ <<"state">> \in Rs /\ <<"history">> \in Rs
      BY SMT
    <3>2. <<"history", "state">> \in Rs /\ <<"state", "history">> \in Rs
      BY SMT
    <3> HIDE DEF Rs
    <3>3. recoverers' \in Rs
      BY <2>1, <2>2, <3>1, <3>2
    <3> QED
      BY <3>3 DEF Rs
  <2> QED
    BY <1>1, <2>1, <2>3 DEF Restart
<1>2. AfterRecommit => /\ pc' \in {"idle", "recover"}
                       /\ recoverers' \in Seq({"state", "history"})
  BY SMT DEF AfterRecommit
<1>3. CASE RecommitState
  <2>1. blocks[savepoint + 1] \in Block
    BY <1>3, NextRecovererLags, ElementFacts DEF RecommitState
  <2>2. db' \in [Keys -> VersionedValue]
    BY <1>3, <2>1, UpdatesType, ApplyUpdatesType DEF RecommitState
  <2>3. batch' \in Entries(VersionedValue) /\ savepoint' \in Nat
    BY <1>3, <2>1 DEF RecommitState, NoEntries, Entries, Block
  <2> QED
    BY <1>2, <1>3, <2>1, <2>2, <2>3 DEF RecommitState
<1>4. CASE RecommitHistory
  <2>1. blocks[histSavepoint + 1] \in Block
    BY <1>4, NextRecovererLags, ElementFacts DEF RecommitHistory
  <2>2. HistoryEntries(blocks[histSavepoint + 1]) \subseteq Keys \X Version
    BY <2>1, SequenceFacts, SMTT(30) DEF HistoryEntries, Block, Version
  <2>3. histSavepoint' \in Nat
    BY <1>4, <2>1 DEF RecommitHistory, Block
  <2> QED
    BY <1>2, <1>4, <2>2, <2>3 DEF RecommitHistory
<1> QED
  BY <1>1, <1>3, <1>4 DEF Recover

-----------------------------------------------------------------------------
(* The inductive invariant is preserved. *)

\* The new ledger has its genesis block and both DBs level with it.
LEMMA InitProtocol == Init => Protocol
<1> SUFFICES ASSUME Init PROVE Protocol
  OBVIOUS
<1>1. Len(blocks) = 1 /\ blocks[1] = Genesis
  BY DEF Init
<1>2. WellFormed(Genesis, 1)
  BY DEF WellFormed, Genesis
<1> QED
  BY <1>1, <1>2, SMT DEF Init, Protocol, LevelAt

\* A simulation touches nothing the protocol speaks of.
LEMMA SimulateProtocol ==
    ASSUME TypeOK, Protocol, NEW t \in TxIds, Simulate(t)
    PROVE  Protocol'
<1>1. UNCHANGED <<storeVars, memVars, histEnabled>>
  BY DEF Simulate, NewTxSimulator, GetTxSimulationResults, Done, GetState,
         SetState, DeleteState, GetStateRangeScanIterator
<1> QED
  BY <1>1 DEF Protocol, storeVars, memVars, LevelAt, RecoveryPending, SavepointOf

\* The commit of a block takes its durable steps in order.
LEMMA CommitProtocol ==
    ASSUME TypeOK, Protocol, Commit
    PROVE  Protocol'
<1> USE DEF Protocol, LevelAt, storeVars, simVars
<1>0. Len(blocks) \in Nat
  BY SequenceFacts DEF TypeOK
<1>1. CASE Validate
  <2>1. PICK txs \in Orderable :
            currentBlock' = [num   |-> Len(blocks) + 1, txs |-> txs,
                             flags |-> [j \in 1..Len(txs) |-> ValidatorFlag(txs[j].id)]]
    BY <1>1 DEF Validate
  <2>2. Len(txs) \in Nat
    <3>1. PICK n \in 1..MaxBlockTxs : txs \in [1..n -> {rwset[t] : t \in Endorsed}]
      BY DEF Orderable
    <3> QED
      BY <3>1, KVLedgerAssumption, SMT
  <2>3. WellFormed(currentBlock', Len(blocks) + 1)
    BY <2>1, <2>2, SMT DEF WellFormed
  <2> QED
    BY <1>1, <2>3 DEF Validate
<1>2. CASE ValidateAndPrepare
  <2>1. PICK flags \in [1..Len(currentBlock.txs) -> Flags] :
            currentBlock' = [currentBlock EXCEPT !.flags = flags]
    BY <1>2 DEF ValidateAndPrepare
  <2>2. Len(currentBlock.txs) \in Nat
    BY SequenceFacts DEF TypeOK, Block
  <2>3. WellFormed(currentBlock', Len(blocks) + 1)
    BY <1>2, <2>1, <2>2, SMTT(30) DEF WellFormed, ValidateAndPrepare, TypeOK, Block
  <2> QED
    BY <1>2, <2>3 DEF ValidateAndPrepare
<1>3. CASE AddBlock
  <2>1. /\ Len(blocks') = Len(blocks) + 1
        /\ \A n \in 1..Len(blocks) : blocks'[n] = blocks[n]
        /\ blocks'[Len(blocks) + 1] = currentBlock
    BY <1>3, AppendFacts, SMT DEF AddBlock, TypeOK
  <2>2. \A n \in 1..Len(blocks') : WellFormed(blocks'[n], n)
    BY <1>0, <1>3, <2>1, SMT DEF AddBlock
  <2> QED
    BY <1>0, <1>3, <2>1, <2>2, SMTT(30) DEF AddBlock, TypeOK
<1>4. CASE CommitError
  BY <1>4 DEF CommitError
<1>5. CASE CommitState
  <2>1. currentBlock.num = Len(blocks)
    BY <1>0, <1>5, SMT DEF CommitState, WellFormed
  <2> QED
    BY <1>0, <1>5, <2>1, SMT DEF CommitState, TypeOK
<1>6. CASE CommitHistory
  <2>1. currentBlock.num = Len(blocks)
    BY <1>0, <1>6, SMT DEF CommitHistory, WellFormed
  <2> QED
    BY <1>0, <1>6, <2>1 DEF CommitHistory, TypeOK
<1> QED
  BY <1>1, <1>2, <1>3, <1>4, <1>5, <1>6 DEF Commit

\* A crash leaves the stores where they are, none ahead of the chain.
LEMMA CrashProtocol ==
    ASSUME TypeOK, Protocol, Crash \/ LoseStateDB
    PROVE  Protocol'
<1>1. CASE Crash
  BY <1>1 DEF Crash, Protocol, storeVars
<1>2. CASE LoseStateDB
  BY <1>2, SequenceFacts, SMT DEF LoseStateDB, Protocol, TypeOK, memVars
<1> QED
  BY <1>1, <1>2

\* The end of a recovery step, whichever DB took it.
LEMMA AfterRecommitProtocol ==
    ASSUME TypeOK, Protocol, pc = "recover", AfterRecommit,
           UNCHANGED <<blocks, histEnabled>>,
           savepoint' \in 0..Len(blocks), histSavepoint' \in 0..Len(blocks),
           recoverers = <<"history">> => savepoint' = savepoint,
           recoverers = <<"state">> => histSavepoint' = histSavepoint
    PROVE  Protocol'
<1> USE DEF Protocol, RecoveryPending, AfterRecommit
<1>1. CASE RecoveryDone
  <2>1. LevelAt(Len(blocks))'
    <3>1. CASE recoverers = <<"state">>
      BY <1>1, <3>1, SMT DEF RecoveryDone, LevelAt
    <3>2. CASE recoverers = <<"history">>
      BY <1>1, <3>2, SMT DEF RecoveryDone, LevelAt
    <3>3. CASE recoverers = <<"state", "history">>
      BY <1>1, <3>3, SMT DEF RecoveryDone, LevelAt
    <3>4. CASE recoverers = <<"history", "state">>
      BY <1>1, <3>4, SMT DEF RecoveryDone, LevelAt
    <3> QED
      BY <3>1, <3>2, <3>3, <3>4
  <2> QED
    BY <1>1, <2>1, SMT
<1>2. CASE ~RecoveryDone
  <2>1. RecoveryPending'
    BY <1>2 DEF RecoveryDone, SavepointOf
  <2> QED
    BY <1>2, <2>1, SMT
<1> QED
  BY <1>1, <1>2

\* Recovery ends only when every enabled DB is level with the chain.
LEMMA RecoverProtocol ==
    ASSUME TypeOK, Protocol, Recover
    PROVE  Protocol'
<1> USE DEF Protocol, LevelAt, storeVars, simVars
<1>0. Len(blocks) \in Nat
  BY SequenceFacts DEF TypeOK
<1>1. CASE Restart
  <2>1. PICK histOn \in BOOLEAN : histEnabled' = histOn /\ recoverers' = Recoverers(histOn)
    BY <1>1 DEF Restart
  <2>2. CASE recoverers' = << >>
    BY <1>1, <2>1, <2>2, SMT DEF Restart, Recoverers, ShouldRecover
  <2>3. CASE recoverers' # << >>
    <3>1. RecoveryPending'
      BY <1>1, <2>1, <2>3, SMTT(20)
         DEF Restart, Recoverers, ShouldRecover, RecoveryPending, SavepointOf
    <3> QED
      BY <1>1, <2>3, <3>1 DEF Restart
  <2> QED
    BY <2>2, <2>3
<1>2. CASE RecommitState
  <2>1. savepoint + 1 \in 1..Len(blocks) /\ savepoint' = savepoint + 1
    BY <1>2, NextRecovererLags DEF RecommitState, WellFormed
  <2>2. recoverers # <<"history">>
    BY <1>2, SMT DEF RecommitState, NextRecoverer
  <2>3. /\ pc = "recover" /\ AfterRecommit
        /\ UNCHANGED <<blocks, histEnabled>> /\ histSavepoint' = histSavepoint
    BY <1>2 DEF RecommitState
  <2>4. savepoint' \in 0..Len(blocks) /\ histSavepoint' \in 0..Len(blocks)
    BY <1>0, <2>1, <2>3, SMT DEF TypeOK
  <2> QED
    <3> HIDE DEF Protocol
    <3> QED
      BY <2>2, <2>3, <2>4, AfterRecommitProtocol
<1>3. CASE RecommitHistory
  <2>1. histSavepoint + 1 \in 1..Len(blocks) /\ histSavepoint' = histSavepoint + 1
    BY <1>3, NextRecovererLags DEF RecommitHistory, WellFormed
  <2>2. recoverers # <<"state">>
    BY <1>3, SMT DEF RecommitHistory, NextRecoverer
  <2>3. /\ pc = "recover" /\ AfterRecommit
        /\ UNCHANGED <<blocks, histEnabled>> /\ savepoint' = savepoint
    BY <1>3 DEF RecommitHistory
  <2>4. savepoint' \in 0..Len(blocks) /\ histSavepoint' \in 0..Len(blocks)
    BY <1>0, <2>1, <2>3, SMT DEF TypeOK
  <2> QED
    <3> HIDE DEF Protocol
    <3> QED
      BY <2>2, <2>3, <2>4, AfterRecommitProtocol
<1> QED
  BY <1>1, <1>2, <1>3 DEF Recover

-----------------------------------------------------------------------------
(* The theorems. *)

\* Every variable keeps its type, whatever the interleaving of simulations,
\* commits, crashes and recoveries; and the stores, the block in flight and the
\* recovery stand in the relation Protocol states.
THEOREM TypeCorrect == Spec => [](TypeOK /\ Protocol)
<1>1. Init => TypeOK /\ Protocol
  BY InitTypeOK, InitProtocol
<1>2. TypeOK /\ Protocol /\ [Next]_vars => (TypeOK /\ Protocol)'
  <2> SUFFICES ASSUME TypeOK, Protocol, [Next]_vars
               PROVE  TypeOK' /\ Protocol'
    OBVIOUS
  <2>1. CASE \E t \in TxIds : Simulate(t)
    BY <2>1, SimulateTypeOK, SimulateProtocol
  <2>2. CASE Commit
    BY <2>2, CommitTypeOK, CommitProtocol
  <2>3. CASE Recover
    BY <2>3, RecoverTypeOK, RecoverProtocol
  <2>4. CASE Crash \/ LoseStateDB
    BY <2>4, CrashTypeOK, CrashProtocol
  <2>5. CASE UNCHANGED vars
    BY <2>5, SMT DEF vars, storeVars, memVars, simVars, TypeOK, Protocol, LevelAt,
                RecoveryPending, SavepointOf
  <2> QED
    BY <2>1, <2>2, <2>3, <2>4, <2>5 DEF Next
<1> QED
  BY <1>1, <1>2, PTL DEF Spec

\* Both DBs are level with the block store whenever no commit is in flight:
\* recoverDBs never leaves a DB behind, however far it lagged.
THEOREM AlwaysLevelWhenIdle == Spec => []LevelWhenIdle
<1>1. Protocol => LevelWhenIdle
  BY DEF Protocol, LevelAt, LevelWhenIdle
<1> QED
  BY <1>1, TypeCorrect, PTL

\* The state DB and the history DB at the start.
LEMMA InitMatches == Init => StateMatchesChain /\ HistoryMatchesChain
<1> SUFFICES ASSUME Init PROVE StateMatchesChain /\ HistoryMatchesChain
  OBVIOUS
<1>1. Positions(blocks) = {}
  <2>1. Len(blocks) = 1 /\ Len(blocks[1].txs) = 0
    BY DEF Init, Genesis
  <2> QED
    BY <2>1, InPositions, SMT
<1>2. StateMatchesChain
  BY <1>1 DEF Init, StateMatchesChain, CurrentAt
<1>3. HistoryMatchesChain
  BY <1>1 DEF Init, HistoryMatchesChain
<1> QED
  BY <1>2, <1>3

\* Every step keeps the state DB the serial execution up to its savepoint.
LEMMA NextStateMatches ==
    ASSUME TypeOK, Protocol, StateMatchesChain, [Next]_vars
    PROVE  StateMatchesChain'
<1> USE DEF storeVars, memVars, simVars
<1>0. Len(blocks) \in Nat /\ blocks \in Seq(Block)
  BY SequenceFacts DEF TypeOK
<1>1. CASE UNCHANGED <<blocks, db, savepoint>>
  BY <1>1 DEF StateMatchesChain
<1>2. CASE AddBlock
  <2>1. savepoint = Len(blocks) /\ currentBlock \in Block
    BY <1>2 DEF AddBlock, Protocol, LevelAt, TypeOK
  <2>2. Agree(blocks, blocks', AfterBlock(savepoint))
    BY <1>0, <1>2, <2>1, AppendAgree, SMTT(30) DEF AddBlock, AfterBlock
  <2> QED
    BY <1>2, <2>2, CurrentAgree DEF AddBlock, StateMatchesChain
<1>3. CASE CommitState
  <2> DEFINE n == Len(blocks) - 1
  <2>1. /\ n \in Nat /\ savepoint = n /\ n + 1 \in 1..Len(blocks)
        /\ currentBlock = blocks[n + 1] /\ batch = Updates(blocks[n + 1])
        /\ blocks[n + 1].num = n + 1 /\ savepoint' = n + 1
    BY <1>0, <1>3, SMT DEF CommitState, Protocol, LevelAt, WellFormed
  <2> HIDE DEF n
  <2>2. db' = ApplyUpdates(db, Updates(blocks[n + 1])) /\ blocks' = blocks
    BY <1>3, <2>1 DEF CommitState
  <2> QED
    BY <1>0, <2>1, <2>2, ApplyNextBlock DEF StateMatchesChain
<1>4. CASE RecommitState
  <2>1. /\ savepoint \in Nat /\ savepoint + 1 \in 1..Len(blocks)
        /\ blocks[savepoint + 1].num = savepoint + 1
    BY <1>4, NextRecovererLags DEF RecommitState, Protocol, WellFormed, TypeOK
  <2>2. /\ db' = ApplyUpdates(db, Updates(blocks[savepoint + 1]))
        /\ blocks' = blocks /\ savepoint' = savepoint + 1
    BY <1>4, <2>1 DEF RecommitState
  <2> QED
    BY <1>0, <2>1, <2>2, ApplyNextBlock DEF StateMatchesChain
<1>5. CASE LoseStateDB
  <2>1. \A q \in Positions(blocks) : ~Precedes(q, AfterBlock(0))
    BY <1>0, BeforeAfterBlock, SMT
  <2> QED
    BY <1>5, <2>1 DEF LoseStateDB, StateMatchesChain, CurrentAt
<1> QED
  <2>1. ASSUME NEW t \in TxIds, Simulate(t) PROVE UNCHANGED <<blocks, db, savepoint>>
    BY <2>1 DEF Simulate, NewTxSimulator, GetTxSimulationResults, Done, GetState,
                SetState, DeleteState, GetStateRangeScanIterator
  <2>2. Commit => AddBlock \/ CommitState \/ UNCHANGED <<blocks, db, savepoint>>
    BY DEF Commit, Validate, ValidateAndPrepare, CommitError, CommitHistory
  <2>3. Recover => RecommitState \/ UNCHANGED <<blocks, db, savepoint>>
    BY DEF Recover, Restart, RecommitHistory
  <2>4. Crash \/ UNCHANGED vars => UNCHANGED <<blocks, db, savepoint>>
    BY DEF Crash, vars
  <2> QED
    BY <1>1, <1>2, <1>3, <1>4, <1>5, <2>1, <2>2, <2>3, <2>4 DEF Next

\* Every step keeps the history DB the index of the valid writes up to its
\* savepoint.
LEMMA NextHistoryMatches ==
    ASSUME TypeOK, Protocol, HistoryMatchesChain, [Next]_vars
    PROVE  HistoryMatchesChain'
<1> USE DEF storeVars, memVars, simVars
<1>0. Len(blocks) \in Nat /\ blocks \in Seq(Block) /\ histSavepoint \in 0..Len(blocks)
  BY SequenceFacts, SMT DEF TypeOK, Protocol
<1>h. history = HistoryOf(blocks, histSavepoint)
  BY DEF HistoryMatchesChain, HistoryOf
<1> SUFFICES history' = HistoryOf(blocks', histSavepoint')
  BY DEF HistoryMatchesChain, HistoryOf
<1>1. CASE UNCHANGED <<blocks, history, histSavepoint>>
  BY <1>h, <1>1
<1>2. CASE AddBlock
  <2>1. currentBlock \in Block /\ blocks' = Append(blocks, currentBlock)
        /\ UNCHANGED <<history, histSavepoint>>
    BY <1>2 DEF AddBlock, TypeOK
  <2> QED
    BY <1>0, <1>h, <2>1, HistoryAppend
<1>3. CASE CommitHistory
  <2> DEFINE n == Len(blocks) - 1
  <2>1. /\ n \in Nat /\ histSavepoint = n /\ n + 1 \in 1..Len(blocks)
        /\ currentBlock = blocks[n + 1]
        /\ blocks[n + 1].num = n + 1 /\ histSavepoint' = n + 1
    BY <1>0, <1>3, SMT DEF CommitHistory, Protocol, WellFormed
  <2> HIDE DEF n
  <2>2. history' = history \cup HistoryEntries(blocks[n + 1]) /\ blocks' = blocks
    BY <1>3, <2>1 DEF CommitHistory
  <2> QED
    BY <1>0, <1>h, <2>1, <2>2, HistoryNextBlock
<1>4. CASE RecommitHistory
  <2>1. /\ histSavepoint \in Nat /\ histSavepoint + 1 \in 1..Len(blocks)
        /\ blocks[histSavepoint + 1].num = histSavepoint + 1
    BY <1>4, NextRecovererLags DEF RecommitHistory, Protocol, WellFormed, TypeOK
  <2>2. /\ history' = history \cup HistoryEntries(blocks[histSavepoint + 1])
        /\ blocks' = blocks /\ histSavepoint' = histSavepoint + 1
    BY <1>4, <2>1 DEF RecommitHistory
  <2> QED
    BY <1>0, <1>h, <2>1, <2>2, HistoryNextBlock
<1> QED
  <2>1. ASSUME NEW t \in TxIds, Simulate(t) PROVE UNCHANGED <<blocks, history, histSavepoint>>
    BY <2>1 DEF Simulate, NewTxSimulator, GetTxSimulationResults, Done, GetState,
                SetState, DeleteState, GetStateRangeScanIterator
  <2>2. Commit => AddBlock \/ CommitHistory \/ UNCHANGED <<blocks, history, histSavepoint>>
    BY DEF Commit, Validate, ValidateAndPrepare, CommitError, CommitState
  <2>3. Recover => RecommitHistory \/ UNCHANGED <<blocks, history, histSavepoint>>
    BY DEF Recover, Restart, RecommitState
  <2>4. Crash \/ LoseStateDB \/ UNCHANGED vars => UNCHANGED <<blocks, history, histSavepoint>>
    BY DEF Crash, LoseStateDB, vars
  <2> QED
    BY <1>1, <1>2, <1>3, <1>4, <2>1, <2>2, <2>3, <2>4 DEF Next

\* The state DB is the serial execution of the valid transactions of the
\* blocks up to its savepoint at every moment, through every crash and every
\* recovery, for any number of keys, transactions, blocks and crashes
\* (kvLedger.Commit, recoverDBs, CommitLostBlock, addWriteSetToBatch).
THEOREM StateAlwaysMatchesChain == Spec => []StateMatchesChain
<1>1. Init => StateMatchesChain
  BY InitMatches
<1>2. TypeOK /\ Protocol /\ StateMatchesChain /\ [Next]_vars => StateMatchesChain'
  BY NextStateMatches
<1> QED
  BY <1>1, <1>2, TypeCorrect, PTL DEF Spec

\* The history DB indexes exactly the writes of the valid transactions of the
\* blocks up to its savepoint (historyDB.Commit and CommitLostBlock), also when
\* it is turned off and on again between restarts.
THEOREM HistoryAlwaysMatchesChain == Spec => []HistoryMatchesChain
<1>1. Init => HistoryMatchesChain
  BY InitMatches
<1>2. TypeOK /\ Protocol /\ HistoryMatchesChain /\ [Next]_vars => HistoryMatchesChain'
  BY NextHistoryMatches
<1> QED
  BY <1>1, <1>2, TypeCorrect, PTL DEF Spec

-----------------------------------------------------------------------------
(* Duplicates. *)

\* The block in flight holds no valid transaction that is stored already.
FreshInFlight ==
    pc \in {"validated", "prepared"} =>
        \A i \in 1..Len(currentBlock.txs) :
            currentBlock.flags[i] = "VALID" => ~Stored(currentBlock.txs[i].id)

\* A transaction of the chain is stored.
LEMMA PositionStored ==
    ASSUME TypeOK, NEW p \in Positions(blocks)
    PROVE  Stored(TxAt(blocks, p).id)
BY InPositions, SMTT(30) DEF Stored, TxAt, TypeOK

\* The validator marks no stored transaction valid, and MVCC validation never
\* turns an invalid transaction into a valid one.
LEMMA NextFresh ==
    ASSUME TypeOK, Protocol, FreshInFlight, [Next]_vars
    PROVE  FreshInFlight'
<1> USE DEF storeVars, memVars, simVars
<1>1. CASE UNCHANGED <<pc, currentBlock, blocks>>
  BY <1>1 DEF FreshInFlight, Stored
<1>2. CASE pc' \notin {"validated", "prepared"}
  BY <1>2 DEF FreshInFlight
<1>3. CASE Validate
  <2>1. PICK txs \in Orderable :
            currentBlock' = [num   |-> Len(blocks) + 1, txs |-> txs,
                             flags |-> [j \in 1..Len(txs) |-> ValidatorFlag(txs[j].id)]]
    BY <1>3 DEF Validate
  <2>2. \A t : ValidatorFlag(t) = "VALID" => ~Stored(t)
    BY DEF ValidatorFlag
  <2>3. blocks' = blocks
    BY <1>3 DEF Validate
  <2>4. \A t : Stored(t)' <=> Stored(t)
    BY <2>3 DEF Stored
  <2> QED
    BY <2>1, <2>2, <2>4 DEF FreshInFlight
<1>4. CASE ValidateAndPrepare
  <2>1. PICK flags \in [1..Len(currentBlock.txs) -> Flags] :
            /\ FlagsOf(currentBlock, flags)
            /\ currentBlock' = [currentBlock EXCEPT !.flags = flags]
    BY <1>4 DEF ValidateAndPrepare
  <2>2. currentBlock'.txs = currentBlock.txs /\ currentBlock'.flags = flags
    BY <2>1 DEF TypeOK, Block
  <2>3. ASSUME NEW i \in 1..Len(currentBlock.txs), flags[i] = "VALID"
        PROVE  currentBlock.flags[i] = "VALID"
    BY <2>1, <2>3 DEF FlagsOf, MVCCFlag
  <2>4. blocks' = blocks /\ pc = "validated"
    BY <1>4 DEF ValidateAndPrepare
  <2>5. \A t : Stored(t)' <=> Stored(t)
    BY <2>4 DEF Stored
  <2> QED
    BY <2>2, <2>3, <2>4, <2>5 DEF FreshInFlight
<1> QED
  <2>1. ASSUME NEW t \in TxIds, Simulate(t) PROVE UNCHANGED <<pc, currentBlock, blocks>>
    BY <2>1 DEF Simulate, NewTxSimulator, GetTxSimulationResults, Done, GetState,
                SetState, DeleteState, GetStateRangeScanIterator
  <2>2. AddBlock \/ CommitError \/ CommitState \/ CommitHistory \/ Recover \/ Crash
            => pc' \notin {"validated", "prepared"}
    BY DEF AddBlock, CommitError, CommitState, CommitHistory, Recover, Restart,
           RecommitState, RecommitHistory, AfterRecommit, Crash
  <2>3. LoseStateDB \/ UNCHANGED vars => UNCHANGED <<pc, currentBlock, blocks>>
    BY DEF LoseStateDB, vars
  <2> QED
    BY <1>1, <1>2, <1>3, <1>4, <2>1, <2>2, <2>3 DEF Next, Commit

\* Only AddBlock extends the chain, and the block it adds is fresh.
LEMMA NextValidInOneBlock ==
    ASSUME TypeOK, Protocol, FreshInFlight, ValidInOneBlock, [Next]_vars
    PROVE  ValidInOneBlock'
<1> USE DEF storeVars, memVars, simVars
<1>1. CASE UNCHANGED blocks
  BY <1>1 DEF ValidInOneBlock
<1>2. CASE AddBlock
  <2> DEFINE n == Len(blocks)
  <2>0. n \in Nat /\ blocks \in Seq(Block) /\ blocks' \in Seq(Block)
    BY <1>2, SequenceFacts, AppendFacts DEF AddBlock, TypeOK
  <2>1. /\ Len(blocks') = n + 1
        /\ \A m \in 1..n : blocks'[m] = blocks[m]
        /\ blocks'[n + 1] = currentBlock
    BY <1>2, AppendFacts, SMTT(30) DEF AddBlock, TypeOK
  <2> HIDE DEF n
  <2>2. ASSUME NEW p \in Positions(blocks'), p[1] # n + 1
        PROVE  /\ p \in Positions(blocks)
               /\ TxAt(blocks', p) = TxAt(blocks, p)
               /\ IsValid(blocks', p) <=> IsValid(blocks, p)
    <3>1. p[1] \in 1..n
      BY <2>0, <2>1, <2>2, InPositions, SMT
    <3> QED
      BY <2>0, <2>1, <2>2, <3>1, InPositions, SMTT(30) DEF TxAt, IsValid, n
  <2>3. ASSUME NEW p \in Positions(blocks'), p[1] = n + 1, IsValid(blocks', p)
        PROVE  ~Stored(TxAt(blocks', p).id)
    <3>1. p[2] \in 1..Len(currentBlock.txs)
      BY <2>0, <2>1, <2>3, InPositions, SMT
    <3> QED
      BY <1>2, <2>1, <2>3, <3>1 DEF AddBlock, FreshInFlight, TxAt, IsValid
  <2> SUFFICES ASSUME NEW p \in Positions(blocks'), NEW q \in Positions(blocks'),
                      IsValid(blocks', p), IsValid(blocks', q),
                      TxAt(blocks', p).id = TxAt(blocks', q).id
               PROVE  p[1] = q[1]
    BY DEF ValidInOneBlock
  <2>4. CASE p[1] # n + 1 /\ q[1] # n + 1
    BY <2>2, <2>4 DEF ValidInOneBlock
  <2>5. CASE p[1] = n + 1 /\ q[1] # n + 1
    BY <2>2, <2>3, <2>5, PositionStored
  <2>6. CASE p[1] # n + 1 /\ q[1] = n + 1
    BY <2>2, <2>3, <2>6, PositionStored
  <2> QED
    BY <2>4, <2>5, <2>6
<1> QED
  <2>1. ASSUME NEW t \in TxIds, Simulate(t) PROVE UNCHANGED blocks
    BY <2>1 DEF Simulate, NewTxSimulator, GetTxSimulationResults, Done, GetState,
                SetState, DeleteState, GetStateRangeScanIterator
  <2>2. Commit => AddBlock \/ UNCHANGED blocks
    BY DEF Commit, Validate, ValidateAndPrepare, CommitError, CommitState, CommitHistory
  <2>3. Recover \/ Crash \/ LoseStateDB \/ UNCHANGED vars => UNCHANGED blocks
    BY DEF Recover, Restart, RecommitState, RecommitHistory, Crash, LoseStateDB, vars
  <2> QED
    BY <1>1, <1>2, <2>1, <2>2, <2>3 DEF Next

\* A transaction ordered in several blocks is valid in at most one of them: the
\* duplicate check of the validator against the block store is enough, in spite
\* of crashes between validation and storage.
THEOREM AlwaysValidInOneBlock == Spec => []ValidInOneBlock
<1>1. Init => FreshInFlight /\ ValidInOneBlock
  <2>1. Init => Positions(blocks) = {}
    BY InPositions, SMT DEF Init, Genesis
  <2> QED
    BY <2>1 DEF Init, FreshInFlight, ValidInOneBlock
<1>2. TypeOK /\ Protocol /\ FreshInFlight /\ ValidInOneBlock /\ [Next]_vars
        => (FreshInFlight /\ ValidInOneBlock)'
  BY NextFresh, NextValidInOneBlock
<1> QED
  BY <1>1, <1>2, TypeCorrect, PTL DEF Spec

-----------------------------------------------------------------------------
(* Versions. *)

\* A version names its value: what a key holds at any point of a chain is
\* absent, or is what the transaction at the position of its version wrote.
LEMMA VersionNamesValue ==
    ASSUME NEW bs \in Seq(Block), NEW k, NEW p, NEW vv, CurrentAt(bs, k, p, vv)
    PROVE  \/ vv = Absent
           \/ /\ vv.ver \in Positions(bs) /\ vv.ver # NoVersion
              /\ vv = Written(bs, vv.ver, k)
<1>1. CASE vv = Absent
  BY <1>1
<1>2. ASSUME NEW q \in Positions(bs), vv = Written(bs, q, k), vv # Absent
      PROVE  vv.ver = q /\ q # NoVersion
  <2>1. vv.ver = q
    BY <1>2 DEF Written
  <2>2. q[1] \in 1..Len(bs)
    BY BeforeAfterBlock
  <2> QED
    BY <2>1, <2>2, SMT DEF NoVersion
<1> QED
  BY <1>1, <1>2 DEF CurrentAt

\* Two values of a key that carry the same version are the same value.
LEMMA SameVersion ==
    ASSUME NEW bs \in Seq(Block), NEW k, NEW p, NEW q, NEW vv, NEW ww,
           CurrentAt(bs, k, p, vv), CurrentAt(bs, k, q, ww), vv.ver = ww.ver
    PROVE  vv = ww
<1>1. Absent.ver = NoVersion
  BY DEF Absent
<1>2. vv = Absent \/ (vv.ver # NoVersion /\ vv = Written(bs, vv.ver, k))
  BY VersionNamesValue, SMT
<1>3. ww = Absent \/ (ww.ver # NoVersion /\ ww = Written(bs, ww.ver, k))
  BY VersionNamesValue, SMT
<1> QED
  BY <1>1, <1>2, <1>3

-----------------------------------------------------------------------------
(* What a key holds within a block. *)

\* The transactions of the block that is appended, as positions of the chain.
LEMMA AppendedPositions ==
    ASSUME NEW bs \in Seq(Block), NEW b \in Block, NEW k
    PROVE  LET cs == Append(bs, b)
               N  == Len(bs) + 1
           IN  /\ cs \in Seq(Block) /\ N \in Nat /\ Len(cs) = N /\ cs[N] = b
               /\ \A j \in 1..Len(b.txs) :
                     /\ <<N, j>> \in Positions(cs)
                     /\ ValidWrite(cs, <<N, j>>, k) <=> WritesKey(b, j, k)
               /\ \A q \in Positions(cs) :
                     /\ q[1] \in Nat
                     /\ q[1] # N => q[1] < N
                     /\ q[1] = N => \E j \in 1..Len(b.txs) : q = <<N, j>>
<1> DEFINE cs == Append(bs, b)
           N  == Len(bs) + 1
<1>1. cs \in Seq(Block) /\ N \in Nat /\ Len(cs) = N /\ cs[N] = b /\ N \in 1..Len(cs)
  BY AppendFacts, SequenceFacts, SMT
<1> HIDE DEF cs, N
<1>2. \A q \in Positions(cs) : q[1] \in 1..Len(cs)
  BY <1>1, BeforeAfterBlock
<1>3. /\ \A j \in 1..Len(b.txs) :
           /\ <<N, j>> \in Positions(cs)
           /\ ValidWrite(cs, <<N, j>>, k) <=> WritesKey(b, j, k)
      /\ \A q \in Positions(cs) : q[1] = N => \E j \in 1..Len(b.txs) : q = <<N, j>>
  BY <1>1, BlockPositions
<1> QED
  BY <1>1, <1>2, <1>3, SMT DEF cs, N

\* A key no transaction before i of the next block writes holds, for i, what it
\* holds after the last block.
LEMMA UnwrittenInBlock ==
    ASSUME NEW bs \in Seq(Block), NEW b \in Block, NEW i \in 1..Len(b.txs), NEW k, NEW vv,
           CurrentAt(bs, k, AfterBlock(Len(bs)), vv),
           \A j \in 1..(i - 1) : ~WritesKey(b, j, k)
    PROVE  CurrentAt(Append(bs, b), k, <<Len(bs) + 1, i>>, vv)
<1> DEFINE cs == Append(bs, b)
           N  == Len(bs) + 1
           p  == <<N, i>>
<1>1. /\ cs \in Seq(Block) /\ N \in Nat
      /\ \A j \in 1..Len(b.txs) : ValidWrite(cs, <<N, j>>, k) <=> WritesKey(b, j, k)
      /\ \A q \in Positions(cs) : /\ q[1] \in Nat
                                  /\ q[1] # N => q[1] < N
                                  /\ q[1] = N => \E j \in 1..Len(b.txs) : q = <<N, j>>
  BY AppendedPositions
<1>2. Len(bs) \in Nat /\ AfterBlock(Len(bs)) = <<N, 0>> /\ AfterBlock(Len(bs)) \in Nat \X Nat
  BY SequenceFacts, SMT DEF AfterBlock
<1>3. CurrentAt(cs, k, <<N, 0>>, vv)
  BY <1>2, AppendAgree, CurrentAgree
<1> HIDE DEF cs, N
<1>4. ASSUME NEW q \in Positions(cs), ValidWrite(cs, q, k)
      PROVE  Precedes(q, p) <=> Precedes(q, <<N, 0>>)
  <2>1. CASE q[1] # N
    BY <1>1, <2>1 DEF Precedes
  <2>2. CASE q[1] = N
    <3>1. PICK j \in 1..Len(b.txs) : q = <<N, j>>
      BY <1>1, <2>2
    <3>2. ~(j \in 1..(i - 1))
      BY <1>1, <1>4, <3>1
    <3>3. i \in Nat /\ j \in Nat /\ j >= 1 /\ ~(j < i)
      BY <3>2, SMT
    <3> QED
      BY <1>1, <3>1, <3>3, SMT DEF Precedes
  <2> QED
    BY <2>1, <2>2
<1>5. CurrentAt(cs, k, p, vv)
  BY <1>3, <1>4 DEF CurrentAt, LastWrite
<1> QED
  BY <1>5 DEF cs, N

\* A key the last writer before i of the next block deletes is absent for i.
LEMMA DeletedInBlock ==
    ASSUME NEW bs \in Seq(Block), NEW b \in Block, NEW i \in 1..Len(b.txs), NEW k,
           NEW last \in 1..(i - 1), WritesKey(b, last, k), b.txs[last].writes[k] = "DEL",
           \A j \in 1..(i - 1) : WritesKey(b, j, k) => j <= last
    PROVE  CurrentAt(Append(bs, b), k, <<Len(bs) + 1, i>>, Absent)
<1> DEFINE cs == Append(bs, b)
           N  == Len(bs) + 1
           p  == <<N, i>>
           w  == <<N, last>>
<1>1. /\ cs \in Seq(Block) /\ N \in Nat /\ cs[N] = b
      /\ \A j \in 1..Len(b.txs) : /\ <<N, j>> \in Positions(cs)
                                  /\ ValidWrite(cs, <<N, j>>, k) <=> WritesKey(b, j, k)
      /\ \A q \in Positions(cs) : /\ q[1] \in Nat
                                  /\ q[1] # N => q[1] < N
                                  /\ q[1] = N => \E j \in 1..Len(b.txs) : q = <<N, j>>
  BY AppendedPositions
<1>0. Len(b.txs) \in Nat
  BY SequenceFacts DEF Block
<1>2. last \in 1..Len(b.txs) /\ last \in Nat /\ i \in Nat /\ last < i
  BY <1>0, SMT
<1> HIDE DEF cs, N
<1>3. w \in Positions(cs) /\ ValidWrite(cs, w, k) /\ Precedes(w, p)
  BY <1>1, <1>2 DEF Precedes
<1>4. ASSUME NEW r \in Positions(cs), Precedes(r, p), ValidWrite(cs, r, k)
      PROVE  ~Precedes(w, r)
  <2>1. CASE r[1] # N
    BY <1>1, <2>1, SMTT(30) DEF Precedes
  <2>2. CASE r[1] = N
    <3>1. PICK j \in 1..Len(b.txs) : r = <<N, j>>
      BY <1>1, <2>2
    <3>2. j \in Nat /\ j >= 1 /\ j < i
      BY <1>1, <1>2, <1>4, <3>1, SMTT(30) DEF Precedes
    <3>3. j <= last
      BY <1>1, <1>2, <1>4, <3>1, <3>2, SMT
    <3> QED
      BY <1>1, <1>2, <3>1, <3>2, <3>3, SMTT(30) DEF Precedes
  <2> QED
    BY <2>1, <2>2
<1>5. Written(cs, w, k) = Absent
  BY <1>1 DEF Written, TxAt
<1>6. CurrentAt(cs, k, p, Absent)
  BY <1>3, <1>4, <1>5 DEF CurrentAt, LastWrite
<1> QED
  BY <1>6 DEF cs, N

-----------------------------------------------------------------------------
(* Simulations. *)

\* A simulation that has read something holds the lock, and what it has read
\* is still in the state DB; the ledger is not open before the genesis block is
\* in the state DB.
ReadersSeeDB ==
    /\ Open => savepoint >= 1
    /\ \A t \in Readers : /\ Open
                          /\ \A k \in Keys : rwset[t].reads[k] \in {Nil, db[k]}
                          /\ \A k \in Keys : rwset[t].scan[k] \in {Nil, db[k]}
    /\ \A t \in TxIds : status[t] = "new" =>
          \A k \in Keys : rwset[t].reads[k] = Nil /\ rwset[t].scan[k] = Nil

\* A read or a write of simulation u records at most what the state DB holds,
\* and leaves the other simulations alone.
LEMMA SimulateRecords ==
    ASSUME TypeOK, NEW u \in TxIds, Simulate(u)
    PROVE  /\ UNCHANGED <<blocks, db, savepoint, pc, currentBlock>>
           /\ \A t \in TxIds \ {u} : rwset'[t] = rwset[t] /\ status'[t] = status[t]
           /\ \A k \in Keys : /\ rwset'[u].reads[k] \in {rwset[u].reads[k], db[k]}
                              /\ rwset'[u].scan[k] \in {rwset[u].scan[k], db[k], Nil}
           /\ status'[u] # "new"
           /\ status'[u] # "simulating" => rwset'[u] = rwset[u]
           /\ status'[u] = "simulating" => \/ status[u] = "simulating"
                                           \/ status[u] = "new" /\ Open
<1> USE DEF storeVars, memVars, TypeOK, TxRwSet, Entries
<1>1. CASE NewTxSimulator(u)
  BY <1>1 DEF NewTxSimulator
<1>2. CASE GetTxSimulationResults(u) \/ Done(u)
  BY <1>2 DEF GetTxSimulationResults, Done
<1>3. ASSUME NEW k \in Keys, GetState(u, k) \/ SetState(u, k) \/ DeleteState(u, k)
      PROVE  /\ \A l \in Keys : /\ rwset'[u].reads[l] \in {rwset[u].reads[l], db[l]}
                                /\ rwset'[u].scan[l] = rwset[u].scan[l]
             /\ \A t \in TxIds \ {u} : rwset'[t] = rwset[t]
             /\ status[u] = "simulating"
             /\ UNCHANGED <<blocks, db, savepoint, pc, currentBlock, status>>
  <2>0. status[u] = "simulating" /\ UNCHANGED <<blocks, db, savepoint, pc, currentBlock, status>>
    BY <1>3 DEF GetState, SetState, DeleteState, Simulating
  <2>1. CASE GetState(u, k)
    BY <2>0, <2>1, SMTT(30) DEF GetState
  <2>2. CASE SetState(u, k)
    BY <2>0, <2>2, SMTT(30) DEF SetState
  <2>3. CASE DeleteState(u, k)
    BY <2>0, <2>3, SMT DEF DeleteState
  <2> QED
    BY <1>3, <2>1, <2>2, <2>3
<1>4. ASSUME NEW R \in Ranges, GetStateRangeScanIterator(u, R)
      PROVE  /\ \A l \in Keys : /\ rwset'[u].reads[l] = rwset[u].reads[l]
                                /\ rwset'[u].scan[l] \in {db[l], Nil}
             /\ \A t \in TxIds \ {u} : rwset'[t] = rwset[t]
             /\ status[u] = "simulating"
             /\ UNCHANGED <<blocks, db, savepoint, pc, currentBlock, status>>
  BY <1>4, SMT DEF GetStateRangeScanIterator, Simulating
<1> HIDE DEF TypeOK, TxRwSet, Entries
<1>5. CASE \E k \in Keys : GetState(u, k) \/ SetState(u, k) \/ DeleteState(u, k)
  BY <1>3, <1>5
<1>6. CASE \E R \in Ranges : GetStateRangeScanIterator(u, R)
  BY <1>4, <1>6
<1> QED
  BY <1>1, <1>2, <1>5, <1>6 DEF Simulate

\* No commit becomes visible to a simulation that is under way: the committer
\* waits for the readers, and a reader does not survive a crash.
LEMMA NextReaders ==
    ASSUME TypeOK, Protocol, TypeOK', Protocol', ReadersSeeDB, [Next]_vars
    PROVE  ReadersSeeDB'
<1> USE DEF storeVars, memVars, simVars
<1>1. ASSUME NEW u \in TxIds, Simulate(u) PROVE ReadersSeeDB'
  <2>1. Open' <=> Open
    BY <1>1, SimulateRecords DEF Open
  <2>2. (Open => savepoint >= 1)'
    BY <1>1, <2>1, SimulateRecords DEF ReadersSeeDB
  <2>3. ASSUME NEW t \in Readers'
        PROVE  /\ Open'
               /\ \A k \in Keys : /\ rwset'[t].reads[k] \in {Nil, db'[k]}
                                  /\ rwset'[t].scan[k] \in {Nil, db'[k]}
    <3>1. CASE t = u
      BY <1>1, <2>1, <2>3, <3>1, SimulateRecords, SMTT(30) DEF ReadersSeeDB, Readers
    <3>2. CASE t # u
      BY <1>1, <2>1, <2>3, <3>2, SimulateRecords, SMTT(30) DEF ReadersSeeDB, Readers
    <3> QED
      BY <3>1, <3>2
  <2>4. ASSUME NEW t \in TxIds, status'[t] = "new", NEW k \in Keys
        PROVE  rwset'[t].reads[k] = Nil /\ rwset'[t].scan[k] = Nil
    BY <1>1, <2>4, SimulateRecords, SMT DEF ReadersSeeDB
  <2> QED
    BY <2>2, <2>3, <2>4 DEF ReadersSeeDB
<1>2. ASSUME UNCHANGED <<db, status, rwset>>, Open' => savepoint' >= 1, Open => Open'
      PROVE  ReadersSeeDB'
  BY <1>2 DEF ReadersSeeDB, Readers
<1>3. ASSUME Readers = {}, UNCHANGED <<status, rwset>>, Open' => savepoint' >= 1
      PROVE  ReadersSeeDB'
  BY <1>3 DEF ReadersSeeDB, Readers
<1>4. pc' \in {"idle", "validated", "prepared", "stateCommitted"} => savepoint' >= 1
  <2>1. savepoint' \in Nat /\ Len(blocks)' \in Nat
    BY SequenceFacts DEF TypeOK
  <2> QED
    BY <2>1 DEF Protocol, LevelAt
<1>5. ASSUME Validate \/ ValidateAndPrepare \/ CommitError \/ CommitHistory
      PROVE  ReadersSeeDB'
  <2>1. UNCHANGED <<db, status, rwset>> /\ pc' \in {"idle", "validated", "prepared"}
    BY <1>5 DEF Validate, ValidateAndPrepare, CommitError, CommitHistory
  <2> QED
    BY <1>2, <1>4, <2>1 DEF Open
<1>6. CASE AddBlock
  BY <1>2, <1>6 DEF AddBlock, Open, ReadersSeeDB
<1>7. CASE CommitState
  <2>1. pc' \in {"idle", "stateCommitted"}
    BY <1>7 DEF CommitState
  <2> QED
    BY <1>3, <1>4, <1>7, <2>1 DEF CommitState
<1>8. CASE Recover \/ LoseStateDB
  <2>1. ~Open /\ Readers = {}
    BY <1>8 DEF Recover, Restart, RecommitState, RecommitHistory, LoseStateDB, Open,
                ReadersSeeDB
  <2>2. UNCHANGED <<status, rwset>> /\ pc' \in {"idle", "recover", "down"}
    BY <1>8 DEF Recover, Restart, RecommitState, RecommitHistory, AfterRecommit, LoseStateDB
  <2> QED
    BY <1>3, <1>4, <2>1, <2>2 DEF Open
<1>9. CASE Crash
  <2>1. pc' = "down" /\ rwset' = rwset
    BY <1>9 DEF Crash
  <2>2. \A t \in TxIds : /\ status'[t] # "simulating"
                         /\ status'[t] = "new" => status[t] = "new"
    BY <1>9 DEF Crash
  <2>3. Readers' = {} /\ ~Open'
    BY <2>1, <2>2 DEF Readers, Open
  <2> QED
    BY <2>1, <2>2, <2>3 DEF ReadersSeeDB
<1>10. CASE UNCHANGED vars
  BY <1>10 DEF vars, ReadersSeeDB, Readers, Open
<1> QED
  BY <1>1, <1>5, <1>6, <1>7, <1>8, <1>9, <1>10 DEF Next, Commit

\* A step that is not one of its reads leaves a read-write set alone.
LEMMA RwSetKept ==
    ASSUME TypeOK, [Next]_vars, NEW t \in TxIds, t \notin Readers'
    PROVE  rwset'[t] = rwset[t]
<1> USE DEF storeVars, memVars, simVars
<1>1. ASSUME NEW u \in TxIds, Simulate(u) PROVE rwset'[t] = rwset[t]
  BY <1>1, SimulateRecords DEF Readers
<1>2. ASSUME ~\E u \in TxIds : Simulate(u) PROVE rwset' = rwset
  BY <1>2 DEF Next, Commit, Validate, ValidateAndPrepare, AddBlock, CommitError, CommitState,
              CommitHistory, Recover, Restart, RecommitState, RecommitHistory, Crash,
              LoseStateDB, vars
<1> QED
  BY <1>1, <1>2

\* The chain grows at its end only, by a well-typed block.
LEMMA ChainGrows ==
    ASSUME TypeOK, [Next]_vars
    PROVE  \/ blocks' = blocks
           \/ AddBlock /\ currentBlock \in Block /\ blocks' = Append(blocks, currentBlock)
<1> USE DEF storeVars, memVars, simVars
<1>1. ASSUME NEW u \in TxIds, Simulate(u) PROVE blocks' = blocks
  BY <1>1, SimulateRecords
<1>2. ASSUME ~\E u \in TxIds : Simulate(u), ~AddBlock PROVE blocks' = blocks
  BY <1>2 DEF Next, Commit, Validate, ValidateAndPrepare, CommitError, CommitState,
              CommitHistory, Recover, Restart, RecommitState, RecommitHistory, Crash,
              LoseStateDB, vars
<1>3. AddBlock => currentBlock \in Block /\ blocks' = Append(blocks, currentBlock)
  BY DEF AddBlock, TypeOK
<1> QED
  BY <1>1, <1>2, <1>3

\* What was seen at a height of the chain is seen there when the chain grows.
LEMMA SawAppend ==
    ASSUME NEW bs \in Seq(Block), NEW b \in Block, NEW n \in 1..Len(bs), NEW x, NEW k,
           SawAt(bs, x, k, AfterBlock(n))
    PROVE  SawAt(Append(bs, b), x, k, AfterBlock(n)) /\ n \in 1..Len(Append(bs, b))
<1>1. Len(bs) \in Nat /\ Len(Append(bs, b)) = Len(bs) + 1
  BY AppendFacts, SequenceFacts
<1>2. AfterBlock(n) \in Nat \X Nat
  BY SMT DEF AfterBlock
<1>3. AfterBlock(n)[1] <= Len(bs) \/ AfterBlock(n) = AfterBlock(Len(bs))
  BY <1>1, SMT DEF AfterBlock
<1>4. Agree(bs, Append(bs, b), AfterBlock(n))
  BY <1>2, <1>3, AppendAgree
<1> QED
  BY <1>1, <1>4, CurrentAgree, SMT DEF SawAt

\* What the proofs about isolation rest on.
Grounds == TypeOK /\ Protocol /\ StateMatchesChain

\* They hold in every state, by the theorems about the commit protocol.
LEMMA GroundsHold == Spec => []Grounds
BY TypeCorrect, StateAlwaysMatchesChain, PTL DEF Grounds

\* The snapshot of a simulation stays one when the chain grows.
LEMMA NextSnapshot ==
    ASSUME Grounds, Grounds', ReadersSeeDB', SimulationSnapshot, [Next]_vars
    PROVE  SimulationSnapshot'
<1> SUFFICES ASSUME NEW t \in TxIds
             PROVE  \E n \in 1..Len(blocks') : \A k \in Keys :
                        SawAt(blocks', rwset'[t], k, AfterBlock(n))
  BY DEF SimulationSnapshot
<1>1. CASE t \in Readers'
  <2>1. savepoint' \in 1..Len(blocks')
    <3>1. savepoint' \in Nat /\ Len(blocks') \in Nat
      BY SequenceFacts DEF Grounds, TypeOK
    <3> QED
      BY <1>1, <3>1, SMT DEF Grounds, ReadersSeeDB, Protocol
  <2>2. \A k \in Keys : /\ rwset'[t].reads[k] # Nil => rwset'[t].reads[k] = db'[k]
                        /\ rwset'[t].scan[k] # Nil => rwset'[t].scan[k] = db'[k]
    BY <1>1 DEF ReadersSeeDB
  <2>3. \A k \in Keys : SawAt(blocks', rwset'[t], k, AfterBlock(savepoint'))
    BY <2>2 DEF Grounds, StateMatchesChain, SawAt
  <2> QED
    BY <2>1, <2>3
<1>2. CASE t \notin Readers'
  <2>1. PICK n \in 1..Len(blocks) : \A k \in Keys : SawAt(blocks, rwset[t], k, AfterBlock(n))
    BY DEF SimulationSnapshot
  <2>2. rwset'[t] = rwset[t] /\ blocks \in Seq(Block)
    BY <1>2, RwSetKept DEF Grounds, TypeOK
  <2>3. CASE blocks' = blocks
    BY <2>1, <2>2, <2>3
  <2>4. CASE currentBlock \in Block /\ blocks' = Append(blocks, currentBlock)
    BY <2>1, <2>2, <2>4, SawAppend, SMT
  <2> QED
    BY <2>3, <2>4, ChainGrows DEF Grounds
<1> QED
  BY <1>1, <1>2

\* Everything a simulation reads, it reads from one committed height, for every
\* number of simulations, keys, blocks and crashes: a block commit never becomes
\* visible half way through a simulation (commitRWLock), and a simulation does
\* not outlive the peer that runs it.
THEOREM AlwaysSimulationSnapshot == Spec => []SimulationSnapshot
<1>1. Init => ReadersSeeDB /\ SimulationSnapshot
  <2> SUFFICES ASSUME Init PROVE ReadersSeeDB /\ SimulationSnapshot
    OBVIOUS
  <2>1. \A t \in TxIds : \A k \in Keys : rwset[t].reads[k] = Nil /\ rwset[t].scan[k] = Nil
    BY DEF Init, NewTx, NoEntries
  <2>2. savepoint = 1 /\ Readers = {} /\ Len(blocks) = 1
    BY DEF Init, Readers
  <2>3. ReadersSeeDB
    BY <2>1, <2>2, SMT DEF ReadersSeeDB
  <2>4. SimulationSnapshot
    BY <2>1, <2>2, SMT DEF SimulationSnapshot, SawAt
  <2> QED
    BY <2>3, <2>4
<1>2. /\ Grounds /\ Grounds' /\ ReadersSeeDB /\ SimulationSnapshot /\ [Next]_vars
      => (ReadersSeeDB /\ SimulationSnapshot)'
  <2> SUFFICES ASSUME Grounds, Grounds', ReadersSeeDB, SimulationSnapshot, [Next]_vars
               PROVE  ReadersSeeDB' /\ SimulationSnapshot'
    OBVIOUS
  <2>1. ReadersSeeDB'
    BY NextReaders DEF Grounds
  <2> QED
    BY <2>1, NextSnapshot
<1> QED
  BY <1>1, <1>2, GroundsHold, PTL DEF Spec

-----------------------------------------------------------------------------
(* Validation. *)

\* What the transactions of a block that is about to be validated have seen.
InFlightSnapshot ==
    pc = "validated" =>
        \A i \in 1..Len(currentBlock.txs) : \E n \in 1..Len(blocks) : \A k \in Keys :
            SawAt(blocks, currentBlock.txs[i], k, AfterBlock(n))

\* What the valid transactions of a block that is about to be stored have seen.
PreparedSerial ==
    pc = "prepared" =>
        \A i \in 1..Len(currentBlock.txs) : currentBlock.flags[i] = "VALID" =>
            \A k \in Keys : SawAt(Append(blocks, currentBlock), currentBlock.txs[i], k,
                                 <<Len(blocks) + 1, i>>)

\* A valid transaction that read a key has found what the key holds at its
\* position (validateKVRead).
LEMMA ValidRead ==
    ASSUME Grounds, pc = "validated", NEW b \in Block, NEW i \in 1..Len(b.txs), NEW k \in Keys,
           NEW p, NEW vv, vv # Nil, CurrentAt(blocks, k, p, vv), vv.ver = db[k].ver,
           \A j \in 1..(i - 1) : ~WritesKey(b, j, k)
    PROVE  CurrentAt(Append(blocks, b), k, <<Len(blocks) + 1, i>>, vv)
<1>1. blocks \in Seq(Block) /\ savepoint = Len(blocks)
  BY DEF Grounds, TypeOK, Protocol, LevelAt
<1>2. CurrentAt(blocks, k, AfterBlock(Len(blocks)), db[k])
  BY <1>1 DEF Grounds, StateMatchesChain
<1>3. vv = db[k]
  BY <1>1, <1>2, SameVersion
<1> QED
  BY <1>1, <1>2, <1>3, UnwrittenInBlock

\* A valid transaction that scanned a key has found what the key holds at its
\* position, a deletion of its own block included (validateRangeQuery).
LEMMA ValidScan ==
    ASSUME Grounds, pc = "validated", NEW b \in Block, b.num = Len(blocks) + 1,
           NEW i \in 1..Len(b.txs), NEW k \in Keys,
           NEW p, NEW vv, vv # Nil, CurrentAt(blocks, k, p, vv),
           CombinedVersion(b, b.flags, i, k) = vv.ver
    PROVE  CurrentAt(Append(blocks, b), k, <<Len(blocks) + 1, i>>, vv)
<1> DEFINE prior == {j \in 1..(i - 1) : b.flags[j] = "VALID" /\ b.txs[j].writes[k] # Nil}
           last  == CHOOSE j \in prior : \A l \in prior : l <= j
<1>1. \A j \in 1..(i - 1) : j \in prior <=> WritesKey(b, j, k)
  BY DEF WritesKey
<1>2. CombinedVersion(b, b.flags, i, k) =
        IF prior = {} THEN db[k].ver
        ELSE IF b.txs[last].writes[k] = "DEL" THEN NoVersion ELSE <<b.num, last>>
  BY DEF CombinedVersion
<1>3. prior \in SUBSET (1..(i - 1)) /\ i - 1 \in Nat
  BY SMT
<1> HIDE DEF prior
<1>4. CASE prior = {}
  BY <1>1, <1>2, <1>4, ValidRead
<1>5. CASE prior # {}
  <2>1. \E j \in prior : \A l \in prior : l <= j
    BY <1>3, <1>5, LargestIndex
  <2>2. last \in prior /\ \A l \in prior : l <= last
    BY <2>1
  <2> HIDE DEF last
  <2>3. /\ last \in 1..(i - 1) /\ WritesKey(b, last, k)
        /\ \A j \in 1..(i - 1) : WritesKey(b, j, k) => j <= last
    BY <1>1, <1>3, <2>2
  <2>4. blocks \in Seq(Block) /\ Len(blocks) \in Nat
    BY SequenceFacts DEF Grounds, TypeOK
  <2>5. \/ vv = Absent
        \/ vv.ver # NoVersion /\ vv.ver[1] \in 1..Len(blocks)
    BY <2>4, VersionNamesValue, BeforeAfterBlock
  <2>6. CASE b.txs[last].writes[k] = "DEL"
    <3>1. vv = Absent
      BY <1>2, <1>5, <2>5, <2>6
    <3> QED
      BY <2>3, <2>4, <2>6, <3>1, DeletedInBlock
  <2>7. CASE b.txs[last].writes[k] # "DEL"
    <3>1. vv.ver = <<Len(blocks) + 1, last>>
      BY <1>2, <1>5, <2>7
    <3>2. Absent.ver = <<0, 0>>
      BY DEF Absent, NoVersion
    <3> QED
      BY <2>4, <2>5, <3>1, <3>2, SMT
  <2> QED
    BY <2>6, <2>7
<1> QED
  BY <1>4, <1>5

\* The combined iterator does not look at the flags stored in the block.
LEMMA CombinedDepends ==
    ASSUME NEW b, NEW c, b.txs = c.txs, b.num = c.num, NEW flags, NEW i, NEW k
    PROVE  CombinedVersion(b, flags, i, k) = CombinedVersion(c, flags, i, k)
<1> DEFINE prior(x) == {j \in 1..(i - 1) : flags[j] = "VALID" /\ x.txs[j].writes[k] # Nil}
           last(S)  == CHOOSE j \in S : \A l \in S : l <= j
<1>1. \A x : CombinedVersion(x, flags, i, k) =
               IF prior(x) = {} THEN db[k].ver
               ELSE IF x.txs[last(prior(x))].writes[k] = "DEL" THEN NoVersion
               ELSE <<x.num, last(prior(x))>>
  BY DEF CombinedVersion
<1>2. prior(b) = prior(c)
  OBVIOUS
<1> HIDE DEF prior, last
<1> QED
  BY <1>1, <1>2

\* What MVCC validation lets through has seen the state at its own position.
LEMMA ValidatedIsSerial ==
    ASSUME Grounds, Grounds', InFlightSnapshot, ValidateAndPrepare
    PROVE  PreparedSerial'
<1> DEFINE b == currentBlock'
<1>1. PICK flags \in [1..Len(currentBlock.txs) -> Flags] :
          /\ FlagsOf(currentBlock, flags)
          /\ b = [currentBlock EXCEPT !.flags = flags]
  BY DEF ValidateAndPrepare
<1>2. /\ b \in Block /\ b.txs = currentBlock.txs /\ b.flags = flags
      /\ b.num = Len(blocks) + 1 /\ blocks' = blocks /\ pc = "validated"
  BY <1>1 DEF Grounds, TypeOK, Protocol, WellFormed, Block, ValidateAndPrepare, storeVars
<1> HIDE DEF b
<1>3. ASSUME NEW i \in 1..Len(b.txs), b.flags[i] = "VALID", NEW k \in Keys
      PROVE  SawAt(Append(blocks, b), b.txs[i], k, <<Len(blocks) + 1, i>>)
  <2>1. ~ReadConflict(currentBlock, flags, i) /\ ~PhantomConflict(currentBlock, flags, i)
    BY <1>1, <1>2, <1>3 DEF FlagsOf, MVCCFlag
  <2>2. PICK n \in 1..Len(blocks) : \A l \in Keys : SawAt(blocks, b.txs[i], l, AfterBlock(n))
    BY <1>2 DEF InFlightSnapshot
  <2>3. ASSUME b.txs[i].reads[k] # Nil
        PROVE  CurrentAt(Append(blocks, b), k, <<Len(blocks) + 1, i>>, b.txs[i].reads[k])
    <3>1. CurrentAt(blocks, k, AfterBlock(n), b.txs[i].reads[k])
      BY <2>2, <2>3 DEF SawAt
    <3>2. db[k].ver = b.txs[i].reads[k].ver /\ \A j \in 1..(i - 1) : ~WritesKey(b, j, k)
      BY <1>2, <2>1, <2>3 DEF ReadConflict, WritesKey
    <3> QED
      BY <1>2, <2>3, <3>1, <3>2, ValidRead
  <2>4. ASSUME b.txs[i].scan[k] # Nil
        PROVE  CurrentAt(Append(blocks, b), k, <<Len(blocks) + 1, i>>, b.txs[i].scan[k])
    <3>1. CurrentAt(blocks, k, AfterBlock(n), b.txs[i].scan[k])
      BY <2>2, <2>4 DEF SawAt
    <3>2. CombinedVersion(currentBlock, flags, i, k) = b.txs[i].scan[k].ver
      BY <1>2, <2>1, <2>4 DEF PhantomConflict
    <3>3. CombinedVersion(b, b.flags, i, k) = CombinedVersion(currentBlock, flags, i, k)
      <4>1. b.num = currentBlock.num
        BY <1>2 DEF Grounds, Protocol, WellFormed
      <4> QED
        BY <1>2, <4>1, CombinedDepends, SMT
    <3> QED
      BY <1>2, <2>4, <3>1, <3>2, <3>3, ValidScan
  <2> QED
    BY <2>3, <2>4 DEF SawAt
<1> QED
  BY <1>2, <1>3 DEF PreparedSerial, b

\* The transactions of the block in flight.
LEMMA NextInFlight ==
    ASSUME Grounds, Grounds', SimulationSnapshot, InFlightSnapshot, PreparedSerial, [Next]_vars
    PROVE  InFlightSnapshot' /\ PreparedSerial'
<1> USE DEF storeVars, memVars, simVars
<1>1. CASE UNCHANGED <<pc, currentBlock, blocks>>
  BY <1>1 DEF InFlightSnapshot, PreparedSerial
<1>2. CASE pc' \notin {"validated", "prepared"}
  BY <1>2 DEF InFlightSnapshot, PreparedSerial
<1>3. CASE Validate
  <2>1. PICK txs \in Orderable : currentBlock'.txs = txs
    BY <1>3, SMT DEF Validate
  <2>2. blocks' = blocks /\ pc' = "validated"
    BY <1>3 DEF Validate
  <2>3. ASSUME NEW i \in 1..Len(txs) PROVE \E t \in TxIds : txs[i] = rwset[t]
    <3>1. PICK m \in 1..MaxBlockTxs : txs \in [1..m -> {rwset[t] : t \in Endorsed}]
      BY DEF Orderable
    <3>2. Len(txs) = m
      BY <3>1, KVLedgerAssumption, SMT
    <3> QED
      BY <3>1, <3>2 DEF Endorsed
  <2> QED
    BY <2>1, <2>2, <2>3 DEF InFlightSnapshot, PreparedSerial, SimulationSnapshot
<1>4. CASE ValidateAndPrepare
  <2>1. pc' = "prepared"
    BY <1>4 DEF ValidateAndPrepare
  <2> QED
    BY <1>4, <2>1, ValidatedIsSerial DEF InFlightSnapshot
<1> QED
  <2>1. ASSUME NEW t \in TxIds, Simulate(t) PROVE UNCHANGED <<pc, currentBlock, blocks>>
    BY <2>1, SimulateRecords DEF Grounds
  <2>2. AddBlock \/ CommitError \/ CommitState \/ CommitHistory \/ Recover \/ Crash
            => pc' \notin {"validated", "prepared"}
    BY DEF AddBlock, CommitError, CommitState, CommitHistory, Recover, Restart,
           RecommitState, RecommitHistory, AfterRecommit, Crash
  <2>3. LoseStateDB \/ UNCHANGED vars => UNCHANGED <<pc, currentBlock, blocks>>
    BY DEF LoseStateDB, vars
  <2> QED
    BY <1>1, <1>2, <1>3, <1>4, <2>1, <2>2, <2>3 DEF Next, Commit

\* Only AddBlock extends the chain, by transactions that saw the state at their
\* own position.
LEMMA NextSerializable ==
    ASSUME Grounds, PreparedSerial, Serializable, [Next]_vars
    PROVE  Serializable'
<1>1. CASE blocks' = blocks
  BY <1>1 DEF Serializable
<1>2. CASE AddBlock /\ currentBlock \in Block /\ blocks' = Append(blocks, currentBlock)
  <2> DEFINE N == Len(blocks) + 1
  <2>1. /\ blocks \in Seq(Block) /\ N \in Nat /\ Len(blocks') = N /\ blocks'[N] = currentBlock
        /\ Len(blocks) \in Nat /\ \A m \in 1..Len(blocks) : blocks'[m] = blocks[m]
    BY <1>2, AppendFacts, SequenceFacts, SMTT(30) DEF Grounds, TypeOK
  <2> SUFFICES ASSUME NEW p \in Positions(blocks'), IsValid(blocks', p), NEW k \in Keys
               PROVE  SawAt(blocks', TxAt(blocks', p), k, p)
    BY DEF Serializable
  <2>2. PICK m \in 1..N : \E j \in 1..Len(blocks'[m].txs) : p = <<m, j>>
    BY <2>1, InPositions, SMT
  <2>3. PICK i \in 1..Len(blocks'[m].txs) : p = <<m, i>>
    BY <2>2
  <2>4. CASE m = N
    BY <1>2, <2>1, <2>3, <2>4 DEF PreparedSerial, AddBlock, TxAt, IsValid
  <2>5. CASE m # N
    <3>1. m \in 1..Len(blocks) /\ blocks'[m] = blocks[m]
      BY <2>1, <2>5, SMT
    <3>2. /\ p \in Positions(blocks) /\ IsValid(blocks, p)
          /\ TxAt(blocks', p) = TxAt(blocks, p)
      BY <2>3, <3>1, InPositions DEF IsValid, TxAt
    <3>3. p \in Nat \X Nat /\ p[1] <= Len(blocks)
      BY <2>1, <2>3, <3>1, SMTT(30)
    <3>4. Agree(blocks, blocks', p)
      BY <1>2, <2>1, <3>3, AppendAgree
    <3>5. SawAt(blocks, TxAt(blocks, p), k, p)
      BY <3>2 DEF Serializable
    <3> QED
      BY <3>2, <3>4, <3>5, CurrentAgree DEF SawAt
  <2> QED
    BY <2>4, <2>5
<1> QED
  BY <1>1, <1>2, ChainGrows DEF Grounds

\* A transaction marked valid saw, for each key it read or scanned, exactly the
\* value a serial execution in chain order shows it, for every number of
\* transactions, keys, blocks and crashes: the version checks of validateTx
\* against the state DB and the preceding transactions of the block are enough,
\* although simulation, ordering and validation are apart.
THEOREM AlwaysSerializable == Spec => []Serializable
<1>1. Init => InFlightSnapshot /\ PreparedSerial /\ Serializable
  <2>1. Init => Positions(blocks) = {}
    BY InPositions, SMT DEF Init, Genesis
  <2> QED
    BY <2>1 DEF Init, InFlightSnapshot, PreparedSerial, Serializable
<1>2. /\ Grounds /\ Grounds' /\ SimulationSnapshot
      /\ InFlightSnapshot /\ PreparedSerial /\ Serializable /\ [Next]_vars
      => (InFlightSnapshot /\ PreparedSerial /\ Serializable)'
  BY NextInFlight, NextSerializable
<1> QED
  BY <1>1, <1>2, GroundsHold, AlwaysSimulationSnapshot, PTL DEF Spec

-----------------------------------------------------------------------------
(* The serial execution of the chain, as SerialLedger has it. *)

\* What holds of 0 and passes from each number to the next holds up to n.
LEMMA IndexInduction ==
    ASSUME NEW n \in Nat, NEW S, 0 \in S,
           \A i \in 0..n : i < n /\ i \in S => i + 1 \in S
    PROVE  \A i \in 0..n : i \in S
<1> DEFINE T == {i \in 0..n : i \notin S}
<1>1. SUFFICES ASSUME T # {} PROVE FALSE
  OBVIOUS
<1>2. T \subseteq Nat
  BY SMT
<1>3. PICK x \in T : \A y \in T : ~(y < x)
  <2>1. PICK x \in T : \A y \in T : ~(<<y, x>> \in OpToRel(<, Nat))
    BY <1>1, <1>2, WFMin, NatLessThanWellFounded
  <2>2. \A y \in T : ~(y < x)
    BY <1>2, <2>1 DEF OpToRel
  <2> QED
    BY <2>2
<1>4. x # 0 /\ x - 1 \in 0..n /\ x - 1 < n /\ x - 1 < x
  BY SMT
<1>5. x - 1 \in S
  BY <1>3, <1>4
<1>6. x \in S
  BY <1>4, <1>5, SMT
<1> QED
  BY <1>6

\* A function that satisfies the recursion of Run is Run.
LEMMA RunIs ==
    ASSUME NEW s, NEW b, Len(b) \in Nat,
           NEW g, g = [i \in 0..Len(b) |-> IF i = 0 THEN s ELSE Serial!Exec(g[i - 1], b[i])]
    PROVE  Serial!Run(s, b) = g
<1> DEFINE Is(f) == f = [i \in 0..Len(b) |-> IF i = 0 THEN s ELSE Serial!Exec(f[i - 1], b[i])]
           r == Serial!Run(s, b)
<1>1. r = CHOOSE f : Is(f)
  BY DEF Serial!Run
<1>2. Is(r)
  BY <1>1
<1> DEFINE S == {i \in 0..Len(b) : r[i] = g[i]}
<1> HIDE DEF r
<1>3. 0 \in S
  BY <1>2, SMT
<1>4. ASSUME NEW i \in 0..Len(b), i < Len(b), i \in S PROVE i + 1 \in S
  <2>1. i + 1 \in 0..Len(b) /\ i + 1 # 0 /\ (i + 1) - 1 = i
    BY <1>4, SMT
  <2>2. r[i + 1] = Serial!Exec(r[i], b[i + 1]) /\ g[i + 1] = Serial!Exec(g[i], b[i + 1])
    BY <1>2, <2>1
  <2> QED
    BY <1>4, <2>1, <2>2
<1>5. \A i \in 0..Len(b) : i \in S
  <2> HIDE DEF S
  <2> QED
    BY <1>3, <1>4, IndexInduction
<1>6. r = [i \in 0..Len(b) |-> r[i]] /\ g = [i \in 0..Len(b) |-> g[i]]
  BY <1>2
<1>7. \A i \in 0..Len(b) : r[i] = g[i]
  BY <1>5
<1>8. [i \in 0..Len(b) |-> r[i]] = [i \in 0..Len(b) |-> g[i]]
  BY <1>7
<1> QED
  BY <1>6, <1>8 DEF r

\* A function that satisfies the recursion of States is States.
LEMMA StatesIs ==
    ASSUME NEW c, Len(c) \in Nat,
           NEW g, g = [n \in 0..Len(c) |->
                         IF n = 0 THEN Serial!EmptyState
                         ELSE Serial!Run(g[n - 1], c[n])[Len(c[n])]]
    PROVE  Serial!States(c) = g
<1> DEFINE Is(f) == f = [n \in 0..Len(c) |->
                           IF n = 0 THEN Serial!EmptyState
                           ELSE Serial!Run(f[n - 1], c[n])[Len(c[n])]]
           r == Serial!States(c)
<1>1. r = CHOOSE f : Is(f)
  BY DEF Serial!States
<1>2. Is(r)
  BY <1>1
<1> DEFINE S == {n \in 0..Len(c) : r[n] = g[n]}
<1> HIDE DEF r
<1>3. 0 \in S
  BY <1>2, SMT
<1>4. ASSUME NEW n \in 0..Len(c), n < Len(c), n \in S PROVE n + 1 \in S
  <2>1. n + 1 \in 0..Len(c) /\ n + 1 # 0 /\ (n + 1) - 1 = n
    BY <1>4, SMT
  <2>2. /\ r[n + 1] = Serial!Run(r[n], c[n + 1])[Len(c[n + 1])]
        /\ g[n + 1] = Serial!Run(g[n], c[n + 1])[Len(c[n + 1])]
    BY <1>2, <2>1
  <2> QED
    BY <1>4, <2>1, <2>2
<1>5. \A n \in 0..Len(c) : n \in S
  <2> HIDE DEF S
  <2> QED
    BY <1>3, <1>4, IndexInduction
<1>6. r = [n \in 0..Len(c) |-> r[n]] /\ g = [n \in 0..Len(c) |-> g[n]]
  BY <1>2
<1>7. \A n \in 0..Len(c) : r[n] = g[n]
  BY <1>5
<1>8. [n \in 0..Len(c) |-> r[n]] = [n \in 0..Len(c) |-> g[n]]
  BY <1>7
<1> QED
  BY <1>6, <1>8 DEF r

\* Two positions of a chain are one, or one precedes the other.
LEMMA PositionsOrdered ==
    ASSUME NEW bs \in Seq(Block), NEW q \in Positions(bs), NEW r \in Positions(bs)
    PROVE  q = r \/ Precedes(q, r) \/ Precedes(r, q)
<1>1. q \in Nat \X Nat /\ r \in Nat \X Nat
  BY BeforeAfterBlock
<1> QED
  BY <1>1, SMT DEF Precedes

\* A key holds one value at a time.
LEMMA CurrentUnique ==
    ASSUME NEW bs \in Seq(Block), NEW k, NEW p, NEW vv, NEW ww,
           CurrentAt(bs, k, p, vv), CurrentAt(bs, k, p, ww)
    PROVE  vv = ww
<1>1. \A q, r \in Positions(bs) : LastWrite(bs, k, p, q) /\ LastWrite(bs, k, p, r) => q = r
  BY PositionsOrdered DEF LastWrite
<1> QED
  BY <1>1 DEF CurrentAt, LastWrite

\* What a key holds depends on the positions before.
LEMMA SameBefore ==
    ASSUME NEW bs, NEW k, NEW p, NEW o, NEW vv, CurrentAt(bs, k, p, vv),
           \A q \in Positions(bs) : Precedes(q, p) <=> Precedes(q, o)
    PROVE  CurrentAt(bs, k, o, vv)
BY DEF CurrentAt, LastWrite

\* The start and the end of a block, as points of the chain.
LEMMA BlockEnds ==
    ASSUME NEW bs \in Seq(Block), NEW m \in 1..Len(bs), NEW q \in Positions(bs)
    PROVE  /\ Precedes(q, AfterBlock(m - 1)) <=> Precedes(q, <<m, 1>>)
           /\ Precedes(q, AfterBlock(m)) <=> Precedes(q, <<m, Len(bs[m].txs) + 1>>)
           /\ \A i \in 1..Len(bs[m].txs) :
                 Precedes(q, <<m, i + 1>>) <=> Precedes(q, <<m, i>>) \/ q = <<m, i>>
<1>1. PICK n \in 1..Len(bs) : \E i \in 1..Len(bs[n].txs) : q = <<n, i>>
  BY InPositions, SMT
<1>2. PICK i \in 1..Len(bs[n].txs) : q = <<n, i>>
  BY <1>1
<1>3. bs[n] \in Block /\ bs[m] \in Block /\ Len(bs) \in Nat
  BY ElementFacts, SequenceFacts
<1>4. Len(bs[n].txs) \in Nat /\ Len(bs[m].txs) \in Nat
  BY <1>3, SequenceFacts DEF Block
<1>5. n \in Nat /\ m \in Nat /\ i \in Nat /\ i >= 1 /\ m >= 1 /\ (n = m => i <= Len(bs[m].txs))
  BY <1>3, <1>4, SMT
<1> QED
  BY <1>2, <1>4, <1>5, SMTT(30) DEF Precedes, AfterBlock

\* One transaction further.
LEMMA CurrentStep ==
    ASSUME NEW bs \in Seq(Block), NEW m \in 1..Len(bs), NEW i \in 1..Len(bs[m].txs),
           NEW k, NEW vv, CurrentAt(bs, k, <<m, i>>, vv)
    PROVE  CurrentAt(bs, k, <<m, i + 1>>,
                     IF WritesKey(bs[m], i, k) THEN Written(bs, <<m, i>>, k) ELSE vv)
<1> DEFINE p == <<m, i>>
           o == <<m, i + 1>>
<1>1. p \in Positions(bs) /\ (ValidWrite(bs, p, k) <=> WritesKey(bs[m], i, k))
  BY BlockPositions
<1>2. \A q \in Positions(bs) : Precedes(q, o) <=> Precedes(q, p) \/ q = p
  BY BlockEnds
<1>3. ~Precedes(p, p) /\ \A q \in Positions(bs) : Precedes(q, p) => ~Precedes(p, q)
  <2>1. p \in Nat \X Nat /\ \A q \in Positions(bs) : q \in Nat \X Nat
    BY <1>1, BeforeAfterBlock
  <2> QED
    BY <2>1, SMT DEF Precedes
<1> HIDE DEF p, o
<1>4. CASE WritesKey(bs[m], i, k)
  <2>1. LastWrite(bs, k, o, p)
    BY <1>1, <1>2, <1>3, <1>4 DEF LastWrite
  <2> QED
    BY <1>1, <1>4, <2>1 DEF CurrentAt, p, o
<1>5. CASE ~WritesKey(bs[m], i, k)
  <2>1. \A q \in Positions(bs) : ValidWrite(bs, q, k) => (Precedes(q, o) <=> Precedes(q, p))
    BY <1>1, <1>2, <1>5
  <2>2. CurrentAt(bs, k, p, vv)
    BY DEF p
  <2>3. CurrentAt(bs, k, o, vv)
    BY <2>1, <2>2 DEF CurrentAt, LastWrite
  <2> QED
    BY <1>5, <2>3 DEF o
<1> QED
  BY <1>4, <1>5

\* Every key holds something at p.
Held(bs, p) == \A k \in Keys : \E vv : CurrentAt(bs, k, p, vv)

\* The state of the serial execution at p.
StateAt(bs, p) == [k \in Keys |-> (CHOOSE vv : CurrentAt(bs, k, p, vv)).val]

\* The state has the value each key holds.
LEMMA StateAtIs ==
    ASSUME NEW bs \in Seq(Block), NEW p, NEW k \in Keys, NEW vv, CurrentAt(bs, k, p, vv)
    PROVE  StateAt(bs, p)[k] = vv.val
<1> DEFINE ww == CHOOSE x : CurrentAt(bs, k, p, x)
<1>1. CurrentAt(bs, k, p, ww)
  OBVIOUS
<1>2. StateAt(bs, p)[k] = ww.val
  BY DEF StateAt
<1> HIDE DEF ww
<1>3. ww = vv
  BY <1>1, CurrentUnique
<1> QED
  BY <1>2, <1>3

\* The states at two points with the same positions before them are the same.
LEMMA SameState ==
    ASSUME NEW bs \in Seq(Block), NEW p, NEW o, Held(bs, p),
           \A q \in Positions(bs) : Precedes(q, p) <=> Precedes(q, o)
    PROVE  Held(bs, o) /\ StateAt(bs, p) = StateAt(bs, o)
<1>1. ASSUME NEW k \in Keys
      PROVE  (\E vv : CurrentAt(bs, k, o, vv)) /\ StateAt(bs, p)[k] = StateAt(bs, o)[k]
  <2>1. PICK vv : CurrentAt(bs, k, p, vv)
    BY DEF Held
  <2>2. CurrentAt(bs, k, o, vv)
    BY <2>1, SameBefore
  <2> QED
    BY <2>1, <2>2, StateAtIs, SMT
<1>2. StateAt(bs, p) = StateAt(bs, o)
  BY <1>1 DEF StateAt
<1> QED
  BY <1>1, <1>2 DEF Held

\* The fields of a transaction as SerialLedger has it.
LEMMA SerialTxFields ==
    ASSUME NEW b, NEW i
    PROVE  /\ SerialTx(b, i).valid <=> b.flags[i] = "VALID"
           /\ SerialTx(b, i).id = b.txs[i].id
           /\ SerialTx(b, i).writes = b.txs[i].writes
           /\ SerialTx(b, i).seen =
                {<<k, b.txs[i].reads[k].val>> : k \in {l \in Keys : b.txs[i].reads[l] # Nil}}
                  \cup {<<k, b.txs[i].scan[k].val>> : k \in {l \in Keys : b.txs[i].scan[l] # Nil}}
<1>1. SerialTx(b, i).valid <=> b.flags[i] = "VALID"
  BY DEF SerialTx
<1>2. /\ SerialTx(b, i).id = b.txs[i].id
      /\ SerialTx(b, i).writes = b.txs[i].writes
  BY DEF SerialTx
<1>3. SerialTx(b, i).seen =
        {<<k, b.txs[i].reads[k].val>> : k \in {l \in Keys : b.txs[i].reads[l] # Nil}}
          \cup {<<k, b.txs[i].scan[k].val>> : k \in {l \in Keys : b.txs[i].scan[l] # Nil}}
  BY DEF SerialTx
<1> QED
  BY <1>1, <1>2, <1>3

\* Executing a transaction leads from the state before it to the state after it.
LEMMA ExecStep ==
    ASSUME NEW bs \in Seq(Block), NEW m \in 1..Len(bs), NEW i \in 1..Len(bs[m].txs),
           Held(bs, <<m, i>>)
    PROVE  /\ Held(bs, <<m, i + 1>>)
           /\ StateAt(bs, <<m, i + 1>>) =
                Serial!Exec(StateAt(bs, <<m, i>>), SerialTx(bs[m], i))
<1> DEFINE s == StateAt(bs, <<m, i>>)
           o == StateAt(bs, <<m, i + 1>>)
           t == SerialTx(bs[m], i)
           w(k) == bs[m].txs[i].writes[k]
<1>1. bs[m] \in Block /\ bs[m].txs[i] \in TxRwSet
  <2>1. bs[m] \in Block
    BY ElementFacts
  <2> QED
    BY <2>1, ElementFacts DEF Block
<1>2. \A k \in Keys : w(k) \in {"PUT", "DEL", Nil}
  BY <1>1 DEF TxRwSet, Entries
<1>3. ASSUME NEW k \in Keys
      PROVE  /\ \E vv : CurrentAt(bs, k, <<m, i + 1>>, vv)
             /\ ~t.valid => o[k] = s[k]
             /\ t.valid /\ w(k) = "PUT" => o[k] = t.id
             /\ t.valid /\ w(k) = "DEL" => o[k] = Nil
             /\ t.valid /\ w(k) = Nil => o[k] = s[k]
  <2>1. PICK vv : CurrentAt(bs, k, <<m, i>>, vv)
    BY DEF Held
  <2> DEFINE ww == IF WritesKey(bs[m], i, k) THEN Written(bs, <<m, i>>, k) ELSE vv
  <2>2. CurrentAt(bs, k, <<m, i + 1>>, ww)
    BY <2>1, CurrentStep
  <2>3. s[k] = vv.val /\ o[k] = ww.val
    <3> HIDE DEF ww
    <3> QED
      BY <2>1, <2>2, StateAtIs, SMTT(30)
  <2>4. t.valid <=> bs[m].flags[i] = "VALID"
    BY SerialTxFields, SMT
  <2>5. t.id = bs[m].txs[i].id
    BY SerialTxFields
  <2>6. /\ w(k) = "DEL" => Written(bs, <<m, i>>, k).val = Nil
        /\ w(k) = "PUT" => Written(bs, <<m, i>>, k).val = bs[m].txs[i].id
    BY DEF Written, TxAt, Absent
  <2>7. WritesKey(bs[m], i, k) <=> bs[m].flags[i] = "VALID" /\ w(k) # Nil
    BY DEF WritesKey
  <2>8. Nil # "PUT" /\ Nil # "DEL"
    BY KVLedgerAssumption
  <2> HIDE DEF s, o, t
  <2> QED
    BY <2>2, <2>3, <2>4, <2>5, <2>6, <2>7, <2>8
<1>4. s = [k \in Keys |-> s[k]] /\ o = [k \in Keys |-> o[k]]
  BY SMT DEF StateAt
<1>5. t.writes = bs[m].txs[i].writes
  BY SerialTxFields
<1>6. Nil # "PUT" /\ Nil # "DEL"
  BY KVLedgerAssumption
<1> HIDE DEF s, o, t
<1>7. CASE ~t.valid
  BY <1>3, <1>4, <1>7 DEF Serial!Exec, Held, s, o, t
<1>8. CASE t.valid
  <2> DEFINE e == Serial!Exec(s, t)
  <2>1. e = [k \in Keys |-> CASE w(k) = "PUT" -> t.id [] w(k) = "DEL" -> Nil [] OTHER -> s[k]]
    BY <1>5, <1>8 DEF Serial!Exec
  <2>2. \A k \in Keys : o[k] = CASE w(k) = "PUT" -> t.id [] w(k) = "DEL" -> Nil [] OTHER -> s[k]
    BY <1>2, <1>3, <1>6, <1>8
  <2>3. o = e
    BY <1>4, <2>1, <2>2
  <2> QED
    BY <1>3, <2>3 DEF Held, s, o, t
<1> QED
  BY <1>7, <1>8

\* Nothing precedes the first block.
LEMMA HeldFirst ==
    ASSUME NEW bs \in Seq(Block)
    PROVE  Held(bs, AfterBlock(0)) /\ StateAt(bs, AfterBlock(0)) = Serial!EmptyState
<1>1. \A q \in Positions(bs) : ~Precedes(q, AfterBlock(0))
  <2> TAKE q \in Positions(bs)
  <2>1. q[1] \in 1..Len(bs) /\ (Precedes(q, AfterBlock(0)) <=> q[1] <= 0)
    BY BeforeAfterBlock
  <2> QED
    BY <2>1, SMT
<1>2. \A k : CurrentAt(bs, k, AfterBlock(0), Absent)
  BY <1>1 DEF CurrentAt
<1>3. \A k \in Keys : StateAt(bs, AfterBlock(0))[k] = Nil
  BY <1>2, StateAtIs, SMTT(30) DEF Absent
<1>4. StateAt(bs, AfterBlock(0)) = [k \in Keys |-> Nil]
  BY <1>3 DEF StateAt
<1> QED
  BY <1>2, <1>4 DEF Held, Serial!EmptyState

\* The states through which a block leads are those before and between its transactions.
LEMMA RunOfBlock ==
    ASSUME NEW bs \in Seq(Block), NEW m \in 1..Len(bs), Held(bs, AfterBlock(m - 1))
    PROVE  /\ \A i \in 0..Len(bs[m].txs) : Held(bs, <<m, i + 1>>)
           /\ Len(SerialBlock(bs[m])) = Len(bs[m].txs)
           /\ Serial!Run(StateAt(bs, AfterBlock(m - 1)), SerialBlock(bs[m])) =
                [i \in 0..Len(bs[m].txs) |-> StateAt(bs, <<m, i + 1>>)]
<1> DEFINE N == Len(bs[m].txs)
           c == SerialBlock(bs[m])
           s == StateAt(bs, AfterBlock(m - 1))
           g == [i \in 0..N |-> StateAt(bs, <<m, i + 1>>)]
           S == {i \in 0..N : Held(bs, <<m, i + 1>>)}
<1>1. N \in Nat
  <2>1. bs[m] \in Block
    BY ElementFacts
  <2> QED
    BY <2>1, SequenceFacts DEF Block
<1>2. Len(c) = N /\ \A i \in 1..N : c[i] = SerialTx(bs[m], i)
  BY <1>1, SMT DEF SerialBlock
<1>3. Held(bs, <<m, 1>>) /\ s = StateAt(bs, <<m, 1>>)
  <2>1. \A q \in Positions(bs) : Precedes(q, AfterBlock(m - 1)) <=> Precedes(q, <<m, 1>>)
    BY BlockEnds
  <2> QED
    BY <2>1, SameState
<1>4. 0 \in S
  BY <1>1, <1>3, SMT
<1>5. ASSUME NEW i \in 0..N, i < N, Held(bs, <<m, i + 1>>)
      PROVE  /\ i + 1 \in 1..N /\ Held(bs, <<m, (i + 1) + 1>>)
             /\ StateAt(bs, <<m, (i + 1) + 1>>) = Serial!Exec(StateAt(bs, <<m, i + 1>>), c[i + 1])
  <2>1. i + 1 \in 1..N
    BY <1>1, <1>5, SMTT(30)
  <2> QED
    BY <1>2, <1>5, <2>1, ExecStep
<1>6. \A i \in 0..N : i < N /\ i \in S => i + 1 \in S
  BY <1>1, <1>5, SMT
<1>7. \A i \in 0..N : i \in S
  <2> HIDE DEF S, N
  <2> QED
    BY <1>1, <1>4, <1>6, IndexInduction
<1>8. \A i \in 0..N : Held(bs, <<m, i + 1>>)
  BY <1>7
<1>9. ASSUME NEW i \in 0..N
      PROVE  g[i] = IF i = 0 THEN s ELSE Serial!Exec(g[i - 1], c[i])
  <2>1. CASE i = 0
    BY <1>3, <2>1, SMTT(30)
  <2>2. CASE i # 0
    <3> DEFINE j == i - 1
    <3>1. j \in 0..N /\ j < N /\ j + 1 = i
      BY <1>1, <2>2, SMT
    <3>2. g[i] = StateAt(bs, <<m, (j + 1) + 1>>) /\ g[j] = StateAt(bs, <<m, j + 1>>)
      BY <3>1
    <3>3. g[i] = Serial!Exec(g[j], c[i])
      <4> HIDE DEF j, g
      <4> QED
        BY <1>5, <1>8, <3>1, <3>2
    <3> QED
      BY <2>2, <3>3
  <2> QED
    BY <2>1, <2>2
<1>10. g = [i \in 0..N |-> g[i]]
  OBVIOUS
<1> HIDE DEF g, s, c, N
<1>11. g = [i \in 0..Len(c) |-> IF i = 0 THEN s ELSE Serial!Exec(g[i - 1], c[i])]
  BY <1>2, <1>9, <1>10
<1>12. Serial!Run(s, c) = g
  <2>1. Len(c) \in Nat
    BY <1>1, <1>2
  <2> QED
    BY <1>11, <2>1, RunIs, SMTT(30)
<1> QED
  BY <1>2, <1>8, <1>12 DEF g, s, c, N

\* The chain as SerialLedger has it.
ChainOf(bs) == [n \in 1..Len(bs) |-> SerialBlock(bs[n])]

\* Executing a block leads from the state after its predecessor to the state after it.
LEMMA BlockStep ==
    ASSUME NEW bs \in Seq(Block), NEW m \in 1..Len(bs), Held(bs, AfterBlock(m - 1))
    PROVE  /\ Held(bs, AfterBlock(m))
           /\ StateAt(bs, AfterBlock(m)) =
                Serial!Run(StateAt(bs, AfterBlock(m - 1)),
                           SerialBlock(bs[m]))[Len(SerialBlock(bs[m]))]
<1> DEFINE N == Len(bs[m].txs)
<1>1. N \in Nat
  <2>1. bs[m] \in Block
    BY ElementFacts
  <2> QED
    BY <2>1, SequenceFacts DEF Block
<1>2. /\ Held(bs, <<m, N + 1>>) /\ Len(SerialBlock(bs[m])) = N
      /\ StateAt(bs, <<m, N + 1>>) =
           Serial!Run(StateAt(bs, AfterBlock(m - 1)), SerialBlock(bs[m]))[N]
  <2>1. N \in 0..N
    BY <1>1, SMT
  <2> QED
    BY <2>1, RunOfBlock, ZenonT(40)
<1>3. \A q \in Positions(bs) : Precedes(q, <<m, N + 1>>) <=> Precedes(q, AfterBlock(m))
  BY BlockEnds
<1> HIDE DEF N
<1> QED
  BY <1>2, <1>3, SameState

\* The states after the blocks of a chain.
LEMMA StatesOfChain ==
    ASSUME NEW bs \in Seq(Block)
    PROVE  /\ \A n \in 0..Len(bs) : Held(bs, AfterBlock(n))
           /\ Len(ChainOf(bs)) = Len(bs)
           /\ Serial!States(ChainOf(bs)) = [n \in 0..Len(bs) |-> StateAt(bs, AfterBlock(n))]
<1> DEFINE N == Len(bs)
           c == ChainOf(bs)
           g == [n \in 0..N |-> StateAt(bs, AfterBlock(n))]
           S == {n \in 0..N : Held(bs, AfterBlock(n))}
<1>1. N \in Nat
  BY SequenceFacts
<1>2. Len(c) = N /\ \A n \in 1..N : c[n] = SerialBlock(bs[n])
  BY <1>1, SMT DEF ChainOf
<1>3. 0 \in S
  BY <1>1, HeldFirst, SMT
<1>4. ASSUME NEW n \in 0..N, n < N, Held(bs, AfterBlock(n))
      PROVE  /\ n + 1 \in 1..N /\ Held(bs, AfterBlock(n + 1))
             /\ StateAt(bs, AfterBlock(n + 1)) =
                  Serial!Run(StateAt(bs, AfterBlock(n)), c[n + 1])[Len(c[n + 1])]
  <2>1. n + 1 \in 1..N /\ (n + 1) - 1 = n
    BY <1>1, <1>4, SMTT(30)
  <2> HIDE DEF c
  <2> QED
    BY <1>2, <1>4, <2>1, BlockStep
<1>5. \A n \in 0..N : n < N /\ n \in S => n + 1 \in S
  BY <1>1, <1>4, SMTT(30)
<1>6. \A n \in 0..N : n \in S
  <2> HIDE DEF S, N
  <2> QED
    BY <1>1, <1>3, <1>5, IndexInduction
<1>7. \A n \in 0..N : Held(bs, AfterBlock(n))
  BY <1>6
<1>8. ASSUME NEW n \in 0..N
      PROVE  g[n] = IF n = 0 THEN Serial!EmptyState
                    ELSE Serial!Run(g[n - 1], c[n])[Len(c[n])]
  <2>1. CASE n = 0
    BY <2>1, HeldFirst
  <2>2. CASE n # 0
    <3> DEFINE j == n - 1
    <3>1. j \in 0..N /\ j < N /\ j + 1 = n
      BY <1>1, <2>2, SMTT(30)
    <3>2. g[n] = StateAt(bs, AfterBlock(j + 1)) /\ g[j] = StateAt(bs, AfterBlock(j))
      BY <3>1
    <3>3. g[n] = Serial!Run(g[j], c[n])[Len(c[n])]
      <4> HIDE DEF j, g, c
      <4> QED
        BY <1>4, <1>7, <3>1, <3>2
    <3> QED
      BY <2>2, <3>3
  <2> QED
    BY <2>1, <2>2
<1>9. g = [n \in 0..N |-> g[n]]
  OBVIOUS
<1> HIDE DEF g, c, N
<1>10. g = [n \in 0..Len(c) |-> IF n = 0 THEN Serial!EmptyState
                                ELSE Serial!Run(g[n - 1], c[n])[Len(c[n])]]
  BY <1>2, <1>8, <1>9
<1>11. Serial!States(c) = g
  BY <1>1, <1>2, <1>10, StatesIs
<1> QED
  BY <1>2, <1>7, <1>11 DEF g, c, N

\* A block whose valid transactions saw what their keys held is serially valid.
LEMMA SawIsSerial ==
    ASSUME NEW bs \in Seq(Block), NEW m \in 1..Len(bs),
           \A i \in 1..Len(bs[m].txs) : bs[m].flags[i] = "VALID" =>
              \A k \in Keys : SawAt(bs, bs[m].txs[i], k, <<m, i>>)
    PROVE  Serial!SeriallyValid(StateAt(bs, AfterBlock(m - 1)), SerialBlock(bs[m]))
<1> DEFINE N == Len(bs[m].txs)
           c == SerialBlock(bs[m])
           r == Serial!Run(StateAt(bs, AfterBlock(m - 1)), c)
<1>1. N \in Nat /\ Len(bs) \in Nat
  <2>1. bs[m] \in Block
    BY ElementFacts
  <2> QED
    BY <2>1, SequenceFacts DEF Block
<1>2. Held(bs, AfterBlock(m - 1))
  <2>1. m - 1 \in 0..Len(bs)
    BY <1>1, SMT
  <2> QED
    BY <2>1, StatesOfChain
<1>3. Len(c) = N /\ r = [i \in 0..N |-> StateAt(bs, <<m, i + 1>>)]
  BY <1>2, RunOfBlock
<1> HIDE DEF r
<1>4. ASSUME NEW i \in 1..N, c[i].valid, NEW e \in c[i].seen
      PROVE  r[i - 1][e[1]] = e[2]
  <2>1. c[i] = SerialTx(bs[m], i)
    BY <1>1, ZenonT(40) DEF SerialBlock
  <2>2. bs[m].flags[i] = "VALID"
    BY <1>4, <2>1, SerialTxFields, SMTT(30)
  <2>3. \A k \in Keys : SawAt(bs, bs[m].txs[i], k, <<m, i>>)
    BY <2>2
  <2>4. r[i - 1] = StateAt(bs, <<m, i>>)
    <3>1. i - 1 \in 0..N /\ (i - 1) + 1 = i
      BY <1>1, SMT
    <3> QED
      BY <1>3, <3>1
  <2> DEFINE t == bs[m].txs[i]
  <2>5. e \in {<<k, t.reads[k].val>> : k \in {l \in Keys : t.reads[l] # Nil}}
             \cup {<<k, t.scan[k].val>> : k \in {l \in Keys : t.scan[l] # Nil}}
    <3>1. SerialTx(bs[m], i).seen
            = {<<k, t.reads[k].val>> : k \in {l \in Keys : t.reads[l] # Nil}}
                \cup {<<k, t.scan[k].val>> : k \in {l \in Keys : t.scan[l] # Nil}}
      BY DEF SerialTx
    <3> HIDE DEF c, t
    <3>2. e \in SerialTx(bs[m], i).seen
      BY <1>4, <2>1
    <3> QED
      BY <3>1, <3>2
  <2>6. ASSUME NEW k \in Keys, t.reads[k] # Nil, e = <<k, t.reads[k].val>>
        PROVE  r[i - 1][e[1]] = e[2]
    <3>1. CurrentAt(bs, k, <<m, i>>, t.reads[k])
      BY <2>3, <2>6, ZenonT(40) DEF SawAt
    <3>2. StateAt(bs, <<m, i>>)[k] = t.reads[k].val
      BY <3>1, StateAtIs, SMTT(30)
    <3> QED
      BY <2>4, <2>6, <3>2
  <2>7. ASSUME NEW k \in Keys, t.scan[k] # Nil, e = <<k, t.scan[k].val>>
        PROVE  r[i - 1][e[1]] = e[2]
    <3>1. CurrentAt(bs, k, <<m, i>>, t.scan[k])
      BY <2>3, <2>7 DEF SawAt
    <3>2. StateAt(bs, <<m, i>>)[k] = t.scan[k].val
      BY <3>1, StateAtIs, SMT
    <3> QED
      BY <2>4, <2>7, <3>2
  <2> HIDE DEF t
  <2> QED
    BY <2>5, <2>6, <2>7
<1> HIDE DEF c, N
<1> QED
  BY <1>3, <1>4 DEF Serial!SeriallyValid, r, c

-----------------------------------------------------------------------------
(* Refinement. *)

\* What a client of the ledger sees.
View == [k \in Keys |-> IF Open THEN db[k].val ELSE Nil]
Served == IF Open THEN savepoint ELSE 0

\* The state an open ledger serves is that of the serial execution.
LEMMA ViewIsState ==
    ASSUME Grounds, Open
    PROVE  View = StateAt(blocks, AfterBlock(savepoint))
<1>1. blocks \in Seq(Block)
  BY DEF Grounds, TypeOK
<1> DEFINE s == StateAt(blocks, AfterBlock(savepoint))
<1>2. \A k \in Keys : s[k] = db[k].val
  BY <1>1, StateAtIs, SMTT(30) DEF Grounds, StateMatchesChain
<1>3. s = [k \in Keys |-> s[k]]
  BY SMT DEF StateAt
<1> QED
  BY <1>2, <1>3 DEF View

\* The whole chain becomes visible at once.
LEMMA IsPublish ==
    ASSUME Grounds, Grounds', blocks' = blocks, Open', savepoint' = Len(blocks),
           ~Open \/ savepoint # Len(blocks)
    PROVE  Serial!Publish
<1>1. blocks \in Seq(Block) /\ Len(blocks) \in Nat /\ Len(blocks) >= 1
  BY SequenceFacts DEF Grounds, TypeOK, Protocol
<1>2. /\ Len(ChainOf(blocks)) = Len(blocks)
      /\ Serial!States(ChainOf(blocks))[Len(blocks)] = StateAt(blocks, AfterBlock(Len(blocks)))
  <2>1. Len(blocks) \in 0..Len(blocks)
    BY <1>1, SMT
  <2> QED
    BY <1>1, <2>1, StatesOfChain
<1>3. View' = StateAt(blocks', AfterBlock(savepoint'))
  <2>1. (Grounds /\ Open => View = StateAt(blocks, AfterBlock(savepoint)))'
    BY ViewIsState, PTL
  <2> QED
    BY <2>1
<1>4. View' = Serial!States(ChainOf(blocks))[Len(ChainOf(blocks))]
  BY <1>2, <1>3
<1>5. Served # Len(ChainOf(blocks)) /\ Served' = Len(ChainOf(blocks))
  BY <1>1, <1>2, SMT DEF Served
<1>6. ChainOf(blocks)' = ChainOf(blocks)
  OBVIOUS
<1> QED
  BY <1>4, <1>5, <1>6 DEF Serial!Publish, View, Served, ChainOf

\* A block is appended.
LEMMA IsExtend ==
    ASSUME Grounds, Grounds', PreparedSerial, AddBlock
    PROVE  Serial!Extend
<1> DEFINE N == Len(blocks)
           c == ChainOf(blocks)
           d == ChainOf(blocks')
<1>1. /\ pc = "prepared" /\ pc' = "added" /\ db' = db /\ savepoint' = savepoint
      /\ blocks' = Append(blocks, currentBlock)
  BY DEF AddBlock
<1>2. blocks \in Seq(Block) /\ blocks' \in Seq(Block) /\ currentBlock \in Block /\ savepoint = N
  BY <1>1 DEF Grounds, TypeOK, Protocol, LevelAt
<1>3. /\ N \in Nat /\ Len(blocks') = N + 1 /\ blocks'[N + 1] = currentBlock
      /\ \A n \in 1..N : blocks'[n] = blocks[n]
  BY <1>1, <1>2, AppendFacts, SequenceFacts, SMTT(30)
<1>4. Open /\ Open'
  BY <1>1 DEF Open
<1>5. Len(c) = N /\ Len(d) = N + 1
  BY <1>2, <1>3, StatesOfChain
<1>6. (\A n \in 1..N : d[n] = c[n]) /\ d[N + 1] = SerialBlock(blocks'[N + 1])
  BY <1>3, SMT DEF ChainOf
<1>7. View = StateAt(blocks', AfterBlock(N))
  <2>1. ASSUME NEW k \in Keys PROVE StateAt(blocks', AfterBlock(N))[k] = db[k].val
    <3>1. CurrentAt(blocks, k, AfterBlock(N), db[k])
      BY <1>2 DEF Grounds, StateMatchesChain
    <3>2. AfterBlock(N) \in Nat \X Nat
      BY <1>3, SMT DEF AfterBlock
    <3>3. CurrentAt(blocks', k, AfterBlock(N), db[k])
      BY <1>1, <1>2, <3>1, <3>2, AppendAgree, CurrentAgree, ZenonT(40)
    <3> QED
      BY <1>2, <3>3, StateAtIs, SMTT(30)
  <2>2. StateAt(blocks', AfterBlock(N)) = [k \in Keys |-> StateAt(blocks', AfterBlock(N))[k]]
    BY SMT DEF StateAt
  <2> QED
    BY <1>4, <2>1, <2>2 DEF View
<1>8. Serial!SeriallyValid(View, d[Len(d)])
  <2>1. \A i \in 1..Len(blocks'[N + 1].txs) : blocks'[N + 1].flags[i] = "VALID" =>
           \A k \in Keys : SawAt(blocks', blocks'[N + 1].txs[i], k, <<N + 1, i>>)
    BY <1>1, <1>3 DEF PreparedSerial
  <2>2. N + 1 \in 1..Len(blocks') /\ (N + 1) - 1 = N
    BY <1>3, SMT
  <2>3. Serial!SeriallyValid(StateAt(blocks', AfterBlock((N + 1) - 1)), SerialBlock(blocks'[N + 1]))
    BY <1>2, <2>1, <2>2, SawIsSerial
  <2> QED
    BY <1>5, <1>6, <1>7, <2>2, <2>3
<1>9. Served = Len(c) /\ Served' = Served /\ View' = View
  BY <1>1, <1>2, <1>4, <1>5 DEF Served, View
<1>10. Len(d) = Len(c) + 1 /\ \A n \in 1..Len(c) : d[n] = c[n]
  BY <1>5, <1>6
<1> QED
  BY <1>8, <1>9, <1>10 DEF Serial!Extend, Served, View, ChainOf

\* What a client sees does not change.
LEMMA IsStutter ==
    ASSUME blocks' = blocks, Open' <=> Open, Open => db' = db /\ savepoint' = savepoint
    PROVE  UNCHANGED Serial!vars
<1>1. ChainOf(blocks)' = ChainOf(blocks)
  OBVIOUS
<1>2. View' = View /\ Served' = Served
  BY DEF View, Served
<1> QED
  BY <1>1, <1>2 DEF Serial!vars, View, Served, ChainOf

\* Recovery shows nothing until it is done, and then the whole chain.
LEMMA RecoverRefines ==
    ASSUME Grounds, Grounds', Recover
    PROVE  Serial!Publish \/ UNCHANGED Serial!vars
<1> USE DEF storeVars, memVars, simVars
<1>1. blocks' = blocks /\ ~Open /\ pc' \in {"idle", "recover"}
  BY DEF Recover, Restart, RecommitState, RecommitHistory, AfterRecommit, Open
<1>2. CASE pc' = "idle"
  <2>1. Open' /\ savepoint' = Len(blocks)
    BY <1>1, <1>2 DEF Open, Grounds, Protocol, LevelAt
  <2> QED
    BY <1>1, <2>1, IsPublish
<1>3. CASE pc' = "recover"
  <2>1. ~Open'
    BY <1>3 DEF Open
  <2> QED
    BY <1>1, <2>1, IsStutter
<1> QED
  BY <1>1, <1>2, <1>3

\* Every step of the ledger is a step of SerialLedger, or is invisible to clients.
LEMMA StepRefines ==
    ASSUME Grounds, Grounds', PreparedSerial, [Next]_vars
    PROVE  [Serial!Next]_(Serial!vars)
<1> USE DEF storeVars, memVars, simVars
<1>1. ASSUME NEW t \in TxIds, Simulate(t) PROVE UNCHANGED Serial!vars
  BY <1>1, SimulateRecords, IsStutter DEF Grounds, Open
<1>2. CASE Validate \/ ValidateAndPrepare \/ CommitError \/ CommitHistory
  <2>1. blocks' = blocks /\ db' = db /\ savepoint' = savepoint
    BY <1>2 DEF Validate, ValidateAndPrepare, CommitError, CommitHistory
  <2>2. Open /\ Open'
    BY <1>2 DEF Validate, ValidateAndPrepare, CommitError, CommitHistory, Open
  <2> QED
    BY <2>1, <2>2, IsStutter
<1>3. CASE AddBlock
  BY <1>3, IsExtend DEF Serial!Next
<1>4. CASE CommitState
  <2>1. blocks' = blocks /\ pc = "added" /\ pc' \in {"idle", "stateCommitted"}
    BY <1>4 DEF CommitState
  <2>2. savepoint = Len(blocks) - 1 /\ savepoint' = Len(blocks') /\ Len(blocks) \in Nat
    BY <2>1, SequenceFacts DEF Grounds, TypeOK, Protocol, LevelAt
  <2>3. Open'
    BY <2>1 DEF Open
  <2>4. savepoint # Len(blocks) /\ savepoint' = Len(blocks)
    BY <2>1, <2>2, SMT
  <2> QED
    BY <2>1, <2>3, <2>4, IsPublish DEF Serial!Next
<1>5. CASE Recover
  BY <1>5, RecoverRefines DEF Serial!Next
<1>6. CASE Crash
  <2>1. blocks' = blocks /\ ~Open'
    BY <1>6 DEF Crash, Open
  <2>2. ChainOf(blocks)' = ChainOf(blocks)
    BY <2>1
  <2>3. View' = [k \in Keys |-> Nil] /\ Served' = 0
    BY <2>1 DEF View, Served
  <2> QED
    BY <2>2, <2>3 DEF Serial!Next, Serial!Stop, Serial!EmptyState, View, Served, ChainOf
<1>7. CASE LoseStateDB
  <2>1. blocks' = blocks /\ ~Open /\ ~Open'
    BY <1>7 DEF LoseStateDB, Open
  <2> QED
    BY <2>1, IsStutter
<1>8. CASE UNCHANGED vars
  <2>1. blocks' = blocks /\ db' = db /\ savepoint' = savepoint /\ pc' = pc
    BY <1>8 DEF vars
  <2> QED
    BY <2>1, IsStutter DEF Open
<1> QED
  BY <1>1, <1>2, <1>3, <1>4, <1>5, <1>6, <1>7, <1>8 DEF Next, Commit

\* The valid transactions of the block in flight saw the state at their position, in
\* every state.
LEMMA PreparedHolds == Spec => []PreparedSerial
<1>1. Init => InFlightSnapshot /\ PreparedSerial
  BY DEF Init, InFlightSnapshot, PreparedSerial
<1>2. /\ Grounds /\ Grounds' /\ SimulationSnapshot /\ InFlightSnapshot /\ PreparedSerial
      /\ [Next]_vars
      => (InFlightSnapshot /\ PreparedSerial)'
  BY NextInFlight
<1> QED
  BY <1>1, <1>2, GroundsHold, AlwaysSimulationSnapshot, PTL DEF Spec

\* Clients of the ledger cannot tell it from one that executes the valid transactions of
\* whole blocks one at a time, for every number of transactions, keys, blocks and crashes:
\* AddBlock appends a block whose valid transactions saw what their predecessors left,
\* CommitState and the end of a recovery make the outcome of the whole chain visible, a
\* crash hides it, and every other step is invisible.
THEOREM LedgerImplementsSerialLedger == Spec => ImplementsSerialLedger
<1>1. Init => Serial!Init
  <2> SUFFICES ASSUME Init PROVE Serial!Init
    OBVIOUS
  <2>1. Open /\ savepoint = 1 /\ blocks = <<Genesis>> /\ db = [k \in Keys |-> Absent]
    BY DEF Init, Open
  <2>2. SerialBlock(Genesis) = << >>
    BY SMT DEF SerialBlock, Genesis
  <2>3. ChainOf(blocks) = << << >> >>
    BY <2>1, <2>2, SMT DEF ChainOf
  <2>4. View = [k \in Keys |-> Nil] /\ Served = 1
    BY <2>1 DEF View, Served, Absent
  <2> QED
    BY <2>3, <2>4 DEF Serial!Init, Serial!EmptyState, View, Served, ChainOf
<1>2. Grounds /\ Grounds' /\ PreparedSerial /\ [Next]_vars => [Serial!Next]_(Serial!vars)
  BY StepRefines
<1> QED
  BY <1>1, <1>2, GroundsHold, PreparedHolds, PTL DEF Spec, Serial!Spec, ImplementsSerialLedger
=============================================================================
