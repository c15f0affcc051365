----------------------------- MODULE RangeQuery -----------------------------
(***************************************************************************)
(* Phantom protection of range queries: what the simulator records of a    *)
(* scan (the results themselves, or a Merkle summary when there are more   *)
(* than MaxDegree of them), and how the validator compares it with the     *)
(* results of the scan run again.                                          *)
(*                                                                         *)
(* A result is [key, ver].  SHA-256 is taken to be injective: the hash of  *)
(* a list of items is the list in brackets.                                *)
(*                                                                         *)
(* Source: txmgmt/rwsetutil/query_results_helper.go,                       *)
(* txmgmt/validator/statebasedval/range_query_validator.go,                *)
(* resultsItr of txmgmt/txmgr/lockbasedtxmgr/helper.go.                    *)
(***************************************************************************)
EXTENDS Naturals, Sequences, SequencesExt

CONSTANTS Nil,
          MaxDegree     \* ledgerconfig.GetMaxDegreeQueryReadsHashing

ASSUME DegreeAssumption == MaxDegree \in Nat /\ MaxDegree >= 2

-----------------------------------------------------------------------------
(* The Merkle tree: tree[l] are the hashes at level l, complete subtrees   *)
(* are replaced by their root, Len(tree) is maxLevel.                      *)

Hash(parts) ==
    <<[key |-> 0, ver |-> <<0, 0>>]>> \o FlattenSeq(parts) \o <<[key |-> 0, ver |-> <<0, 1>>]>>

newMerkleTree == << << >> >>

isEmpty(tree) == tree = newMerkleTree

\* Replaces a level by the hash of its nodes, one level up.
Raise(tree, l, h) ==
    LET cut == [tree EXCEPT ![l] = << >>]
    IN  IF l = Len(tree) THEN Append(cut, <<h>>) ELSE [cut EXCEPT ![l + 1] = Append(@, h)]

RECURSIVE Complete(_, _)
Complete(tree, l) ==
    IF Len(tree[l]) <= MaxDegree THEN tree
    ELSE Complete(Raise(tree, l, Hash(tree[l])), l + 1)

update(tree, leaf) == Complete([tree EXCEPT ![1] = Append(@, leaf)], 1)

\* A node alone on its level goes up as it is.
done(tree) ==
    LET up(t, l) == CASE Len(t[l]) = 0 -> t
                      [] Len(t[l]) = 1 -> Raise(t, l, t[l][1])
                      [] OTHER         -> Raise(t, l, Hash(t[l]))
        top      == FoldLeft(up, tree, [l \in 1..(Len(tree) - 1) |-> l])
    IN  IF Len(top[Len(top)]) > MaxDegree
        THEN Raise(top, Len(top), Hash(top[Len(top)])) ELSE top

getSummery(tree) == [level |-> Len(tree), hashes |-> tree[Len(tree)]]

-----------------------------------------------------------------------------
(* RangeQueryResultsHelper. *)

NewRangeQueryResultsHelper == [pending |-> << >>, tree |-> newMerkleTree]

processPendingResults(h) ==
    [pending |-> << >>,
     tree    |-> update(h.tree, Hash([i \in 1..Len(h.pending) |-> <<h.pending[i]>>]))]

\* Mutant: the result that completes a group is dropped.
AddResultForgets(h, r) ==
    IF Len(h.pending) = MaxDegree THEN processPendingResults(h)
    ELSE [h EXCEPT !.pending = Append(@, r)]

AddResult(h, r) ==
    LET added == [h EXCEPT !.pending = Append(@, r)]
    IN  IF Len(added.pending) > MaxDegree THEN processPendingResults(added) ELSE added

\* The results, or the summary once some have been hashed.
HelperDone(h) ==
    IF isEmpty(h.tree) THEN [raw |-> h.pending, merkle |-> Nil]
    ELSE LET p == IF h.pending = << >> THEN h ELSE processPendingResults(h)
         IN  [raw |-> << >>, merkle |-> getSummery(done(p.tree))]

-----------------------------------------------------------------------------
(* What a simulation records: an iterator of the scan [start, end) after   *)
(* the answers rs, the last of which is Nil when it was exhausted.         *)

newResultsItr(start) ==
    [start |-> start, end |-> Nil, exhausted |-> FALSE,
     helper |-> NewRangeQueryResultsHelper]

updateRangeQueryInfo(itr, end, r) ==
    IF r = Nil THEN [itr EXCEPT !.exhausted = TRUE, !.end = end]
    ELSE [itr EXCEPT !.helper = AddResult(@, r), !.end = r.key]

RangeQueryInfo(start, end, rs) ==
    LET next(itr, r) == updateRangeQueryInfo(itr, end, r)
        itr          == FoldLeft(next, newResultsItr(start), rs)
        res          == HelperDone(itr.helper)
    IN  [start |-> itr.start, end |-> itr.end, exhausted |-> itr.exhausted,
         raw |-> res.raw, merkle |-> res.merkle]

-----------------------------------------------------------------------------
(* Validation against rs, the results the scan has now. *)

\* rangeQueryResultsValidator.validate.
ResultsValidate(info, rs) == IF info.raw = rs THEN "valid" ELSE "invalid"

\* One turn of the loop of rangeQueryHashValidator.validate: last hashes of
\* the summary have been matched.  The index of the next one is out of range
\* when the tree has outgrown the level of the summary.
HashTurn(in, v, r) ==
    LET h == AddResult(v.helper, r)
        m == getSummery(h.tree)
        i == v.last + 1
    IN  CASE v.verdict # "open"              -> v
          [] m.level < in.level              -> [v EXCEPT !.helper = h]
          [] v.last = Len(m.hashes)          -> [v EXCEPT !.helper = h]
          [] Len(m.hashes) > Len(in.hashes)  -> [v EXCEPT !.verdict = "invalid"]
          [] i > Len(m.hashes)               -> [v EXCEPT !.verdict = "panic"]
          [] m.hashes[i] # in.hashes[i]      -> [v EXCEPT !.verdict = "invalid"]
          [] OTHER                           -> [v EXCEPT !.helper = h, !.last = i]

HashValidate(info, rs) ==
    LET turn(v, r) == HashTurn(info.merkle, v, r)
        v          == FoldLeft(turn, [helper |-> NewRangeQueryResultsHelper,
                                      last |-> 0, verdict |-> "open"], rs)
    IN  IF v.verdict # "open" THEN v.verdict
        ELSE IF HelperDone(v.helper).merkle = info.merkle THEN "valid" ELSE "invalid"

\* The two validators.
validate(info, rs) ==
    IF info.merkle # Nil THEN HashValidate(info, rs) ELSE ResultsValidate(info, rs)
=============================================================================
