----------------------- MODULE MCStateBasedValidator -----------------------
(* Instances of StateBasedValidator: kx is an aggregate, ky is not. *)
EXTENDS StateBasedValidator

CONSTANTS n1, n2

kx == 1
ky == 2

W(op, key, arg) == [op |-> op, key |-> key, arg |-> arg]
Rw(ns, reads, writes) == [ns |-> ns, reads |-> reads, scans |-> << >>, writes |-> writes]
Tx(rws) == [type |-> "ENDORSER_TRANSACTION", verdict |-> "VALID", rws |-> rws]
Scanning(start, end, take) ==
    Tx(<<[ns |-> n1, reads |-> {}, writes |-> << >>,
          scans |-> <<[start |-> start, end |-> end, take |-> take]>>]>>)
PutAll(ks) == Tx(<<Rw(n1, {}, [i \in 1..Len(ks) |-> W("PUT", ks[i], 1)])>>)

Add       == Tx(<<Rw(n1, {}, <<W("ADD", kx, 3)>>)>>)
Double    == Tx(<<Rw(n1, {}, <<W("MUL", kx, 2)>>)>>)
Count     == Tx(<<Rw(n1, {}, <<W("ADD", kx, 1), W("RCOUNT", ky, kx)>>)>>)
AddBoth   == Tx(<<Rw(n1, {}, <<W("ADD", kx, 1)>>), Rw(n2, {}, <<W("ADD", kx, 1)>>)>>)
Replace   == Tx(<<Rw(n1, {ky}, <<W("PUT", ky, 2)>>)>>)
Erase     == Tx(<<Rw(n1, {ky}, <<W("DEL", ky, Nil)>>)>>)
MoveBoth  == Tx(<<Rw(n1, {kx}, <<W("PUT", kx, 1)>>), Rw(n2, {ky}, <<W("PUT", ky, 1)>>)>>)
Refused   == [type |-> "ENDORSER_TRANSACTION", verdict |-> "ENDORSEMENT_POLICY_FAILURE",
              rws |-> <<Rw(n1, {}, <<W("ADD", kx, 1), W("PUT", ky, 1)>>)>>]
Config    == [type |-> "CONFIG", verdict |-> "VALID", rws |-> << >>]

\* Chaincodes that only ever add to, multiply or count an aggregate, and whose
\* reads are in the first namespace they touch.
Disciplined == {Add, Double, Count, AddBoth, Replace, Erase}

\* Chaincodes without aggregates.
Plain == {Replace, Erase, MoveBoth}

\* Scans of three and four results are hashed when MaxDegree is 2.
Scanners == {PutAll(<<1, 2, 3>>), PutAll(<<4>>),
             Tx(<<Rw(n1, {}, <<W("PUT", 3, 2)>>)>>), Tx(<<Rw(n1, {}, <<W("DEL", 2, Nil)>>)>>),
             Scanning(1, 5, 5), Scanning(1, 5, 2), Scanning(2, 4, 3)}

\* Nine results make the tree of hashes grow a level, six fill the one it has.
Wide == {PutAll(<<1, 2, 3, 4, 5, 6>>), PutAll(<<7, 8, 9>>),
         Tx(<<Rw(n1, {}, <<W("DEL", 5, Nil)>>)>>), Scanning(1, 10, 10), Scanning(1, 10, 8)}

Loads == {[templates |-> Disciplined, txs |-> 4, crashes |-> 0, faults |-> 0],
          [templates |-> {Add, Count, Refused, Config}, txs |-> 3, crashes |-> 0, faults |-> 1],
          [templates |-> Plain, txs |-> 3, crashes |-> 2, faults |-> 1],
          [templates |-> {Replace, Refused, Config}, txs |-> 3, crashes |-> 1, faults |-> 1],
          [templates |-> Scanners, txs |-> 4, crashes |-> 0, faults |-> 0],
          [templates |-> Wide, txs |-> 4, crashes |-> 0, faults |-> 0]}

\* Aggregates and a crash.
CrashLoads == {[templates |-> Disciplined, txs |-> 2, crashes |-> 1, faults |-> 0]}

\* The workload is done, or the validator has panicked.
Finished ==
    /\ \/ pc = "idle" /\ simulated = load.txs /\ pool = << >>
       \/ pc = "panic"
    /\ UNCHANGED vars

MCSpec == Init /\ [][Next \/ Finished]_vars
=============================================================================
