---------------------------- MODULE SerialLedger ----------------------------
(***************************************************************************)
(* What a client may assume of the ledger of one channel, with no lock, no *)
(* version, no savepoint and no index in sight: an append-only chain of    *)
(* transactions, each valid one of which saw what the valid ones before it *)
(* left, and a served state that is always the outcome of executing, one   *)
(* transaction at a time, whole blocks from the start of the chain.        *)
(***************************************************************************)
EXTENDS Naturals, Sequences

CONSTANTS Keys, Nil

VARIABLES
    chain,   \* blocks; a block is a sequence of [id, valid, seen, writes]
    served,  \* blocks whose effects are visible; 0 while the peer is not up
    view     \* the visible state: key -> id of its last writer, or Nil

vars == <<chain, served, view>>

EmptyState == [k \in Keys |-> Nil]

\* The state after one transaction.
Exec(s, t) ==
    IF ~t.valid THEN s
    ELSE [k \in Keys |-> CASE t.writes[k] = "PUT" -> t.id
                           [] t.writes[k] = "DEL" -> Nil
                           [] OTHER               -> s[k]]

\* The states through which the transactions of a block lead from s.
Run(s, b) ==
    LET run[i \in 0..Len(b)] == IF i = 0 THEN s ELSE Exec(run[i - 1], b[i])
    IN  run

\* The states after each of the blocks of a chain.
States(c) ==
    LET after[n \in 0..Len(c)] ==
            IF n = 0 THEN EmptyState ELSE Run(after[n - 1], c[n])[Len(c[n])]
    IN  after

\* Each valid transaction of b saw what its predecessors left, from s on.
SeriallyValid(s, b) ==
    \A i \in 1..Len(b) : b[i].valid =>
        \A e \in b[i].seen : Run(s, b)[i - 1][e[1]] = e[2]

Init ==
    /\ chain = << << >> >>
    /\ served = 1
    /\ view = EmptyState

\* A block is appended; the previous one is visible by then.
Extend ==
    /\ served = Len(chain)
    /\ Len(chain') = Len(chain) + 1
    /\ \A n \in 1..Len(chain) : chain'[n] = chain[n]
    /\ SeriallyValid(view, chain'[Len(chain')])
    /\ UNCHANGED <<served, view>>

\* The whole chain becomes visible, after an append or a restart.
Publish ==
    /\ served # Len(chain)
    /\ served' = Len(chain)
    /\ view' = States(chain)[Len(chain)]
    /\ UNCHANGED chain

Stop ==
    /\ served' = 0
    /\ view' = EmptyState
    /\ UNCHANGED chain

Next == Extend \/ Publish \/ Stop

Spec == Init /\ [][Next]_vars
=============================================================================
