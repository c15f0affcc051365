----------------------------- MODULE MCKVLedger -----------------------------
(* Model checking of KVLedger on two small instances, one for each scope:  *)
(* concurrent simulations over two keys, and crashes with one key, at most *)
(* one operation in a transaction and one transaction that the VSCC        *)
(* rejects.                                                                *)
EXTENDS KVLedger

CONSTANTS t1, t2, t3, k1, k2

VARIABLE scope

UnusedTx(t) == status[t] = "new"

Touches(t, k) == rwset[t].reads[k] # Nil \/ rwset[t].scan[k] # Nil \/ rwset[t].writes[k] # Nil

\* t1 and t2 are alike, and so are k1 and k2: t1 begins first, with k1.  Every
\* scan is of both keys.
InScope ==
    \/ /\ scope = "isolation"
       /\ UnusedTx(t3) /\ crashes = 0 /\ ~histEnabled
       /\ UnusedTx(t1) => UnusedTx(t2)
       /\ Touches(t1, k2) => Touches(t1, k1)
       /\ \A t \in TxIds : rwset[t].scan[k1] = Nil <=> rwset[t].scan[k2] = Nil
       /\ \A t \in TxIds : status[t] # "aborted"
    \/ /\ scope = "crash"
       /\ UnusedTx(t2)
       /\ \A t \in TxIds : Ops(t) <= 1 /\ ~Touches(t, k2)

\* The finite supply of transactions and blocks is used up.
Finished ==
    /\ pc = "idle"
    /\ \A t \in TxIds : status[t] \in {"endorsed", "aborted"} \/ t = (IF scope = "crash" THEN t2 ELSE t3)
    /\ Len(blocks) = MaxHeight \/ Endorsed = {}
    /\ UNCHANGED vars

MCInit == Init /\ scope \in {"isolation", "crash"} /\ InScope
MCNext == (Next \/ Finished) /\ UNCHANGED scope /\ InScope'
MCSpec == MCInit /\ [][MCNext]_<<vars, scope>> /\ Fairness
=============================================================================
