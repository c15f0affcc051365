--------------------------- MODULE MCStateCouchDB ---------------------------
(* Two keys and two blocks: a key written as JSON or binary and rewritten, *)
(* deleted or written first by the second block, with faults, crashes or   *)
(* both.                                                                   *)
EXTENDS StateCouchDB, TLC

MCWorkloads ==
    {[batch |-> <<(1 :> "json" @@ 2 :> "binary"), (2 :> "delete")>>,
      faults |-> 1, crashes |-> 0, scans |-> 1],
     [batch |-> <<(2 :> "binary"), (2 :> "json")>>,
      faults |-> 2, crashes |-> 0, scans |-> 1],
     [batch |-> <<(1 :> "json"), (1 :> "delete")>>,
      faults |-> 1, crashes |-> 1, scans |-> 0],
     [batch |-> <<(1 :> "json" @@ 2 :> "json"), (1 :> "delete")>>,
      faults |-> 0, crashes |-> 1, scans |-> 1],
     [batch |-> <<(1 :> "binary"), (1 :> "json")>>,
      faults |-> 0, crashes |-> 2, scans |-> 0]}
=============================================================================
