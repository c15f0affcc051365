------------------------------ MODULE MCRList ------------------------------
(***************************************************************************)
(* Lists of two and three levels with buckets of two ids (a leaf splits at *)
(* three, a bucket of buckets above three, a leaf merges when empty), and  *)
(* with buckets of four (a leaf splits at six and merges below two).       *)
(***************************************************************************)
EXTENDS RList

Workload(num, fill, ids, at, writes, faults) ==
    [num |-> num, fill |-> fill, ids |-> ids, at |-> at, writes |-> writes, faults |-> faults]

MCWorkloads ==
    {Workload(2, 4, {1, 3, 5}, {0, 1, 2, 3}, 2, 1),
     Workload(2, 7, {1, 2, 5, 8}, {}, 2, 1),
     Workload(2, 11, 1 .. 12, {}, 1, 1),
     Workload(2, 11, {1, 4, 5, 12}, {4, 5}, 2, 1),
     Workload(4, 6, {1, 5, 7}, {1}, 3, 0),
     Workload(4, 6, {1, 5, 7}, {1}, 2, 1),
     Workload(4, 30, {1, 2, 3}, {}, 3, 0)}
=============================================================================
