---------------------------- MODULE MCIndexJobs ----------------------------
(* An instance of IndexJobs small enough for TLC: one job that moves and    *)
(* one that keeps running beside it.                                        *)
EXTENDS IndexJobs

CONSTANTS j1, j2

Three == [j \in Jobs |-> IF j = j1 THEN 3 ELSE 1]
=============================================================================
