---------------------------- MODULE MCScheduleOps ----------------------------
(* Instances of ScheduleOps for TLC: pages and payloads are interchangeable.*)
EXTENDS ScheduleOps, TLC
CONSTANTS t1, t2, p1, p2
TabSymmetry == Permutations(Tabs) \cup Permutations(Specs)

(* A desktop wallet signs each of the three transactions once, one again.  *)
Signed   == [custodial |-> 0, desktop |-> 4, mobile |-> 2]
Posts    == [custodial |-> 2, desktop |-> 1, mobile |-> 1]
Restarts == [custodial |-> 1, desktop |-> 1, mobile |-> 1]
=============================================================================
