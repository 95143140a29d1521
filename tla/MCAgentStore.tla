---------------------------- MODULE MCAgentStore ----------------------------
(* An instance of AgentStore small enough for TLC: two accounts, one of      *)
(* which repeats its request, reuses its request_id for another goal and    *)
(* asks for a second task.                                                  *)
EXTENDS AgentStore, TLC

CONSTANTS t1, t2, t3, alice, bob, k1, k2, g1, g2

FourAsks ==
    {[owner |-> alice, key |-> k1, req |-> g1], [owner |-> alice, key |-> k1, req |-> g2],
     [owner |-> alice, key |-> k2, req |-> g1], [owner |-> bob,   key |-> k1, req |-> g1]}
=============================================================================
