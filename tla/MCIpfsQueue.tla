---------------------------- MODULE MCIpfsQueue ----------------------------
(* Instances of IpfsQueue small enough for TLC. *)
EXTENDS IpfsQueue, TLC

Interchangeable == Permutations(Requests)
=============================================================================
