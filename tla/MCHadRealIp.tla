---------------------------- MODULE MCHadRealIp ----------------------------
(* Three addresses that are alike, and the virtual one. *)
EXTENDS HadRealIp, TLC

CONSTANTS a1, a2, a3, v

RealAddrs == Permutations({a1, a2, a3})
=============================================================================
