---------------------------- MODULE MCHadCluster ----------------------------
(***************************************************************************)
(* HadCluster for TLC: a preferred node n1 and its standby n2.             *)
(***************************************************************************)
EXTENDS HadCluster, TLC

CONSTANTS n1, n2

MCPrio      == n1 :> 110 @@ n2 :> 100
MCSamePrio  == [n \in Node |-> 100]
MCPreempt   == [n \in Node |-> TRUE]
MCNoPreempt == [n \in Node |-> FALSE]
MCAddr      == n1 :> [l \in Link |-> 1] @@ n2 :> [l \in Link |-> 2]
=============================================================================
