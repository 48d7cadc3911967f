------------------------------ MODULE MCHadOpen ------------------------------
(***************************************************************************)
(* HadOpen for TLC.  Packets, loops, ticks and the command to enable the   *)
(* service are unlimited; what else the environment decides, and the ticks *)
(* on which a timer or a time stamp wraps around, are limited to EnvMax    *)
(* steps in all.                                                           *)
(***************************************************************************)
EXTENDS HadOpen, TLC

CONSTANTS EnvMax, n1, n2

VARIABLE env

mcVars == <<vars, env>>

\* n1 is the node modelled; what counts of n2 is in its packets.
MCPrio      == [n \in Node |-> 100]
MCPreempt   == [n \in Node |-> TRUE]
MCNoPreempt == [n \in Node |-> FALSE]
MCAddr      == n1 :> [l \in Link |-> 2] @@ n2 :> [l \in Link |-> 1]

\* One packet of each kind the node tells apart: a stop packet, a worse and a
\* better peer; a peer in LEARN, in MAST, in another state; a force-to-fail
\* packet for this node and one for another.
MCPacket ==
    {m \in [from : Node \ {Self}, l : Link, prio : {Stop, 90, 110},
            auth : {"PASS", "FAIL"}, st : {"LEARN", "MAST", "BACK"},
            old : {Self, NoNode}] : CanSend(m)}

MCInit == Init /\ env = 0

\* A tick on which something of 2147 seconds ago wraps around
Wrap == \E wrap, old \in SUBSET Link : wrap \cup old # {} /\ Second(wrap, old)

MCNext ==
    \/ LoopTest /\ UNCHANGED env
    \/ Loop /\ UNCHANGED env
    \/ Second({}, {}) /\ UNCHANGED env
    \/ (\E m \in MCPacket : Hear(m)) /\ UNCHANGED env
    \/ ServiceEnable /\ UNCHANGED env
    \/ env < EnvMax /\ env' = env + 1 /\ (Wrap \/ Environment)

MCSpec == MCInit /\ [][MCNext]_mcVars
=============================================================================
