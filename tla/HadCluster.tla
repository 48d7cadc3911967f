----------------------------- MODULE HadCluster -----------------------------
(***************************************************************************)
(* The had processes of a HANSI group and the network between them.        *)
(*                                                                         *)
(* Time is a sequence of rounds of one second: in a round every timer      *)
(* thread ticks once, every state thread with its service enabled makes    *)
(* one pass, in any order, and every packet sent arrives or is lost before *)
(* the round ends.  Faults and operator actions are limited to MaxFaults.  *)
(* No timer or time stamp lives for the 2147 seconds after which an int of *)
(* microseconds wraps around; module HadOpen covers that.                  *)
(***************************************************************************)
EXTENDS HadNode

CONSTANT MaxFaults

ASSUME FaultAssumption == MaxFaults \in Nat

VARIABLES
    node,       \* [Node -> NodeState]
    net,        \* packets on their way: <<receiver, packet>>
    looped,     \* nodes whose state thread has had its pass this round
    ticked,     \* nodes whose timer thread has ticked this round
    cut,        \* the heartbeat network loses everything, unnoticed
    faults,     \* faults so far
    dual,       \* rounds without a fault that ended with two masters
    vacant      \* rounds without a fault that ended with no master

vars == <<node, net, looped, ticked, cut, faults, dual, vacant>>

Masters == {n \in Node : node[n].state = "MAST"}

\* Nothing is broken any more: every interface is up, packets get through,
\* and every node has been asked to serve.
Healthy ==
    /\ ~cut
    /\ \A n \in Node : Tracked(node[n]) /\ node[n].ht /\ node[n].svc

\* The nodes whose takeover waits for wid or portal
Waiting ==
    {n \in Node : node[n].state = "TRANSFER" /\ (node[n].wid \/ node[n].portal)}

\* The limits, in rounds, that the safety properties set to dual and vacant.
\* For two masters: two advertisement intervals.  For no master: a master-down
\* delay in LEARN or DISABLE; another one in BACK, if the node then gives way
\* to a packet of a master that is none, or is warned away by a standby whose
\* own timer ran out in the round of the takeover; the interval the old master
\* is given; and the rounds in which this node enters LEARN, is put down and
\* takes over.  (The skew is under a second for every priority.)
DualLimit    == 2 * AdverInt
VacancyLimit == 2 * (DownCount * AdverInt + 1) + AdverInt + 3

\* A count that stops once it is over its limit
CountUp(v, limit) == IF v > limit THEN v ELSE v + 1

-----------------------------------------------------------------------------
\* Both nodes configured, the service enabled on both (had_dbus_service_enable).
Init ==
    /\ node = [n \in Node |-> service_enable(InitNode)]
    /\ net = {}
    /\ looped = {}
    /\ ticked = {}
    /\ cut = FALSE
    /\ faults = 0
    /\ dual = 0
    /\ vacant = 0

\* Node n ends a critical section with its record at r; what it sent goes to
\* all others, unless it is an advertisement and the heartbeat network is cut.
Become(n, r, left) ==
    /\ node' = [node EXCEPT ![n] = [r EXCEPT !.out = {}]]
    /\ net' = left \cup
         {p \in (Node \ {n}) \X r.out : p[2].auth = "PASS" => ~cut}

Loop(n) ==
    /\ n \notin looped
    /\ node[n].svc
    /\ Become(n, state_loop(n, node[n]), net)
    /\ looped' = looped \cup {n}
    /\ UNCHANGED <<ticked, cut, faults, dual, vacant>>

Tick(n) ==
    /\ n \notin ticked
    /\ Become(n, timer_tick(node[n], {}, {}), net)
    /\ ticked' = ticked \cup {n}
    /\ UNCHANGED <<looped, cut, faults, dual, vacant>>

Deliver(p) ==
    /\ LET n == p[1] IN
         Become(n, IF Hears(node[n], p[2]) THEN updata(n, node[n], p[2])
                                           ELSE node[n], net \ {p})
    /\ UNCHANGED <<looped, ticked, cut, faults, dual, vacant>>

\* wid and portal finish the batch synchronisation.
Synchronised(n) ==
    /\ n \in Waiting
    /\ Become(n, no_transfer(node[n]), net)
    /\ UNCHANGED <<looped, ticked, cut, faults, dual, vacant>>

\* The second is over.
EndRound ==
    /\ net = {}
    /\ ticked = Node
    /\ \A n \in Node : node[n].svc => n \in looped
    /\ looped' = {}
    /\ ticked' = {}
    /\ dual'   = IF Healthy /\ \E a, b \in Masters : a # b
                 THEN CountUp(dual, DualLimit) ELSE 0
    /\ vacant' = IF ~Healthy \/ Masters # {} THEN 0
                 ELSE IF Waiting # {} THEN vacant
                 ELSE CountUp(vacant, VacancyLimit)
    /\ UNCHANGED <<node, net, cut, faults>>

-----------------------------------------------------------------------------
(***************************************************************************)
(* Faults and operator actions.                                            *)
(***************************************************************************)
Fault ==
    /\ faults < MaxFaults
    /\ faults' = faults + 1
    /\ dual' = 0
    /\ vacant' = 0
    /\ UNCHANGED <<looped, ticked>>

Lose(p) == Fault /\ net' = net \ {p} /\ UNCHANGED <<node, cut>>

LinkChange(n, l) ==
    Fault /\ Become(n, [node[n] EXCEPT !.link[l] = ~@], net) /\ UNCHANGED cut

HeartbeatChange(n) ==
    Fault /\ Become(n, [node[n] EXCEPT !.ht = ~@], net) /\ UNCHANGED cut

CutChange == Fault /\ cut' = ~cut /\ UNCHANGED <<node, net>>

ServiceDisable(n) ==
    Fault /\ Become(n, service_disable(n, node[n]), net) /\ UNCHANGED cut

SwitchMaster(n) ==
    Fault /\ Become(n, state_change_master(n, node[n]), net) /\ UNCHANGED cut

SwitchBack(n) ==
    Fault /\ Become(n, state_change_back(n, node[n]), net) /\ UNCHANGED cut

\* The machine reboots: everything but its configuration is gone.
Reboot(n) == Fault /\ Become(n, InitNode, net) /\ UNCHANGED cut

\* A service that was disabled or lost in a reboot is enabled again.
ServiceEnable(n) ==
    /\ ~node[n].svc
    /\ Become(n, service_enable(node[n]), net)
    /\ UNCHANGED <<looped, ticked, cut, faults, dual, vacant>>

Next ==
    \/ \E n \in Node :
          \/ Loop(n) \/ Tick(n) \/ Synchronised(n) \/ ServiceEnable(n)
          \/ HeartbeatChange(n) \/ ServiceDisable(n) \/ Reboot(n)
          \/ SwitchMaster(n) \/ SwitchBack(n)
          \/ \E l \in Link : LinkChange(n, l)
    \/ \E p \in net : Deliver(p) \/ Lose(p)
    \/ CutChange
    \/ EndRound

\* The threads of a process are scheduled, a packet is not on its way for ever,
\* and wid and portal answer.
Fairness ==
    /\ \A n \in Node : WF_vars(Loop(n)) /\ WF_vars(Tick(n))
                       /\ WF_vars(Synchronised(n)) /\ WF_vars(ServiceEnable(n))
    /\ WF_vars(\E p \in net : Deliver(p))
    /\ WF_vars(EndRound)

Spec == Init /\ [][Next]_vars /\ Fairness

-----------------------------------------------------------------------------
TypeOK ==
    /\ node \in [Node -> NodeState]
    /\ \A n \in Node : node[n].out = {}
    /\ net \subseteq Node \X Packet
    /\ looped \subseteq Node /\ ticked \subseteq Node
    /\ cut \in BOOLEAN
    /\ faults \in 0..MaxFaults
    /\ dual \in 0..DualLimit + 1 /\ vacant \in 0..VacancyLimit + 1

\* Two masters that can hear each other settle the matter within two
\* advertisement intervals: had_update_uplink and had_update_downlink make the
\* worse one leave.
DualMasterBounded == dual <= DualLimit

\* With everything up again some node is the master before long, whatever the
\* faults left in the timers, in stateFlg and on the network.
VacancyBounded == vacant <= VacancyLimit

\* a is the better master: by priority, or by address on every link.
Outranks(a, b) ==
    \/ Prio[a] > Prio[b]
    \/ Prio[a] = Prio[b] /\ \A l \in Link : Addr[a][l] > Addr[b][l]

\* Once nothing fails any more, the best of the nodes that preempt is and
\* stays the only master, whoever took over in the meantime and however it was
\* left behind: its takeover (from_disable, from_learn, update_back) and the
\* withdrawal of the others always complete.
PreferredMasterEventually ==
    <>[]Healthy => \A n \in Node :
        (Preempt[n] /\ \A o \in Node \ {n} : Outranks(n, o))
            => <>[](Masters = {n})
=============================================================================
