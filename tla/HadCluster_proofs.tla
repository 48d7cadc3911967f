-------------------------- MODULE HadCluster_proofs --------------------------
(***************************************************************************)
(* Proofs about HadCluster: the types and the role of every node for any   *)
(* number of nodes, and for a pair of nodes that two masters settle the    *)
(* matter in time and that a master comes in time where there is none,     *)
(* whatever the priorities, intervals and faults.                          *)
(***************************************************************************)
EXTENDS HadCluster, HadNode_proofs, TLAPS

-----------------------------------------------------------------------------
(***************************************************************************)
(* Every node of the cluster keeps the invariant of its own record.        *)
(***************************************************************************)
NodesGood ==
    /\ node \in [Node -> NodeState]
    /\ \A n \in Node : Good(node[n]) /\ node[n].out = {}
    /\ net \subseteq Node \X Packet

ClusterInv == TypeOK /\ NodesGood

\* Every node, whatever the others and the network do to it, has the virtual
\* address installed and its neighbours told exactly while it is the master.
EveryRoleConsistent == \A n \in Node : Role(node[n])

\* The limits of the two counters are numbers.
LEMMA LimitType == DualLimit \in Nat /\ VacancyLimit \in Nat
<1>1. DownCount * AdverInt \in Nat /\ AdverInt \in Nat
  BY NodeAssumption, SMT
<1> DEFINE d == DownCount * AdverInt
<1>2. VacancyLimit = 2 * (d + 1) + AdverInt + 3 /\ d \in Nat
  BY <1>1 DEF VacancyLimit
<1> HIDE DEF d
<1> QED
  BY <1>1, <1>2, SMT DEF DualLimit

\* A service just enabled on a new profile (had_dbus_service_enable)
LEMMA InitCluster == Init => ClusterInv
<1> SUFFICES ASSUME Init PROVE ClusterInv
  OBVIOUS
<1> DEFINE s == service_enable(InitNode)
<1>1. s.out = {}
  <2> DEFINE t == [InitNode EXCEPT !.rx = TRUE]
  <2>1. InitNode \in NodeState /\ InitNode.out = {}
    BY InitNodeGood DEF Good
  <2>2. t \in NodeState /\ t.out = {}
    BY <2>1, Zenon DEF NodeState
  <2>3. s = [t EXCEPT !.svc = TRUE]
    BY DEF service_enable, vif_rcv_pck_ON
  <2> HIDE DEF t
  <2>4. [t EXCEPT !.svc = TRUE].out = {}
    BY <2>2, Zenon DEF NodeState
  <2> QED
    BY <2>3, <2>4
<1>2. \A n \in Node : Good(s)
  BY InitNodeGood, ServiceEnableStep DEF Own
<1>3. node = [n \in Node |-> s]
  BY DEF Init
<1> HIDE DEF s
<1>4. NodesGood
  <2>1. \A n \in Node : s \in NodeState
    BY <1>2 DEF Good
  <2>2. net \subseteq Node \X Packet
    BY DEF Init
  <2> QED
    BY <1>1, <1>2, <1>3, <2>1, <2>2, Zenon DEF NodesGood
<1>5. /\ faults \in 0..MaxFaults
      /\ dual \in 0..DualLimit + 1 /\ vacant \in 0..VacancyLimit + 1
  BY LimitType, FaultAssumption, SMT DEF Init
<1>6. looped \subseteq Node /\ ticked \subseteq Node /\ cut \in BOOLEAN
  BY DEF Init
<1> QED
  BY <1>4, <1>5, <1>6, Zenon DEF ClusterInv, TypeOK, NodesGood

\* A node ends a critical section with a good record: nothing is left to send
\* there, and what it sent are packets for the others.
LEMMA BecomeGood ==
    ASSUME NodesGood, NEW n \in Node, NEW r, Good(r),
           NEW left, left \subseteq Node \X Packet, Become(n, r, left)
    PROVE  NodesGood'
<1> DEFINE e == [r EXCEPT !.out = {}]
           sent == {p \in (Node \ {n}) \X r.out : p[2].auth = "PASS" => ~cut}
<1>1. node' = [node EXCEPT ![n] = e] /\ net' = left \cup sent
  BY DEF Become
<1>2. Good(e) /\ e.out = {}
  BY EmptiedGood
<1>3. sent \subseteq Node \X Packet
  <2>1. r.out \subseteq Packet
    BY SMT DEF Good, NodeState
  <2>2. (Node \ {n}) \X r.out \subseteq Node \X Packet
    BY <2>1, SMT
  <2> QED
    BY <2>2, Zenon
<1> HIDE DEF e, sent
<1>4. e \in NodeState
  BY <1>2 DEF Good
<1>5. node' \in [Node -> NodeState]
  BY <1>1, <1>4, Zenon DEF NodesGood
<1>6. \A m \in Node : Good(node'[m]) /\ node'[m].out = {}
  <2> TAKE m \in Node
  <2>1. node'[m] = IF m = n THEN e ELSE node[m]
    BY <1>1, Zenon DEF NodesGood
  <2> QED
    BY <1>2, <2>1, Zenon DEF NodesGood
<1>7. net' \subseteq Node \X Packet
  BY <1>1, <1>3, Zenon
<1> QED
  BY <1>5, <1>6, <1>7 DEF NodesGood

\* Hearing a packet that reaches had_updata keeps a record good.
LEMMA UpdataGood ==
    ASSUME NEW n \in Node, NEW s, Good(s), NEW m \in Packet, Hears(s, m)
    PROVE  Good(updata(n, s, m))
<1>1. s.svc
  BY DEF Hears
<1> QED
  BY <1>1, Updata DEF Got, Ready

\* What remains of the net is made of packets.
LEMMA NetLeft ==
    ASSUME NodesGood, NEW p \in net
    PROVE  p[1] \in Node /\ p[2] \in Packet /\ net \ {p} \subseteq Node \X Packet
BY SMT DEF NodesGood

\* Each step of the threads and of the network keeps the records good.
LEMMA GoodThread ==
    ASSUME NodesGood,
           \/ \E n \in Node : Loop(n) \/ Tick(n) \/ Synchronised(n) \/ ServiceEnable(n)
           \/ \E p \in net : Deliver(p)
           \/ EndRound
    PROVE  NodesGood'
<1>1. \A n \in Node : Good(node[n])
  BY DEF NodesGood
<1>2. net \subseteq Node \X Packet
  BY DEF NodesGood
<1>3. ASSUME NEW n \in Node, Loop(n) PROVE NodesGood'
  <2>1. Good(state_loop(n, node[n]))
    BY <1>1, <1>3, StateLoop DEF Own
  <2> QED
    BY <1>2, <1>3, <2>1, BecomeGood DEF Loop
<1>4. ASSUME NEW n \in Node, Tick(n) PROVE NodesGood'
  <2>1. Good(timer_tick(node[n], {}, {}))
    BY <1>1, <1>4, TickStep
  <2> QED
    BY <1>2, <1>4, <2>1, BecomeGood DEF Tick
<1>5. ASSUME NEW n \in Node, Synchronised(n) PROVE NodesGood'
  <2>1. PICK v \in BOOLEAN : TRUE
    OBVIOUS
  <2>2. Good(no_transfer(node[n]))
    BY <1>1, <1>5, <2>1, FlagSteps DEF Own
  <2> QED
    BY <1>2, <1>5, <2>2, BecomeGood DEF Synchronised
<1>6. ASSUME NEW n \in Node, ServiceEnable(n) PROVE NodesGood'
  <2>1. Good(service_enable(node[n]))
    BY <1>1, <1>6, ServiceEnableStep DEF Own
  <2> QED
    BY <1>2, <1>6, <2>1, BecomeGood DEF ServiceEnable
<1>7. ASSUME NEW p \in net, Deliver(p) PROVE NodesGood'
  <2> DEFINE n == p[1]
             r == IF Hears(node[n], p[2]) THEN updata(n, node[n], p[2]) ELSE node[n]
  <2>1. n \in Node /\ p[2] \in Packet /\ net \ {p} \subseteq Node \X Packet
    BY NetLeft
  <2>2. Good(r)
    BY <1>1, <2>1, UpdataGood
  <2>3. Become(n, r, net \ {p})
    BY <1>7 DEF Deliver
  <2> HIDE DEF n, r
  <2> QED
    BY <2>1, <2>2, <2>3, BecomeGood
<1>8. ASSUME EndRound PROVE NodesGood'
  BY <1>8 DEF EndRound, NodesGood
<1> QED
  BY <1>3, <1>4, <1>5, <1>6, <1>7, <1>8

\* So does each fault and each operation of an operator.
LEMMA GoodFault ==
    ASSUME NodesGood,
           \/ \E n \in Node :
                 \/ HeartbeatChange(n) \/ ServiceDisable(n) \/ Reboot(n)
                 \/ SwitchMaster(n) \/ SwitchBack(n)
                 \/ \E l \in Link : LinkChange(n, l)
           \/ \E p \in net : Lose(p)
           \/ CutChange
    PROVE  NodesGood'
<1>1. \A n \in Node : Good(node[n])
  BY DEF NodesGood
<1>2. net \subseteq Node \X Packet
  BY DEF NodesGood
<1>3. ASSUME NEW n \in Node, HeartbeatChange(n) PROVE NodesGood'
  <2>1. node[n].ht \in BOOLEAN
    BY <1>1, SMT DEF Good, NodeState
  <2>2. PICK v \in BOOLEAN : v = ~node[n].ht
    BY <2>1
  <2>3. Good([node[n] EXCEPT !.ht = v])
    BY <1>1, FlagSteps DEF Own
  <2>4. Become(n, [node[n] EXCEPT !.ht = v], net)
    BY <1>3, <2>2 DEF HeartbeatChange
  <2> QED
    BY <1>2, <2>3, <2>4, BecomeGood
<1>4. ASSUME NEW n \in Node, ServiceDisable(n) PROVE NodesGood'
  <2>1. Good(service_disable(n, node[n]))
    BY <1>1, ServiceDisableStep DEF Own
  <2> QED
    BY <1>2, <1>4, <2>1, BecomeGood DEF ServiceDisable
<1>5. ASSUME NEW n \in Node, Reboot(n) PROVE NodesGood'
  BY <1>2, <1>5, InitNodeGood, BecomeGood DEF Reboot
<1>6. ASSUME NEW n \in Node, SwitchMaster(n) PROVE NodesGood'
  <2>1. Good(state_change_master(n, node[n]))
    BY <1>1, SwitchMasterStep DEF Own
  <2> QED
    BY <1>2, <1>6, <2>1, BecomeGood DEF SwitchMaster
<1>7. ASSUME NEW n \in Node, SwitchBack(n) PROVE NodesGood'
  <2>1. Good(state_change_back(n, node[n]))
    BY <1>1, SwitchBackStep DEF Own
  <2> QED
    BY <1>2, <1>7, <2>1, BecomeGood DEF SwitchBack
<1>8. ASSUME NEW n \in Node, NEW l \in Link, LinkChange(n, l) PROVE NodesGood'
  <2>1. Good([node[n] EXCEPT !.link[l] = ~@])
    BY <1>1, LinkSteps DEF Own
  <2> QED
    BY <1>2, <1>8, <2>1, BecomeGood DEF LinkChange
<1>9. ASSUME NEW p \in net, Lose(p) PROVE NodesGood'
  BY <1>9 DEF Lose, NodesGood
<1>10. ASSUME CutChange PROVE NodesGood'
  BY <1>10 DEF CutChange, NodesGood
<1> QED
  BY <1>3, <1>4, <1>5, <1>6, <1>7, <1>8, <1>9, <1>10

\* The counters and the bookkeeping of the rounds keep their types.
LEMMA CountersType ==
    ASSUME ClusterInv, Next
    PROVE  /\ looped' \subseteq Node /\ ticked' \subseteq Node
           /\ cut' \in BOOLEAN
           /\ faults' \in 0..MaxFaults
           /\ dual' \in 0..DualLimit + 1 /\ vacant' \in 0..VacancyLimit + 1
<1> USE LimitType, FaultAssumption
<1>1. /\ looped \subseteq Node /\ ticked \subseteq Node /\ cut \in BOOLEAN
      /\ faults \in 0..MaxFaults
      /\ dual \in 0..DualLimit + 1 /\ vacant \in 0..VacancyLimit + 1
  BY DEF ClusterInv, TypeOK
<1>2. 0 \in 0..DualLimit + 1 /\ 0 \in 0..VacancyLimit + 1
  BY SMT
<1>3. CountUp(dual, DualLimit) \in 0..DualLimit + 1
      /\ CountUp(vacant, VacancyLimit) \in 0..VacancyLimit + 1
  BY <1>1, SMT DEF CountUp
<1>4. ASSUME NEW n \in Node, Loop(n) \/ Tick(n) \/ Synchronised(n) \/ ServiceEnable(n)
      PROVE  /\ looped' \subseteq Node /\ ticked' \subseteq Node
             /\ UNCHANGED <<cut, faults, dual, vacant>>
  BY <1>1, <1>4 DEF Loop, Tick, Synchronised, ServiceEnable
<1>5. ASSUME NEW p \in net, Deliver(p)
      PROVE  UNCHANGED <<looped, ticked, cut, faults, dual, vacant>>
  BY <1>5 DEF Deliver
<1>6. ASSUME EndRound
      PROVE  /\ looped' \subseteq Node /\ ticked' \subseteq Node
             /\ UNCHANGED <<cut, faults>>
             /\ dual' \in 0..DualLimit + 1 /\ vacant' \in 0..VacancyLimit + 1
  BY <1>1, <1>2, <1>3, <1>6 DEF EndRound
<1>7. ASSUME Fault
      PROVE  /\ UNCHANGED <<looped, ticked>>
             /\ faults' \in 0..MaxFaults /\ dual' = 0 /\ vacant' = 0
  BY <1>1, <1>7, SMT DEF Fault
<1>8. ASSUME \/ \E n \in Node :
                   \/ HeartbeatChange(n) \/ ServiceDisable(n) \/ Reboot(n)
                   \/ SwitchMaster(n) \/ SwitchBack(n)
                   \/ \E l \in Link : LinkChange(n, l)
             \/ \E p \in net : Lose(p)
             \/ CutChange
      PROVE  Fault /\ cut' \in BOOLEAN
  BY <1>1, <1>8 DEF HeartbeatChange, ServiceDisable, Reboot, SwitchMaster,
     SwitchBack, LinkChange, Lose, CutChange
<1> QED
  BY <1>1, <1>2, <1>4, <1>5, <1>6, <1>7, <1>8, Zenon DEF Next

\* Every step of the cluster keeps its invariant.
LEMMA ClusterStep == ClusterInv /\ [Next]_vars => ClusterInv'
<1> SUFFICES ASSUME ClusterInv, [Next]_vars PROVE ClusterInv'
  OBVIOUS
<1>1. CASE Next
  <2>1. NodesGood'
    BY <1>1, GoodThread, GoodFault, Zenon DEF Next, ClusterInv
  <2> QED
    BY <1>1, <2>1, CountersType, Zenon DEF ClusterInv, TypeOK, NodesGood
<1>2. CASE UNCHANGED vars
  BY <1>2 DEF vars, ClusterInv, TypeOK, NodesGood
<1> QED
  BY <1>1, <1>2

\* The types of HadCluster hold for any number of nodes and faults: between
\* two critical sections nothing is left to send, only packets are on the
\* network and the counters stay within their limits.
THEOREM ClusterTyped == Spec => []TypeOK
<1>1. ClusterInv => TypeOK
  BY DEF ClusterInv
<1> QED
  BY <1>1, InitCluster, ClusterStep, PTL DEF Spec

\* What HadOpen proves of a node in an arbitrary environment, its neighbours
\* in the cluster cannot undo either: the virtual address, the role told to
\* the other daemons and the traffic agree with the state of every node.
THEOREM EveryNodeConsistent == Spec => []EveryRoleConsistent
<1>1. ClusterInv => EveryRoleConsistent
  BY DEF ClusterInv, NodesGood, Good, EveryRoleConsistent
<1> QED
  BY <1>1, InitCluster, ClusterStep, PTL DEF Spec

-----------------------------------------------------------------------------
(***************************************************************************)
(* Two masters that hear each other.                                       *)
(***************************************************************************)

\* A node of a healthy cluster: everything it tracks is up and it serves.
Sound(s) == Tracked(s) /\ s.ht /\ s.svc

\* An advertisement that another node sent as the master
FromMaster(p) ==
    /\ p[2].from # p[1] /\ p[2].auth = "PASS" /\ p[2].st = "MAST"
    /\ p[2].prio = Prio[p[2].from]

\* Every delay had_state_leave_master sets is two ticks or more.
LEMMA DelayAtLeastTwo ==
    ASSUME NEW n \in Node
    PROVE  Delay(n) \in Nat /\ Delay(n) >= 2
<1> DEFINE base == DownCount * AdverInt
           skew == VRRP_TIMER_SKEW(n)
<1>1. base \in Nat /\ base >= 1
  BY NodeAssumption, SMT
<1>2. skew \in Nat /\ skew >= 1
  BY SkewRange, Zenon
<1>3. Delay(n) = (base * 1000000 + skew + 1000000 - 1) \div 1000000
  BY DEF Delay, Ticks, VRRP_TIMER_HZ
<1> HIDE DEF base, skew
<1> QED
  BY <1>1, <1>2, <1>3, SMT

\* After Become the record of n is r with its packets sent, and no other
\* record has changed.
LEMMA BecomeFields ==
    ASSUME NodesGood, NEW n \in Node, NEW r, r \in NodeState,
           NEW left, Become(n, r, left)
    PROVE  /\ \A m \in Node \ {n} : node'[m] = node[m]
           /\ node'[n].state = r.state /\ node'[n].master = r.master
           /\ node'[n].adv = r.adv /\ node'[n].heard = r.heard
           /\ node'[n].ms = r.ms
           /\ Sound(node'[n]) <=> Sound(r)
<1> DEFINE e == [r EXCEPT !.out = {}]
<1>1. node' = [node EXCEPT ![n] = e]
  BY DEF Become
<1>2. /\ e.state = r.state /\ e.svc = r.svc /\ e.ms = r.ms /\ e.master = r.master
      /\ e.adv = r.adv /\ e.heard = r.heard
      /\ e.link = r.link /\ e.mon = r.mon /\ e.ht = r.ht
  BY Emptied, EmptiedLinks
<1> HIDE DEF e
<1>3. node'[n] = e /\ \A m \in Node \ {n} : node'[m] = node[m]
  BY <1>1, Zenon DEF NodesGood
<1>4. Sound(e) <=> Sound(r)
  BY <1>2, Zenon DEF Sound, Tracked, LinksUp
<1> QED
  BY <1>2, <1>3, <1>4, Zenon

\* One pass of had_state_mast_loop with everything up: an advertisement for
\* every link whose timer has run out, and that timer set again.
LEMMA MastPass ==
    ASSUME NEW n \in Node, NEW s, Good(s), s.out = {}, s.state = "MAST", Sound(s)
    PROVE  LET r == state_loop(n, s)
           IN  /\ r.out = {Pkt(n, s, l, Prio[n], "PASS") :
                              l \in {k \in Link : s.adv[k] <= 0}}
               /\ r.state = "MAST" /\ r.master = s.master /\ r.heard = s.heard
               /\ \A l \in Link :
                     r.adv[l] = IF s.adv[l] <= 0 THEN AdverInt ELSE s.adv[l]
               /\ Sound(r)
<1> DEFINE due == {l \in Link : s.adv[l] <= 0}
           X == s.out \cup {Pkt(n, s, l, Prio[n], "PASS") :
                                l \in {k \in due : s.ht /\ s.svc}}
           A == [l \in Link |-> IF l \in due THEN AdverInt ELSE s.adv[l]]
           r == [s EXCEPT !.out = X, !.adv = A]
<1>1. s \in NodeState
  BY DEF Good
<1>2. state_loop(n, s) = r
  BY DEF state_loop, mast_loop, Sound
<1>3. X = {Pkt(n, s, l, Prio[n], "PASS") : l \in {k \in Link : s.adv[k] <= 0}}
  <2>1. {k \in due : s.ht /\ s.svc} = {k \in Link : s.adv[k] <= 0}
    BY DEF Sound
  <2> QED
    BY <2>1
<1>4. \A l \in Link : A[l] = IF s.adv[l] <= 0 THEN AdverInt ELSE s.adv[l]
  OBVIOUS
<1> HIDE DEF X, A
<1>5. /\ r.out = X /\ r.adv = A /\ r.state = s.state /\ r.master = s.master
      /\ r.heard = s.heard /\ r.svc = s.svc /\ r.ht = s.ht /\ r.link = s.link
      /\ r.mon = s.mon
  BY <1>1, Zenon DEF NodeState
<1> HIDE DEF r
<1>6. Sound(r)
  BY <1>5, Zenon DEF Sound, Tracked, LinksUp
<1> QED
  BY <1>2, <1>3, <1>4, <1>5, <1>6, Zenon

\* The same step of the cluster: the advertisements are on their way.
LEMMA MasterSends ==
    ASSUME NodesGood, Healthy, NEW n \in Node, node[n].state = "MAST", Loop(n)
    PROVE  /\ \A m \in Node \ {n} : node'[m] = node[m]
           /\ node'[n].state = "MAST" /\ node'[n].master = node[n].master
           /\ node'[n].heard = node[n].heard
           /\ \A l \in Link : node'[n].adv[l] =
                 IF node[n].adv[l] <= 0 THEN AdverInt ELSE node[n].adv[l]
           /\ Sound(node'[n])
           /\ net \subseteq net'
           /\ \A p \in net' \ net : FromMaster(p)
           /\ \A m \in Node \ {n}, l \in Link : node[n].adv[l] <= 0 =>
                 \E p \in net' : p[1] = m /\ p[2].l = l
<1> DEFINE s == node[n]
           r == state_loop(n, s)
           pkt(l) == Pkt(n, s, l, Prio[n], "PASS")
           out == {pkt(l) : l \in {k \in Link : s.adv[k] <= 0}}
<1>1. Good(s) /\ s.out = {} /\ Sound(s) /\ ~cut /\ s.state = "MAST"
  BY DEF NodesGood, Healthy, Sound
<1>2. /\ r.out = out /\ r.state = "MAST" /\ r.master = s.master
      /\ r.heard = s.heard /\ Sound(r)
      /\ \A l \in Link : r.adv[l] = IF s.adv[l] <= 0 THEN AdverInt ELSE s.adv[l]
  BY <1>1, MastPass
<1>3. Good(r)
  BY <1>1, StateLoop DEF Own
<1>4. Become(n, r, net)
  BY DEF Loop
<1>5. \A l : /\ pkt(l).from = n /\ pkt(l).l = l /\ pkt(l).prio = Prio[n]
             /\ pkt(l).auth = "PASS" /\ pkt(l).st = "MAST"
  BY <1>1 DEF Pkt
<1>6. net' = net \cup {p \in (Node \ {n}) \X r.out : p[2].auth = "PASS" => ~cut}
  BY <1>4 DEF Become
<1> HIDE DEF r
<1>7. r \in NodeState
  BY <1>3 DEF Good
<1>8. /\ \A m \in Node \ {n} : node'[m] = node[m]
      /\ node'[n].state = r.state /\ node'[n].master = r.master
      /\ node'[n].adv = r.adv /\ node'[n].heard = r.heard
      /\ Sound(node'[n]) <=> Sound(r)
  BY <1>4, <1>7, BecomeFields
<1> HIDE DEF pkt
<1>9. ASSUME NEW p \in net' \ net PROVE FromMaster(p)
  <2>1. p[1] \in Node \ {n} /\ p[2] \in out
    BY <1>2, <1>6, <1>9, SMT
  <2>2. PICK l \in Link : p[2] = pkt(l)
    BY <2>1
  <2> QED
    BY <1>5, <2>1, <2>2 DEF FromMaster
<1>10. ASSUME NEW m \in Node \ {n}, NEW l \in Link, s.adv[l] <= 0
       PROVE  \E p \in net' : p[1] = m /\ p[2].l = l
  <2> DEFINE p == <<m, pkt(l)>>
  <2>1. pkt(l) \in r.out
    BY <1>2, <1>10
  <2>2. p \in (Node \ {n}) \X r.out /\ p[1] = m /\ p[2] = pkt(l)
    BY <2>1, SMT
  <2>3. p \in net'
    BY <1>1, <1>6, <2>2
  <2> QED
    BY <1>5, <2>2, <2>3
<1>11. /\ node'[n].state = "MAST" /\ node'[n].master = s.master
       /\ node'[n].heard = s.heard /\ Sound(node'[n])
  BY <1>2, <1>8, Zenon
<1>12. \A l \in Link : node'[n].adv[l] = IF s.adv[l] <= 0 THEN AdverInt ELSE s.adv[l]
  BY <1>2, <1>8, Zenon
<1>13. net \subseteq net'
  BY <1>6, Zenon
<1> QED
  BY <1>8, <1>9, <1>10, <1>11, <1>12, <1>13, Zenon

\* A standby with time on its master-down timers does nothing in its pass.
LEMMA BackPass ==
    ASSUME NEW n \in Node, NEW s, Good(s), s.state = "BACK", Sound(s),
           \A l \in Link : s.ms[l] >= 1
    PROVE  state_loop(n, s) = s
<1>1. \A l \in Link : s.ms[l] \in Nat
  BY SMT DEF Good, NodeState
<1>2. ~Expired(s.ms)
  BY <1>1, SMT DEF Expired
<1>3. LinksUp(s) /\ s.ht /\ s.svc
  BY DEF Sound, Tracked
<1>4. back_loop(n, s) = s
  BY <1>2, <1>3 DEF back_loop, check_vif_state_trans
<1> QED
  BY <1>4 DEF state_loop

\* m is an advertisement of a master.
Advert(m) == m \in Packet /\ m.auth = "PASS" /\ m.st = "MAST" /\ m.prio = Prio[m.from]

\* had_updata in a sound node passes such a packet on to had_update_uplink or
\* had_update_downlink, with stateFlg cleared.
LEMMA AdvertReaches ==
    ASSUME NEW n \in Node, NEW s, Good(s), Sound(s), NEW m, Advert(m),
           s.state # "DISABLE"
    PROVE  /\ Hears(s, m)
           /\ updata(n, s, m) = update_link(n, [s EXCEPT !.flg = FALSE], m)
           /\ m.prio # Stop /\ m.l \in Link /\ m.from \in Node
<1>1. m.l \in Link /\ m.from \in Node
  BY SMT DEF Advert, Packet
<1>2. m.prio # Stop
  <2>1. Prio[m.from] \in 1..255 /\ m.prio = Prio[m.from]
    BY <1>1, PrioRange DEF Advert
  <2> QED
    BY <2>1, SMT DEF Stop
<1>3. s.link[m.l] /\ s.ht /\ s.svc
  BY <1>1, Zenon DEF Sound, Tracked, LinksUp
<1> QED
  BY <1>1, <1>2, <1>3, Zenon DEF Hears, updata, Advert

\* Clearing stateFlg leaves the rest of the record.
LEMMA FlagCleared ==
    ASSUME NEW s \in NodeState
    PROVE  LET t == [s EXCEPT !.flg = FALSE]
           IN  /\ t \in NodeState
               /\ t.state = s.state /\ t.master = s.master /\ t.heard = s.heard
               /\ t.adv = s.adv /\ t.ms = s.ms /\ t.out = s.out
               /\ Sound(t) <=> Sound(s)
<1> DEFINE t == [s EXCEPT !.flg = FALSE]
<1>1. t \in NodeState
  BY Zenon DEF NodeState
<1>2. /\ t.state = s.state /\ t.master = s.master /\ t.heard = s.heard
      /\ t.adv = s.adv /\ t.ms = s.ms /\ t.out = s.out
      /\ t.link = s.link /\ t.mon = s.mon /\ t.ht = s.ht /\ t.svc = s.svc
  BY Zenon DEF NodeState
<1> HIDE DEF t
<1>3. Sound(t) <=> Sound(s)
  BY <1>2, Zenon DEF Sound, Tracked, LinksUp
<1> QED
  BY <1>1, <1>2, <1>3 DEF t

\* A master that hears another one that is no better stays as it is.
LEMMA HearWorse ==
    ASSUME NEW n \in Node, NEW s, Good(s), s.state = "MAST", Sound(s),
           NEW m, Advert(m), ~better(n, m)
    PROVE  updata(n, s, m) = [s EXCEPT !.flg = FALSE]
<1> DEFINE t == [s EXCEPT !.flg = FALSE]
<1>1. s \in NodeState
  BY DEF Good
<1>2. t.state = "MAST"
  BY <1>1, Zenon DEF NodeState
<1>3. m.prio # Stop /\ updata(n, s, m) = update_link(n, t, m)
  BY AdvertReaches
<1> HIDE DEF t
<1>4. update_link(n, t, m) = update_mast(n, t, m)
  BY <1>2 DEF update_link
<1>5. update_mast(n, t, m) = t
  BY <1>3 DEF update_mast, Advert
<1> QED
  BY <1>3, <1>4, <1>5 DEF t

\* A master that hears a better one notes it, and leaves for BACK with full
\* timers unless some other link has not heard one lately.
LEMMA HearBetterMaster ==
    ASSUME NEW n \in Node, NEW s, Good(s), s.out = {}, s.state = "MAST", Sound(s),
           NEW m, Advert(m), better(n, m)
    PROVE  LET r == updata(n, s, m)
           IN  /\ r.out = {} /\ Sound(r)
               /\ \/ /\ r.state = "MAST"
                     /\ r.master = [s.master EXCEPT ![m.l] = m.from]
                     /\ r.heard = [s.heard EXCEPT ![m.l] = 0]
                     /\ \E k \in Link \ {m.l} :
                           ~(s.master[k] # NoNode /\ s.heard[k] < Stale)
                  \/ r.state = "BACK" /\ r.ms = AllLinks(Delay(n))
<1> DEFINE t == [s EXCEPT !.flg = FALSE]
<1>1. s \in NodeState
  BY DEF Good
<1>2. /\ t \in NodeState /\ t.state = "MAST" /\ t.out = {} /\ Sound(t)
      /\ t.master = s.master /\ t.heard = s.heard
  BY <1>1, FlagCleared
<1>3. /\ m.prio # Stop /\ m.l \in Link /\ m.from \in Node
      /\ updata(n, s, m) = update_link(n, t, m)
  BY AdvertReaches
<1> HIDE DEF t
<1>4. updata(n, s, m) = hear_better(n, t, m)
  <2>1. update_link(n, t, m) = update_mast(n, t, m)
    BY <1>2 DEF update_link
  <2>2. update_mast(n, t, m) = hear_better(n, t, m)
    BY <1>3 DEF update_mast, Advert
  <2> QED
    BY <1>3, <2>1, <2>2
<1> DEFINE H == [t.heard EXCEPT ![m.l] = 0]
           M == [t.master EXCEPT ![m.l] = m.from]
           u == [t EXCEPT !.heard[m.l] = 0, !.master[m.l] = m.from]
           v == vif_drop_pck(u)
           w == leave_master_back(n, u)
           x == [w EXCEPT !.heard = AllLinks(Stale)]
<1>5. u = [t EXCEPT !.heard = H, !.master = M]
  BY <1>2, Zenon DEF NodeState
<1>6. t.heard \in [Link -> 0..Stale] /\ t.master \in [Link -> Node \cup {NoNode}]
  BY <1>2, SMT DEF NodeState
<1>7. H \in [Link -> 0..Stale] /\ M \in [Link -> Node \cup {NoNode}]
  <2>1. 0 \in 0..Stale
    BY NodeAssumption, SMT DEF Stale
  <2> QED
    BY <1>3, <1>6, <2>1, Zenon
<1>8. \A k \in Link \ {m.l} : H[k] = t.heard[k] /\ M[k] = t.master[k]
  BY <1>6, Zenon
<1> HIDE DEF H, M
<1>9. u \in NodeState
  BY <1>2, <1>5, <1>7, Zenon DEF NodeState
<1>10. /\ u.heard = H /\ u.master = M /\ u.state = "MAST" /\ u.out = {}
       /\ u.link = t.link /\ u.mon = t.mon /\ u.ht = t.ht /\ u.svc = t.svc
  BY <1>2, <1>5, Zenon DEF NodeState
<1>11. hear_better(n, t, m)
          = IF others_known(u, m.l) /\ \A k \in Link \ {m.l} : u.heard[k] < Stale
            THEN x ELSE u
  BY DEF hear_better, leave_master, Advert
<1> HIDE DEF u
<1>12. Sound(u)
  BY <1>2, <1>10, Zenon DEF Sound, Tracked, LinksUp
<1>13. CASE others_known(u, m.l) /\ \A k \in Link \ {m.l} : u.heard[k] < Stale
  <2>1. v \in NodeState /\ v = [u EXCEPT !.rx = FALSE]
    BY <1>9, Zenon DEF vif_drop_pck, NodeState
  <2>2. /\ v.out = {} /\ v.link = u.link /\ v.mon = u.mon /\ v.ht = u.ht
        /\ v.svc = u.svc
    BY <1>9, <1>10, <2>1, Zenon DEF NodeState
  <2>3. w = [v EXCEPT !.vip = FALSE, !.state = "BACK", !.ms = AllLinks(Delay(n)),
                      !.adv = AllLinks(0), !.told = "BACK"]
    BY DEF leave_master_back
  <2> HIDE DEF v
  <2>4. w \in NodeState
    BY <1>9, LeaveMasterBack DEF Recast
  <2>5. /\ w.state = "BACK" /\ w.ms = AllLinks(Delay(n)) /\ w.out = {}
        /\ w.link = u.link /\ w.mon = u.mon /\ w.ht = u.ht /\ w.svc = u.svc
    BY <2>1, <2>2, <2>3, Zenon DEF NodeState
  <2> HIDE DEF w
  <2>6. /\ x.state = "BACK" /\ x.ms = AllLinks(Delay(n)) /\ x.out = {}
        /\ x.link = u.link /\ x.mon = u.mon /\ x.ht = u.ht /\ x.svc = u.svc
    BY <2>4, <2>5, Zenon DEF NodeState
  <2>7. updata(n, s, m) = x
    BY <1>4, <1>11, <1>13
  <2> HIDE DEF x
  <2>8. Sound(x)
    BY <1>12, <2>6, Zenon DEF Sound, Tracked, LinksUp
  <2> QED
    BY <2>6, <2>7, <2>8, Zenon
<1>14. CASE ~(others_known(u, m.l) /\ \A k \in Link \ {m.l} : u.heard[k] < Stale)
  <2>1. updata(n, s, m) = u
    BY <1>4, <1>11, <1>14
  <2>2. \E k \in Link \ {m.l} : ~(s.master[k] # NoNode /\ s.heard[k] < Stale)
    BY <1>2, <1>8, <1>10, <1>14, Zenon DEF others_known
  <2> QED
    BY <1>2, <1>10, <1>12, <2>1, <2>2, Zenon DEF H, M
<1> QED
  BY <1>13, <1>14, Zenon

\* A standby that hears a better master waits for it again.
LEMMA HearMasterInBack ==
    ASSUME NEW n \in Node, NEW s, Good(s), s.out = {}, s.state = "BACK", Sound(s),
           NEW m, Advert(m), better(n, m)
    PROVE  LET r == updata(n, s, m)
           IN  /\ r.state = "BACK" /\ r.out = {} /\ Sound(r)
               /\ r.ms = [s.ms EXCEPT ![m.l] = Delay(n)]
<1> DEFINE t == [s EXCEPT !.flg = FALSE]
<1>1. s \in NodeState
  BY DEF Good
<1>2. /\ t \in NodeState /\ t.state = "BACK" /\ t.out = {} /\ Sound(t)
      /\ t.ms = s.ms
  BY <1>1, FlagCleared
<1>3. m.prio # Stop /\ updata(n, s, m) = update_link(n, t, m)
  BY AdvertReaches
<1> HIDE DEF t
<1> DEFINE T == [t.ms EXCEPT ![m.l] = Delay(n)]
           M == [t.master EXCEPT ![m.l] = m.from]
           u == [t EXCEPT !.ms = T, !.master = M]
<1>4. updata(n, s, m) = u
  <2>1. update_link(n, t, m) = update_back(n, t, m)
    BY <1>2 DEF update_link
  <2>2. update_back(n, t, m) = [t EXCEPT !.ms[m.l] = Delay(n), !.master[m.l] = m.from]
    BY <1>3 DEF update_back
  <2>3. [t EXCEPT !.ms[m.l] = Delay(n), !.master[m.l] = m.from] = u
    BY <1>2, Zenon DEF NodeState
  <2> QED
    BY <1>3, <2>1, <2>2, <2>3
<1> HIDE DEF T, M
<1>5. /\ u.state = "BACK" /\ u.out = {} /\ u.ms = T
      /\ u.link = t.link /\ u.mon = t.mon /\ u.ht = t.ht /\ u.svc = t.svc
  BY <1>2, Zenon DEF NodeState
<1> HIDE DEF u
<1>6. Sound(u)
  BY <1>2, <1>5, Zenon DEF Sound, Tracked, LinksUp
<1> QED
  BY <1>2, <1>4, <1>5, <1>6, Zenon DEF T

-----------------------------------------------------------------------------
(***************************************************************************)
(* The invariant of a healthy pair that has ended dual rounds with two     *)
(* masters, a the better one.  As long as b has not given way, each link   *)
(* is in one of three situations: the next advertisement of a is not sent  *)
(* yet and is due within the interval that started with the first of these *)
(* rounds; it is on its way; or b has heard it since.  Not all links are   *)
(* in the third: hearing the last one makes b leave for BACK, where it has *)
(* more time on its timers than the round has left.                        *)
(***************************************************************************)

\* The seconds node n has counted since the first round with two masters
Elapsed(n) == dual - 1 + (IF n \in ticked THEN 1 ELSE 0)

Unsent(a, l) ==
    IF a \in looped
    THEN /\ node[a].adv[l] + Elapsed(a) <= AdverInt
         /\ a \in ticked \/ node[a].adv[l] >= 1
    ELSE node[a].adv[l] + Elapsed(a) <= AdverInt \/ node[a].adv[l] = 0

Pending(b, l) == \E p \in net : p[1] = b /\ p[2].l = l

Heard(b, l) ==
    node[b].master[l] # NoNode /\ node[b].heard[l] <= Elapsed(b)

Undecided(a, b) ==
    /\ node[b].state = "MAST"
    /\ \A l \in Link : Unsent(a, l) \/ Pending(b, l) \/ Heard(b, l)
    /\ \E l \in Link : Unsent(a, l) \/ Pending(b, l)

Settled(b) ==
    /\ node[b].state = "BACK"
    /\ \A l \in Link : node[b].ms[l] >= (IF b \in ticked THEN 1 ELSE 2)

TwoMasters(a, b) ==
    /\ dual <= AdverInt + 1
    /\ Healthy
    /\ \A p \in net : FromMaster(p)
    /\ node[a].state = "MAST"
    /\ Undecided(a, b) \/ Settled(b)

DualInv(a, b) == dual >= 1 => TwoMasters(a, b)

\* What the proofs below need of the types
LEMMA DualTypes ==
    ASSUME ClusterInv
    PROVE  /\ NodesGood
           /\ dual \in Nat /\ AdverInt \in Nat \ {0} /\ Stale = 2 * AdverInt + 1
           /\ \A n \in Node : Good(node[n]) /\ node[n].out = {}
           /\ \A n \in Node, l \in Link :
                 /\ node[n].adv[l] \in 0..AdverInt /\ node[n].heard[l] \in 0..Stale
                 /\ node[n].ms[l] \in Nat
<1>1. NodesGood /\ dual \in 0..DualLimit + 1
  BY DEF ClusterInv, TypeOK
<1>2. dual \in Nat
  BY <1>1, LimitType, SMT
<1>3. \A n \in Node : node[n] \in NodeState /\ Good(node[n]) /\ node[n].out = {}
  BY <1>1 DEF NodesGood, Good
<1>4. ASSUME NEW n \in Node, NEW l \in Link
      PROVE  /\ node[n].adv[l] \in 0..AdverInt /\ node[n].heard[l] \in 0..Stale
             /\ node[n].ms[l] \in Nat
  <2>1. /\ node[n].adv \in [Link -> 0..AdverInt]
        /\ node[n].heard \in [Link -> 0..Stale] /\ node[n].ms \in [Link -> Nat]
    BY <1>3, SMT DEF NodeState
  <2> QED
    BY <2>1
<1> QED
  BY <1>1, <1>2, <1>3, <1>4, NodeAssumption DEF Stale

\* A pair stays healthy when the record that changes stays sound.
LEMMA StillHealthy ==
    ASSUME Healthy, NEW n \in Node, \A m \in Node \ {n} : node'[m] = node[m],
           Sound(node'[n]), cut' = cut
    PROVE  Healthy'
<1>1. \A m \in Node : Sound(node'[m])
  BY Zenon DEF Healthy, Sound
<1> QED
  BY <1>1, Zenon DEF Healthy, Sound

\* The pass of a: the timers that have run out turn unsent into pending.
LEMMA LoopBetter ==
    ASSUME ClusterInv, NEW a \in Node, NEW b \in Node, a # b,
           dual >= 1, TwoMasters(a, b), Loop(a)
    PROVE  TwoMasters(a, b)'
<1>1. /\ node'[b] = node[b] /\ node'[a].state = "MAST"
      /\ \A l \in Link : node'[a].adv[l] =
            IF node[a].adv[l] <= 0 THEN AdverInt ELSE node[a].adv[l]
      /\ \A m \in Node \ {a} : node'[m] = node[m]
      /\ Sound(node'[a])
      /\ net \subseteq net'
      /\ \A p \in net' \ net : FromMaster(p)
      /\ \A l \in Link : node[a].adv[l] <= 0 =>
            \E p \in net' : p[1] = b /\ p[2].l = l
  BY MasterSends, DualTypes DEF TwoMasters
<1>2. UNCHANGED <<ticked, cut, dual>> /\ a \notin looped /\ a \in looped'
  BY DEF Loop
<1>3. Healthy'
  BY <1>1, <1>2, StillHealthy DEF TwoMasters
<1>4. \A p \in net' : FromMaster(p)'
  BY <1>1 DEF TwoMasters, FromMaster
<1>5. /\ dual \in Nat /\ AdverInt \in Nat \ {0}
      /\ \A l \in Link : node[a].adv[l] \in 0..AdverInt
  BY DualTypes
<1>6. Elapsed(a)' = Elapsed(a) /\ Elapsed(b)' = Elapsed(b) /\ Elapsed(a) \in Nat
  BY <1>2, <1>5, SMT DEF Elapsed
<1>7. ASSUME NEW l \in Link, Unsent(a, l) \/ Pending(b, l)
      PROVE  Unsent(a, l)' \/ Pending(b, l)'
  <2>1. CASE node[a].adv[l] <= 0
    BY <1>1, <2>1 DEF Pending
  <2>2. CASE node[a].adv[l] >= 1 /\ Unsent(a, l)
    <3>1. node'[a].adv[l] = node[a].adv[l]
      BY <1>1, <1>5, <2>2, SMT
    <3>2. node[a].adv[l] + Elapsed(a) <= AdverInt
      BY <1>2, <1>5, <2>2, SMT DEF Unsent
    <3> QED
      BY <1>2, <1>6, <2>2, <3>1, <3>2 DEF Unsent
  <2>3. CASE Pending(b, l)
    BY <1>1, <2>3 DEF Pending
  <2> QED
    BY <1>5, <1>7, <2>1, <2>2, <2>3, SMT
<1>8. ASSUME NEW l \in Link, Heard(b, l) PROVE Heard(b, l)'
  BY <1>1, <1>6, <1>8 DEF Heard
<1>9. ASSUME Undecided(a, b) PROVE Undecided(a, b)'
  BY <1>1, <1>7, <1>8, <1>9, Zenon DEF Undecided
<1>10. ASSUME Settled(b) PROVE Settled(b)'
  BY <1>1, <1>2, <1>10 DEF Settled
<1> QED
  BY <1>1, <1>2, <1>3, <1>4, <1>9, <1>10 DEF TwoMasters

\* The pass of b: as a master it may send, as a standby it waits.
LEMMA LoopWorse ==
    ASSUME ClusterInv, NEW a \in Node, NEW b \in Node, a # b,
           dual >= 1, TwoMasters(a, b), Loop(b)
    PROVE  TwoMasters(a, b)'
<1>1. UNCHANGED <<ticked, cut, dual>> /\ looped' = looped \cup {b}
  BY DEF Loop
<1>2. Elapsed(a)' = Elapsed(a) /\ Elapsed(b)' = Elapsed(b)
  BY <1>1 DEF Elapsed
<1>3. a \in looped' <=> a \in looped
  BY <1>1
<1>4. CASE Undecided(a, b)
  <2>1. /\ node'[a] = node[a] /\ node'[b].state = "MAST"
        /\ node'[b].master = node[b].master /\ node'[b].heard = node[b].heard
        /\ \A m \in Node \ {b} : node'[m] = node[m]
        /\ Sound(node'[b])
        /\ net \subseteq net'
        /\ \A p \in net' \ net : FromMaster(p)
    BY <1>4, MasterSends, DualTypes DEF TwoMasters, Undecided
  <2>2. Healthy'
    BY <1>1, <2>1, StillHealthy DEF TwoMasters
  <2>3. \A p \in net' : FromMaster(p)'
    BY <2>1 DEF TwoMasters, FromMaster
  <2>4. ASSUME NEW l \in Link
        PROVE  /\ Unsent(a, l) => Unsent(a, l)'
               /\ Pending(b, l) => Pending(b, l)'
               /\ Heard(b, l) => Heard(b, l)'
    <3>1. Unsent(a, l) => Unsent(a, l)'
      BY <1>1, <1>2, <1>3, <2>1 DEF Unsent
    <3>2. Pending(b, l) => Pending(b, l)'
      BY <2>1 DEF Pending
    <3>3. Heard(b, l) => Heard(b, l)'
      BY <1>2, <2>1 DEF Heard
    <3> QED
      BY <3>1, <3>2, <3>3
  <2>5. Undecided(a, b)'
    BY <1>4, <2>1, <2>4, Zenon DEF Undecided
  <2> QED
    BY <1>1, <2>1, <2>2, <2>3, <2>5 DEF TwoMasters
<1>5. CASE Settled(b)
  <2>1. Good(node[b]) /\ node[b].out = {} /\ Sound(node[b]) /\ NodesGood
    BY DualTypes DEF TwoMasters, Healthy, Sound
  <2>2. \A l \in Link : node[b].ms[l] >= 1
    BY <1>5, DualTypes, SMT DEF Settled
  <2>3. state_loop(b, node[b]) = node[b]
    BY <1>5, <2>1, <2>2, BackPass DEF Settled
  <2>4. Become(b, node[b], net)
    BY <2>3 DEF Loop
  <2>5. node[b] \in NodeState
    BY <2>1 DEF Good
  <2>6. /\ node'[a] = node[a] /\ node'[b].state = node[b].state
        /\ node'[b].ms = node[b].ms
        /\ \A m \in Node \ {b} : node'[m] = node[m]
        /\ Sound(node'[b])
    BY <2>1, <2>4, <2>5, BecomeFields
  <2>7. net' = net
    BY <2>1, <2>4, SMT DEF Become
  <2>8. Healthy'
    BY <1>1, <2>6, StillHealthy DEF TwoMasters
  <2>9. Settled(b)'
    BY <1>1, <1>5, <2>6 DEF Settled
  <2> QED
    BY <1>1, <2>6, <2>7, <2>8, <2>9 DEF TwoMasters, FromMaster
<1> QED
  BY <1>4, <1>5 DEF TwoMasters

\* A tick of n in the cluster: nothing is sent, and only n has changed.
LEMMA TickFields ==
    ASSUME ClusterInv, NEW n \in Node, Sound(node[n]), Tick(n)
    PROVE  /\ \A m \in Node \ {n} : node'[m] = node[m]
           /\ net' = net /\ UNCHANGED <<looped, cut, dual>>
           /\ ticked' = ticked \cup {n} /\ n \notin ticked
           /\ Sound(node'[n])
           /\ node'[n].state = node[n].state /\ node'[n].master = node[n].master
           /\ \A l \in Link :
                 /\ node'[n].adv[l] = CountDown(node[n].adv[l])
                 /\ node'[n].ms[l] = CountDown(node[n].ms[l])
                 /\ node[n].heard[l] < Stale
                       => node'[n].heard[l] = node[n].heard[l] + 1
<1> DEFINE s == node[n]
           r == timer_tick(s, {}, {})
<1>1. NodesGood /\ Good(s) /\ s.out = {}
  BY DualTypes
<1>2. /\ Good(r) /\ r.state = s.state /\ r.svc = s.svc /\ r.ht = s.ht
      /\ r.link = s.link /\ r.mon = s.mon /\ r.master = s.master /\ r.out = {}
      /\ \A l \in Link :
            /\ r.adv[l] = CountDown(s.adv[l]) /\ r.ms[l] = CountDown(s.ms[l])
            /\ s.heard[l] < Stale => r.heard[l] = s.heard[l] + 1
  BY <1>1, TickStep
<1>3. /\ Become(n, r, net) /\ UNCHANGED <<looped, cut, dual>>
      /\ ticked' = ticked \cup {n} /\ n \notin ticked
  BY DEF Tick
<1> HIDE DEF r
<1>4. r \in NodeState
  BY <1>2 DEF Good
<1>5. /\ \A m \in Node \ {n} : node'[m] = node[m]
      /\ node'[n].state = r.state /\ node'[n].master = r.master
      /\ node'[n].adv = r.adv /\ node'[n].heard = r.heard /\ node'[n].ms = r.ms
      /\ Sound(node'[n]) <=> Sound(r)
  BY <1>1, <1>3, <1>4, BecomeFields
<1>6. net' = net
  BY <1>2, <1>3, SMT DEF Become
<1>7. Sound(r)
  BY <1>2, Zenon DEF Sound, Tracked, LinksUp
<1> QED
  BY <1>2, <1>3, <1>5, <1>6, <1>7, Zenon

\* The tick of a: what its timers lose, the time elapsed gains.
LEMMA TickBetter ==
    ASSUME ClusterInv, NEW a \in Node, NEW b \in Node, a # b,
           dual >= 1, TwoMasters(a, b), Tick(a)
    PROVE  TwoMasters(a, b)'
<1>1. Sound(node[a])
  BY DEF TwoMasters, Healthy, Sound
<1>2. /\ \A m \in Node \ {a} : node'[m] = node[m]
      /\ net' = net /\ UNCHANGED <<looped, cut, dual>>
      /\ ticked' = ticked \cup {a} /\ a \notin ticked
      /\ Sound(node'[a])
      /\ node'[a].state = node[a].state
      /\ \A l \in Link : node'[a].adv[l] = CountDown(node[a].adv[l])
  BY <1>1, TickFields
<1>3. node'[b] = node[b] /\ (b \in ticked' <=> b \in ticked) /\ a \in ticked'
  BY <1>2
<1>4. Healthy'
  BY <1>2, StillHealthy DEF TwoMasters
<1>5. /\ dual \in Nat /\ AdverInt \in Nat \ {0}
      /\ \A l \in Link : node[a].adv[l] \in 0..AdverInt
  BY DualTypes
<1>6. /\ Elapsed(b)' = Elapsed(b) /\ Elapsed(a)' = Elapsed(a) + 1
      /\ Elapsed(a) \in Nat
  BY <1>2, <1>3, <1>5, SMT DEF Elapsed
<1>7. ASSUME NEW l \in Link, Unsent(a, l) PROVE Unsent(a, l)'
  <2>1. /\ node'[a].adv[l] = CountDown(node[a].adv[l])
        /\ node[a].adv[l] \in 0..AdverInt
    BY <1>2, <1>5
  <2>2. a \in looped' <=> a \in looped
    BY <1>2
  <2>3. CASE node[a].adv[l] >= 1
    <3>1. node[a].adv[l] + Elapsed(a) <= AdverInt
      BY <1>5, <1>7, <2>1, <2>3, SMT DEF Unsent
    <3>2. node'[a].adv[l] = node[a].adv[l] - 1
      BY <2>1, <2>3, SMT DEF CountDown
    <3>3. node'[a].adv[l] + Elapsed(a)' <= AdverInt
      BY <1>5, <1>6, <2>1, <3>1, <3>2, SMT
    <3> QED
      BY <1>2, <1>3, <3>3 DEF Unsent
  <2>4. CASE node[a].adv[l] = 0
    <3>1. a \notin looped /\ a \notin looped'
      BY <1>2, <1>7, <2>4, SMT DEF Unsent
    <3>2. node'[a].adv[l] = 0
      BY <2>1, <2>4, SMT DEF CountDown
    <3> QED
      BY <3>1, <3>2 DEF Unsent
  <2> QED
    BY <2>1, <2>3, <2>4, SMT
<1>8. ASSUME NEW l \in Link, Pending(b, l) PROVE Pending(b, l)'
  BY <1>2, <1>8 DEF Pending
<1>9. ASSUME NEW l \in Link, Heard(b, l) PROVE Heard(b, l)'
  BY <1>3, <1>6, <1>9 DEF Heard
<1>10. ASSUME Undecided(a, b) PROVE Undecided(a, b)'
  BY <1>3, <1>7, <1>8, <1>9, <1>10, Zenon DEF Undecided
<1>11. ASSUME Settled(b) PROVE Settled(b)'
  BY <1>3, <1>11 DEF Settled
<1> QED
  BY <1>2, <1>4, <1>10, <1>11 DEF TwoMasters, FromMaster

\* The tick of b: what it heard grows older no faster than the time elapsed,
\* and a standby keeps a tick on its timers for the rest of the round.
LEMMA TickWorse ==
    ASSUME ClusterInv, NEW a \in Node, NEW b \in Node, a # b,
           dual >= 1, TwoMasters(a, b), Tick(b)
    PROVE  TwoMasters(a, b)'
<1>1. Sound(node[b])
  BY DEF TwoMasters, Healthy, Sound
<1>2. /\ \A m \in Node \ {b} : node'[m] = node[m]
      /\ net' = net /\ UNCHANGED <<looped, cut, dual>>
      /\ ticked' = ticked \cup {b} /\ b \notin ticked
      /\ Sound(node'[b])
      /\ node'[b].state = node[b].state /\ node'[b].master = node[b].master
      /\ \A l \in Link :
            /\ node'[b].ms[l] = CountDown(node[b].ms[l])
            /\ node[b].heard[l] < Stale
                  => node'[b].heard[l] = node[b].heard[l] + 1
  BY <1>1, TickFields
<1>3. node'[a] = node[a] /\ (a \in ticked' <=> a \in ticked) /\ b \in ticked'
  BY <1>2
<1>4. Healthy'
  BY <1>2, StillHealthy DEF TwoMasters
<1>5. /\ dual \in Nat /\ AdverInt \in Nat \ {0} /\ Stale = 2 * AdverInt + 1
      /\ \A l \in Link : node[b].heard[l] \in 0..Stale /\ node[b].ms[l] \in Nat
  BY DualTypes
<1>6. /\ Elapsed(a)' = Elapsed(a) /\ Elapsed(b)' = Elapsed(b) + 1
      /\ Elapsed(b) \in Nat /\ Elapsed(b) <= AdverInt
  BY <1>2, <1>3, <1>5, SMT DEF Elapsed, TwoMasters
<1>7. ASSUME NEW l \in Link, Unsent(a, l) PROVE Unsent(a, l)'
  BY <1>2, <1>3, <1>6, <1>7 DEF Unsent
<1>8. ASSUME NEW l \in Link, Pending(b, l) PROVE Pending(b, l)'
  BY <1>2, <1>8 DEF Pending
<1>9. ASSUME NEW l \in Link, Heard(b, l) PROVE Heard(b, l)'
  <2>1. node[b].heard[l] <= Elapsed(b) /\ node[b].master[l] # NoNode
    BY <1>9 DEF Heard
  <2>2. node[b].heard[l] < Stale
    BY <1>5, <1>6, <2>1, SMT
  <2>3. node'[b].heard[l] <= Elapsed(b)'
    BY <1>2, <1>5, <1>6, <2>1, <2>2, SMT
  <2> QED
    BY <1>2, <2>1, <2>3 DEF Heard
<1>10. ASSUME Undecided(a, b) PROVE Undecided(a, b)'
  BY <1>2, <1>7, <1>8, <1>9, <1>10, Zenon DEF Undecided
<1>11. ASSUME Settled(b) PROVE Settled(b)'
  <2>1. \A l \in Link : node'[b].ms[l] >= 1
    BY <1>2, <1>5, <1>11, SMT DEF Settled, CountDown
  <2> QED
    BY <1>2, <1>3, <1>11, <2>1 DEF Settled
<1> QED
  BY <1>2, <1>3, <1>4, <1>10, <1>11 DEF TwoMasters, FromMaster

\* a outranks b: b finds every advertisement of a better, a none of b's.
LEMMA OutranksBetter ==
    ASSUME NEW a \in Node, NEW b \in Node, Outranks(a, b), NEW m, Advert(m)
    PROVE  /\ m.from = a => better(b, m)
           /\ m.from = b => ~better(a, m)
<1>1. m.l \in Link /\ m.prio = Prio[m.from]
  BY SMT DEF Advert, Packet
<1>2. /\ Prio[a] \in Nat /\ Prio[b] \in Nat
      /\ Addr[a][m.l] \in Nat /\ Addr[b][m.l] \in Nat
  <2>1. Prio[a] \in 1..255 /\ Prio[b] \in 1..255
    BY NodeAssumption
  <2>2. Addr[a] \in [Link -> Nat] /\ Addr[b] \in [Link -> Nat]
    BY NodeAssumption
  <2> QED
    BY <1>1, <2>1, <2>2, SMT
<1>3. \/ Prio[a] > Prio[b]
      \/ Prio[a] = Prio[b] /\ Addr[a][m.l] > Addr[b][m.l]
  BY <1>1 DEF Outranks
<1> QED
  BY <1>1, <1>2, <1>3, SMT DEF better

\* A packet of b at a: the better master does not care.
LEMMA DeliverToBetter ==
    ASSUME ClusterInv, NEW a \in Node, NEW b \in Node, a # b, Node = {a, b},
           Outranks(a, b), dual >= 1, TwoMasters(a, b),
           NEW p \in net, p[1] = a, Deliver(p)
    PROVE  TwoMasters(a, b)'
<1> DEFINE s == node[a]
           m == p[2]
           t == [s EXCEPT !.flg = FALSE]
<1>1. /\ NodesGood /\ Good(s) /\ s.out = {} /\ Sound(s) /\ s.state = "MAST"
      /\ m \in Packet /\ FromMaster(p)
  BY DualTypes, NetLeft DEF TwoMasters, Healthy, Sound
<1>2. Advert(m) /\ m.from = b
  <2>1. m.from \in Node
    BY <1>1, SMT DEF Packet
  <2> QED
    BY <1>1, <2>1 DEF Advert, FromMaster
<1>3. Hears(s, m) /\ updata(a, s, m) = t
  BY <1>1, <1>2, OutranksBetter, AdvertReaches, HearWorse
<1>4. s \in NodeState
  BY <1>1 DEF Good
<1>5. /\ t \in NodeState /\ t.state = "MAST" /\ t.adv = s.adv /\ t.out = {}
      /\ Sound(t)
  BY <1>1, <1>4, FlagCleared
<1>6. Become(a, t, net \ {p}) /\ UNCHANGED <<looped, ticked, cut, dual>>
  BY <1>3 DEF Deliver
<1> HIDE DEF t
<1>7. /\ \A k \in Node \ {a} : node'[k] = node[k]
      /\ node'[a].state = "MAST" /\ node'[a].adv = s.adv /\ Sound(node'[a])
  BY <1>1, <1>5, <1>6, BecomeFields
<1>8. net' = net \ {p}
  BY <1>5, <1>6, SMT DEF Become
<1>9. Healthy'
  BY <1>6, <1>7, StillHealthy DEF TwoMasters
<1>10. node'[b] = node[b] /\ Elapsed(a)' = Elapsed(a) /\ Elapsed(b)' = Elapsed(b)
  BY <1>6, <1>7 DEF Elapsed
<1>11. ASSUME NEW l \in Link, Unsent(a, l) PROVE Unsent(a, l)'
  BY <1>6, <1>7, <1>10, <1>11 DEF Unsent
<1>12. ASSUME NEW l \in Link, Pending(b, l) PROVE Pending(b, l)'
  BY <1>8, <1>12 DEF Pending
<1>13. ASSUME NEW l \in Link, Heard(b, l) PROVE Heard(b, l)'
  BY <1>10, <1>13 DEF Heard
<1>14. ASSUME Undecided(a, b) PROVE Undecided(a, b)'
  BY <1>10, <1>11, <1>12, <1>13, <1>14, Zenon DEF Undecided
<1>15. ASSUME Settled(b) PROVE Settled(b)'
  BY <1>6, <1>10, <1>15 DEF Settled
<1> QED
  BY <1>6, <1>7, <1>8, <1>9, <1>14, <1>15 DEF TwoMasters, FromMaster

\* A packet of a at b: a master notes it, and leaves when it was the last link
\* to be heard; a standby waits again.
LEMMA DeliverToWorse ==
    ASSUME ClusterInv, NEW a \in Node, NEW b \in Node, a # b, Node = {a, b},
           Outranks(a, b), dual >= 1, TwoMasters(a, b),
           NEW p \in net, p[1] = b, Deliver(p)
    PROVE  TwoMasters(a, b)'
<1> DEFINE s == node[b]
           m == p[2]
           r == updata(b, s, m)
<1>1. /\ NodesGood /\ Good(s) /\ s.out = {} /\ Sound(s)
      /\ m \in Packet /\ FromMaster(p)
  BY DualTypes, NetLeft DEF TwoMasters, Healthy, Sound
<1>2. /\ Advert(m) /\ m.from = a /\ m.l \in Link /\ better(b, m)
      /\ s.state # "DISABLE"
  <2>1. m.from \in Node /\ m.l \in Link
    BY <1>1, SMT DEF Packet
  <2>2. Advert(m) /\ m.from = a
    BY <1>1, <2>1 DEF Advert, FromMaster
  <2> QED
    BY <2>1, <2>2, OutranksBetter DEF TwoMasters, Undecided, Settled
<1>3. Hears(s, m)
  BY <1>1, <1>2, AdvertReaches
<1>4. Become(b, r, net \ {p}) /\ UNCHANGED <<looped, ticked, cut, dual>>
  BY <1>3 DEF Deliver
<1>5. r \in NodeState
  BY <1>1, <1>3, UpdataGood DEF Good
<1>6. /\ dual \in Nat /\ AdverInt \in Nat \ {0} /\ Stale = 2 * AdverInt + 1
      /\ \A l \in Link : s.heard[l] \in 0..Stale /\ s.ms[l] \in Nat
  BY DualTypes
<1>7. /\ s.master \in [Link -> Node \cup {NoNode}] /\ s.heard \in [Link -> 0..Stale]
      /\ s.ms \in [Link -> Nat]
  BY <1>1, SMT DEF Good, NodeState
<1>8. Elapsed(a)' = Elapsed(a) /\ Elapsed(b)' = Elapsed(b)
      /\ Elapsed(b) \in Nat /\ Elapsed(b) <= AdverInt + 1
  BY <1>4, <1>6, SMT DEF Elapsed, TwoMasters
<1>9. Delay(b) \in Nat /\ Delay(b) >= 2
  BY DelayAtLeastTwo
<1>10. r.out = {} /\ Sound(r)
  BY <1>1, <1>2, HearBetterMaster, HearMasterInBack DEF TwoMasters, Undecided, Settled
<1>11. /\ node'[a] = node[a] /\ \A k \in Node \ {b} : node'[k] = node[k]
       /\ node'[b].state = r.state /\ node'[b].master = r.master
       /\ node'[b].heard = r.heard /\ node'[b].ms = r.ms
       /\ Sound(node'[b])
  BY <1>1, <1>4, <1>5, <1>10, BecomeFields
<1>12. net' = net \ {p}
  BY <1>4, <1>10, SMT DEF Become
<1>13. Healthy'
  BY <1>4, <1>11, StillHealthy DEF TwoMasters
<1>14. CASE Settled(b)
  <2>1. r.state = "BACK" /\ r.ms = [s.ms EXCEPT ![m.l] = Delay(b)]
    BY <1>1, <1>2, <1>14, HearMasterInBack DEF Settled
  <2>2. \A l \in Link : r.ms[l] \in {s.ms[l], Delay(b)}
    BY <1>7, <2>1, Zenon
  <2>3. ASSUME NEW l \in Link
        PROVE  node'[b].ms[l] >= (IF b \in ticked THEN 1 ELSE 2)
    <3>1. node'[b].ms[l] = s.ms[l] \/ node'[b].ms[l] = Delay(b)
      BY <1>11, <2>2
    <3>2. s.ms[l] >= (IF b \in ticked THEN 1 ELSE 2)
      BY <1>14 DEF Settled
    <3> QED
      BY <1>9, <3>1, <3>2
  <2>4. Settled(b)'
    BY <1>4, <1>11, <2>1, <2>3 DEF Settled
  <2> QED
    BY <1>4, <1>11, <1>12, <1>13, <2>4 DEF TwoMasters, FromMaster
<1>15. CASE Undecided(a, b)
  <2>1. \/ /\ r.state = "MAST"
           /\ r.master = [s.master EXCEPT ![m.l] = m.from]
           /\ r.heard = [s.heard EXCEPT ![m.l] = 0]
           /\ \E k \in Link \ {m.l} :
                 ~(s.master[k] # NoNode /\ s.heard[k] < Stale)
        \/ r.state = "BACK" /\ r.ms = AllLinks(Delay(b))
    BY <1>1, <1>2, <1>15, HearBetterMaster DEF Undecided
  <2>2. CASE r.state = "BACK" /\ r.ms = AllLinks(Delay(b))
    <3>1. \A l \in Link : r.ms[l] = Delay(b)
      BY <2>2 DEF AllLinks
    <3>2. Settled(b)'
      BY <1>4, <1>9, <1>11, <2>2, <3>1, SMT DEF Settled
    <3> QED
      BY <1>4, <1>11, <1>12, <1>13, <3>2 DEF TwoMasters, FromMaster
  <2>3. CASE /\ r.state = "MAST"
             /\ r.master = [s.master EXCEPT ![m.l] = m.from]
             /\ r.heard = [s.heard EXCEPT ![m.l] = 0]
             /\ \E k \in Link \ {m.l} :
                   ~(s.master[k] # NoNode /\ s.heard[k] < Stale)
    <3>1. /\ r.master[m.l] = a /\ r.heard[m.l] = 0
          /\ \A l \in Link \ {m.l} : r.master[l] = s.master[l] /\ r.heard[l] = s.heard[l]
      BY <1>2, <1>7, <2>3, Zenon
    <3>2. Heard(b, m.l)'
      <4>1. a # NoNode
        BY NodeAssumption
      <4>2. node'[b].heard[m.l] <= Elapsed(b)'
        BY <1>8, <1>11, <3>1, SMT
      <4> QED
        BY <1>11, <3>1, <4>1, <4>2 DEF Heard
    <3>3. ASSUME NEW l \in Link, Unsent(a, l) PROVE Unsent(a, l)'
      BY <1>4, <1>8, <1>11, <3>3 DEF Unsent
    <3>4. ASSUME NEW l \in Link \ {m.l}, Pending(b, l) PROVE Pending(b, l)'
      BY <1>12, <3>4 DEF Pending
    <3>5. ASSUME NEW l \in Link \ {m.l}, Heard(b, l) PROVE Heard(b, l)'
      BY <1>8, <1>11, <3>1, <3>5 DEF Heard
    <3>6. PICK k \in Link \ {m.l} : ~(s.master[k] # NoNode /\ s.heard[k] < Stale)
      BY <2>3
    <3>7. ~Heard(b, k)
      BY <1>6, <1>8, <3>6, SMT DEF Heard
    <3>8. Unsent(a, k)' \/ Pending(b, k)'
      BY <1>15, <3>3, <3>4, <3>6, <3>7, Zenon DEF Undecided
    <3>9. \A l \in Link : Unsent(a, l)' \/ Pending(b, l)' \/ Heard(b, l)'
      BY <1>15, <3>2, <3>3, <3>4, <3>5, Zenon DEF Undecided
    <3>10. Undecided(a, b)'
      BY <1>11, <2>3, <3>6, <3>8, <3>9, Zenon DEF Undecided
    <3> QED
      BY <1>4, <1>11, <1>12, <1>13, <3>10 DEF TwoMasters, FromMaster
  <2> QED
    BY <2>1, <2>2, <2>3
<1> QED
  BY <1>14, <1>15 DEF TwoMasters

\* The end of a round: with two masters left, the time elapsed is still within
\* the interval; otherwise the count starts again.
LEMMA RoundEnds ==
    ASSUME ClusterInv, NEW a \in Node, NEW b \in Node, a # b, Node = {a, b},
           DualInv(a, b), EndRound
    PROVE  DualInv(a, b)'
<1>1. /\ net = {} /\ ticked = Node /\ looped' = {} /\ ticked' = {}
      /\ \A n \in Node : node[n].svc => n \in looped
      /\ dual' = IF Healthy /\ \E x, y \in Masters : x # y
                 THEN CountUp(dual, DualLimit) ELSE 0
      /\ UNCHANGED <<node, net, cut>>
  BY DEF EndRound
<1>2. /\ dual \in Nat /\ AdverInt \in Nat \ {0}
      /\ \A l \in Link : node[a].adv[l] \in 0..AdverInt
  BY DualTypes
<1>3. SUFFICES ASSUME dual' >= 1 PROVE TwoMasters(a, b)'
  BY DEF DualInv
<1>4. Healthy /\ \E x, y \in Masters : x # y
  BY <1>1, <1>3, SMT
<1>5. dual' = CountUp(dual, DualLimit)
  BY <1>1, <1>4
<1>6. node[a].state = "MAST" /\ node[b].state = "MAST"
  BY <1>4 DEF Masters
<1>7. a \in looped /\ b \in looped /\ a \in ticked /\ b \in ticked
  BY <1>1, <1>4 DEF Healthy
<1>8. Healthy' /\ \A p \in net' : FromMaster(p)'
  <2>1. Healthy'
    BY <1>1, <1>4 DEF Healthy, Tracked, LinksUp
  <2> QED
    BY <1>1, <2>1
<1>9. CASE dual = 0
  <2>1. dual' = 1
    BY <1>5, <1>9, LimitType, SMT DEF CountUp
  <2>2. Elapsed(a)' = 0
    BY <1>1, <2>1, SMT DEF Elapsed
  <2>3. \A l \in Link : Unsent(a, l)'
    BY <1>1, <1>2, <2>2, SMT DEF Unsent
  <2>4. Undecided(a, b)'
    BY <1>1, <1>6, <2>3, NodeAssumption, Zenon DEF Undecided
  <2>5. (dual <= AdverInt + 1)'
    BY <1>2, <2>1, SMT
  <2> QED
    BY <1>1, <1>6, <1>8, <2>4, <2>5 DEF TwoMasters
<1>10. CASE dual >= 1
  <2>1. TwoMasters(a, b) /\ dual <= AdverInt + 1
    BY <1>10 DEF DualInv, TwoMasters
  <2>2. Undecided(a, b)
    BY <1>6, <2>1 DEF TwoMasters, Settled
  <2>3. \A l \in Link : ~Pending(b, l)
    BY <1>1 DEF Pending
  <2>4. dual' = dual + 1
    BY <1>2, <1>5, <2>1, SMT DEF CountUp, DualLimit
  <2>5. /\ Elapsed(a) = dual /\ Elapsed(b) = dual
        /\ Elapsed(a)' = dual /\ Elapsed(b)' = dual
    BY <1>1, <1>2, <1>7, <2>4, SMT DEF Elapsed
  <2>6. ASSUME NEW l \in Link, Unsent(a, l)
        PROVE  Unsent(a, l)' /\ dual <= AdverInt
    <3>1. node[a].adv[l] + dual <= AdverInt
      BY <1>7, <2>5, <2>6 DEF Unsent
    <3>2. dual <= AdverInt
      BY <1>2, <3>1, SMT
    <3>3. Unsent(a, l)'
      BY <1>1, <2>5, <3>1 DEF Unsent
    <3> QED
      BY <3>2, <3>3
  <2>7. ASSUME NEW l \in Link, Heard(b, l) PROVE Heard(b, l)'
    BY <1>1, <2>5, <2>7 DEF Heard
  <2>8. Undecided(a, b)' /\ dual <= AdverInt
    BY <1>1, <2>2, <2>3, <2>6, <2>7, Zenon DEF Undecided
  <2>9. (dual <= AdverInt + 1)'
    BY <1>2, <2>4, <2>8, SMT
  <2> QED
    BY <1>1, <1>6, <1>8, <2>8, <2>9 DEF TwoMasters
<1> QED
  BY <1>2, <1>9, <1>10, SMT

\* Faults start the count again; no other step touches a healthy pair.
LEMMA DualStep ==
    ASSUME NEW a \in Node, NEW b \in Node, a # b, Node = {a, b}, Outranks(a, b),
           ClusterInv, DualInv(a, b), [Next]_vars
    PROVE  DualInv(a, b)'
<1>1. CASE UNCHANGED vars
  BY <1>1 DEF vars, DualInv, TwoMasters, Undecided, Settled, Healthy, FromMaster,
     Unsent, Pending, Heard, Elapsed
<1>2. CASE EndRound
  BY <1>2, RoundEnds
<1>3. ASSUME Fault PROVE DualInv(a, b)'
  BY <1>3, SMT DEF Fault, DualInv
<1>4. ASSUME NEW n \in Node, Loop(n) PROVE DualInv(a, b)'
  <2>1. dual' = dual
    BY <1>4 DEF Loop
  <2> QED
    BY <1>4, <2>1, LoopBetter, LoopWorse DEF DualInv
<1>5. ASSUME NEW n \in Node, Tick(n) PROVE DualInv(a, b)'
  <2>1. dual' = dual
    BY <1>5 DEF Tick
  <2> QED
    BY <1>5, <2>1, TickBetter, TickWorse DEF DualInv
<1>6. ASSUME NEW p \in net, Deliver(p) PROVE DualInv(a, b)'
  <2>1. dual' = dual
    BY <1>6 DEF Deliver
  <2>2. p[1] \in Node
    BY NetLeft DEF ClusterInv
  <2> QED
    BY <1>6, <2>1, <2>2, DeliverToBetter, DeliverToWorse DEF DualInv
<1>7. ASSUME NEW n \in Node, Synchronised(n) \/ ServiceEnable(n)
      PROVE  DualInv(a, b)'
  <2>1. dual' = dual
    BY <1>7 DEF Synchronised, ServiceEnable
  <2>2. ASSUME dual >= 1 PROVE FALSE
    BY <1>7, <2>2 DEF DualInv, TwoMasters, Undecided, Settled, Healthy,
       Synchronised, ServiceEnable, Waiting
  <2> QED
    BY <2>1, <2>2 DEF DualInv
<1>8. ASSUME \/ \E n \in Node :
                   \/ HeartbeatChange(n) \/ ServiceDisable(n) \/ Reboot(n)
                   \/ SwitchMaster(n) \/ SwitchBack(n)
                   \/ \E l \in Link : LinkChange(n, l)
             \/ \E p \in net : Lose(p)
             \/ CutChange
      PROVE  Fault
  BY <1>8 DEF HeartbeatChange, ServiceDisable, Reboot, SwitchMaster,
     SwitchBack, LinkChange, Lose, CutChange
<1> QED
  BY <1>1, <1>2, <1>3, <1>4, <1>5, <1>6, <1>7, <1>8, Zenon DEF Next

\* In a pair of which a outranks b (by priority, or by address on every link),
\* two masters that can hear each other settle the matter before two
\* advertisement intervals are over: whatever the priorities, the interval, the
\* links and the number of faults, and in whatever order the threads run and
\* the packets arrive, had_update_uplink and had_update_downlink make b leave.
THEOREM DualMastersSettle ==
    ASSUME NEW a \in Node, NEW b \in Node, a # b, Node = {a, b}, Outranks(a, b)
    PROVE  Spec => []DualMasterBounded
<1>1. Init => DualInv(a, b)
  BY SMT DEF Init, DualInv
<1>2. ClusterInv /\ DualInv(a, b) /\ [Next]_vars => DualInv(a, b)'
  BY DualStep
<1>3. ClusterInv /\ DualInv(a, b) => DualMasterBounded
  <2> SUFFICES ASSUME ClusterInv, DualInv(a, b) PROVE DualMasterBounded
    OBVIOUS
  <2>1. dual \in Nat /\ AdverInt \in Nat \ {0}
    BY DualTypes
  <2>2. dual >= 1 => dual <= AdverInt + 1
    BY DEF DualInv, TwoMasters
  <2> QED
    BY <2>1, <2>2, SMT DEF DualMasterBounded, DualLimit
<1> QED
  BY <1>1, <1>2, <1>3, InitCluster, ClusterStep, PTL DEF Spec

-----------------------------------------------------------------------------
(***************************************************************************)
(* No master: what one step makes of a sound node with one link.           *)
(***************************************************************************)
\* out is one packet of n, in the state st
One(out, n, auth, st, old) ==
    \E m \in Packet :
        /\ out = {m} /\ m.from = n /\ m.prio = Prio[n] /\ m.auth = auth
        /\ m.st = st /\ m.old = old

\* Nothing of the environment of s is changed in r.
Calm(s, r) ==
    /\ r.link = s.link /\ r.mon = s.mon /\ r.ht = s.ht /\ r.svc = s.svc

\* n has taken over from the record s: its one advertisement still carries the
\* state it leaves.
Taken(n, s, r) ==
    /\ r.state = "MAST" /\ r.ms = s.ms /\ r.master = AllLinks(NoNode)
    /\ r.flg = s.flg
    /\ r.wid = s.wid /\ r.portal = s.portal
    /\ One(r.out, n, "PASS", s.state, NoNode)
    /\ Calm(s, r)

\* A node whose environment does not change stays sound.
LEMMA CalmSound ==
    ASSUME NEW s, NEW r, Calm(s, r), Sound(s) PROVE Sound(r)
BY Zenon DEF Calm, Sound, Tracked, LinksUp

\* What a sound node with one link can use
LEMMA SoundLinks ==
    ASSUME NEW s, Sound(s), NEW l, Link = {l}
    PROVE  /\ s.link[l] /\ s.ht /\ s.svc /\ LinksUp(s) /\ Tracked(s)
           /\ \A x \in Mon : s.mon[x]
BY Zenon DEF Sound, Tracked, LinksUp

\* The fields of a packet
LEMMA PktFields ==
    ASSUME NEW n, NEW s, NEW l, NEW p, NEW a
    PROVE  LET m == Pkt(n, s, l, p, a)
           IN  /\ m.from = n /\ m.l = l /\ m.prio = p /\ m.auth = a
               /\ m.st = s.state
               /\ m.old = IF a = "FAIL" THEN s.master[l] ELSE NoNode
BY DEF Pkt

\* What one packet of n is to its receiver
LEMMA OnePkt ==
    ASSUME NEW n \in Node, NEW s \in NodeState, NEW l, Link = {l},
           NEW a \in {"PASS", "FAIL"}
    PROVE  One({Pkt(n, s, l, Prio[n], a)}, n, a, s.state,
               IF a = "FAIL" THEN s.master[l] ELSE NoNode)
<1> DEFINE m == Pkt(n, s, l, Prio[n], a)
<1>1. Prio[n] \in 0..255
  BY NodeAssumption
<1>2. m \in Packet
  BY <1>1, PktType
<1> QED
  BY <1>2, PktFields DEF One

\* had_send_adv with one link and everything up sends one advertisement.
LEMMA SendAdvOne ==
    ASSUME NEW n \in Node, NEW l, Link = {l}, NEW s \in NodeState, s.out = {},
           Sound(s)
    PROVE  /\ send_adv(n, s, Prio[n])
                 = [s EXCEPT !.out = {Pkt(n, s, l, Prio[n], "PASS")}]
           /\ {Pkt(n, s, l, Prio[n], "PASS")} \subseteq Packet
<1>1. {j \in Link : s.link[j] /\ s.ht /\ s.svc} = {l}
  BY SoundLinks
<1>2. {Pkt(n, s, k, Prio[n], "PASS") :
         k \in {j \in Link : s.link[j] /\ s.ht /\ s.svc}}
        = {Pkt(n, s, l, Prio[n], "PASS")}
  BY <1>1
<1>3. Prio[n] \in 0..255
  BY NodeAssumption
<1>4. Pkt(n, s, l, Prio[n], "PASS") \in Packet
  BY <1>3, PktType
<1> QED
  BY <1>2, <1>4 DEF send_adv

\* had_state_goto_master in a sound pair
LEMMA TakePass ==
    ASSUME NEW n \in Node, NEW l, Link = {l}, NEW s \in NodeState, s.out = {},
           Sound(s)
    PROVE  Taken(n, s, take_master(n, s))
<1> DEFINE t == [s EXCEPT !.vip = TRUE, !.told = "MAST"]
           X == {Pkt(n, t, l, Prio[n], "PASS")}
           u == [t EXCEPT !.out = X]
           r == [u EXCEPT !.rx = TRUE, !.state = "MAST",
                     !.adv = AllLinks(AdverInt), !.master = AllLinks(NoNode)]
<1>1. /\ t \in NodeState /\ t.state = s.state /\ t.ms = s.ms /\ t.out = {}
      /\ t.flg = s.flg /\ t.wid = s.wid /\ t.portal = s.portal /\ Calm(s, t)
  BY Zenon DEF NodeState, Calm
<1>2. take_master(n, s) = [send_adv(n, t, Prio[n]) EXCEPT !.rx = TRUE,
           !.state = "MAST", !.adv = AllLinks(AdverInt), !.master = AllLinks(NoNode)]
  BY DEF take_master
<1> HIDE DEF t
<1>3. send_adv(n, t, Prio[n]) = u /\ X \subseteq Packet
  BY <1>1, SendAdvOne, CalmSound
<1>4. One(X, n, "PASS", s.state, NoNode)
  BY <1>1, OnePkt
<1> HIDE DEF X
<1>5. /\ u \in NodeState /\ u.ms = t.ms /\ u.out = X
      /\ u.flg = t.flg /\ u.wid = t.wid /\ u.portal = t.portal /\ Calm(t, u)
  BY <1>1, <1>3, Zenon DEF NodeState, Calm
<1> HIDE DEF u
<1>6. /\ r.state = "MAST" /\ r.ms = u.ms /\ r.master = AllLinks(NoNode)
      /\ r.out = u.out
      /\ r.flg = u.flg /\ r.wid = u.wid /\ r.portal = u.portal /\ Calm(u, r)
  BY <1>5, Zenon DEF NodeState, Calm
<1>7. take_master(n, s) = r
  BY <1>2, <1>3
<1> HIDE DEF r
<1>8. Calm(s, r)
  BY <1>1, <1>5, <1>6, Zenon DEF Calm
<1> QED
  BY <1>1, <1>4, <1>5, <1>6, <1>7, <1>8, Zenon DEF Taken

\* One pass of the state thread of a sound node with the link l
Passed(n, l, s, r) ==
    /\ r.wid = s.wid /\ r.portal = s.portal /\ Calm(s, r)
    /\ \/ /\ s.state = "INIT" /\ r.state = "LEARN" /\ r.ms[l] = MsDown
          /\ r.flg = s.flg /\ r.master = s.master /\ r.out = {}
       \/ /\ s.state \in {"LEARN", "DISABLE", "TRANSFER"} /\ r.state = "MAST"
          /\ s.state # "TRANSFER" => s.ms[l] = 0
          /\ r.ms = s.ms /\ r.flg = s.flg /\ r.master = AllLinks(NoNode)
          /\ One(r.out, n, "PASS", s.state, NoNode)
       \/ /\ s.state = "LEARN" /\ s.ms[l] > 0 /\ r.state = s.state /\ r.ms = s.ms
          /\ r.flg = s.flg /\ r.master = s.master
          /\ One(r.out, n, "PASS", s.state, NoNode)
       \/ /\ \/ s.state \in {"BACK", "DISABLE"} /\ s.ms[l] > 0
             \/ s.state = "TRANSFER" /\ (s.wid \/ s.portal)
          /\ r.state = s.state /\ r.ms = s.ms
          /\ r.flg = s.flg /\ r.master = s.master /\ r.out = {}
       \/ /\ s.state = "BACK" /\ s.ms[l] = 0 /\ ~s.flg
          /\ r.state = "BACK" /\ r.ms[l] = AdverInt
          /\ r.flg = TRUE /\ r.master = s.master
          /\ One(r.out, n, "FAIL", s.state, s.master[l])
       \/ /\ s.state = "BACK" /\ s.ms[l] = 0 /\ s.flg
          /\ r.state = "MAST" /\ r.ms = s.ms
          /\ r.flg = FALSE /\ r.master = AllLinks(NoNode)
          /\ One(r.out, n, "PASS", s.state, NoNode)
       \/ /\ s.state = "MAST" /\ r.state = "MAST" /\ r.ms = s.ms
          /\ r.flg = s.flg /\ r.master = s.master
          /\ r.out = {} \/ One(r.out, n, "PASS", s.state, NoNode)

\* The pass of had_vrrp_thread in each role, with everything up
LEMMA PassOf ==
    ASSUME NEW n \in Node, NEW l, Link = {l}, NEW s \in NodeState, s.out = {},
           Sound(s),
           Timed(s)
    PROVE  Passed(n, l, s, state_loop(n, s))
<1> DEFINE r == state_loop(n, s)
<1>0. s.link[l] /\ s.ht /\ s.svc /\ LinksUp(s) /\ Tracked(s)
  BY SoundLinks
<1>1. /\ s.ms[l] \in Nat /\ (Expired(s.ms) <=> s.ms[l] = 0) /\ s.flg \in BOOLEAN
      /\ s.wid \in BOOLEAN /\ s.portal \in BOOLEAN /\ s.state \in State
  BY SMT DEF NodeState, Expired
<1>2. Taken(n, s, take_master(n, s))
  BY TakePass
<1>3. CASE s.state = "INIT"
  <2>1. s.want = FALSE
    BY DEF Timed
  <2>2. r = [s EXCEPT !.ms = AllLinks(Delay(n)), !.state = "LEARN"]
    BY <1>0, <1>3, <2>1, Zenon DEF state_loop, state_init
  <2>3. AllLinks(Delay(n))[l] = MsDown
    BY Delays DEF AllLinks
  <2>4. /\ r.state = "LEARN" /\ r.ms = AllLinks(Delay(n)) /\ r.flg = s.flg
        /\ r.master = s.master /\ r.out = s.out /\ r.wid = s.wid
        /\ r.portal = s.portal /\ Calm(s, r)
    BY <2>2, Zenon DEF NodeState, Calm
  <2> HIDE DEF r
  <2> QED
    BY <1>3, <2>3, <2>4, Zenon DEF Passed, r
<1>4. CASE s.state = "LEARN" /\ s.ms[l] = 0
  <2>1. r = take_master(n, s)
    BY <1>0, <1>1, <1>4, Zenon DEF state_loop, learn_loop, goto_master
  <2> HIDE DEF r
  <2> QED
    BY <1>2, <1>4, <2>1, Zenon DEF Taken, Passed, r
<1>5. CASE s.state = "LEARN" /\ s.ms[l] > 0
  <2> DEFINE X == {Pkt(n, s, l, Prio[n], "PASS")}
  <2>1. ~Expired(s.ms)
    BY <1>1, <1>5, SMT
  <2>2. r = [s EXCEPT !.out = X]
    BY <1>0, <1>5, <2>1, SendAdvOne, Zenon DEF state_loop, learn_loop
  <2>3. One(X, n, "PASS", s.state, NoNode)
    BY OnePkt
  <2> HIDE DEF X
  <2>4. /\ r.state = s.state /\ r.ms = s.ms /\ r.flg = s.flg
        /\ r.master = s.master /\ r.out = X /\ r.wid = s.wid
        /\ r.portal = s.portal /\ Calm(s, r)
    BY <2>2, Zenon DEF NodeState, Calm
  <2> HIDE DEF r
  <2> QED
    BY <1>5, <2>3, <2>4, Zenon DEF Passed, r
<1>6. CASE s.state = "BACK" /\ s.ms[l] > 0
  <2>1. ~Expired(s.ms)
    BY <1>1, <1>6, SMT
  <2>2. r = s
    BY <1>0, <1>6, <2>1, Zenon DEF state_loop, back_loop, check_vif_state_trans
  <2> HIDE DEF r
  <2> QED
    BY <1>6, <2>2, Zenon DEF Passed, Calm, r
<1>7. CASE s.state = "BACK" /\ s.ms[l] = 0 /\ ~s.flg
  <2> DEFINE t == [s EXCEPT !.flg = TRUE, !.ms = AllLinks(AdverInt)]
             X == {Pkt(n, t, l, Prio[n], "FAIL")}
  <2>1. r = send_fail(n, t)
    BY <1>0, <1>1, <1>7, Zenon DEF state_loop, back_loop, check_vif_state_trans,
       warn_master
  <2>2. AllLinks(AdverInt) \in [Link -> Nat] /\ AllLinks(AdverInt)[l] = AdverInt
    BY AllLinksType, NodeAssumption DEF AllLinks
  <2>3. /\ t \in NodeState /\ t.state = s.state /\ t.ms = AllLinks(AdverInt)
        /\ t.flg = TRUE /\ t.master = s.master /\ t.out = {} /\ t.wid = s.wid
        /\ t.portal = s.portal /\ Calm(s, t)
    BY <2>2, Zenon DEF NodeState, Calm
  <2> HIDE DEF t
  <2>4. t.link[l] /\ t.svc
    BY <1>0, <2>3, Zenon DEF Calm
  <2>5. {k \in Link : t.link[k] /\ t.svc} = {l}
    BY <2>4
  <2>6. r = [t EXCEPT !.rx = TRUE, !.out = X]
    <3> DEFINE Y == {Pkt(n, t, j, Prio[n], "FAIL") :
                        j \in {k \in Link : t.link[k] /\ t.svc}}
    <3>1. Y = X
      BY <2>5
    <3>2. t.out \cup Y = X
      BY <2>3, <3>1
    <3>3. r = [t EXCEPT !.rx = TRUE, !.out = t.out \cup Y]
      BY <2>1, Zenon DEF send_fail
    <3> HIDE DEF X, Y
    <3> QED
      BY <3>2, <3>3
  <2>7. One(X, n, "FAIL", s.state, s.master[l])
    BY <2>3, OnePkt
  <2> HIDE DEF X
  <2>8. /\ r.state = t.state /\ r.ms = t.ms /\ r.flg = t.flg
        /\ r.master = t.master /\ r.out = X /\ r.wid = t.wid
        /\ r.portal = t.portal /\ Calm(t, r)
    BY <2>3, <2>6, Zenon DEF NodeState, Calm
  <2> HIDE DEF r
  <2>9. Calm(s, r)
    BY <2>3, <2>8, Zenon DEF Calm
  <2> QED
    BY <1>7, <2>2, <2>3, <2>7, <2>8, <2>9, Zenon DEF Passed, r
<1>8. CASE s.state = "BACK" /\ s.ms[l] = 0 /\ s.flg
  <2> DEFINE u == take_master(n, s)
  <2>1. r = [u EXCEPT !.flg = FALSE]
    BY <1>0, <1>1, <1>8, Zenon DEF state_loop, back_loop, check_vif_state_trans,
       goto_master
  <2>2. u \in NodeState
    BY TakeMaster DEF Up
  <2> HIDE DEF u
  <2>3. /\ r.state = u.state /\ r.ms = u.ms /\ r.flg = FALSE
        /\ r.master = u.master /\ r.out = u.out /\ r.wid = u.wid
        /\ r.portal = u.portal /\ Calm(u, r)
    BY <2>1, <2>2, Zenon DEF NodeState, Calm
  <2>4. Taken(n, s, u)
    BY <1>2 DEF u
  <2> HIDE DEF r
  <2>5. Calm(s, r)
    BY <2>3, <2>4, Zenon DEF Taken, Calm
  <2> QED
    BY <1>8, <2>3, <2>4, <2>5, Zenon DEF Taken, Passed, r
<1>9. CASE s.state = "TRANSFER"
  <2>1. (r = s /\ (s.wid \/ s.portal)) \/ r = take_master(n, s)
    BY <1>0, <1>9, Zenon DEF state_loop, transfer_loop, goto_master
  <2> HIDE DEF r
  <2> QED
    BY <1>2, <1>9, <2>1, Zenon DEF Taken, Passed, Calm, r
<1>10. CASE s.state = "DISABLE" /\ s.ms[l] = 0
  <2>1. r = take_master(n, s)
    BY <1>0, <1>1, <1>10, Zenon DEF state_loop, disable_loop, goto_master
  <2> HIDE DEF r
  <2> QED
    BY <1>2, <1>10, <2>1, Zenon DEF Taken, Passed, r
<1>11. CASE s.state = "DISABLE" /\ s.ms[l] > 0
  <2>1. ~Expired(s.ms)
    BY <1>1, <1>11, SMT
  <2>2. r = s
    BY <1>0, <1>11, <2>1, Zenon DEF state_loop, disable_loop
  <2> HIDE DEF r
  <2> QED
    BY <1>11, <2>2, Zenon DEF Passed, Calm, r
<1>12. CASE s.state = "MAST"
  <2> DEFINE D == {j \in Link : s.adv[j] <= 0}
             Y == {Pkt(n, s, j, Prio[n], "PASS") : j \in {k \in D : s.ht /\ s.svc}}
             A == [j \in Link |-> IF j \in D THEN AdverInt ELSE s.adv[j]]
  <2>1. r = [s EXCEPT !.out = s.out \cup Y, !.adv = A]
    BY <1>0, <1>12, Zenon DEF state_loop, mast_loop
  <2>2. Y = {} \/ Y = {Pkt(n, s, l, Prio[n], "PASS")}
    <3>1. D = {} \/ D = {l}
      OBVIOUS
    <3> QED
      BY <3>1
  <2>3. Y = {} \/ One(Y, n, "PASS", s.state, NoNode)
    BY <2>2, OnePkt
  <2> HIDE DEF Y, A
  <2>4. /\ r.state = s.state /\ r.ms = s.ms /\ r.flg = s.flg
        /\ r.master = s.master /\ r.out = s.out \cup Y /\ r.wid = s.wid
        /\ r.portal = s.portal /\ Calm(s, r)
    BY <2>1, Zenon DEF NodeState, Calm
  <2> HIDE DEF r
  <2>5. r.out = Y
    BY <2>4
  <2> QED
    BY <1>12, <2>3, <2>4, <2>5, Zenon DEF Passed, r
<1>13. s.ms[l] = 0 \/ s.ms[l] > 0
  BY <1>1, SMT
<1> HIDE DEF r
<1> QED
  BY <1>1, <1>3, <1>4, <1>5, <1>6, <1>7, <1>8, <1>9, <1>10, <1>11, <1>12, <1>13,
     Zenon
     DEF State, r

\* A record that gets a new state and timer
Moved(s, r, st, ms) ==
    /\ r.state = st /\ r.ms = ms /\ r.flg = s.flg /\ r.out = s.out /\ Calm(s, r)

\* had_state_goto_transfer
LEMMA MovedTransfer ==
    ASSUME NEW s \in NodeState
    PROVE  /\ Moved(s, goto_transfer(s), "TRANSFER", s.ms)
           /\ goto_transfer(s).wid /\ goto_transfer(s).portal
BY SMT DEF Moved, Calm, goto_transfer, NodeState

\* had_state_back, and had_state_leave_master to BACK
LEMMA MovedBack ==
    ASSUME NEW s \in NodeState, NEW n \in Node
    PROVE  /\ Moved(s, state_back(n, s), "BACK", AllLinks(Delay(n)))
           /\ state_back(n, s).master = s.master
           /\ state_back(n, s).wid = s.wid /\ state_back(n, s).portal = s.portal
           /\ Moved(s, leave_master_back(n, s), "BACK", AllLinks(Delay(n)))
           /\ leave_master_back(n, s).master = s.master
           /\ leave_master_back(n, s).wid = s.wid
           /\ leave_master_back(n, s).portal = s.portal
BY SMT DEF Moved, Calm, state_back, leave_master_back, vif_drop_pck, NodeState

\* had_state_leave_master of a master that the warning names
LEMMA MovedForced ==
    ASSUME NEW s \in NodeState, NEW m
    PROVE  LET r == leave_master_forced(s, m)
           IN  /\ Moved(s, r, "DISABLE", s.ms)
               /\ r.master = AllLinks(m.from) /\ r.wid = s.wid
               /\ r.portal = s.portal
BY SMT DEF Moved, Calm, leave_master_forced, NodeState

\* The bookkeeping of had_update_uplink and had_update_downlink
LEMMA NoteFlag ==
    ASSUME NEW s \in NodeState
    PROVE  LET t == [s EXCEPT !.flg = FALSE]
           IN  /\ t \in NodeState /\ t.state = s.state /\ t.ms = s.ms
               /\ t.flg = FALSE
               /\ t.out = s.out /\ t.master = s.master /\ Calm(s, t)
               /\ t.wid = s.wid /\ t.portal = s.portal
BY Zenon DEF NodeState, Calm

\* With one link, setting its entry is setting the array.
LEMMA NoteArrays ==
    ASSUME NEW n \in Node, NEW s \in NodeState, NEW l, Link = {l}, NEW m \in Packet
    PROVE  /\ m.l = l /\ m.from \in Node
           /\ Delay(n) = MsDown
           /\ AllLinks(Delay(n)) \in [Link -> Nat] /\ AllLinks(Delay(n))[l] = MsDown
           /\ AllLinks(m.from) \in [Link -> Node \cup {NoNode}]
           /\ AllLinks(m.from)[l] = m.from
           /\ [s.master EXCEPT ![m.l] = m.from] \in [Link -> Node \cup {NoNode}]
           /\ [s.master EXCEPT ![m.l] = m.from][l] = m.from
           /\ [s.heard EXCEPT ![m.l] = 0] \in [Link -> 0..Stale]
           /\ [s.ms EXCEPT ![m.l] = Delay(n)][l] = MsDown
<1>1. m.l = l /\ m.from \in Node
  BY SMT DEF Packet
<1>2. /\ AllLinks(Delay(n)) \in [Link -> Nat] /\ AllLinks(Delay(n))[l] = MsDown
      /\ Delay(n) = MsDown /\ AllLinks(m.from)[l] = m.from
      /\ AllLinks(m.from) \in [Link -> Node \cup {NoNode}]
  BY <1>1, AllLinksType, DelayType, Delays, Zenon DEF AllLinks
<1>3. /\ s.master \in [Link -> Node \cup {NoNode}] /\ s.heard \in [Link -> 0..Stale]
      /\ s.ms \in [Link -> Nat]
  BY SMT DEF NodeState
<1> QED
  BY <1>1, <1>2, <1>3, NodeAssumption, SMT DEF Stale

\* The sender is noted as the master, and the master-down delay starts.
LEMMA NoteKnown ==
    ASSUME NEW n \in Node, NEW s \in NodeState, NEW l, Link = {l}, NEW m \in Packet
    PROVE  LET r == [Known(s, m) EXCEPT !.ms = AllLinks(Delay(n))]
           IN  /\ r \in NodeState /\ Moved(s, r, s.state, AllLinks(Delay(n)))
               /\ r.master[l] = m.from /\ r.wid = s.wid /\ r.portal = s.portal
<1> DEFINE M == [s.master EXCEPT ![m.l] = m.from]
           k == [s EXCEPT !.master = M]
           r == [k EXCEPT !.ms = AllLinks(Delay(n))]
<1>1. /\ M \in [Link -> Node \cup {NoNode}] /\ M[l] = m.from
      /\ AllLinks(Delay(n)) \in [Link -> Nat]
  BY NoteArrays
<1>2. Known(s, m) = k
  BY Zenon DEF NodeState, Known
<1> HIDE DEF M
<1>3. /\ k \in NodeState /\ Moved(s, k, s.state, s.ms)
      /\ k.master = M /\ k.wid = s.wid /\ k.portal = s.portal
  BY <1>1, Zenon DEF NodeState, Moved, Calm
<1> HIDE DEF k
<1>4. /\ r \in NodeState /\ Moved(k, r, k.state, AllLinks(Delay(n)))
      /\ r.master = k.master /\ r.wid = k.wid /\ r.portal = k.portal
  BY <1>1, <1>3, Zenon DEF NodeState, Moved, Calm
<1>5. r = [Known(s, m) EXCEPT !.ms = AllLinks(Delay(n))]
  BY <1>2
<1> HIDE DEF r
<1>6. Moved(s, r, s.state, AllLinks(Delay(n)))
  BY <1>3, <1>4, Zenon DEF Moved, Calm
<1> QED
  BY <1>1, <1>3, <1>4, <1>5, <1>6, Zenon

\* The sender is noted as the master of every link.
LEMMA NoteMaster ==
    ASSUME NEW n \in Node, NEW s \in NodeState, NEW l, Link = {l}, NEW m \in Packet
    PROVE  LET r == [s EXCEPT !.master = AllLinks(m.from)]
           IN  /\ r \in NodeState /\ Moved(s, r, s.state, s.ms)
               /\ r.master[l] = m.from /\ r.wid = s.wid /\ r.portal = s.portal
<1>1. /\ AllLinks(m.from) \in [Link -> Node \cup {NoNode}]
      /\ AllLinks(m.from)[l] = m.from
  BY NoteArrays
<1>2. LET r == [s EXCEPT !.master = AllLinks(m.from)]
      IN  /\ r \in NodeState /\ Moved(s, r, s.state, s.ms)
          /\ r.master = AllLinks(m.from) /\ r.wid = s.wid /\ r.portal = s.portal
  BY <1>1, Zenon DEF NodeState, Moved, Calm
<1> QED
  BY <1>1, <1>2, Zenon

\* The other two ways in which a packet is noted
WaitFor(n, s, m) == [s EXCEPT !.ms[m.l] = Delay(n), !.master[m.l] = m.from]
HeardNow(s, m) == [s EXCEPT !.heard[m.l] = 0, !.master[m.l] = m.from]

\* What had_update_back keeps of the packet of a better master
LEMMA NoteWait ==
    ASSUME NEW n \in Node, NEW s \in NodeState, NEW l, Link = {l}, NEW m \in Packet
    PROVE  LET r == WaitFor(n, s, m)
           IN  /\ r.state = s.state /\ r.ms[l] = MsDown /\ r.flg = s.flg
               /\ r.out = s.out /\ Calm(s, r)
               /\ r.master[l] = m.from /\ r.wid = s.wid /\ r.portal = s.portal
<1> DEFINE M == [s.master EXCEPT ![m.l] = m.from]
           C == [s.ms EXCEPT ![m.l] = Delay(n)]
<1>1. M[l] = m.from /\ C[l] = MsDown
  BY NoteArrays
<1>2. WaitFor(n, s, m) = [s EXCEPT !.ms = C, !.master = M]
  BY Zenon DEF NodeState, WaitFor
<1> HIDE DEF M, C
<1>3. LET r == [s EXCEPT !.ms = C, !.master = M]
      IN  /\ r.state = s.state /\ r.ms = C /\ r.flg = s.flg
          /\ r.out = s.out /\ Calm(s, r)
          /\ r.master = M /\ r.wid = s.wid /\ r.portal = s.portal
  BY Zenon DEF NodeState, Calm
<1> QED
  BY <1>1, <1>2, <1>3, Zenon

\* What a master keeps of the packet of a better one
LEMMA NoteHeard ==
    ASSUME NEW n \in Node, NEW s \in NodeState, NEW l, Link = {l}, NEW m \in Packet
    PROVE  LET r == HeardNow(s, m)
           IN  /\ r \in NodeState /\ Moved(s, r, s.state, s.ms)
               /\ r.master[l] = m.from /\ r.wid = s.wid /\ r.portal = s.portal
<1> DEFINE M == [s.master EXCEPT ![m.l] = m.from]
           H == [s.heard EXCEPT ![m.l] = 0]
<1>1. /\ M \in [Link -> Node \cup {NoNode}] /\ M[l] = m.from
      /\ H \in [Link -> 0..Stale]
  BY NoteArrays
<1>2. HeardNow(s, m) = [s EXCEPT !.heard = H, !.master = M]
  BY Zenon DEF NodeState, HeardNow
<1> HIDE DEF M, H
<1>3. LET r == [s EXCEPT !.heard = H, !.master = M]
      IN  /\ r \in NodeState /\ Moved(s, r, s.state, s.ms)
          /\ r.master = M /\ r.wid = s.wid /\ r.portal = s.portal
  BY <1>1, Zenon DEF NodeState, Moved, Calm
<1> QED
  BY <1>1, <1>2, <1>3, Zenon

\* The better node n of a pair has heard the worse one.
HeardWorse(n, l, s, m, r) ==
    /\ r.flg = FALSE /\ Calm(s, r)
    /\ \/ /\ r.wid = s.wid /\ r.portal = s.portal /\ r.out = {}
          /\ \/ /\ \/ s.state \in {"INIT", "TRANSFER"}
                   \/ s.state = "MAST" /\ m.auth = "PASS"
                /\ r.state = s.state /\ r.ms = s.ms
             \/ /\ s.state = "LEARN" /\ m.st = "LEARN" /\ r.state = "LEARN"
                /\ r.ms[l] = MsDown
             \/ /\ s.state = "MAST" /\ m.auth = "FAIL" /\ m.old = n
                /\ r.state = "DISABLE" /\ r.ms = s.ms
             \/ /\ s.state = "MAST" /\ m.auth = "FAIL" /\ m.old # n
                /\ r.state = "BACK" /\ r.ms[l] = MsDown
       \/ /\ r.state = "TRANSFER" /\ r.wid /\ r.portal /\ r.out = {}
          /\ m.st # "LEARN"
          /\ \/ s.state = "LEARN" /\ r.ms[l] = MsDown
             \/ s.state = "DISABLE" /\ r.ms = s.ms
       \/ /\ \/ s.state = "BACK"
             \/ s.state = "DISABLE" /\ m.st = "LEARN"
          /\ r.state = "MAST" /\ r.ms = s.ms /\ r.wid = s.wid /\ r.portal = s.portal
          /\ One(r.out, n, "PASS", s.state, NoNode)

\* had_updata, in each role, of a packet of the worse node
LEMMA HearTheWorse ==
    ASSUME NEW n \in Node, NEW l, Link = {l}, NEW s \in NodeState, s.out = {},
           Sound(s),
           NEW m \in Packet, m.prio # Stop, m.prio < Prio[n], Preempt[n],
           m.auth = "FAIL" => m.st = "BACK", m.st # "MAST"
    PROVE  HeardWorse(n, l, s, m, updata(n, s, m))
<1> DEFINE t == [s EXCEPT !.flg = FALSE]
           z == [Known(t, m) EXCEPT !.ms = AllLinks(Delay(n))]
           w == [t EXCEPT !.master = AllLinks(m.from)]
           r == updata(n, s, m)
<1>1. /\ t \in NodeState /\ t.state = s.state /\ t.ms = s.ms /\ t.flg = FALSE
      /\ t.out = s.out /\ Calm(s, t) /\ t.wid = s.wid /\ t.portal = s.portal
      /\ m.l = l
  BY NoteFlag, NoteArrays
<1>2. /\ s.link[l] /\ LinksUp(t) /\ Sound(t)
      /\ \A x \in Mon : t.mon[x]
  BY <1>1, SoundLinks, CalmSound
<1>3. /\ AllLinks(Delay(n))[l] = MsDown /\ m.auth \in {"PASS", "FAIL"}
      /\ s.state \in State
  <2>1. m.auth \in {"PASS", "FAIL"} /\ s.state \in State
    BY SMT DEF Packet, NodeState
  <2>2. AllLinks(Delay(n))[l] = MsDown
    BY Delays, Zenon DEF AllLinks
  <2> QED
    BY <2>1, <2>2
<1>4. ~better(n, m) /\ worse(n, m)
  <2>1. Prio[n] \in Nat /\ m.prio \in Nat
    BY NodeAssumption, SMT DEF Packet
  <2> QED
    BY <2>1, SMT DEF better, worse
<1>5. r = IF s.state = "DISABLE" THEN updata_disable(n, t, m) ELSE update_link(n, t, m)
  BY <1>1, <1>2, Zenon DEF updata
<1> HIDE DEF t
<1>6. /\ z \in NodeState /\ Moved(t, z, t.state, AllLinks(Delay(n)))
      /\ z.wid = t.wid /\ z.portal = t.portal
      /\ w \in NodeState /\ Moved(t, w, t.state, t.ms)
      /\ w.wid = t.wid /\ w.portal = t.portal
  BY <1>1, NoteKnown, NoteMaster
<1> HIDE DEF z, w, r
<1>7. /\ Calm(s, z) /\ Calm(s, w) /\ z.flg = FALSE /\ w.flg = FALSE
      /\ z.out = {} /\ w.out = {} /\ w.state = s.state /\ w.ms = s.ms
      /\ z.state = s.state
      /\ z.ms = AllLinks(Delay(n))
  BY <1>1, <1>6, Zenon DEF Moved, Calm
<1>8. CASE s.state \in {"INIT", "TRANSFER"}
  <2>1. r = t
    BY <1>1, <1>5, <1>8, Zenon DEF update_link
  <2> QED
    BY <1>1, <1>8, <2>1, Zenon DEF HeardWorse, r
<1>9. CASE s.state = "LEARN"
  <2>1. r = from_learn(n, z, m)
    <3>1. r = update_learn(n, t, m)
      BY <1>1, <1>5, <1>9, Zenon DEF update_link
    <3>2. others_known(Known(t, m), m.l)
      BY <1>1 DEF others_known
    <3> QED
      BY <3>1, <3>2, Zenon DEF update_learn, Known, z
  <2>2. \/ r = z /\ m.st = "LEARN"
        \/ r = goto_transfer(z) /\ m.st # "LEARN"
    BY <2>1 DEF from_learn
  <2>3. CASE r = z /\ m.st = "LEARN"
    BY <1>1, <1>3, <1>6, <1>7, <1>9, <2>3, Zenon DEF HeardWorse, r
  <2>4. CASE r = goto_transfer(z) /\ m.st # "LEARN"
    <3>1. Moved(z, r, "TRANSFER", z.ms) /\ r.wid /\ r.portal
      BY <1>6, <2>4, MovedTransfer
    <3>2. /\ Calm(s, r) /\ r.flg = FALSE /\ r.out = {} /\ r.state = "TRANSFER"
          /\ r.ms[l] = MsDown
      BY <1>3, <1>7, <3>1, Zenon DEF Moved, Calm
    <3> QED
      BY <1>9, <2>4, <3>1, <3>2, Zenon DEF HeardWorse, r
  <2> QED
    BY <2>2, <2>3, <2>4
<1>10. CASE s.state = "BACK"
  <2>1. r = take_master(n, t)
    <3>1. r = update_back(n, t, m)
      BY <1>1, <1>5, <1>10, Zenon DEF update_link
    <3>2. r = goto_master(n, t, m.st)
      BY <1>4, <3>1, Zenon DEF update_back
    <3> QED
      BY <1>1, <1>10, <3>2, Zenon DEF goto_master
  <2>2. Taken(n, t, r)
    BY <1>1, <1>2, <2>1, TakePass
  <2>3. Calm(s, r)
    BY <1>1, <2>2, Zenon DEF Taken, Calm
  <2> QED
    BY <1>1, <1>10, <2>2, <2>3, Zenon DEF Taken, HeardWorse, r
<1>11. CASE s.state = "MAST"
  <2>1. r = update_mast(n, t, m)
    BY <1>1, <1>5, <1>11, Zenon DEF update_link
  <2>2. \/ r = t /\ m.auth = "PASS"
        \/ r = leave_master(n, t, m) /\ m.auth = "FAIL"
    BY <1>3, <1>4, <2>1 DEF update_mast
  <2>3. \/ r = t /\ m.auth = "PASS"
        \/ r = leave_master_forced(t, m) /\ m.auth = "FAIL" /\ m.old = n
        \/ r = leave_master_back(n, t) /\ m.auth = "FAIL" /\ m.old # n
    BY <2>2, Zenon DEF leave_master
  <2>4. CASE r = t /\ m.auth = "PASS"
    BY <1>1, <1>11, <2>4, Zenon DEF HeardWorse, r
  <2>5. CASE r = leave_master_forced(t, m) /\ m.auth = "FAIL" /\ m.old = n
    <3>1. Moved(t, r, "DISABLE", t.ms) /\ r.wid = t.wid /\ r.portal = t.portal
      BY <1>1, <2>5, MovedForced
    <3>2. /\ Calm(s, r) /\ r.flg = FALSE /\ r.out = {} /\ r.state = "DISABLE"
          /\ r.ms = s.ms
      BY <1>1, <3>1, Zenon DEF Moved, Calm
    <3> QED
      BY <1>1, <1>11, <2>5, <3>1, <3>2, Zenon DEF HeardWorse, r
  <2>6. CASE r = leave_master_back(n, t) /\ m.auth = "FAIL" /\ m.old # n
    <3>1. /\ Moved(t, r, "BACK", AllLinks(Delay(n))) /\ r.wid = t.wid
          /\ r.portal = t.portal
      BY <1>1, <2>6, MovedBack
    <3>2. /\ Calm(s, r) /\ r.flg = FALSE /\ r.out = {} /\ r.state = "BACK"
          /\ r.ms[l] = MsDown
      BY <1>1, <1>3, <3>1, Zenon DEF Moved, Calm
    <3> QED
      BY <1>1, <1>11, <2>6, <3>1, <3>2, Zenon DEF HeardWorse, r
  <2> QED
    BY <2>3, <2>4, <2>5, <2>6
<1>12. CASE s.state = "DISABLE"
  <2>1. r = from_disable(n, w, m)
    <3>1. r = updata_disable(n, t, m)
      BY <1>5, <1>12
    <3> QED
      BY <1>1, <1>2, <3>1 DEF updata_disable, w
  <2>2. \A x \in Mon : w.mon[x]
    BY <1>2, <1>6, Zenon DEF Moved, Calm
  <2>3. \/ r = take_master(n, w) /\ m.st = "LEARN"
        \/ r = goto_transfer(w) /\ m.st # "LEARN"
    BY <1>7, <1>12, <2>1, <2>2 DEF from_disable, goto_master
  <2>4. CASE r = take_master(n, w) /\ m.st = "LEARN"
    <3>1. Sound(w)
      BY <1>7, CalmSound
    <3>2. Taken(n, w, r)
      BY <1>6, <1>7, <2>4, <3>1, TakePass
    <3>3. Calm(s, r)
      BY <1>7, <3>2, Zenon DEF Taken, Calm
    <3> QED
      BY <1>1, <1>6, <1>7, <1>12, <2>4, <3>2, <3>3, Zenon DEF Taken, HeardWorse, r
  <2>5. CASE r = goto_transfer(w) /\ m.st # "LEARN"
    <3>1. Moved(w, r, "TRANSFER", w.ms) /\ r.wid /\ r.portal
      BY <1>6, <2>5, MovedTransfer
    <3>2. /\ Calm(s, r) /\ r.flg = FALSE /\ r.out = {} /\ r.state = "TRANSFER"
          /\ r.ms = s.ms
      BY <1>7, <3>1, Zenon DEF Moved, Calm
    <3> QED
      BY <1>12, <2>5, <3>1, <3>2, Zenon DEF HeardWorse, r
  <2> QED
    BY <2>3, <2>4, <2>5
<1> QED
  BY <1>3, <1>8, <1>9, <1>10, <1>11, <1>12 DEF State

\* The worse node n of a pair has heard the better one.
HeardBetter(n, l, s, m, r) ==
    /\ r.flg = FALSE /\ r.out = {} /\ Calm(s, r)
    /\ r.wid = s.wid /\ r.portal = s.portal
    /\ \/ /\ s.state \in {"INIT", "TRANSFER"} \/ (s.state = "MAST" /\ m.st = "LEARN")
          /\ r.state = s.state /\ r.ms = s.ms /\ r.master = s.master
       \/ /\ \/ s.state \in {"LEARN", "BACK", "DISABLE"}
             \/ s.state = "MAST" /\ m.st # "LEARN" /\ m.auth = "PASS"
          /\ r.state = "BACK" /\ r.ms[l] = MsDown /\ r.master[l] = m.from
       \/ /\ s.state = "MAST" /\ m.auth = "FAIL"
          /\ \/ r.state = "BACK" /\ r.ms[l] = MsDown /\ r.master = s.master
             \/ r.state = "DISABLE" /\ r.ms = s.ms /\ r.master[l] = m.from

\* had_updata, in each role, of a packet of the better node
LEMMA HearTheBetter ==
    ASSUME NEW n \in Node, NEW l, Link = {l}, NEW s \in NodeState, s.out = {},
           Sound(s),
           NEW m \in Packet, m.prio > Prio[n]
    PROVE  HeardBetter(n, l, s, m, updata(n, s, m))
<1> DEFINE t == [s EXCEPT !.flg = FALSE]
           z == [Known(t, m) EXCEPT !.ms = AllLinks(Delay(n))]
           w == [t EXCEPT !.master = AllLinks(m.from)]
           h == HeardNow(t, m)
           g == WaitFor(n, t, m)
           r == updata(n, s, m)
<1>1. /\ t \in NodeState /\ t.state = s.state /\ t.ms = s.ms /\ t.flg = FALSE
      /\ t.out = s.out /\ Calm(s, t) /\ t.wid = s.wid /\ t.portal = s.portal
      /\ t.master = s.master /\ m.l = l
  BY NoteFlag, NoteArrays
<1>2. /\ s.link[l] /\ LinksUp(t) /\ Sound(t)
      /\ \A x \in Mon : t.mon[x]
  BY <1>1, SoundLinks, CalmSound
<1>3. /\ AllLinks(Delay(n))[l] = MsDown /\ m.auth \in {"PASS", "FAIL"}
      /\ s.state \in State
  <2>1. m.auth \in {"PASS", "FAIL"} /\ s.state \in State
    BY SMT DEF Packet, NodeState
  <2>2. AllLinks(Delay(n))[l] = MsDown
    BY Delays, Zenon DEF AllLinks
  <2> QED
    BY <2>1, <2>2
<1>4. better(n, m) /\ m.prio # Stop /\ ~(m.prio < Prio[n])
  <2>1. Prio[n] \in 1..255
    BY NodeAssumption
  <2>2. m.prio \in 0..255
    BY SMT DEF Packet
  <2>3. better(n, m)
    BY DEF better
  <2>4. \A x \in 0..255, y \in 1..255 : x > y => x # 0 /\ ~(x < y)
    BY SMT
  <2> QED
    BY <2>1, <2>2, <2>3, <2>4, Zenon DEF Stop
<1>5. r = IF s.state = "DISABLE" THEN updata_disable(n, t, m) ELSE update_link(n, t, m)
  BY <1>1, <1>2, Zenon DEF updata
<1> HIDE DEF t
<1>6. /\ z \in NodeState /\ Moved(t, z, t.state, AllLinks(Delay(n)))
      /\ z.wid = t.wid /\ z.portal = t.portal /\ z.master[l] = m.from
  BY <1>1, NoteKnown
<1>7. /\ w \in NodeState /\ Moved(t, w, t.state, t.ms)
      /\ w.wid = t.wid /\ w.portal = t.portal /\ w.master[l] = m.from
  BY <1>1, NoteMaster
<1>8. /\ h \in NodeState /\ Moved(t, h, t.state, t.ms)
      /\ h.wid = t.wid /\ h.portal = t.portal /\ h.master[l] = m.from
  BY <1>1, NoteHeard
<1>9. /\ g.state = t.state /\ g.ms[l] = MsDown /\ g.flg = t.flg
      /\ g.out = t.out /\ Calm(t, g)
      /\ g.master[l] = m.from /\ g.wid = t.wid /\ g.portal = t.portal
  BY <1>1, NoteWait
<1> HIDE DEF z, w, g, h, r
<1>10. ASSUME NEW x \in NodeState, Calm(t, x), x.flg = FALSE, x.out = {},
              x.wid = t.wid, x.portal = t.portal, x.master[l] = m.from,
              r = state_back(n, x), s.state \in {"LEARN", "DISABLE"}
       PROVE  HeardBetter(n, l, s, m, r)
  <2>1. Moved(x, r, "BACK", AllLinks(Delay(n))) /\ r.wid = x.wid
        /\ r.portal = x.portal /\ r.master = x.master
    BY <1>10, MovedBack
  <2>2. /\ Calm(s, r) /\ r.flg = FALSE /\ r.out = {} /\ r.state = "BACK"
        /\ r.ms[l] = MsDown /\ r.master[l] = m.from
    BY <1>1, <1>3, <1>10, <2>1, Zenon DEF Moved, Calm
  <2> QED
    BY <1>1, <1>10, <2>1, <2>2, Zenon DEF HeardBetter
<1>11. CASE s.state \in {"INIT", "TRANSFER"}
  <2>1. r = t
    BY <1>1, <1>5, <1>11, Zenon DEF update_link
  <2> QED
    BY <1>1, <1>11, <2>1, Zenon DEF HeardBetter, r
<1>12. CASE s.state = "LEARN"
  <2>1. r = from_learn(n, z, m)
    <3>1. r = update_learn(n, t, m)
      BY <1>1, <1>5, <1>12, Zenon DEF update_link
    <3>2. others_known(Known(t, m), m.l)
      BY <1>1 DEF others_known
    <3> QED
      BY <1>4, <3>1, <3>2, Zenon DEF update_learn, Known, z
  <2>2. r = state_back(n, z)
    BY <1>4, <2>1, Zenon DEF from_learn
  <2>3. Calm(t, z) /\ z.flg = FALSE /\ z.out = {}
    BY <1>1, <1>6, Zenon DEF Moved
  <2> QED
    BY <1>6, <1>10, <1>12, <2>2, <2>3 DEF r
<1>13. CASE s.state = "DISABLE"
  <2>1. r = from_disable(n, w, m)
    <3>1. r = updata_disable(n, t, m)
      BY <1>5, <1>13
    <3> QED
      BY <1>1, <1>2, <3>1 DEF updata_disable, w
  <2>2. \A x \in Mon : w.mon[x]
    BY <1>2, <1>7, Zenon DEF Moved, Calm
  <2>3. r = state_back(n, w)
    BY <1>4, <2>1, <2>2 DEF from_disable
  <2>4. Calm(t, w) /\ w.flg = FALSE /\ w.out = {}
    BY <1>1, <1>7, Zenon DEF Moved
  <2> QED
    BY <1>7, <1>10, <1>13, <2>3, <2>4 DEF r
<1>14. CASE s.state = "BACK"
  <2>1. r = update_back(n, t, m)
    BY <1>1, <1>5, <1>14, Zenon DEF update_link
  <2>2. r = g
    BY <1>4, <2>1, Zenon DEF update_back, WaitFor, g
  <2>3. Calm(s, g)
    BY <1>1, <1>9, Zenon DEF Calm
  <2> QED
    BY <1>1, <1>9, <1>14, <2>2, <2>3, Zenon DEF HeardBetter, r
<1>15. CASE s.state = "MAST"
  <2>1. r = update_mast(n, t, m)
    BY <1>1, <1>5, <1>15, Zenon DEF update_link
  <2>2. \/ r = t /\ m.st = "LEARN"
        \/ r = leave_master(n, t, m) /\ m.auth = "FAIL"
        \/ r = hear_better(n, t, m) /\ m.auth = "PASS" /\ m.st # "LEARN"
    BY <1>3, <1>4, <2>1 DEF update_mast
  <2>3. CASE r = t /\ m.st = "LEARN"
    BY <1>1, <1>15, <2>3, Zenon DEF HeardBetter, r
  <2>4. CASE r = leave_master(n, t, m) /\ m.auth = "FAIL"
    <3>1. CASE r = leave_master_forced(t, m)
      <4>1. Moved(t, r, "DISABLE", t.ms) /\ r.wid = t.wid /\ r.portal = t.portal
            /\ r.master = AllLinks(m.from)
        BY <1>1, <3>1, MovedForced
      <4>2. /\ Calm(s, r) /\ r.flg = FALSE /\ r.out = {} /\ r.state = "DISABLE"
            /\ r.ms = s.ms
        BY <1>1, <4>1, Zenon DEF Moved, Calm
      <4>3. r.master[l] = m.from
        BY <1>1, <4>1, NoteArrays
      <4> QED
        BY <1>1, <1>15, <2>4, <4>1, <4>2, <4>3, Zenon DEF HeardBetter, r
    <3>2. CASE r = leave_master_back(n, t)
      <4>1. /\ Moved(t, r, "BACK", AllLinks(Delay(n))) /\ r.wid = t.wid
            /\ r.portal = t.portal /\ r.master = t.master
        BY <1>1, <3>2, MovedBack
      <4>2. /\ Calm(s, r) /\ r.flg = FALSE /\ r.out = {} /\ r.state = "BACK"
            /\ r.ms[l] = MsDown
        BY <1>1, <1>3, <4>1, Zenon DEF Moved, Calm
      <4> QED
        BY <1>1, <1>15, <2>4, <4>1, <4>2, Zenon DEF HeardBetter, r
    <3> QED
      BY <2>4, <3>1, <3>2, Zenon DEF leave_master
  <2>5. CASE r = hear_better(n, t, m) /\ m.auth = "PASS" /\ m.st # "LEARN"
    <3> DEFINE k == leave_master_back(n, h)
    <3>1. r = [k EXCEPT !.heard = AllLinks(Stale)]
      <4>1. others_known(h, m.l) /\ \A j \in Link \ {m.l} : h.heard[j] < Stale
        BY <1>1 DEF others_known
      <4>2. leave_master(n, h, m) = k
        BY <2>5 DEF leave_master
      <4> QED
        BY <2>5, <4>1, <4>2, Zenon DEF hear_better, HeardNow, h
    <3>2. k \in NodeState
      BY <1>8, LeaveMasterBack DEF Recast
    <3>3. /\ Moved(h, k, "BACK", AllLinks(Delay(n))) /\ k.wid = h.wid
          /\ k.portal = h.portal /\ k.master = h.master
      BY <1>8, MovedBack
    <3> HIDE DEF k
    <3>4. /\ Moved(k, r, k.state, k.ms) /\ r.wid = k.wid
          /\ r.portal = k.portal /\ r.master = k.master
      BY <3>1, <3>2, Zenon DEF NodeState, Moved, Calm
    <3>5. /\ Calm(s, r) /\ r.flg = FALSE /\ r.out = {} /\ r.state = "BACK"
          /\ r.ms[l] = MsDown
      BY <1>1, <1>3, <1>8, <3>3, <3>4, Zenon DEF Moved, Calm
    <3> QED
      BY <1>1, <1>8, <1>15, <2>5, <3>3, <3>4, <3>5, Zenon DEF HeardBetter, r
  <2> QED
    BY <2>2, <2>3, <2>4, <2>5
<1> QED
  BY <1>3, <1>11, <1>12, <1>13, <1>14, <1>15 DEF State

-----------------------------------------------------------------------------
(***************************************************************************)
(* What matters of a healthy pair without a master, a the better node and  *)
(* b the other: the views x of a and y of b (role, master-down timer,      *)
(* stateFlg, whether its takeover waits, whether its master is a, and      *)
(* whether it has had its pass and its tick in this round), the boxes p of *)
(* the packets on their way to a and q of those to b (a warning, an        *)
(* advertisement sent in LEARN, any other one), and v, the rounds so far.  *)
(***************************************************************************)
IsView(x) ==
    /\ x.state \in State /\ x.ms \in Nat /\ x.ms <= MsDown + 1
    /\ x.state \in {"LEARN", "BACK"} => x.ms <= MsDown
    /\ x.done \in 0..1 /\ x.tick \in 0..1
    /\ x.flg \in BOOLEAN /\ x.wait \in BOOLEAN /\ x.knows \in BOOLEAN

\* blind: the warning names another master than the receiver.
IsBox(p) ==
    /\ p.fail \in BOOLEAN /\ p.blind \in BOOLEAN
    /\ p.learn \in BOOLEAN /\ p.take \in BOOLEAN

SomePacket(p) == p.fail \/ p.learn \/ p.take

\* The rounds after which a has left LEARN and DISABLE, has left BACK when it
\* was sent there from them, and has taken over after its own warning
LearnLimit == MsDown + 3
BackLimit  == 2 * MsDown + 2
WarnLimit  == 2 * MsDown + 3 + AdverInt

\* The master-down timer of x runs out, and x makes a pass after that, by
\* round k.
Due(x, v, k) == v + x.done <= k /\ (x.ms = 0 \/ v + x.ms + x.tick <= k)

\* The standby y has k ticks left at the start of this round.
Fresh(y, k) == y.state = "BACK" /\ y.ms + y.tick >= k

\* What is sent in a round arrives in it, and INIT lasts for one pass: nothing
\* is on its way from a node before its pass, a warning comes from a standby,
\* and a new master has just had its pass.
Orderly(x, y, p, v) ==
    /\ ~(p.fail /\ p.learn) /\ ~(p.fail /\ p.take) /\ ~(p.learn /\ p.take)
    /\ SomePacket(p) => y.done = 1
    /\ p.fail => y.state = "BACK"
    /\ p.blind => p.fail
    /\ y.state = "MAST" => y.done = 1
    /\ x.state = "INIT" => v = 1 /\ x.done = 0
    /\ y.state = "INIT" => v = 1 /\ y.done = 0

\* A standby that does not know a as its master is one from before the
\* vacancy, so only an early warning names another master than a.
BlindEarly(y, p, v) ==
    /\ y.state = "BACK" /\ ~y.flg /\ ~y.knows => Due(y, v, MsDown + 1)
    /\ p.blind => v <= MsDown + 1

\* y is the master, and nothing on its way changes that; or it soon is
Leads(y, q) == y.state = "MAST" /\ ~q.fail /\ ~q.take
Rises(y, q) == y.state = "TRANSFER" \/ Leads(y, q)

\* The takeover of x completes by round k.
Moves(x, v, k) == v < k \/ (v = k /\ x.done = 0 /\ ~x.wait)

-----------------------------------------------------------------------------
(***************************************************************************)
(* How a is on its way to the role of the master.                          *)
(***************************************************************************)
\* a has not had its first pass.
AStarts(x, y, p, q, v) ==
    /\ x.state = "INIT" /\ BlindEarly(y, p, v)
    /\ p.fail => y.flg
    /\ p.take => Leads(y, q)
    /\ ~SomePacket(q)

\* a is in LEARN, and its timer is set again at most twice: by then b has
\* heard a and has gone to BACK, or is about to be the master.
ALearns(x, y, p, q, v) ==
    /\ x.state = "LEARN" /\ BlindEarly(y, p, v) /\ Due(x, v, LearnLimit)
    /\ p.fail => y.flg \/ Fresh(y, MsDown)
    /\ p.take => Leads(y, q)
    /\ ~q.fail /\ ~q.take
    /\ \/ v <= 1
       \/ /\ v <= 2
          /\ x.done = 0 \/ q.learn \/ Rises(y, q) \/ Fresh(y, MsDown)
       \/ /\ ~p.fail /\ ~p.learn
          /\ \/ Rises(y, q) \/ Fresh(y, MsDown)
             \/ Fresh(y, MsDown - 1) /\ (x.done = 0 \/ q.learn)

\* a was put down and waits in DISABLE.
AIsDown(x, y, p, q, v) ==
    /\ x.state = "DISABLE" /\ BlindEarly(y, p, v) /\ Due(x, v, LearnLimit)
    /\ p.fail => y.flg
    /\ p.take => Leads(y, q)
    /\ ~q.fail
    /\ SomePacket(q) => ~SomePacket(p) /\ y.done = 1

\* a took over and was warned away to DISABLE in the same round with its timer
\* run out: it takes over again in its next pass, and b, which has heard its
\* advertisement, does not warn before that.
AIsDownLate(x, y, p, q, v) ==
    /\ x.state = "DISABLE" /\ x.ms = 0 /\ BlindEarly(y, p, v)
    /\ v + x.done <= LearnLimit + 1
    /\ ~SomePacket(p)
    /\ \/ /\ x.done = 1 /\ y.done = 1 /\ y.state = "BACK"
          /\ SomePacket(q) \/ Fresh(y, 3)
       \/ x.done = 0 /\ Fresh(y, 2)

\* The takeover of a waits for wid or portal since the first rounds, or since
\* it heard b take over or warn.
ATransfers(x, y, p, q, v) ==
    /\ x.state = "TRANSFER" /\ BlindEarly(y, p, v) /\ Moves(x, v, 3)
    /\ x.ms = 0 \/ v + x.ms + x.tick <= LearnLimit
    /\ ~q.fail /\ ~q.take

ATransfersLate(x, y, p, q, v) ==
    /\ x.state = "TRANSFER" /\ BlindEarly(y, p, v) /\ ~p.fail
    /\ \/ Leads(y, q)
       \/ /\ y.state = "BACK" /\ y.flg /\ ~SomePacket(q)
          /\ Moves(x, v, LearnLimit + 1)

\* a is a standby: it waits for a master, has warned one from before the
\* vacancy, or has warned later, when b does not come in its way any more.
AWaits(x, v) == x.state = "BACK" /\ ~x.flg /\ Due(x, v, BackLimit)

AWarnedEarly(x, y, p, q, v) ==
    /\ x.state = "BACK" /\ x.flg /\ BlindEarly(y, p, v)
    /\ Due(x, v, LearnLimit) /\ ~SomePacket(q)

AWarned(x, y, p, q, v) ==
    /\ x.state = "BACK" /\ x.flg /\ Due(x, v, WarnLimit) /\ x.ms <= AdverInt
    /\ \/ x.done = 1 /\ q.fail
       \/ y.state # "BACK"
       \/ Due(x, 2, y.ms + y.tick) /\ (p.fail => x.done = 1)

\* a is the master: just now, so that a warning of b may still take the role
\* away from it; or no warning is on its way and b sends none in this round.
ALeadsYet(x, y, p, q, v) ==
    /\ x.state = "MAST" /\ BlindEarly(y, p, v) /\ v <= LearnLimit /\ x.done = 1
    /\ x.ms = 0 \/ v + x.ms + x.tick <= LearnLimit
    /\ ~q.fail
    /\ SomePacket(q) \/ Fresh(y, MsDown)

ALeads(x, y, p) ==
    /\ x.state = "MAST" /\ ~p.fail
    /\ y.done = 1 \/ y.state # "BACK" \/ y.flg \/ y.ms + y.tick >= 2

\* The inductive invariant of a vacancy, over the views and the boxes
MasterComes(x, y, p, q, v) ==
    /\ Orderly(x, y, p, v) /\ v <= WarnLimit
    /\ \/ AStarts(x, y, p, q, v)    \/ ALearns(x, y, p, q, v)
       \/ AIsDown(x, y, p, q, v)    \/ AIsDownLate(x, y, p, q, v)
       \/ ATransfers(x, y, p, q, v) \/ ATransfersLate(x, y, p, q, v)
       \/ AWaits(x, v)              \/ AWarnedEarly(x, y, p, q, v)
       \/ AWarned(x, y, p, q, v)    \/ ALeadsYet(x, y, p, q, v)
       \/ ALeads(x, y, p)

\* The master-down delay is longer than the interval a warned master is given
\* by two rounds: three advertisements of a second are enough, and the default
\* (VRRP_DEFAULT_DOWN_PACKET_COUNT) is eight.
Ample == DownCount * AdverInt >= AdverInt + 2

\* What Ample says of the timers
LEMMA AmpleDown ==
    ASSUME Ample
    PROVE  /\ MsDown \in Nat /\ AdverInt \in Nat /\ AdverInt >= 1
           /\ MsDown >= AdverInt + 3
<1> DEFINE d == DownCount * AdverInt
<1>1. d \in Nat /\ AdverInt \in Nat \ {0} /\ MsDown = d + 1 /\ d >= AdverInt + 2
  BY NodeAssumption, SMT DEF Ample, MsDown
<1> HIDE DEF d
<1> QED
  BY <1>1, SMT

\* The state, ... of x1 is that of x
SameView(x, x1) ==
    /\ x1.state = x.state /\ x1.ms = x.ms /\ x1.flg = x.flg /\ x1.wait = x.wait
    /\ x1.knows = x.knows

\* A pass of the state thread, and the kind of packet it sends
PassView(x, x1, sent) ==
    /\ x.done = 0 /\ x1.done = 1 /\ x1.tick = x.tick /\ x1.wait = x.wait
    /\ x1.knows => x.knows
    /\ x1.state # "MAST" => x1.knows = x.knows
    /\ \/ /\ x.state = "INIT" /\ x1.state = "LEARN" /\ x1.ms = MsDown
          /\ x1.flg = x.flg /\ sent = "none"
       \/ /\ x.state \in {"LEARN", "DISABLE", "TRANSFER"} /\ x1.state = "MAST"
          /\ x.state # "TRANSFER" => x.ms = 0
          /\ x1.ms = x.ms /\ x1.flg = x.flg
          /\ x.state = "LEARN" => sent = "learn"
          /\ x.state # "LEARN" => sent = "take"
       \/ /\ x.state = "LEARN" /\ x.ms > 0 /\ x1.state = x.state /\ x1.ms = x.ms
          /\ x1.flg = x.flg /\ sent = "learn"
       \/ /\ \/ x.state \in {"BACK", "DISABLE"} /\ x.ms > 0
             \/ x.state = "TRANSFER" /\ x.wait
          /\ x1.state = x.state /\ x1.ms = x.ms /\ x1.flg = x.flg /\ sent = "none"
       \/ /\ x.state = "BACK" /\ x.ms = 0 /\ ~x.flg
          /\ x1.state = "BACK" /\ x1.ms = AdverInt /\ x1.flg /\ sent = "fail"
       \/ /\ x.state = "BACK" /\ x.ms = 0 /\ x.flg
          /\ x1.state = "MAST" /\ x1.ms = x.ms /\ ~x1.flg /\ sent = "take"
       \/ /\ x.state = "MAST" /\ x1.state = "MAST" /\ x1.ms = x.ms
          /\ x1.flg = x.flg /\ sent \in {"none", "take"}

\* The box has gained a packet of the kind sent.
Puts(p, p1, sent) ==
    /\ p1.fail <=> p.fail \/ sent = "fail"
    /\ p1.learn <=> p.learn \/ sent = "learn"
    /\ p1.take <=> p.take \/ sent = "take"

\* The pass of a keeps a on its way.
LEMMA PassA ==
    ASSUME Ample, NEW x, NEW y, NEW p, NEW q, NEW v \in Nat,
           IsView(x), IsView(y), IsBox(p), IsBox(q), MasterComes(x, y, p, q, v),
           NEW x1, IsView(x1), NEW q1, IsBox(q1), NEW sent, PassView(x, x1, sent),
           Puts(q, q1, sent)
    PROVE  MasterComes(x1, y, p, q1, v)
<1>1. MsDown \in Nat /\ AdverInt \in Nat /\ AdverInt >= 1 /\ MsDown >= AdverInt + 3
  BY AmpleDown
<1> QED
  BY <1>1, SMTT(100) DEF MasterComes, Orderly, IsView, IsBox,
     AStarts, ALearns, AIsDown, AIsDownLate, ATransfers, ATransfersLate, AWaits,
     AWarnedEarly, AWarned, ALeadsYet, ALeads, SomePacket, BlindEarly, Leads, Rises,
     Moves, Due, Fresh, LearnLimit, BackLimit, WarnLimit,
     PassView, Puts

\* So does the pass of b: its warning is blind if its master is not a.
LEMMA PassB ==
    ASSUME Ample, NEW x, NEW y, NEW p, NEW q, NEW v \in Nat,
           IsView(x), IsView(y), IsBox(p), IsBox(q), MasterComes(x, y, p, q, v),
           NEW y1, IsView(y1), NEW p1, IsBox(p1), NEW sent, PassView(y, y1, sent),
           Puts(p, p1, sent), p1.blind <=> (p.blind \/ (sent = "fail" /\ ~y.knows))
    PROVE  MasterComes(x, y1, p1, q, v)
<1>1. MsDown \in Nat /\ AdverInt \in Nat /\ AdverInt >= 1 /\ MsDown >= AdverInt + 3
  BY AmpleDown
<1> QED
  BY <1>1, SMTT(100) DEF MasterComes, Orderly, IsView, IsBox,
     AStarts, ALearns, AIsDown, AIsDownLate, ATransfers, ATransfersLate, AWaits,
     AWarnedEarly, AWarned, ALeadsYet, ALeads, SomePacket, BlindEarly, Leads, Rises,
     Moves, Due, Fresh, LearnLimit, BackLimit, WarnLimit,
     PassView, Puts

\* Something of this kind is in the box.
Holds(p, kind) ==
    \/ kind = "fail" /\ p.fail
    \/ kind = "learn" /\ p.learn
    \/ kind = "take" /\ p.take

\* What a makes of a packet of b, and what it sends
HearWorseView(x, x1, kind, blind, sent) ==
    /\ x1.done = x.done /\ x1.tick = x.tick /\ ~x1.flg
    /\ \/ /\ x1.wait = x.wait /\ sent = "none"
          /\ \/ /\ \/ x.state \in {"INIT", "TRANSFER"}
                   \/ x.state = "MAST" /\ kind # "fail"
                /\ x1.state = x.state /\ x1.ms = x.ms
             \/ /\ x.state = "LEARN" /\ kind = "learn" /\ x1.state = "LEARN"
                /\ x1.ms = MsDown
             \/ /\ x.state = "MAST" /\ kind = "fail" /\ ~blind
                /\ x1.state = "DISABLE" /\ x1.ms = x.ms
             \/ /\ x.state = "MAST" /\ kind = "fail" /\ blind
                /\ x1.state = "BACK" /\ x1.ms = MsDown
       \/ /\ x1.state = "TRANSFER" /\ x1.wait /\ sent = "none" /\ kind # "learn"
          /\ \/ x.state = "LEARN" /\ x1.ms = MsDown
             \/ x.state = "DISABLE" /\ x1.ms = x.ms
       \/ /\ \/ x.state = "BACK"
             \/ x.state = "DISABLE" /\ kind = "learn"
          /\ x1.state = "MAST" /\ x1.ms = x.ms /\ x1.wait = x.wait /\ sent = "take"

\* What b makes of a packet of a
HearBetterView(y, y1, kind) ==
    /\ y1.done = y.done /\ y1.tick = y.tick /\ ~y1.flg /\ y1.wait = y.wait
    /\ \/ /\ y.state \in {"INIT", "TRANSFER"} \/ (y.state = "MAST" /\ kind = "learn")
          /\ y1.state = y.state /\ y1.ms = y.ms /\ y1.knows = y.knows
       \/ /\ \/ y.state \in {"LEARN", "BACK", "DISABLE"}
             \/ y.state = "MAST" /\ kind = "take"
          /\ y1.state = "BACK" /\ y1.ms = MsDown /\ y1.knows
       \/ /\ y.state = "MAST" /\ kind = "fail"
          /\ \/ y1.state = "BACK" /\ y1.ms = MsDown /\ y1.knows = y.knows
             \/ y1.state = "DISABLE" /\ y1.ms = y.ms /\ y1.knows

\* The box has lost a packet of this kind; a warning is the only one.
Takes(q, q1, kind) ==
    /\ q1.fail <=> q.fail /\ kind # "fail"
    /\ q1.learn => q.learn
    /\ q1.take => q.take
    /\ kind # "learn" => (q1.learn <=> q.learn)
    /\ kind # "take" => (q1.take <=> q.take)

\* a hears what b sent, of which there is nothing else on its way.
LEMMA HearA ==
    ASSUME Ample, NEW x, NEW y, NEW p, NEW q, NEW v \in Nat,
           IsView(x), IsView(y), IsBox(p), IsBox(q), MasterComes(x, y, p, q, v),
           NEW x1, IsView(x1), NEW p1, IsBox(p1), NEW q1, IsBox(q1),
           NEW sent, NEW kind, Holds(p, kind),
           HearWorseView(x, x1, kind, p.blind, sent),
           ~SomePacket(p1), ~p1.blind, Puts(q, q1, sent)
    PROVE  MasterComes(x1, y, p1, q1, v)
<1>1. MsDown \in Nat /\ AdverInt \in Nat /\ AdverInt >= 1 /\ MsDown >= AdverInt + 3
  BY AmpleDown
<1> QED
  BY <1>1, SMTT(100) DEF MasterComes, Orderly, IsView, IsBox,
     AStarts, ALearns, AIsDown, AIsDownLate, ATransfers, ATransfersLate, AWaits,
     AWarnedEarly, AWarned, ALeadsYet, ALeads, SomePacket, BlindEarly, Leads, Rises,
     Moves, Due, Fresh, LearnLimit, BackLimit, WarnLimit,
     HearWorseView, Puts, Holds

\* b hears a packet of a.
LEMMA HearB ==
    ASSUME Ample, NEW x, NEW y, NEW p, NEW q, NEW v \in Nat,
           IsView(x), IsView(y), IsBox(p), IsBox(q), MasterComes(x, y, p, q, v),
           NEW y1, IsView(y1), NEW q1, IsBox(q1), NEW kind, Holds(q, kind),
           HearBetterView(y, y1, kind), Takes(q, q1, kind)
    PROVE  MasterComes(x, y1, p, q1, v)
<1>1. MsDown \in Nat /\ AdverInt \in Nat /\ AdverInt >= 1 /\ MsDown >= AdverInt + 3
  BY AmpleDown
<1> QED
  BY <1>1, SMTT(100) DEF MasterComes, Orderly, IsView, IsBox,
     AStarts, ALearns, AIsDown, AIsDownLate, ATransfers, ATransfersLate, AWaits,
     AWarnedEarly, AWarned, ALeadsYet, ALeads, SomePacket, BlindEarly, Leads, Rises,
     Moves, Due, Fresh, LearnLimit, BackLimit, WarnLimit,
     HearBetterView, Takes, Holds

\* A second passes for a node.
TickView(x, x1) ==
    /\ x1.done = x.done /\ x.tick = 0 /\ x1.tick = 1 /\ x1.state = x.state
    /\ x1.flg = x.flg /\ x1.wait = x.wait /\ x1.knows = x.knows
    /\ x1.ms = x.ms - 1 \/ (x.ms = 0 /\ x1.ms = 0)

\* wid and portal have finished the synchronisation.
SyncView(x, x1) ==
    /\ x1.done = x.done /\ x1.tick = x.tick /\ x1.state = x.state
    /\ x1.flg = x.flg /\ x.wait /\ ~x1.wait /\ x1.knows = x.knows
    /\ x1.ms = x.ms

\* Neither time nor wid and portal take a off its way.
LEMMA TimeA ==
    ASSUME Ample, NEW x, NEW y, NEW p, NEW q, NEW v \in Nat,
           IsView(x), IsView(y), IsBox(p), IsBox(q), MasterComes(x, y, p, q, v),
           NEW x1, IsView(x1), TickView(x, x1) \/ SyncView(x, x1)
    PROVE  MasterComes(x1, y, p, q, v)
<1>1. MsDown \in Nat /\ AdverInt \in Nat /\ AdverInt >= 1 /\ MsDown >= AdverInt + 3
  BY AmpleDown
<1> QED
  BY <1>1, SMTT(100) DEF MasterComes, Orderly, IsView, IsBox,
     AStarts, ALearns, AIsDown, AIsDownLate, ATransfers, ATransfersLate, AWaits,
     AWarnedEarly, AWarned, ALeadsYet, ALeads, SomePacket, BlindEarly, Leads, Rises,
     Moves, Due, Fresh, LearnLimit, BackLimit, WarnLimit,
     TickView, SyncView

\* The same for b
LEMMA TimeB ==
    ASSUME Ample, NEW x, NEW y, NEW p, NEW q, NEW v \in Nat,
           IsView(x), IsView(y), IsBox(p), IsBox(q), MasterComes(x, y, p, q, v),
           NEW y1, IsView(y1), TickView(y, y1) \/ SyncView(y, y1)
    PROVE  MasterComes(x, y1, p, q, v)
<1>1. MsDown \in Nat /\ AdverInt \in Nat /\ AdverInt >= 1 /\ MsDown >= AdverInt + 3
  BY AmpleDown
<1> QED
  BY <1>1, SMTT(100) DEF MasterComes, Orderly, IsView, IsBox,
     AStarts, ALearns, AIsDown, AIsDownLate, ATransfers, ATransfersLate, AWaits,
     AWarnedEarly, AWarned, ALeadsYet, ALeads, SomePacket, BlindEarly, Leads, Rises,
     Moves, Due, Fresh, LearnLimit, BackLimit, WarnLimit,
     TickView, SyncView

\* A round ends without a master.  It counts unless a takeover waits.
LEMMA RoundAB ==
    ASSUME Ample, NEW x, NEW y, NEW p, NEW q, NEW v \in Nat,
           IsView(x), IsView(y), IsBox(p), IsBox(q), MasterComes(x, y, p, q, v),
           ~SomePacket(p), ~SomePacket(q), x.done = 1, y.done = 1, x.tick = 1,
           y.tick = 1,
           x.state # "MAST", y.state # "MAST",
           NEW x1, IsView(x1), SameView(x, x1), x1.done = 0, x1.tick = 0,
           NEW y1, IsView(y1), SameView(y, y1), y1.done = 0, y1.tick = 0,
           NEW v1 \in Nat,
           \/ v1 = v
           \/ /\ v1 = v + 1
              /\ ~(x.state = "TRANSFER" /\ x.wait)
              /\ ~(y.state = "TRANSFER" /\ y.wait)
    PROVE  MasterComes(x1, y1, p, q, v1)
<1>1. MsDown \in Nat /\ AdverInt \in Nat /\ AdverInt >= 1 /\ MsDown >= AdverInt + 3
  BY AmpleDown
<1> QED
  BY <1>1, SMTT(100) DEF MasterComes, Orderly, IsView, IsBox,
     AStarts, ALearns, AIsDown, AIsDownLate, ATransfers, ATransfersLate, AWaits,
     AWarnedEarly, AWarned, ALeadsYet, ALeads, SomePacket, BlindEarly, Leads, Rises,
     Moves, Due, Fresh, LearnLimit, BackLimit, WarnLimit,
     SameView

\* The first round that ends without a master: every packet has arrived, so
\* the nodes may be in any roles and with any timers.
LEMMA FirstRound ==
    ASSUME Ample, NEW x, NEW y, NEW p, NEW q,
           IsView(x), IsView(y), IsBox(p), IsBox(q), ~SomePacket(p),
           ~SomePacket(q), ~p.blind,
           x.done = 0, y.done = 0, x.tick = 0, y.tick = 0,
           x.state # "MAST", y.state # "MAST",
           ~(x.state = "TRANSFER" /\ x.wait), ~(y.state = "TRANSFER" /\ y.wait)
    PROVE  MasterComes(x, y, p, q, 1)
<1>1. MsDown \in Nat /\ AdverInt \in Nat /\ AdverInt >= 1 /\ MsDown >= AdverInt + 3
  BY AmpleDown
<1> QED
  BY <1>1, SMTT(100) DEF MasterComes, Orderly, IsView, IsBox,
     AStarts, ALearns, AIsDown, AIsDownLate, ATransfers, ATransfersLate, AWaits,
     AWarnedEarly, AWarned, ALeadsYet, ALeads, SomePacket, BlindEarly, Leads, Rises,
     Moves, Due, Fresh, LearnLimit, BackLimit, WarnLimit,
     State

-----------------------------------------------------------------------------
(***************************************************************************)
(* The views of the records and the boxes of the packets.                  *)
(***************************************************************************)
\* What matters of a record s of a node that has (d = 1) or has not (d = 0)
\* had its pass, and likewise (t) its tick
View(s, d, t, l, a) ==
    [state |-> s.state, ms |-> s.ms[l], flg |-> s.flg, wait |-> s.wid \/ s.portal,
     knows |-> s.master[l] = a, done |-> d, tick |-> t]

\* A warning, an advertisement sent in LEARN, any other advertisement
Kind(m) == IF m.auth = "FAIL" THEN "fail"
           ELSE IF m.st = "LEARN" THEN "learn" ELSE "take"

\* A packet of this kind is on its way to n; a warning that names another master
Bound(N, n, kind) == \E k \in N : k[1] = n /\ Kind(k[2]) = kind
Misled(N, n) == \E k \in N : k[1] = n /\ Kind(k[2]) = "fail" /\ k[2].old # n

\* What matters of the packets of N to n
Box(N, n) ==
    [fail |-> Bound(N, n, "fail"), blind |-> Misled(N, n),
     learn |-> Bound(N, n, "learn"), take |-> Bound(N, n, "take")]

\* The fields of a view
LEMMA ViewFields ==
    ASSUME NEW s, NEW d, NEW t, NEW l, NEW a
    PROVE  LET x == View(s, d, t, l, a)
           IN  /\ x.state = s.state /\ x.ms = s.ms[l] /\ x.flg = s.flg
               /\ x.wait <=> s.wid \/ s.portal
               /\ x.knows <=> s.master[l] = a
               /\ x.wait \in BOOLEAN /\ x.knows \in BOOLEAN
               /\ x.done = d /\ x.tick = t
<1> DEFINE w == s.wid \/ s.portal
           k == s.master[l] = a
           x == View(s, d, t, l, a)
<1>1. w \in BOOLEAN /\ k \in BOOLEAN
  OBVIOUS
<1>2. x = [state |-> s.state, ms |-> s.ms[l], flg |-> s.flg, wait |-> w,
           knows |-> k, done |-> d, tick |-> t]
  BY DEF View
<1> HIDE DEF w, k, x
<1>3. /\ x.state = s.state /\ x.ms = s.ms[l] /\ x.flg = s.flg /\ x.wait = w
      /\ x.knows = k /\ x.done = d /\ x.tick = t
  BY <1>2, Zenon
<1>4. (x.wait <=> w) /\ (x.knows <=> k) /\ x.wait \in BOOLEAN /\ x.knows \in BOOLEAN
  BY <1>1, <1>3, Zenon
<1> QED
  BY <1>3, <1>4, Zenon DEF w, k, x

\* The fields of a box
LEMMA BoxFields ==
    ASSUME NEW N, NEW n
    PROVE  LET p == Box(N, n)
           IN  /\ IsBox(p)
               /\ p.fail <=> Bound(N, n, "fail")
               /\ p.blind <=> Misled(N, n)
               /\ p.learn <=> Bound(N, n, "learn")
               /\ p.take <=> Bound(N, n, "take")
<1> DEFINE p == Box(N, n)
<1>1. /\ Bound(N, n, "fail") \in BOOLEAN /\ Misled(N, n) \in BOOLEAN
      /\ Bound(N, n, "learn") \in BOOLEAN /\ Bound(N, n, "take") \in BOOLEAN
  BY DEF Bound, Misled
<1>2. /\ p.fail = Bound(N, n, "fail") /\ p.blind = Misled(N, n)
      /\ p.learn = Bound(N, n, "learn") /\ p.take = Bound(N, n, "take")
  BY Zenon DEF Box
<1> HIDE DEF p
<1>3. /\ IsBox(p) /\ (p.fail <=> Bound(N, n, "fail")) /\ (p.blind <=> Misled(N, n))
      /\ (p.learn <=> Bound(N, n, "learn")) /\ (p.take <=> Bound(N, n, "take"))
  BY <1>1, <1>2, Zenon DEF IsBox
<1> QED
  BY <1>3, Zenon DEF p

\* A record with its timers within their delays has a proper view.
LEMMA ViewIs ==
    ASSUME NEW s \in NodeState, Timed(s), NEW l, Link = {l}, NEW a,
           NEW d \in 0..1, NEW t \in 0..1
    PROVE  IsView(View(s, d, t, l, a))
<1>1. /\ s.state \in State /\ s.ms[l] \in Nat /\ s.ms[l] <= MsDown + 1
      /\ s.flg \in BOOLEAN
      /\ s.state \in {"LEARN", "BACK"} => s.ms[l] <= MsDown
  <2>1. /\ s.state \in State /\ s.ms \in [Link -> Nat] /\ s.flg \in BOOLEAN
    BY SMT DEF NodeState
  <2>2. s.ms[l] \in Nat
    BY <2>1, SMT
  <2> QED
    BY <2>1, <2>2, Zenon DEF Timed
<1> DEFINE x == View(s, d, t, l, a)
<1>2. /\ x.state = s.state /\ x.ms = s.ms[l] /\ x.flg = s.flg
      /\ x.wait \in BOOLEAN /\ x.knows \in BOOLEAN /\ x.done = d /\ x.tick = t
  BY ViewFields
<1> HIDE DEF x
<1>3. IsView(x)
  BY <1>1, <1>2, Zenon DEF IsView
<1> QED
  BY <1>3 DEF x

\* One more packet to o
Plus(N, o, m) == N \cup {<<o, m>>}

\* The box of o has gained what was sent, a warning naming the master old.
Gains(n, o, N, N1, sent, old) ==
    /\ Puts(Box(N, o), Box(N1, o), sent)
    /\ (Box(N1, o).blind <=> (Box(N, o).blind \/ (sent = "fail" /\ old # o)))
    /\ Box(N1, n) = Box(N, n)

\* One more packet, to o
LEMMA BoxPut ==
    ASSUME NEW N, NEW o, NEW n, n # o, NEW m
    PROVE  Gains(n, o, N, Plus(N, o, m), Kind(m), m.old)
<1> DEFINE j == <<o, m>>
           N1 == Plus(N, o, m)
<1>1. j[1] = o /\ j[2] = m /\ N1 = N \cup {j}
  BY DEF Plus
<1> HIDE DEF j, N1
<1>2. \A K : Bound(N1, o, K) <=> Bound(N, o, K) \/ Kind(m) = K
  BY <1>1, Zenon DEF Bound
<1>3. Misled(N1, o) <=> Misled(N, o) \/ (Kind(m) = "fail" /\ m.old # o)
  BY <1>1, Zenon DEF Misled
<1>4. \A K : Bound(N1, n, K) <=> Bound(N, n, K)
  BY <1>1, Zenon DEF Bound
<1>5. Misled(N1, n) <=> Misled(N, n)
  BY <1>1, Zenon DEF Misled
<1>6. Box(N1, n) = Box(N, n)
  <2>1. /\ \A K : Bound(N1, n, K) = Bound(N, n, K)
        /\ Misled(N1, n) = Misled(N, n)
    BY <1>4, <1>5, Zenon DEF Bound, Misled
  <2> QED
    BY <2>1, Zenon DEF Box
<1>7. Puts(Box(N, o), Box(N1, o), Kind(m))
  BY <1>2, BoxFields DEF Puts
<1>8. Box(N1, o).blind <=> (Box(N, o).blind \/ (Kind(m) = "fail" /\ m.old # o))
  BY <1>3, BoxFields
<1> QED
  BY <1>6, <1>7, <1>8, Zenon DEF N1, Gains

\* The box of o has lost a packet of this kind.
Loses(n, o, N, N1, kind) ==
    /\ Holds(Box(N, o), kind)
    /\ Takes(Box(N, o), Box(N1, o), kind)
    /\ Box(N1, n) = Box(N, n)

\* One packet less, to o
LEMMA BoxTake ==
    ASSUME NEW N, NEW o, NEW n, n # o, NEW j \in N, j[1] = o,
           Kind(j[2]) = "fail" =>
               \A k \in N : k[1] = o /\ Kind(k[2]) = "fail" => k = j
    PROVE  Loses(n, o, N, N \ {j}, Kind(j[2]))
<1> DEFINE N1 == N \ {j}
<1>1. Bound(N, o, Kind(j[2])) /\ Kind(j[2]) \in {"fail", "learn", "take"}
  BY Zenon DEF Kind, Bound
<1>2. \A K : Bound(N1, o, K) => Bound(N, o, K)
  BY DEF Bound
<1>3. \A K : K # Kind(j[2]) => (Bound(N, o, K) <=> Bound(N1, o, K))
  BY Zenon DEF Bound
<1>4. Kind(j[2]) = "fail" => ~Bound(N1, o, "fail")
  BY Zenon DEF Bound
<1>5. Holds(Box(N, o), Kind(j[2]))
  BY <1>1, BoxFields DEF Holds
<1>6. Takes(Box(N, o), Box(N1, o), Kind(j[2]))
  BY <1>2, <1>3, <1>4, BoxFields DEF Takes
<1>7. Box(N1, n) = Box(N, n)
  <2>1. \A k : k[1] = n => (k \in N1 <=> k \in N)
    BY Zenon
  <2>2. /\ \A K : Bound(N1, n, K) = Bound(N, n, K)
        /\ Misled(N1, n) = Misled(N, n)
    BY <2>1, Zenon DEF Bound, Misled
  <2> QED
    BY <2>2, Zenon DEF Box
<1> QED
  BY <1>5, <1>6, <1>7 DEF Loses

\* The timers of every node are within their delays.
AllTimed == \A n \in Node : Timed(node[n])

\* A step of one node that keeps its own timers so
LEMMA BecomeTimed ==
    ASSUME NodesGood, AllTimed, NEW n \in Node, NEW r \in NodeState, Timed(r),
           NEW left, Become(n, r, left)
    PROVE  AllTimed'
<1> DEFINE e == [r EXCEPT !.out = {}]
<1>1. node' = [node EXCEPT ![n] = e]
  BY DEF Become
<1>2. Timed(e)
  BY TimedSmall
<1> HIDE DEF e
<1>3. \A k \in Node : node'[k] = IF k = n THEN e ELSE node[k]
  BY <1>1, Zenon DEF NodesGood
<1> QED
  BY <1>2, <1>3, Zenon DEF AllTimed

\* Every step of the cluster keeps every timer within its delay.
LEMMA TimedStep ==
    ASSUME ClusterInv, AllTimed, [Next]_vars
    PROVE  AllTimed'
<1>1. /\ NodesGood
      /\ \A n \in Node : node[n] \in NodeState /\ Good(node[n]) /\ Timed(node[n])
  BY DEF ClusterInv, NodesGood, Good, AllTimed
<1>2. CASE UNCHANGED node
  BY <1>2 DEF AllTimed
<1>3. ASSUME NEW n \in Node, Loop(n) PROVE AllTimed'
  <2>1. state_loop(n, node[n]) \in NodeState /\ Timed(state_loop(n, node[n]))
    BY <1>1, StateLoop, TimedLoop DEF Own, Good
  <2> QED
    BY <1>1, <1>3, <2>1, BecomeTimed DEF Loop
<1>4. ASSUME NEW n \in Node, Tick(n) PROVE AllTimed'
  <2>1. /\ timer_tick(node[n], {}, {}) \in NodeState
        /\ Timed(timer_tick(node[n], {}, {}))
    BY <1>1, TickStep, TimedTick DEF Good
  <2> QED
    BY <1>1, <1>4, <2>1, BecomeTimed DEF Tick
<1>5. ASSUME NEW n \in Node, Synchronised(n) PROVE AllTimed'
  <2>1. PICK v \in BOOLEAN : TRUE
    OBVIOUS
  <2>2. no_transfer(node[n]) \in NodeState /\ Timed(no_transfer(node[n]))
    BY <1>1, <2>1, FlagSteps, TimedSmall DEF Own, Good
  <2> QED
    BY <1>1, <1>5, <2>2, BecomeTimed DEF Synchronised
<1>6. ASSUME NEW n \in Node, ServiceEnable(n) PROVE AllTimed'
  <2>1. service_enable(node[n]) \in NodeState /\ Timed(service_enable(node[n]))
    BY <1>1, ServiceEnableStep, TimedSmall DEF Own, Good
  <2> QED
    BY <1>1, <1>6, <2>1, BecomeTimed DEF ServiceEnable
<1>7. ASSUME NEW p \in net, Deliver(p) PROVE AllTimed'
  <2> DEFINE n == p[1]
             r == IF Hears(node[n], p[2]) THEN updata(n, node[n], p[2]) ELSE node[n]
  <2>1. n \in Node /\ p[2] \in Packet
    BY <1>1, NetLeft
  <2>2. r \in NodeState
    BY <1>1, <2>1, UpdataGood DEF Good
  <2>3. Timed(r)
    BY <1>1, <2>1, TimedUpdata
  <2>4. Become(n, r, net \ {p})
    BY <1>7 DEF Deliver
  <2> HIDE DEF n, r
  <2> QED
    BY <1>1, <2>1, <2>2, <2>3, <2>4, BecomeTimed
<1>8. ASSUME NEW n \in Node, HeartbeatChange(n) PROVE AllTimed'
  <2> DEFINE s == node[n]
             r == [s EXCEPT !.ht = ~@]
  <2>1. s \in NodeState /\ Timed(s)
    BY <1>1
  <2>2. Become(n, r, net)
    BY <1>8 DEF HeartbeatChange
  <2> HIDE DEF s
  <2>3. (~s.ht) \in BOOLEAN
    OBVIOUS
  <2>4. r \in NodeState
    BY <2>1, <2>3, Zenon DEF NodeState
  <2>5. Timed(r)
    BY <2>1, TimedSmall, Zenon
  <2> HIDE DEF r
  <2> QED
    BY <1>1, <2>2, <2>4, <2>5, BecomeTimed
<1>9. ASSUME NEW n \in Node, NEW l \in Link, LinkChange(n, l) PROVE AllTimed'
  <2> DEFINE r == [node[n] EXCEPT !.link[l] = ~@]
  <2>1. r \in NodeState /\ Timed(r)
    BY <1>1, LinkSteps, TimedSmall DEF Own, Good
  <2>2. Become(n, r, net)
    BY <1>9 DEF LinkChange
  <2> HIDE DEF r
  <2> QED
    BY <1>1, <2>1, <2>2, BecomeTimed
<1>10. ASSUME NEW n \in Node, ServiceDisable(n) \/ SwitchMaster(n) \/ SwitchBack(n)
       PROVE  AllTimed'
  <2>1. /\ service_disable(n, node[n]) \in NodeState
        /\ Timed(service_disable(n, node[n]))
        /\ state_change_master(n, node[n]) \in NodeState
        /\ Timed(state_change_master(n, node[n]))
        /\ state_change_back(n, node[n]) \in NodeState
        /\ Timed(state_change_back(n, node[n]))
    BY <1>1, ServiceDisableStep, SwitchMasterStep, SwitchBackStep, TimedOperator
       DEF Own, Good
  <2> QED
    BY <1>1, <1>10, <2>1, BecomeTimed DEF ServiceDisable, SwitchMaster, SwitchBack
<1>11. ASSUME NEW n \in Node, Reboot(n) PROVE AllTimed'
  <2>1. InitNode \in NodeState /\ Timed(InitNode)
    BY <1>1, InitNodeGood, TimedSmall DEF Good
  <2> QED
    BY <1>1, <1>11, <2>1, BecomeTimed DEF Reboot
<1>12. (\E p \in net : Lose(p)) \/ CutChange \/ EndRound \/ UNCHANGED vars
          => UNCHANGED node
  BY DEF Lose, CutChange, EndRound, vars
<1> QED
  BY <1>2, <1>3, <1>4, <1>5, <1>6, <1>7, <1>8, <1>9, <1>10, <1>11, <1>12,
     Zenon DEF Next

\* e is r with its packets sent.
Shows(r, e) ==
    /\ e.state = r.state /\ e.ms = r.ms /\ e.flg = r.flg /\ e.wid = r.wid
    /\ e.portal = r.portal /\ e.master = r.master

\* After Become the record of n shows r, and what it sent is on its way to o.
LEMMA BecomeShows ==
    ASSUME NodesGood, NEW n \in Node, NEW o \in Node, n # o, Node = {n, o},
           NEW r \in NodeState, NEW left, Become(n, r, left), ~cut
    PROVE  /\ Shows(r, node'[n]) /\ node'[o] = node[o]
           /\ r.out = {} => net' = left
           /\ \A m : r.out = {m} => net' = left \cup {<<o, m>>}
<1> DEFINE e == [r EXCEPT !.out = {}]
           sent == {p \in (Node \ {n}) \X r.out : p[2].auth = "PASS" => ~cut}
<1>1. node' = [node EXCEPT ![n] = e] /\ net' = left \cup sent
  BY DEF Become
<1>2. Shows(r, e)
  BY Zenon DEF Shows, NodeState
<1>3. sent = {o} \X r.out
  BY SMT
<1> HIDE DEF e, sent
<1>4. node'[n] = e /\ node'[o] = node[o]
  BY <1>1, Zenon DEF NodesGood
<1>5. r.out = {} => sent = {}
  BY <1>3
<1>6. \A m : r.out = {m} => sent = {<<o, m>>}
  BY <1>3
<1> QED
  BY <1>1, <1>2, <1>4, <1>5, <1>6, Zenon

\* What a node sent in one step: nothing, or one packet of this kind, sent in
\* state st
Mailed(n, out, sent, st, old) ==
    \/ sent = "none" /\ out = {}
    \/ \E m \in Packet :
          /\ out = {m} /\ m.from = n /\ m.prio = Prio[n] /\ Kind(m) = sent
          /\ m.st = st
          /\ m.auth = "FAIL" => st = "BACK"
          /\ sent = "fail" => m.old = old

\* The packets of a pass, of a takeover and of a warning, as kinds
LEMMA MailedOne ==
    ASSUME NEW n, NEW out, NEW st, NEW old
    PROVE  /\ One(out, n, "PASS", "LEARN", NoNode)
                 => Mailed(n, out, "learn", "LEARN", old)
           /\ One(out, n, "PASS", st, NoNode) /\ st # "LEARN"
                 => Mailed(n, out, "take", st, old)
           /\ One(out, n, "FAIL", "BACK", old)
                 => Mailed(n, out, "fail", "BACK", old)
BY Zenon DEF One, Mailed, Kind

\* The pass of a node, as its views show it
LEMMA PassSeen ==
    ASSUME NEW n, NEW l, Link = {l}, NEW s \in NodeState, NEW r, Passed(n, l, s, r),
           NEW e, Shows(r, e), NEW t, NEW a \in Node
    PROVE  \E sent : /\ PassView(View(s, 0, t, l, a), View(e, 1, t, l, a), sent)
                     /\ Mailed(n, r.out, sent, s.state, s.master[l])
<1> DEFINE x == View(s, 0, t, l, a)
           x1 == View(e, 1, t, l, a)
<1>1. /\ x.state = s.state /\ x.ms = s.ms[l] /\ x.flg = s.flg
      /\ x.wait <=> s.wid \/ s.portal
      /\ x.knows <=> s.master[l] = a
      /\ x.wait \in BOOLEAN /\ x.knows \in BOOLEAN
      /\ x.done = 0 /\ x.tick = t
  BY ViewFields
<1>2. /\ x1.state = e.state /\ x1.ms = e.ms[l] /\ x1.flg = e.flg
      /\ x1.wait <=> e.wid \/ e.portal
      /\ x1.knows <=> e.master[l] = a
      /\ x1.wait \in BOOLEAN /\ x1.knows \in BOOLEAN
      /\ x1.done = 1 /\ x1.tick = t
  BY ViewFields
<1> HIDE DEF x, x1
<1>3. AllLinks(NoNode)[l] # a
  BY NodeAssumption DEF AllLinks
<1>4. x1.wait = x.wait
  BY <1>1, <1>2, Zenon DEF Shows, Passed
<1>5. /\ x1.state = r.state /\ x1.ms = r.ms[l] /\ x1.flg = r.flg
      /\ x1.knows <=> r.master[l] = a
  BY <1>2, Zenon DEF Shows
<1>6. s.flg \in BOOLEAN
  BY SMT DEF NodeState
<1>7. CASE s.state = "INIT" /\ r.state = "LEARN" /\ r.ms[l] = MsDown
           /\ r.flg = s.flg /\ r.master = s.master /\ r.out = {}
  <2>1. PassView(x, x1, "none") /\ Mailed(n, r.out, "none", s.state, s.master[l])
    BY <1>1, <1>2, <1>4, <1>5, <1>7, Zenon DEF PassView, Mailed
  <2> QED
    BY <2>1 DEF x, x1
<1>8. CASE /\ s.state \in {"LEARN", "DISABLE", "TRANSFER"} /\ r.state = "MAST"
           /\ s.state # "TRANSFER" => s.ms[l] = 0
           /\ r.ms = s.ms /\ r.flg = s.flg /\ r.master = AllLinks(NoNode)
           /\ One(r.out, n, "PASS", s.state, NoNode)
  <2>1. CASE s.state = "LEARN"
    <3>1. /\ PassView(x, x1, "learn")
          /\ Mailed(n, r.out, "learn", s.state, s.master[l])
      BY <1>1, <1>2, <1>3, <1>4, <1>5, <1>8, <2>1, MailedOne, Zenon DEF PassView
    <3> QED
      BY <3>1 DEF x, x1
  <2>2. CASE s.state # "LEARN"
    <3>1. PassView(x, x1, "take") /\ Mailed(n, r.out, "take", s.state, s.master[l])
      BY <1>1, <1>2, <1>3, <1>4, <1>5, <1>8, <2>2, MailedOne, Zenon DEF PassView
    <3> QED
      BY <3>1 DEF x, x1
  <2> QED
    BY <2>1, <2>2
<1>9. CASE /\ s.state = "LEARN" /\ s.ms[l] > 0 /\ r.state = s.state /\ r.ms = s.ms
           /\ r.flg = s.flg /\ r.master = s.master
           /\ One(r.out, n, "PASS", s.state, NoNode)
  <2>1. PassView(x, x1, "learn") /\ Mailed(n, r.out, "learn", s.state, s.master[l])
    BY <1>1, <1>2, <1>4, <1>5, <1>9, MailedOne, Zenon DEF PassView
  <2> QED
    BY <2>1 DEF x, x1
<1>10. CASE /\ \/ s.state \in {"BACK", "DISABLE"} /\ s.ms[l] > 0
               \/ s.state = "TRANSFER" /\ (s.wid \/ s.portal)
            /\ r.state = s.state /\ r.ms = s.ms
            /\ r.flg = s.flg /\ r.master = s.master /\ r.out = {}
  <2>1. PassView(x, x1, "none") /\ Mailed(n, r.out, "none", s.state, s.master[l])
    BY <1>1, <1>2, <1>4, <1>5, <1>10, Zenon DEF PassView, Mailed
  <2> QED
    BY <2>1 DEF x, x1
<1>11. CASE /\ s.state = "BACK" /\ s.ms[l] = 0 /\ ~s.flg
            /\ r.state = "BACK" /\ r.ms[l] = AdverInt
            /\ r.flg = TRUE /\ r.master = s.master
            /\ One(r.out, n, "FAIL", s.state, s.master[l])
  <2>1. PassView(x, x1, "fail") /\ Mailed(n, r.out, "fail", s.state, s.master[l])
    BY <1>1, <1>2, <1>4, <1>5, <1>11, MailedOne, Zenon DEF PassView
  <2> QED
    BY <2>1 DEF x, x1
<1>12. CASE /\ s.state = "BACK" /\ s.ms[l] = 0 /\ s.flg
            /\ r.state = "MAST" /\ r.ms = s.ms
            /\ r.flg = FALSE /\ r.master = AllLinks(NoNode)
            /\ One(r.out, n, "PASS", s.state, NoNode)
  <2>1. PassView(x, x1, "take") /\ Mailed(n, r.out, "take", s.state, s.master[l])
    BY <1>1, <1>2, <1>3, <1>4, <1>5, <1>12, MailedOne, Zenon DEF PassView
  <2> QED
    BY <2>1 DEF x, x1
<1>13. CASE /\ s.state = "MAST" /\ r.state = "MAST" /\ r.ms = s.ms
            /\ r.flg = s.flg /\ r.master = s.master
            /\ r.out = {} \/ One(r.out, n, "PASS", s.state, NoNode)
  <2>1. CASE r.out = {}
    <3>1. PassView(x, x1, "none") /\ Mailed(n, r.out, "none", s.state, s.master[l])
      BY <1>1, <1>2, <1>4, <1>5, <1>13, <2>1, Zenon DEF PassView, Mailed
    <3> QED
      BY <3>1 DEF x, x1
  <2>2. CASE One(r.out, n, "PASS", s.state, NoNode)
    <3>1. PassView(x, x1, "take") /\ Mailed(n, r.out, "take", s.state, s.master[l])
      BY <1>1, <1>2, <1>4, <1>5, <1>13, <2>2, MailedOne, Zenon DEF PassView
    <3> QED
      BY <3>1 DEF x, x1
  <2> QED
    BY <1>13, <2>1, <2>2
<1> QED
  BY <1>7, <1>8, <1>9, <1>10, <1>11, <1>12, <1>13, Zenon DEF Passed

\* What a makes of a packet of b, as its views show it
LEMMA HearWorseSeen ==
    ASSUME NEW n, NEW l, NEW s \in NodeState, NEW m \in Packet, NEW r,
           HeardWorse(n, l, s, m, r), m.auth = "FAIL" => m.st = "BACK",
           NEW e, Shows(r, e), NEW d, NEW t, NEW a
    PROVE  \E sent : /\ HearWorseView(View(s, d, t, l, a), View(e, d, t, l, a), Kind(m),
                                      m.old # n, sent)
                     /\ Mailed(n, r.out, sent, s.state, s.master[l])
                     /\ sent \in {"none", "take"}
<1> DEFINE x == View(s, d, t, l, a)
           x1 == View(e, d, t, l, a)
<1>1. /\ x.state = s.state /\ x.ms = s.ms[l] /\ x.flg = s.flg
      /\ x.wait <=> s.wid \/ s.portal
      /\ x.wait \in BOOLEAN
      /\ x.done = d /\ x.tick = t
  BY ViewFields
<1>2. /\ x1.state = e.state /\ x1.ms = e.ms[l] /\ x1.flg = e.flg
      /\ x1.wait <=> e.wid \/ e.portal
      /\ x1.wait \in BOOLEAN
      /\ x1.done = d /\ x1.tick = t
  BY ViewFields
<1> HIDE DEF x, x1
<1>3. /\ x1.state = r.state /\ x1.ms = r.ms[l] /\ x1.flg = r.flg
      /\ x1.wait <=> r.wid \/ r.portal
  BY <1>2, Zenon DEF Shows
<1>4. m.auth \in {"PASS", "FAIL"}
  BY SMT DEF Packet
<1>5. /\ Kind(m) = "fail" <=> m.auth = "FAIL"
      /\ Kind(m) = "learn" <=> m.st = "LEARN"
  BY <1>4, Zenon DEF Kind
<1>6. x1.done = x.done /\ x1.tick = x.tick /\ ~x1.flg
  BY <1>1, <1>2, <1>3, Zenon DEF HeardWorse
<1>7. CASE r.wid = s.wid /\ r.portal = s.portal /\ r.out = {}
  <2>1. x1.wait = x.wait
    BY <1>1, <1>2, <1>3, <1>7, Zenon
  <2>2. s.state = "BACK" \/ (s.state = "DISABLE" /\ m.st = "LEARN") => r.state # "MAST"
    BY <1>7, Zenon DEF HeardWorse, One
  <2>3. HearWorseView(x, x1, Kind(m), m.old # n, "none")
    BY <1>1, <1>3, <1>5, <1>6, <1>7, <2>1, <2>2, Zenon DEF HeardWorse, HearWorseView
  <2>4. Mailed(n, r.out, "none", s.state, s.master[l])
    BY <1>7 DEF Mailed
  <2> QED
    BY <2>3, <2>4 DEF x, x1
<1>8. CASE /\ r.state = "TRANSFER" /\ r.wid /\ r.portal /\ r.out = {}
           /\ m.st # "LEARN"
           /\ \/ s.state = "LEARN" /\ r.ms[l] = MsDown
              \/ s.state = "DISABLE" /\ r.ms = s.ms
  <2>1. HearWorseView(x, x1, Kind(m), m.old # n, "none")
    BY <1>1, <1>3, <1>5, <1>6, <1>8, Zenon DEF HearWorseView
  <2>2. Mailed(n, r.out, "none", s.state, s.master[l])
    BY <1>8 DEF Mailed
  <2> QED
    BY <2>1, <2>2 DEF x, x1
<1>9. CASE /\ s.state = "BACK" \/ (s.state = "DISABLE" /\ m.st = "LEARN")
           /\ r.state = "MAST" /\ r.ms = s.ms /\ r.wid = s.wid
           /\ r.portal = s.portal
           /\ One(r.out, n, "PASS", s.state, NoNode)
  <2>1. x1.wait = x.wait
    BY <1>1, <1>2, <1>3, <1>9, Zenon
  <2>2. HearWorseView(x, x1, Kind(m), m.old # n, "take")
    BY <1>1, <1>3, <1>5, <1>6, <1>9, <2>1, Zenon DEF HearWorseView
  <2>3. Mailed(n, r.out, "take", s.state, s.master[l])
    BY <1>9, MailedOne, Zenon
  <2> QED
    BY <2>2, <2>3 DEF x, x1
<1> QED
  BY <1>7, <1>8, <1>9, Zenon DEF HeardWorse

\* What b makes of a packet of a, as its views show it
LEMMA HearBetterSeen ==
    ASSUME NEW n, NEW l, NEW s \in NodeState, NEW m \in Packet, NEW r,
           HeardBetter(n, l, s, m, r), m.auth = "FAIL" => m.st = "BACK",
           NEW e, Shows(r, e), NEW d, NEW t
    PROVE  HearBetterView(View(s, d, t, l, m.from), View(e, d, t, l, m.from), Kind(m))
<1> DEFINE x == View(s, d, t, l, m.from)
           x1 == View(e, d, t, l, m.from)
<1>1. /\ x.state = s.state /\ x.ms = s.ms[l] /\ x.flg = s.flg
      /\ x.wait <=> s.wid \/ s.portal
      /\ x.knows <=> s.master[l] = m.from
      /\ x.wait \in BOOLEAN /\ x.knows \in BOOLEAN
      /\ x.done = d /\ x.tick = t
  BY ViewFields
<1>2. /\ x1.state = e.state /\ x1.ms = e.ms[l] /\ x1.flg = e.flg
      /\ x1.wait <=> e.wid \/ e.portal
      /\ x1.knows <=> e.master[l] = m.from
      /\ x1.wait \in BOOLEAN /\ x1.knows \in BOOLEAN
      /\ x1.done = d /\ x1.tick = t
  BY ViewFields
<1> HIDE DEF x, x1
<1>3. /\ x1.state = r.state /\ x1.ms = r.ms[l] /\ x1.flg = r.flg
      /\ x1.wait <=> r.wid \/ r.portal
      /\ x1.knows <=> r.master[l] = m.from
  BY <1>2, Zenon DEF Shows
<1>4. m.auth \in {"PASS", "FAIL"}
  BY SMT DEF Packet
<1>5. /\ Kind(m) = "fail" <=> m.auth = "FAIL"
      /\ m.auth = "PASS" /\ m.st # "LEARN" => Kind(m) = "take"
      /\ m.st = "LEARN" => Kind(m) = "learn"
  BY <1>4, Zenon DEF Kind
<1>6. /\ x1.done = x.done /\ x1.tick = x.tick /\ ~x1.flg /\ x1.wait = x.wait
  BY <1>1, <1>2, <1>3, Zenon DEF HeardBetter
<1>7. HearBetterView(x, x1, Kind(m))
  BY <1>1, <1>2, <1>3, <1>4, <1>5, <1>6, Zenon DEF HeardBetter, HearBetterView
<1> QED
  BY <1>7 DEF x, x1

-----------------------------------------------------------------------------
(***************************************************************************)
(* A healthy pair without a master, step by step.                          *)
(***************************************************************************)
\* The hypotheses of the theorem below
Pair(a, b, l) ==
    /\ a \in Node /\ b \in Node /\ a # b /\ Node = {a, b}
    /\ Link = {l} /\ BackDown = {}
    /\ Prio[a] > Prio[b] /\ Preempt[a] /\ Ample

\* The packets of N are the ones that the nodes of a healthy pair send while
\* neither is the master: L are the nodes that have had their pass.
Proper(N, L, a, b) ==
    /\ \A k \in N : /\ k[2].from # k[1] /\ k[2].prio = Prio[k[2].from]
                    /\ k[2].auth = "FAIL" => k[2].st = "BACK"
    /\ \A k \in N : k[1] = a => /\ k[2].st # "MAST" /\ b \in L
                                /\ \A j \in N : j[1] = a => j = k
    /\ \A k \in N : k[1] = b /\ Kind(k[2]) = "fail" =>
                       /\ a \in L
                       /\ \A j \in N : j[1] = b /\ Kind(j[2]) = "fail" => j = k

\* 1 if n has had its pass (or tick), 0 if not
Bit(n, S) == IF n \in S THEN 1 ELSE 0

\* A healthy pair without a master, on its way to one
Recovering(a, b, l) ==
    /\ Healthy
    /\ Proper(net, looped, a, b)
    /\ MasterComes(View(node[a], Bit(a, looped), Bit(a, ticked), l, a),
         View(node[b], Bit(b, looped), Bit(b, ticked), l, a),
         Box(net, a), Box(net, b), vacant)

\* The inductive invariant of the theorem below
VacancyInv(a, b, l) == vacant >= 1 => Recovering(a, b, l)

\* What the lemmas below need of the types
LEMMA PairTypes ==
    ASSUME ClusterInv, AllTimed, NEW a, NEW b, NEW l, Pair(a, b, l)
    PROVE  /\ vacant \in Nat /\ NodesGood
           /\ \A n \in Node : /\ node[n] \in NodeState /\ Good(node[n])
                              /\ node[n].out = {} /\ Timed(node[n])
           /\ \A n \in Node, d \in 0..1, t \in 0..1 : IsView(View(node[n], d, t, l, a))
<1>1. NodesGood /\ vacant \in 0..VacancyLimit + 1
  BY DEF ClusterInv, TypeOK
<1>2. vacant \in Nat
  BY <1>1, LimitType, SMT
<1>3. \A n \in Node : /\ node[n] \in NodeState /\ Good(node[n])
                      /\ node[n].out = {} /\ Timed(node[n])
  BY <1>1 DEF NodesGood, Good, AllTimed
<1>4. Link = {l}
  BY DEF Pair
<1> QED
  BY <1>1, <1>2, <1>3, <1>4, ViewIs

\* A bit is 0 or 1.
LEMMA BitType == \A n, S : Bit(n, S) \in 0..1
BY DEF Bit

\* What n mails in its step is in the box of o, and nothing else is new.
Posts(n, o, N, N1, sent, st, old) ==
    /\ Gains(n, o, N, N1, sent, old)
    /\ N \subseteq N1
    /\ \A k \in N1 \ N : /\ k[1] = o /\ k[2].from = n /\ k[2].prio = Prio[n]
                         /\ k[2].st = st /\ Kind(k[2]) = sent
                         /\ k[2].auth = "FAIL" => st = "BACK"
    /\ \A k, j \in N1 \ N : k = j

\* What a step mails is posted to the other node.
LEMMA Posted ==
    ASSUME NEW n, NEW o, n # o, NEW out, NEW sent, NEW st, NEW old,
           Mailed(n, out, sent, st, old), NEW N, NEW N1,
           out = {} => N1 = N, \A m : out = {m} => N1 = N \cup {<<o, m>>}
    PROVE  Posts(n, o, N, N1, sent, st, old)
<1>1. CASE sent = "none" /\ out = {}
  <2>1. N1 = N
    BY <1>1
  <2>2. Gains(n, o, N, N, sent, old)
    BY <1>1, BoxFields DEF Gains, Puts, IsBox
  <2> QED
    BY <1>1, <2>1, <2>2 DEF Posts
<1>2. ASSUME NEW m \in Packet, out = {m}, m.from = n, m.prio = Prio[n],
             Kind(m) = sent,
             m.st = st, m.auth = "FAIL" => st = "BACK", sent = "fail" => m.old = old
      PROVE  Posts(n, o, N, N1, sent, st, old)
  <2>1. N1 = N \cup {<<o, m>>}
    BY <1>2
  <2>2. Gains(n, o, N, N1, sent, old)
    <3>1. Gains(n, o, N, Plus(N, o, m), Kind(m), m.old)
      BY BoxPut
    <3>2. N1 = Plus(N, o, m)
      BY <2>1 DEF Plus
    <3>3. Gains(n, o, N, N1, Kind(m), m.old)
      BY <3>1, <3>2, Zenon
    <3>4. Kind(m) = sent /\ (sent = "fail" => m.old = old)
      BY <1>2
    <3> QED
      BY <3>3, <3>4, Zenon DEF Gains
  <2>3. N \subseteq N1 /\ \A k \in N1 \ N : k = <<o, m>>
    BY <2>1
  <2>4. <<o, m>>[1] = o /\ <<o, m>>[2] = m
    OBVIOUS
  <2> QED
    BY <1>2, <2>2, <2>3, <2>4, Zenon DEF Posts
<1> QED
  BY <1>1, <1>2, Zenon DEF Mailed

\* A pass of a: a warning is the only one, as a had none before its pass.
LEMMA ProperToB ==
    ASSUME NEW N, NEW L, NEW a, NEW b, a # b, Proper(N, L, a, b), NEW N1,
           N \subseteq N1,
           NEW L1, L \subseteq L1,
           \A k \in N1 \ N : /\ k[1] = b /\ k[2].from = a /\ k[2].prio = Prio[a]
                             /\ k[2].auth = "FAIL" => k[2].st = "BACK"
                             /\ Kind(k[2]) = "fail" => a \in L1 \ L,
           \A k, j \in N1 \ N : k = j
    PROVE  Proper(N1, L1, a, b)
<1>1. \A k \in N1 : /\ k[2].from # k[1] /\ k[2].prio = Prio[k[2].from]
                    /\ k[2].auth = "FAIL" => k[2].st = "BACK"
  BY Zenon DEF Proper
<1>2. \A k \in N1 : k[1] = a => k \in N
  BY Zenon
<1>3. \A k \in N1 : k[1] = a => /\ k[2].st # "MAST" /\ b \in L1
                                /\ \A j \in N1 : j[1] = a => j = k
  BY <1>2, Zenon DEF Proper
<1>4. ASSUME NEW k \in N1, k[1] = b, Kind(k[2]) = "fail"
      PROVE  /\ a \in L1
             /\ \A j \in N1 : j[1] = b /\ Kind(j[2]) = "fail" => j = k
  BY <1>4, Zenon DEF Proper
<1> QED
  BY <1>1, <1>3, <1>4, Zenon DEF Proper

\* A pass of b: its packet is the only one, as b had sent none before it.
LEMMA ProperToA ==
    ASSUME NEW N, NEW L, NEW a, NEW b, a # b, Proper(N, L, a, b), NEW N1,
           N \subseteq N1,
           b \notin L, NEW L1, L1 = L \cup {b},
           \A k \in N1 \ N : /\ k[1] = a /\ k[2].from = b /\ k[2].prio = Prio[b]
                             /\ k[2].auth = "FAIL" => k[2].st = "BACK"
                             /\ k[2].st # "MAST",
           \A k, j \in N1 \ N : k = j
    PROVE  Proper(N1, L1, a, b)
<1>1. \A k \in N1 : /\ k[2].from # k[1] /\ k[2].prio = Prio[k[2].from]
                    /\ k[2].auth = "FAIL" => k[2].st = "BACK"
  BY Zenon DEF Proper
<1>2. \A k \in N1 : k[1] = b => k \in N
  BY Zenon
<1>3. \A k \in N1 : k[1] = a => k \in N1 \ N
  BY Zenon DEF Proper
<1>4. \A k \in N1 : k[1] = a => /\ k[2].st # "MAST" /\ b \in L1
                                /\ \A j \in N1 : j[1] = a => j = k
  BY <1>3, Zenon
<1>5. \A k \in N1 : k[1] = b /\ Kind(k[2]) = "fail" =>
                       /\ a \in L1
                       /\ \A j \in N1 : j[1] = b /\ Kind(j[2]) = "fail" => j = k
  BY <1>2, Zenon DEF Proper
<1> QED
  BY <1>1, <1>4, <1>5, Zenon DEF Proper

\* Fewer packets are still proper.
LEMMA ProperLess ==
    ASSUME NEW N, NEW L, NEW a, NEW b, Proper(N, L, a, b), NEW N1, N1 \subseteq N
    PROVE  Proper(N1, L, a, b)
BY Zenon DEF Proper

\* What PairTypes says of the views, of the next state
LEMMA ViewsNext ==
    ASSUME ClusterInv', AllTimed', NEW a, NEW b, NEW l, Pair(a, b, l)
    PROVE  \A n \in Node, d \in 0..1, t \in 0..1 : IsView(View(node'[n], d, t, l, a))
<1>1. \A n \in Node : node'[n] \in NodeState /\ Timed(node'[n])
  BY DEF ClusterInv, NodesGood, Good, AllTimed
<1>2. Link = {l}
  BY DEF Pair
<1> QED
  BY <1>1, <1>2, ViewIs

\* How a bit changes when a node has its pass or tick
LEMMA BitFacts ==
    ASSUME NEW n, NEW S
    PROVE  /\ Bit(n, S) \in 0..1
           /\ n \in S => Bit(n, S) = 1
           /\ n \notin S => Bit(n, S) = 0
           /\ \A k : k # n => Bit(n, S \cup {k}) = Bit(n, S)
           /\ Bit(n, S \cup {n}) = 1
BY DEF Bit

\* A pass of n in a healthy pair, as the views and the boxes show it
LEMMA LoopSeen ==
    ASSUME ClusterInv, AllTimed, NEW a, NEW b, NEW l, Pair(a, b, l), Healthy,
           NEW n \in Node, NEW o \in Node, n # o, NEW t, Loop(n)
    PROVE  /\ Healthy' /\ node'[o] = node[o]
           /\ \E sent :
                 /\ PassView(View(node[n], 0, t, l, a), View(node'[n], 1, t, l, a),
                             sent)
                 /\ Posts(n, o, net, net', sent, node[n].state, node[n].master[l])
<1> DEFINE s == node[n]
           r == state_loop(n, s)
<1>1. NodesGood /\ s \in NodeState /\ Good(s) /\ s.out = {} /\ Timed(s)
  BY PairTypes
<1>2. Sound(s) /\ Link = {l} /\ Node = {n, o} /\ ~cut /\ a \in Node
  BY DEF Healthy, Sound, Pair
<1>3. Passed(n, l, s, r)
  BY <1>1, <1>2, PassOf
<1>4. r \in NodeState
  BY <1>1, StateLoop DEF Own, Good
<1>5. Become(n, r, net) /\ cut' = cut
  BY DEF Loop
<1> HIDE DEF s, r
<1>6. /\ Shows(r, node'[n]) /\ node'[o] = node[o]
      /\ r.out = {} => net' = net
      /\ \A m : r.out = {m} => net' = net \cup {<<o, m>>}
  BY <1>1, <1>2, <1>4, <1>5, BecomeShows
<1>7. Sound(r)
  BY <1>2, <1>3, CalmSound DEF Passed
<1>8. Sound(node'[n]) /\ \A m \in Node \ {n} : node'[m] = node[m]
  BY <1>1, <1>4, <1>5, <1>7, BecomeFields
<1>9. Healthy'
  BY <1>5, <1>8, StillHealthy
<1>10. PICK sent : /\ PassView(View(s, 0, t, l, a), View(node'[n], 1, t, l, a), sent)
                   /\ Mailed(n, r.out, sent, s.state, s.master[l])
  BY <1>1, <1>2, <1>3, <1>6, PassSeen
<1>11. Posts(n, o, net, net', sent, s.state, s.master[l])
  BY <1>6, <1>10, Posted
<1> QED
  BY <1>6, <1>9, <1>10, <1>11, Zenon DEF s

\* The pass of a
LEMMA LoopA ==
    ASSUME ClusterInv, AllTimed, ClusterInv', AllTimed',
           NEW a, NEW b, NEW l, Pair(a, b, l), Recovering(a, b, l), Loop(a)
    PROVE  Recovering(a, b, l)'
<1> DEFINE ta == Bit(a, ticked)
           lb == Bit(b, looped)
           tb == Bit(b, ticked)
           x == View(node[a], 0, ta, l, a)
           x1 == View(node'[a], 1, ta, l, a)
           y == View(node[b], lb, tb, l, a)
           p == Box(net, a)
           q == Box(net, b)
           q1 == Box(net', b)
<1>1. /\ a \in Node /\ b \in Node /\ a # b /\ Ample
  BY DEF Pair
<1>2. /\ a \notin looped /\ looped' = looped \cup {a} /\ ticked' = ticked
      /\ vacant' = vacant
  BY DEF Loop
<1>3. Healthy' /\ node'[b] = node[b]
  BY <1>1, LoopSeen DEF Recovering
<1>4. PICK sent : /\ PassView(x, x1, sent)
                  /\ Posts(a, b, net, net', sent, node[a].state, node[a].master[l])
  BY <1>1, LoopSeen DEF Recovering
<1>5. Gains(a, b, net, net', sent, node[a].master[l])
  BY <1>4 DEF Posts
<1>6. /\ Puts(q, q1, sent) /\ Box(net', a) = p
  BY <1>5 DEF Gains
<1>7. ta \in 0..1 /\ lb \in 0..1 /\ tb \in 0..1
  BY BitType
<1>8. /\ vacant \in Nat /\ IsView(x) /\ IsView(y)
  BY <1>1, <1>7, PairTypes
<1>9. IsView(x1)
  BY <1>1, <1>7, ViewsNext
<1>10. IsBox(p) /\ IsBox(q) /\ IsBox(q1)
  BY BoxFields
<1>11. MasterComes(x, y, p, q, vacant)
  BY <1>2, BitFacts DEF Recovering
<1> HIDE DEF x, x1, y, p, q, q1
<1>12. MasterComes(x1, y, p, q1, vacant)
  BY <1>1, <1>4, <1>6, <1>8, <1>9, <1>10, <1>11, PassA
<1>13. Proper(net', looped', a, b)
  <2>1. Proper(net, looped, a, b)
    BY DEF Recovering
  <2>2. /\ net \subseteq net' /\ looped \subseteq looped'
        /\ \A k \in net' \ net : /\ k[1] = b /\ k[2].from = a /\ k[2].prio = Prio[a]
                                 /\ k[2].auth = "FAIL" => k[2].st = "BACK"
                                 /\ Kind(k[2]) = "fail" => a \in looped' \ looped
        /\ \A k, j \in net' \ net : k = j
    BY <1>2, <1>4, Zenon DEF Posts
  <2> QED
    BY <1>1, <2>1, <2>2, ProperToB
<1>14. Bit(a, looped') = 1 /\ Bit(b, looped') = lb
  BY <1>1, <1>2, BitFacts
<1>15. MasterComes(View(node'[a], Bit(a, looped'), Bit(a, ticked'), l, a),
         View(node'[b], Bit(b, looped'), Bit(b, ticked'), l, a),
         Box(net', a), Box(net', b), vacant')
  BY <1>2, <1>3, <1>6, <1>12, <1>14, Zenon DEF x1, y, p, q1
<1> QED
  BY <1>3, <1>13, <1>15 DEF Recovering

\* The pass of b
LEMMA LoopB ==
    ASSUME ClusterInv, AllTimed, ClusterInv', AllTimed',
           NEW a, NEW b, NEW l, Pair(a, b, l), Recovering(a, b, l), Loop(b)
    PROVE  Recovering(a, b, l)'
<1> DEFINE tb == Bit(b, ticked)
           la == Bit(a, looped)
           ta == Bit(a, ticked)
           x == View(node[a], la, ta, l, a)
           y == View(node[b], 0, tb, l, a)
           y1 == View(node'[b], 1, tb, l, a)
           p == Box(net, a)
           q == Box(net, b)
           p1 == Box(net', a)
<1>1. /\ a \in Node /\ b \in Node /\ a # b /\ Ample
  BY DEF Pair
<1>2. /\ b \notin looped /\ looped' = looped \cup {b} /\ ticked' = ticked
      /\ vacant' = vacant
  BY DEF Loop
<1>3. Healthy' /\ node'[a] = node[a]
  BY <1>1, LoopSeen DEF Recovering
<1>4. PICK sent : /\ PassView(y, y1, sent)
                  /\ Posts(b, a, net, net', sent, node[b].state, node[b].master[l])
  BY <1>1, LoopSeen DEF Recovering
<1>5. Gains(b, a, net, net', sent, node[b].master[l])
  BY <1>4 DEF Posts
<1>6. /\ Puts(p, p1, sent) /\ Box(net', b) = q
      /\ (p1.blind <=> (p.blind \/ (sent = "fail" /\ node[b].master[l] # a)))
  BY <1>5 DEF Gains
<1>7. ta \in 0..1 /\ la \in 0..1 /\ tb \in 0..1
  BY BitType
<1>8. /\ vacant \in Nat /\ IsView(x) /\ IsView(y)
  BY <1>1, <1>7, PairTypes
<1>9. IsView(y1)
  BY <1>1, <1>7, ViewsNext
<1>10. IsBox(p) /\ IsBox(q) /\ IsBox(p1)
  BY BoxFields
<1>11. MasterComes(x, y, p, q, vacant)
  BY <1>2, BitFacts DEF Recovering
<1>12. /\ y.knows <=> node[b].master[l] = a
       /\ y.state = node[b].state /\ y.done = 0
  BY ViewFields
<1> HIDE DEF x, y, y1, p, q, p1
<1>13. p1.blind <=> (p.blind \/ (sent = "fail" /\ ~y.knows))
  BY <1>6, <1>12, Zenon
<1>14. MasterComes(x, y1, p1, q, vacant)
  BY <1>1, <1>4, <1>6, <1>8, <1>9, <1>10, <1>11, <1>13, PassB
<1>15. node[b].state # "MAST"
  BY <1>11, <1>12, SMT DEF MasterComes, Orderly
<1>16. Proper(net', looped', a, b)
  <2>1. Proper(net, looped, a, b)
    BY DEF Recovering
  <2>2. /\ net \subseteq net'
        /\ \A k \in net' \ net : /\ k[1] = a /\ k[2].from = b /\ k[2].prio = Prio[b]
                                 /\ k[2].auth = "FAIL" => k[2].st = "BACK"
                                 /\ k[2].st # "MAST"
        /\ \A k, j \in net' \ net : k = j
    BY <1>4, <1>15, Zenon DEF Posts
  <2> QED
    BY <1>1, <1>2, <2>1, <2>2, ProperToA
<1>17. Bit(b, looped') = 1 /\ Bit(a, looped') = la
  BY <1>1, <1>2, BitFacts
<1>18. MasterComes(View(node'[a], Bit(a, looped'), Bit(a, ticked'), l, a),
         View(node'[b], Bit(b, looped'), Bit(b, ticked'), l, a),
         Box(net', a), Box(net', b), vacant')
  BY <1>2, <1>3, <1>6, <1>14, <1>17, Zenon DEF x, y1, p1, q
<1> QED
  BY <1>3, <1>16, <1>18 DEF Recovering

\* A step of n that sends nothing, in a healthy pair
LEMMA QuietStep ==
    ASSUME ClusterInv, Healthy, NEW n \in Node, NEW o \in Node, n # o,
           Node = {n, o},
           NEW r \in NodeState, r.out = {}, Calm(node[n], r), NEW left,
           Become(n, r, left),
           cut' = cut
    PROVE  Healthy' /\ node'[o] = node[o] /\ net' = left /\ Shows(r, node'[n])
<1>1. NodesGood /\ Sound(node[n]) /\ ~cut
  BY DEF ClusterInv, Healthy, Sound
<1>2. Sound(r)
  BY <1>1, CalmSound
<1>3. Sound(node'[n]) /\ \A m \in Node \ {n} : node'[m] = node[m]
  BY <1>1, <1>2, BecomeFields
<1>4. Healthy'
  BY <1>3, StillHealthy
<1>5. Shows(r, node'[n]) /\ node'[o] = node[o] /\ net' = left
  BY <1>1, BecomeShows
<1> QED
  BY <1>4, <1>5

\* The tick of a node, as its views show it
LEMMA TickSeen ==
    ASSUME ClusterInv, AllTimed, NEW a, NEW b, NEW l, Pair(a, b, l), Healthy,
           NEW n \in Node, NEW o \in Node, n # o, NEW d, Tick(n)
    PROVE  /\ Healthy' /\ node'[o] = node[o] /\ net' = net
           /\ TickView(View(node[n], d, 0, l, a), View(node'[n], d, 1, l, a))
<1> DEFINE s == node[n]
           r == timer_tick(s, {}, {})
           e == node'[n]
           x == View(s, d, 0, l, a)
           x1 == View(e, d, 1, l, a)
<1>1. s \in NodeState /\ Good(s) /\ s.out = {}
  BY PairTypes
<1>2. l \in Link /\ Node = {n, o}
  BY DEF Pair
<1>3. /\ Good(r) /\ r.state = s.state /\ r.master = s.master /\ r.out = {}
      /\ Calm(s, r)
      /\ r.ms[l] = CountDown(s.ms[l])
  BY <1>1, <1>2, TickStep DEF Calm
<1>4. r.flg = s.flg /\ r.wid = s.wid /\ r.portal = s.portal
  BY <1>1, Zenon DEF timer_tick, NodeState
<1>5. Become(n, r, net) /\ cut' = cut
  BY DEF Tick
<1> HIDE DEF r
<1>6. r \in NodeState
  BY <1>3 DEF Good
<1>7. Healthy' /\ node'[o] = node[o] /\ net' = net /\ Shows(r, e)
  BY <1>2, <1>3, <1>5, <1>6, QuietStep
<1>8. s.ms[l] \in Nat
  BY <1>1, <1>2, SMT DEF NodeState
<1> HIDE DEF s, e
<1>9. /\ x.state = s.state /\ x.ms = s.ms[l] /\ x.flg = s.flg
      /\ x.wait <=> s.wid \/ s.portal
      /\ x.knows <=> s.master[l] = a
      /\ x.wait \in BOOLEAN /\ x.knows \in BOOLEAN
      /\ x.done = d /\ x.tick = 0
  BY ViewFields
<1>10. /\ x1.state = e.state /\ x1.ms = e.ms[l] /\ x1.flg = e.flg
       /\ x1.wait <=> e.wid \/ e.portal
       /\ x1.knows <=> e.master[l] = a
       /\ x1.wait \in BOOLEAN /\ x1.knows \in BOOLEAN
       /\ x1.done = d /\ x1.tick = 1
  BY ViewFields
<1> HIDE DEF x, x1
<1>11. x1.wait = x.wait /\ x1.knows = x.knows
  BY <1>3, <1>4, <1>7, <1>9, <1>10, Zenon DEF Shows
<1>12. /\ x1.done = x.done /\ x1.state = x.state /\ x1.flg = x.flg
       /\ x1.ms = CountDown(x.ms) /\ x.ms \in Nat
  BY <1>3, <1>4, <1>7, <1>8, <1>9, <1>10, Zenon DEF Shows
<1>13. x1.ms = x.ms - 1 \/ (x.ms = 0 /\ x1.ms = 0)
  BY <1>12, SMT DEF CountDown
<1>14. TickView(x, x1)
  BY <1>9, <1>10, <1>11, <1>12, <1>13, Zenon DEF TickView
<1> QED
  BY <1>7, <1>14 DEF s, e, x, x1

\* The end of the synchronisation, as the views show it
LEMMA SyncSeen ==
    ASSUME ClusterInv, AllTimed, NEW a, NEW b, NEW l, Pair(a, b, l), Healthy,
           NEW n \in Node, NEW o \in Node, n # o, NEW d, NEW t, Synchronised(n)
    PROVE  /\ Healthy' /\ node'[o] = node[o] /\ net' = net
           /\ SyncView(View(node[n], d, t, l, a), View(node'[n], d, t, l, a))
<1> DEFINE s == node[n]
           r == no_transfer(s)
           e == node'[n]
           x == View(s, d, t, l, a)
           x1 == View(e, d, t, l, a)
<1>1. s \in NodeState /\ Good(s) /\ s.out = {}
  BY PairTypes
<1>2. l \in Link /\ Node = {n, o}
  BY DEF Pair
<1>3. /\ r \in NodeState /\ r.state = s.state /\ r.master = s.master /\ r.out = {}
      /\ Calm(s, r) /\ r.ms = s.ms /\ r.flg = s.flg /\ ~r.wid /\ ~r.portal
  BY <1>1, Zenon DEF no_transfer, NodeState, Calm
<1>4. Become(n, r, net) /\ cut' = cut /\ (s.wid \/ s.portal)
  BY DEF Synchronised, Waiting
<1> HIDE DEF r
<1>5. Healthy' /\ node'[o] = node[o] /\ net' = net /\ Shows(r, e)
  BY <1>2, <1>3, <1>4, QuietStep
<1> HIDE DEF s, e
<1>6. /\ x.state = s.state /\ x.ms = s.ms[l] /\ x.flg = s.flg
      /\ x.wait <=> s.wid \/ s.portal
      /\ x.knows <=> s.master[l] = a
      /\ x.wait \in BOOLEAN /\ x.knows \in BOOLEAN
      /\ x.done = d /\ x.tick = t
  BY ViewFields
<1>7. /\ x1.state = e.state /\ x1.ms = e.ms[l] /\ x1.flg = e.flg
      /\ x1.wait <=> e.wid \/ e.portal
      /\ x1.knows <=> e.master[l] = a
      /\ x1.wait \in BOOLEAN /\ x1.knows \in BOOLEAN
      /\ x1.done = d /\ x1.tick = t
  BY ViewFields
<1> HIDE DEF x, x1
<1>8. x.wait /\ ~x1.wait /\ x1.knows = x.knows
  BY <1>3, <1>4, <1>5, <1>6, <1>7, Zenon DEF Shows
<1>9. SyncView(x, x1)
  BY <1>3, <1>5, <1>6, <1>7, <1>8, Zenon DEF SyncView, Shows
<1> QED
  BY <1>5, <1>9 DEF s, e, x, x1

\* The tick of a, and the end of its synchronisation
LEMMA TimeStepA ==
    ASSUME ClusterInv, AllTimed, ClusterInv', AllTimed',
           NEW a, NEW b, NEW l, Pair(a, b, l), Recovering(a, b, l),
           Tick(a) \/ Synchronised(a)
    PROVE  Recovering(a, b, l)'
<1> DEFINE la == Bit(a, looped)
           lb == Bit(b, looped)
           ta == Bit(a, ticked)
           tb == Bit(b, ticked)
           x == View(node[a], la, ta, l, a)
           x1 == View(node'[a], la, Bit(a, ticked'), l, a)
           y == View(node[b], lb, tb, l, a)
           p == Box(net, a)
           q == Box(net, b)
<1>1. /\ a \in Node /\ b \in Node /\ a # b /\ Ample
  BY DEF Pair
<1>2. /\ looped' = looped /\ vacant' = vacant
  BY DEF Tick, Synchronised
<1>3. /\ Healthy' /\ node'[b] = node[b] /\ net' = net /\ Bit(b, ticked') = tb
      /\ TickView(x, x1) \/ SyncView(x, x1)
  <2>1. CASE Tick(a)
    <3>1. a \notin ticked /\ ticked' = ticked \cup {a}
      BY <2>1 DEF Tick
    <3>2. ta = 0 /\ Bit(a, ticked') = 1 /\ Bit(b, ticked') = tb
      BY <1>1, <3>1, BitFacts
    <3>3. /\ Healthy' /\ node'[b] = node[b] /\ net' = net
          /\ TickView(View(node[a], la, 0, l, a), View(node'[a], la, 1, l, a))
      BY <1>1, <2>1, TickSeen DEF Recovering
    <3> QED
      BY <3>2, <3>3, Zenon
  <2>2. CASE Synchronised(a)
    <3>1. ticked' = ticked
      BY <2>2 DEF Synchronised
    <3>2. /\ Healthy' /\ node'[b] = node[b] /\ net' = net
          /\ SyncView(View(node[a], la, ta, l, a), View(node'[a], la, ta, l, a))
      BY <1>1, <2>2, SyncSeen DEF Recovering
    <3> QED
      BY <3>1, <3>2, Zenon
  <2> QED
    BY <2>1, <2>2
<1>4. /\ la \in 0..1 /\ lb \in 0..1 /\ ta \in 0..1 /\ tb \in 0..1
      /\ Bit(a, ticked') \in 0..1
  BY BitType
<1>5. /\ vacant \in Nat /\ IsView(x) /\ IsView(y)
  BY <1>1, <1>4, PairTypes
<1>6. IsView(x1)
  BY <1>1, <1>4, ViewsNext
<1>7. IsBox(p) /\ IsBox(q)
  BY BoxFields
<1>8. MasterComes(x, y, p, q, vacant)
  BY DEF Recovering
<1> HIDE DEF x, x1, y, p, q
<1>9. MasterComes(x1, y, p, q, vacant)
  BY <1>1, <1>3, <1>5, <1>6, <1>7, <1>8, TimeA
<1>10. Proper(net', looped', a, b)
  BY <1>2, <1>3 DEF Recovering
<1>11. MasterComes(View(node'[a], Bit(a, looped'), Bit(a, ticked'), l, a),
         View(node'[b], Bit(b, looped'), Bit(b, ticked'), l, a),
         Box(net', a), Box(net', b), vacant')
  BY <1>2, <1>3, <1>9, Zenon DEF x1, y, p, q
<1> QED
  BY <1>3, <1>10, <1>11 DEF Recovering

\* The tick of b, and the end of its synchronisation
LEMMA TimeStepB ==
    ASSUME ClusterInv, AllTimed, ClusterInv', AllTimed',
           NEW a, NEW b, NEW l, Pair(a, b, l), Recovering(a, b, l),
           Tick(b) \/ Synchronised(b)
    PROVE  Recovering(a, b, l)'
<1> DEFINE la == Bit(a, looped)
           lb == Bit(b, looped)
           ta == Bit(a, ticked)
           tb == Bit(b, ticked)
           x == View(node[a], la, ta, l, a)
           y == View(node[b], lb, tb, l, a)
           y1 == View(node'[b], lb, Bit(b, ticked'), l, a)
           p == Box(net, a)
           q == Box(net, b)
<1>1. /\ a \in Node /\ b \in Node /\ a # b /\ Ample
  BY DEF Pair
<1>2. /\ looped' = looped /\ vacant' = vacant
  BY DEF Tick, Synchronised
<1>3. /\ Healthy' /\ node'[a] = node[a] /\ net' = net /\ Bit(a, ticked') = ta
      /\ TickView(y, y1) \/ SyncView(y, y1)
  <2>1. CASE Tick(b)
    <3>1. b \notin ticked /\ ticked' = ticked \cup {b}
      BY <2>1 DEF Tick
    <3>2. tb = 0 /\ Bit(b, ticked') = 1 /\ Bit(a, ticked') = ta
      BY <1>1, <3>1, BitFacts
    <3>3. /\ Healthy' /\ node'[a] = node[a] /\ net' = net
          /\ TickView(View(node[b], lb, 0, l, a), View(node'[b], lb, 1, l, a))
      BY <1>1, <2>1, TickSeen DEF Recovering
    <3> QED
      BY <3>2, <3>3, Zenon
  <2>2. CASE Synchronised(b)
    <3>1. ticked' = ticked
      BY <2>2 DEF Synchronised
    <3>2. /\ Healthy' /\ node'[a] = node[a] /\ net' = net
          /\ SyncView(View(node[b], lb, tb, l, a), View(node'[b], lb, tb, l, a))
      BY <1>1, <2>2, SyncSeen DEF Recovering
    <3> QED
      BY <3>1, <3>2, Zenon
  <2> QED
    BY <2>1, <2>2
<1>4. /\ la \in 0..1 /\ lb \in 0..1 /\ ta \in 0..1 /\ tb \in 0..1
      /\ Bit(b, ticked') \in 0..1
  BY BitType
<1>5. /\ vacant \in Nat /\ IsView(x) /\ IsView(y)
  BY <1>1, <1>4, PairTypes
<1>6. IsView(y1)
  BY <1>1, <1>4, ViewsNext
<1>7. IsBox(p) /\ IsBox(q)
  BY BoxFields
<1>8. MasterComes(x, y, p, q, vacant)
  BY DEF Recovering
<1> HIDE DEF x, y, y1, p, q
<1>9. MasterComes(x, y1, p, q, vacant)
  BY <1>1, <1>3, <1>5, <1>6, <1>7, <1>8, TimeB
<1>10. Proper(net', looped', a, b)
  BY <1>2, <1>3 DEF Recovering
<1>11. MasterComes(View(node'[a], Bit(a, looped'), Bit(a, ticked'), l, a),
         View(node'[b], Bit(b, looped'), Bit(b, ticked'), l, a),
         Box(net', a), Box(net', b), vacant')
  BY <1>2, <1>3, <1>9, Zenon DEF x, y1, p, q
<1> QED
  BY <1>3, <1>10, <1>11 DEF Recovering

\* A packet that arrives in a healthy pair is heard.
LEMMA Heeded ==
    ASSUME ClusterInv, AllTimed, NEW a, NEW b, NEW l, Pair(a, b, l), Healthy,
           NEW L, Proper(net, L, a, b),
           NEW k \in net, NEW n \in Node, NEW o \in Node, n # o, k[1] = n, Deliver(k)
    PROVE  LET s == node[n]
               m == k[2]
               r == updata(n, s, m)
           IN  /\ m \in Packet /\ m.from = o /\ m.prio = Prio[o]
               /\ m.auth = "FAIL" => m.st = "BACK"
               /\ s \in NodeState /\ s.out = {} /\ Sound(s)
               /\ r \in NodeState /\ Become(n, r, net \ {k}) /\ cut' = cut
<1> DEFINE s == node[n]
           m == k[2]
           r == updata(n, s, m)
<1>1. NodesGood /\ s \in NodeState /\ Good(s) /\ s.out = {}
  BY PairTypes
<1>2. m \in Packet
  BY <1>1, NetLeft
<1>3. Link = {l} /\ Node = {n, o} /\ BackDown = {}
  BY DEF Pair
<1>4. m.from # n /\ m.prio = Prio[m.from] /\ (m.auth = "FAIL" => m.st = "BACK")
  BY Zenon DEF Proper
<1>5. m.from \in Node /\ m.l \in Link
  BY <1>2, SMT DEF Packet
<1>6. m.from = o /\ m.l = l
  BY <1>3, <1>4, <1>5
<1>7. Sound(s)
  BY DEF Healthy, Sound
<1>8. Hears(s, m)
  <2>1. s.svc /\ s.ht /\ s.link[l]
    BY <1>3, <1>7, SoundLinks
  <2> QED
    BY <1>3, <1>6, <2>1, Zenon DEF Hears
<1>9. r \in NodeState
  BY <1>1, <1>2, <1>8, UpdataGood DEF Good
<1>10. Become(n, r, net \ {k}) /\ cut' = cut
  BY <1>8 DEF Deliver
<1> QED
  BY <1>1, <1>2, <1>4, <1>6, <1>7, <1>9, <1>10

\* A packet reaches a: it is from b, of lower priority, and the only one.
LEMMA DeliverA ==
    ASSUME ClusterInv, AllTimed, ClusterInv', AllTimed',
           NEW a, NEW b, NEW l, Pair(a, b, l), Recovering(a, b, l),
           NEW k \in net, k[1] = a, Deliver(k)
    PROVE  Recovering(a, b, l)'
<1> DEFINE s == node[a]
           m == k[2]
           r == updata(a, s, m)
           left == net \ {k}
           la == Bit(a, looped)
           lb == Bit(b, looped)
           ta == Bit(a, ticked)
           tb == Bit(b, ticked)
           x == View(s, la, ta, l, a)
           x1 == View(node'[a], la, ta, l, a)
           y == View(node[b], lb, tb, l, a)
           p == Box(net, a)
           p1 == Box(net', a)
           q == Box(net, b)
           q1 == Box(net', b)
<1>1. /\ a \in Node /\ b \in Node /\ a # b /\ Ample /\ Node = {a, b} /\ Link = {l}
      /\ Prio[a] > Prio[b] /\ Preempt[a]
  BY DEF Pair
<1>2. Healthy /\ ~cut /\ Proper(net, looped, a, b)
  BY DEF Recovering, Healthy
<1>3. /\ m \in Packet /\ m.from = b /\ m.prio = Prio[b]
      /\ m.auth = "FAIL" => m.st = "BACK"
      /\ s \in NodeState /\ s.out = {} /\ Sound(s)
      /\ r \in NodeState /\ Become(a, r, left) /\ cut' = cut
  BY <1>1, <1>2, Heeded
<1>4. m.st # "MAST" /\ \A j \in net : j[1] = a => j = k
  BY <1>2, Zenon DEF Proper
<1>5. UNCHANGED <<looped, ticked, vacant>>
  BY DEF Deliver
<1>6. HeardWorse(a, l, s, m, r)
  <2>1. Prio[a] \in 1..255 /\ Prio[b] \in 1..255
    BY <1>1, NodeAssumption
  <2>2. m.prio # Stop /\ m.prio < Prio[a]
    BY <1>1, <1>3, <2>1, SMT DEF Stop
  <2> QED
    BY <1>1, <1>3, <1>4, <2>2, HearTheWorse
<1>7. Loses(b, a, net, left, Kind(m))
  BY <1>1, <1>4, BoxTake
<1>8. /\ (p.blind <=> (Kind(m) = "fail" /\ m.old # a)) /\ IsBox(p)
  <2>1. Misled(net, a) <=> (Kind(m) = "fail" /\ m.old # a)
    BY <1>4, Zenon DEF Misled
  <2> QED
    BY <2>1, BoxFields
<1>9. ~SomePacket(Box(left, a)) /\ ~Box(left, a).blind
  <2>1. (\A K : ~Bound(left, a, K)) /\ ~Misled(left, a)
    BY <1>4, Zenon DEF Bound, Misled
  <2> QED
    BY <2>1, BoxFields DEF SomePacket
<1> HIDE DEF r, s, m, left
<1>10. /\ Shows(r, node'[a]) /\ node'[b] = node[b]
       /\ r.out = {} => net' = left
       /\ \A z : r.out = {z} => net' = left \cup {<<b, z>>}
  BY <1>1, <1>2, <1>3, BecomeShows DEF ClusterInv
<1>11. Healthy'
  <2>1. Sound(r)
    BY <1>3, <1>6, CalmSound DEF HeardWorse
  <2>2. Sound(node'[a]) /\ \A z \in Node \ {a} : node'[z] = node[z]
    BY <1>1, <1>3, <2>1, BecomeFields DEF ClusterInv
  <2> QED
    BY <1>1, <1>2, <1>3, <2>2, StillHealthy
<1>12. PICK sent : /\ HearWorseView(x, x1, Kind(m), m.old # a, sent)
                   /\ Mailed(a, r.out, sent, s.state, s.master[l])
                   /\ sent \in {"none", "take"}
  BY <1>3, <1>6, <1>10, HearWorseSeen
<1>13. Posts(a, b, left, net', sent, s.state, s.master[l])
  BY <1>1, <1>10, <1>12, Posted
<1>14. Gains(a, b, left, net', sent, s.master[l])
  BY <1>13 DEF Posts
<1>15. p1 = Box(left, a) /\ Puts(Box(left, b), q1, sent) /\ Box(left, b) = q
       /\ Holds(p, Kind(m))
  BY <1>7, <1>14 DEF Gains, Loses
<1>16. Puts(q, q1, sent) /\ ~SomePacket(p1) /\ ~p1.blind
  BY <1>9, <1>15
<1>17. la \in 0..1 /\ lb \in 0..1 /\ ta \in 0..1 /\ tb \in 0..1
  BY BitType
<1>18. /\ vacant \in Nat /\ IsView(x) /\ IsView(y)
  BY <1>1, <1>17, PairTypes DEF s
<1>19. IsView(x1)
  BY <1>1, <1>17, ViewsNext
<1>20. IsBox(p) /\ IsBox(q) /\ IsBox(p1) /\ IsBox(q1)
  BY BoxFields
<1>21. MasterComes(x, y, p, q, vacant)
  BY DEF Recovering, s
<1> HIDE DEF x, x1, y, p, q, p1, q1
<1>22. HearWorseView(x, x1, Kind(m), p.blind, sent)
  <2>1. p.blind \in BOOLEAN
    BY <1>8 DEF IsBox
  <2> QED
    BY <1>8, <1>12, <2>1, Zenon DEF HearWorseView
<1>23. MasterComes(x1, y, p1, q1, vacant)
  BY <1>1, <1>15, <1>16, <1>18, <1>19, <1>20, <1>21, <1>22, HearA
<1>24. Proper(net', looped', a, b)
  <2>1. left \subseteq net
    BY DEF left
  <2>2. Proper(left, looped, a, b)
    BY <1>2, <2>1, ProperLess
  <2>3. /\ left \subseteq net'
        /\ \A j \in net' \ left : /\ j[1] = b /\ j[2].from = a /\ j[2].prio = Prio[a]
                                  /\ j[2].auth = "FAIL" => j[2].st = "BACK"
                                  /\ Kind(j[2]) = "fail" => a \in looped \ looped
        /\ \A i, j \in net' \ left : i = j
    BY <1>12, <1>13, Zenon DEF Posts
  <2>4. Proper(net', looped, a, b)
    BY <1>1, <2>2, <2>3, ProperToB
  <2> QED
    BY <1>5, <2>4
<1>25. MasterComes(View(node'[a], Bit(a, looped'), Bit(a, ticked'), l, a),
         View(node'[b], Bit(b, looped'), Bit(b, ticked'), l, a),
         Box(net', a), Box(net', b), vacant')
  BY <1>5, <1>10, <1>23, Zenon DEF x1, y, p1, q1
<1> QED
  BY <1>11, <1>24, <1>25 DEF Recovering

\* A packet reaches b: it is from a, of higher priority.
LEMMA DeliverB ==
    ASSUME ClusterInv, AllTimed, ClusterInv', AllTimed',
           NEW a, NEW b, NEW l, Pair(a, b, l), Recovering(a, b, l),
           NEW k \in net, k[1] = b, Deliver(k)
    PROVE  Recovering(a, b, l)'
<1> DEFINE s == node[b]
           m == k[2]
           r == updata(b, s, m)
           left == net \ {k}
           la == Bit(a, looped)
           lb == Bit(b, looped)
           ta == Bit(a, ticked)
           tb == Bit(b, ticked)
           x == View(node[a], la, ta, l, a)
           y == View(s, lb, tb, l, a)
           y1 == View(node'[b], lb, tb, l, a)
           p == Box(net, a)
           q == Box(net, b)
           q1 == Box(left, b)
<1>1. /\ a \in Node /\ b \in Node /\ a # b /\ Ample /\ Node = {b, a} /\ Link = {l}
      /\ Prio[a] > Prio[b]
  BY DEF Pair
<1>2. Healthy /\ Proper(net, looped, a, b)
  BY DEF Recovering
<1>3. /\ m \in Packet /\ m.from = a /\ m.prio = Prio[a]
      /\ m.auth = "FAIL" => m.st = "BACK"
      /\ s \in NodeState /\ s.out = {} /\ Sound(s)
      /\ r \in NodeState /\ Become(b, r, left) /\ cut' = cut
  BY <1>1, <1>2, Heeded
<1>4. Kind(m) = "fail" => \A j \in net : j[1] = b /\ Kind(j[2]) = "fail" => j = k
  BY <1>2, Zenon DEF Proper
<1>5. UNCHANGED <<looped, ticked, vacant>>
  BY DEF Deliver
<1>6. HeardBetter(b, l, s, m, r)
  BY <1>1, <1>3, HearTheBetter
<1>7. Loses(a, b, net, left, Kind(m))
  BY <1>1, <1>4, BoxTake
<1>8. Holds(q, Kind(m)) /\ Takes(q, q1, Kind(m)) /\ Box(left, a) = p
  BY <1>7 DEF Loses
<1> HIDE DEF r, m
<1>9. Healthy' /\ node'[a] = node[a] /\ net' = left /\ Shows(r, node'[b])
  BY <1>1, <1>2, <1>3, <1>6, QuietStep DEF HeardBetter
<1> HIDE DEF s, left
<1>10. HearBetterView(View(s, lb, tb, l, m.from), View(node'[b], lb, tb, l, m.from),
                      Kind(m))
  BY <1>3, <1>6, <1>9, HearBetterSeen
<1>11. HearBetterView(y, y1, Kind(m))
  BY <1>3, <1>10
<1>12. la \in 0..1 /\ lb \in 0..1 /\ ta \in 0..1 /\ tb \in 0..1
  BY BitType
<1>13. /\ vacant \in Nat /\ IsView(x) /\ IsView(y)
  BY <1>1, <1>12, PairTypes DEF s
<1>14. IsView(y1)
  BY <1>1, <1>12, ViewsNext
<1>15. IsBox(p) /\ IsBox(q) /\ IsBox(q1)
  BY BoxFields
<1>16. MasterComes(x, y, p, q, vacant)
  BY DEF Recovering, s
<1> HIDE DEF x, y, y1, p, q, q1
<1>17. MasterComes(x, y1, p, q1, vacant)
  BY <1>1, <1>8, <1>11, <1>13, <1>14, <1>15, <1>16, HearB
<1>18. Proper(net', looped', a, b)
  <2>1. net' \subseteq net
    BY <1>9 DEF left
  <2> QED
    BY <1>2, <1>5, <2>1, ProperLess
<1>19. MasterComes(View(node'[a], Bit(a, looped'), Bit(a, ticked'), l, a),
         View(node'[b], Bit(b, looped'), Bit(b, ticked'), l, a),
         Box(net', a), Box(net', b), vacant')
  BY <1>5, <1>8, <1>9, <1>17, Zenon DEF x, y1, p, q1
<1> QED
  BY <1>9, <1>18, <1>19 DEF Recovering

\* The bound of the invariant is the limit of the property.
LEMMA LimitIs == VacancyLimit = WarnLimit
<1> DEFINE d == DownCount * AdverInt
<1>1. d \in Nat /\ AdverInt \in Nat
  BY NodeAssumption, SMT
<1>2. MsDown = d + 1 /\ VacancyLimit = 2 * (d + 1) + AdverInt + 3
  BY DEF MsDown, VacancyLimit
<1> HIDE DEF d
<1> QED
  BY <1>1, <1>2, SMT DEF WarnLimit

\* Nothing is on its way in an empty net.
LEMMA EmptyBox ==
    ASSUME NEW n
    PROVE  IsBox(Box({}, n)) /\ ~SomePacket(Box({}, n)) /\ ~Box({}, n).blind
<1>1. (\A K : ~Bound({}, n, K)) /\ ~Misled({}, n)
  BY DEF Bound, Misled
<1> QED
  BY <1>1, BoxFields DEF SomePacket

\* The end of a round, with a vacancy that begins, goes on or ends
LEMMA RoundOver ==
    ASSUME ClusterInv, AllTimed, ClusterInv', AllTimed',
           NEW a, NEW b, NEW l, Pair(a, b, l), VacancyInv(a, b, l), EndRound
    PROVE  VacancyInv(a, b, l)'
<1> DEFINE x == View(node[a], 1, 1, l, a)
           x1 == View(node[a], 0, 0, l, a)
           y == View(node[b], 1, 1, l, a)
           y1 == View(node[b], 0, 0, l, a)
           p == Box({}, a)
           q == Box({}, b)
<1>1. /\ a \in Node /\ b \in Node /\ a # b /\ Ample /\ Node = {a, b}
  BY DEF Pair
<1>2. /\ net = {} /\ ticked = Node /\ looped' = {} /\ ticked' = {}
      /\ \A n \in Node : node[n].svc => n \in looped
      /\ vacant' = IF ~Healthy \/ Masters # {} THEN 0
                   ELSE IF Waiting # {} THEN vacant
                   ELSE CountUp(vacant, VacancyLimit)
      /\ UNCHANGED <<node, net, cut>>
  BY DEF EndRound
<1>3. vacant \in Nat /\ vacant' \in Nat
  <2>1. vacant \in Nat
    BY PairTypes
  <2> QED
    BY <1>2, <2>1, SMT DEF CountUp
<1>4. SUFFICES ASSUME vacant' >= 1 PROVE Recovering(a, b, l)'
  BY DEF VacancyInv
<1>5. Healthy /\ Masters = {}
  BY <1>2, <1>4, SMT
<1>6. Healthy' /\ Proper(net', looped', a, b)
  <2>1. Healthy'
    BY <1>2, <1>5 DEF Healthy, Tracked, LinksUp
  <2> QED
    BY <1>2, <2>1 DEF Proper
<1>7. /\ Bit(a, looped) = 1 /\ Bit(b, looped) = 1 /\ Bit(a, ticked) = 1
      /\ Bit(b, ticked) = 1
  BY <1>1, <1>2, <1>5 DEF Healthy, Bit
<1>8. /\ Bit(a, looped') = 0 /\ Bit(b, looped') = 0
      /\ Bit(a, ticked') = 0 /\ Bit(b, ticked') = 0
  BY <1>2 DEF Bit
<1>9. IsView(x) /\ IsView(x1) /\ IsView(y) /\ IsView(y1)
  BY <1>1, PairTypes
<1>10. IsBox(p) /\ IsBox(q) /\ ~SomePacket(p) /\ ~SomePacket(q) /\ ~p.blind
  BY EmptyBox
<1>11. /\ x.state = node[a].state /\ x1.state = node[a].state
       /\ y.state = node[b].state /\ y1.state = node[b].state
       /\ x.done = 1 /\ x.tick = 1 /\ y.done = 1 /\ y.tick = 1
       /\ x1.done = 0 /\ x1.tick = 0 /\ y1.done = 0 /\ y1.tick = 0
       /\ (x.wait <=> node[a].wid \/ node[a].portal)
       /\ (x1.wait <=> node[a].wid \/ node[a].portal)
       /\ (y.wait <=> node[b].wid \/ node[b].portal)
       /\ (y1.wait <=> node[b].wid \/ node[b].portal)
  BY ViewFields
<1>12. SameView(x, x1) /\ SameView(y, y1)
  BY Zenon DEF View, SameView
<1>13. x.state # "MAST" /\ y.state # "MAST"
  BY <1>1, <1>5, <1>11 DEF Masters
<1>14. Waiting = {} => /\ ~(x.state = "TRANSFER" /\ x.wait)
                       /\ ~(y.state = "TRANSFER" /\ y.wait)
                       /\ ~(x1.state = "TRANSFER" /\ x1.wait)
                       /\ ~(y1.state = "TRANSFER" /\ y1.wait)
  BY <1>1, <1>11, Zenon DEF Waiting
<1>15. MasterComes(x1, y1, p, q, vacant')
  <2>1. CASE vacant = 0
    <3>1. Waiting = {} /\ vacant' = 1
      BY <1>2, <1>4, <1>5, <2>1, LimitType, SMT DEF CountUp
    <3> HIDE DEF x, x1, y, y1, p, q
    <3>2. MasterComes(x1, y1, p, q, 1)
      BY <1>1, <1>9, <1>10, <1>11, <1>13, <1>14, <3>1, FirstRound
    <3> QED
      BY <3>1, <3>2
  <2>2. CASE vacant >= 1
    <3>1. MasterComes(x, y, p, q, vacant)
      BY <1>2, <1>7, <2>2 DEF VacancyInv, Recovering
    <3>2. vacant <= VacancyLimit
      BY <3>1, LimitIs DEF MasterComes
    <3>3. vacant' = vacant \/ (vacant' = vacant + 1 /\ Waiting = {})
      BY <1>2, <1>3, <1>5, <3>2, LimitType, SMT DEF CountUp
    <3> HIDE DEF x, x1, y, y1, p, q
    <3> QED
      BY <1>1, <1>3, <1>9, <1>10, <1>11, <1>12, <1>13, <1>14, <3>1, <3>3, RoundAB
  <2> QED
    BY <1>3, <2>1, <2>2, SMT
<1>16. MasterComes(View(node'[a], Bit(a, looped'), Bit(a, ticked'), l, a),
         View(node'[b], Bit(b, looped'), Bit(b, ticked'), l, a),
         Box(net', a), Box(net', b), vacant')
  BY <1>2, <1>8, <1>15, Zenon
<1> QED
  BY <1>6, <1>16 DEF Recovering

\* Faults start the count again; every other step keeps the pair on its way.
LEMMA VacancyStep ==
    ASSUME NEW a, NEW b, NEW l, Pair(a, b, l), ClusterInv, AllTimed,
           VacancyInv(a, b, l),
           [Next]_vars
    PROVE  VacancyInv(a, b, l)'
<1>0. ClusterInv' /\ AllTimed' /\ Node = {a, b} /\ a \in Node /\ b \in Node
  BY ClusterStep, TimedStep DEF Pair
<1>1. CASE UNCHANGED vars
  BY <1>1 DEF vars, VacancyInv, Recovering, Healthy
<1>2. CASE EndRound
  BY <1>0, <1>2, RoundOver
<1>3. ASSUME Fault PROVE VacancyInv(a, b, l)'
  BY <1>3, SMT DEF Fault, VacancyInv
<1>4. ASSUME NEW n \in Node, Loop(n) PROVE VacancyInv(a, b, l)'
  <2>1. vacant' = vacant
    BY <1>4 DEF Loop
  <2> QED
    BY <1>0, <1>4, <2>1, LoopA, LoopB DEF VacancyInv
<1>5. ASSUME NEW n \in Node, Tick(n) \/ Synchronised(n) PROVE VacancyInv(a, b, l)'
  <2>1. vacant' = vacant
    BY <1>5 DEF Tick, Synchronised
  <2> QED
    BY <1>0, <1>5, <2>1, TimeStepA, TimeStepB DEF VacancyInv
<1>6. ASSUME NEW k \in net, Deliver(k) PROVE VacancyInv(a, b, l)'
  <2>1. vacant' = vacant
    BY <1>6 DEF Deliver
  <2>2. k[1] \in Node
    BY NetLeft DEF ClusterInv
  <2> QED
    BY <1>0, <1>6, <2>1, <2>2, DeliverA, DeliverB DEF VacancyInv
<1>7. ASSUME NEW n \in Node, ServiceEnable(n) PROVE VacancyInv(a, b, l)'
  <2>1. vacant' = vacant /\ ~Healthy
    BY <1>7 DEF ServiceEnable, Healthy
  <2> QED
    BY <2>1 DEF VacancyInv, Recovering
<1>8. ASSUME \/ \E n \in Node :
                   \/ HeartbeatChange(n) \/ ServiceDisable(n) \/ Reboot(n)
                   \/ SwitchMaster(n) \/ SwitchBack(n)
                   \/ \E j \in Link : LinkChange(n, j)
             \/ \E k \in net : Lose(k)
             \/ CutChange
      PROVE  Fault
  BY <1>8 DEF HeartbeatChange, ServiceDisable, Reboot, SwitchMaster,
     SwitchBack, LinkChange, Lose, CutChange
<1> QED
  BY <1>1, <1>2, <1>3, <1>4, <1>5, <1>6, <1>7, <1>8, Zenon DEF Next

\* A pair recovers: with everything up again some node is the master within the
\* limit, whatever roles, timers, warnings and takeovers the faults left behind,
\* in whatever order the threads run and the packets arrive, for all priorities,
\* intervals, monitored interfaces and numbers of faults.  The better node a
\* preempts (b may or may not), one link and the heartbeat connect the pair, no
\* interface is taken down in BACK, and the master-down delay is ample.
THEOREM PairRecovers ==
    ASSUME NEW a \in Node, NEW b \in Node, a # b, Node = {a, b},
           NEW l, Link = {l}, BackDown = {},
           Prio[a] > Prio[b], Preempt[a], DownCount * AdverInt >= AdverInt + 2
    PROVE  Spec => []VacancyBounded
<1>1. Pair(a, b, l)
  BY DEF Pair, Ample
<1>2. Init => VacancyInv(a, b, l) /\ AllTimed
  <2> SUFFICES ASSUME Init PROVE VacancyInv(a, b, l) /\ AllTimed
    OBVIOUS
  <2>1. VacancyInv(a, b, l)
    BY SMT DEF Init, VacancyInv
  <2>2. InitNode \in NodeState
    BY InitNodeGood DEF Good
  <2>3. Timed(InitNode)
    BY InitTimed
  <2>4. Timed(service_enable(InitNode))
    BY <2>2, <2>3, TimedSmall
  <2>5. \A n \in Node : node[n] = service_enable(InitNode)
    BY DEF Init
  <2> QED
    BY <2>1, <2>4, <2>5 DEF AllTimed
<1>3. ClusterInv /\ AllTimed /\ VacancyInv(a, b, l) /\ [Next]_vars
         => VacancyInv(a, b, l)'
  BY <1>1, VacancyStep
<1>4. ClusterInv /\ AllTimed /\ [Next]_vars => AllTimed'
  BY TimedStep
<1>5. ClusterInv /\ AllTimed /\ VacancyInv(a, b, l) => VacancyBounded
  <2> SUFFICES ASSUME ClusterInv, AllTimed, VacancyInv(a, b, l) PROVE VacancyBounded
    OBVIOUS
  <2>1. vacant \in Nat
    BY <1>1, PairTypes
  <2>2. vacant >= 1 => vacant <= WarnLimit
    BY DEF VacancyInv, Recovering, MasterComes
  <2> QED
    BY <2>1, <2>2, LimitIs, LimitType, SMT DEF VacancyBounded
<1> QED
  BY <1>2, <1>3, <1>4, <1>5, InitCluster, ClusterStep, PTL DEF Spec
=============================================================================
