---------------------------- MODULE HadNode_proofs ----------------------------
(***************************************************************************)
(* What each function of HadNode may do to the record of a node, for every *)
(* configuration that NodeAssumption admits: any number of nodes, any      *)
(* priorities, addresses and intervals, one link or two.  HadOpen_proofs   *)
(* and HadCluster_proofs rest on it.                                       *)
(***************************************************************************)
EXTENDS HadNode, TLAPS
-----------------------------------------------------------------------------
(***************************************************************************)
(* Types of the building blocks.                                           *)
(***************************************************************************)

\* A configured priority is neither the 0 that means stop nor above 255.
LEMMA PrioRange == ASSUME NEW n \in Node PROVE Prio[n] \in 1..255
<1>1. Prio \in [Node -> 1..255]
  BY NodeAssumption
<1> QED
  BY <1>1, Zenon

\* No priority has a skew of zero.
LEMMA SkewRange ==
    ASSUME NEW n \in Node
    PROVE  VRRP_TIMER_SKEW(n) \in Nat /\ VRRP_TIMER_SKEW(n) >= 1
<1> DEFINE prio == Prio[n]
           scaled == (256 - prio) * 1000000
<1>1. prio \in 1..255
  BY PrioRange
<1>2. VRRP_TIMER_SKEW(n) = scaled \div 256
  BY DEF VRRP_TIMER_SKEW, VRRP_TIMER_HZ
<1> HIDE DEF prio
<1>3. scaled \in Nat /\ scaled >= 1000000 /\ scaled <= 255000000
  BY <1>1, SMT
<1> HIDE DEF scaled
<1>4. scaled \div 256 \in Nat /\ scaled \div 256 >= 1
  BY <1>3, SMT
<1> QED
  BY <1>2, <1>4, SMT

\* The delays had_state_goto_disable, had_state_back and the others set are
\* numbers of ticks, and the one of goto_disable is not the shorter one.
LEMMA DelayType ==
    ASSUME NEW n \in Node
    PROVE  /\ Delay(n) \in Nat
           /\ DisableDelay(n) \in Nat
           /\ DisableDelay(n) >= Delay(n)
<1> DEFINE base == DownCount * AdverInt
           skew == VRRP_TIMER_SKEW(n)
<1>1. base \in Nat
  BY NodeAssumption, SMT
<1>2. skew \in Nat
  BY SkewRange, Zenon
<1>3. /\ Delay(n) = (base * 1000000 + skew + 1000000 - 1) \div 1000000
      /\ DisableDelay(n)
            = (base * 1000000 + skew + 1001000 + 1000000 - 1) \div 1000000
  BY DEF Delay, DisableDelay, Ticks, VRRP_TIMER_HZ
<1> HIDE DEF base, skew
<1> QED
  BY <1>1, <1>2, <1>3, SMT

\* Arrays that had_* functions fill with one value have the type of the value.
LEMMA AllLinksType ==
    /\ \A v \in Nat : AllLinks(v) \in [Link -> Nat]
    /\ \A v \in Node \cup {NoNode} : AllLinks(v) \in [Link -> Node \cup {NoNode}]
    /\ AllLinks(Stale) \in [Link -> 0..Stale]
    /\ AllLinks(Unset) \in [Link -> 0..Unset]
    /\ AllLinks(0) \in [Link -> 0..AdverInt]
    /\ AllLinks(AdverInt) \in [Link -> 0..AdverInt]
BY NodeAssumption, SMT DEF AllLinks, Stale, Unset

\* What vrrp_send_pkt builds is a packet.
LEMMA PktType ==
    ASSUME NEW n \in Node, NEW s \in NodeState, NEW l \in Link,
           NEW p \in 0..255, NEW a \in {"PASS", "FAIL"}
    PROVE  Pkt(n, s, l, p, a) \in Packet
BY NodeAssumption, SMT DEF Pkt, Packet, NodeState

\* vrrp_send_adv changes nothing but what is on its way.
LEMMA SendAdvType ==
    ASSUME NEW n \in Node, NEW s \in NodeState, NEW p \in 0..255
    PROVE  /\ send_adv(n, s, p) \in NodeState
           /\ \E X : send_adv(n, s, p) = [s EXCEPT !.out = X]
<1> DEFINE sent == {Pkt(n, s, l, p, "PASS") :
                       l \in {k \in Link : s.link[k] /\ s.ht /\ s.svc}}
<1>1. sent \in SUBSET Packet
  BY PktType
<1>2. s.out \cup sent \in SUBSET Packet
  BY <1>1, SMT DEF NodeState
<1>3. send_adv(n, s, p) = [s EXCEPT !.out = s.out \cup sent]
  BY DEF send_adv
<1> HIDE DEF sent
<1>4. [s EXCEPT !.out = s.out \cup sent] \in NodeState
  BY <1>2, SMT DEF NodeState
<1> QED
  BY <1>3, <1>4

\* The force-to-fail packets of had_set_link_auth_type and vrrp_send_adv.
LEMMA SendFailType ==
    ASSUME NEW n \in Node, NEW s \in NodeState
    PROVE  /\ send_fail(n, s) \in NodeState
           /\ send_fail(n, s).state = s.state
           /\ send_fail(n, s).vip = s.vip
           /\ send_fail(n, s).told = s.told
           /\ send_fail(n, s).svc = s.svc
           /\ s.svc /\ LinksUp(s) => \E m \in send_fail(n, s).out : m.auth = "FAIL"
<1> DEFINE sent == {Pkt(n, s, l, Prio[n], "FAIL") :
                       l \in {k \in Link : s.link[k] /\ s.svc}}
           X == s.out \cup sent
<1>1. Prio[n] \in 0..255
  BY NodeAssumption
<1>2. sent \in SUBSET Packet
  BY <1>1, PktType
<1>3. X \in SUBSET Packet
  BY <1>2, SMT DEF NodeState
<1>4. send_fail(n, s) = [s EXCEPT !.rx = TRUE, !.out = X]
  BY DEF send_fail
<1>5. ASSUME s.svc, LinksUp(s)
      PROVE  \E m \in X : m.auth = "FAIL"
  <2>1. PICK l \in Link : TRUE
    BY NodeAssumption
  <2>2. Pkt(n, s, l, Prio[n], "FAIL") \in X
    BY <1>5, <2>1, Zenon DEF LinksUp
  <2>3. Pkt(n, s, l, Prio[n], "FAIL").auth = "FAIL"
    BY DEF Pkt
  <2> QED
    BY <2>2, <2>3, Zenon
<1> HIDE DEF X
<1>6. [s EXCEPT !.rx = TRUE, !.out = X] \in NodeState
  BY <1>3, Zenon DEF NodeState
<1> DEFINE r == [s EXCEPT !.rx = TRUE, !.out = X]
<1>7. /\ r.out = X
      /\ r.state = s.state /\ r.vip = s.vip /\ r.told = s.told /\ r.svc = s.svc
  BY Zenon DEF NodeState
<1> QED
  BY <1>4, <1>5, <1>6, <1>7, Zenon

-----------------------------------------------------------------------------
(***************************************************************************)
(* Taking the role.                                                        *)
(***************************************************************************)

\* r is what s becomes on the way to MAST: at once, or through TRANSFER.
Up(s, r) ==
    /\ r \in NodeState
    /\ Role(r)
    /\ r.flg = s.flg
    /\ r.svc = s.svc
    /\ \/ r.state = "TRANSFER"
       \/ r.state = "MAST" /\ r.master = AllLinks(NoNode)

\* The batch synchronisation starts with the role still that of a standby.
LEMMA GotoTransfer ==
    ASSUME NEW s \in NodeState, Role(s), s.state # "MAST"
    PROVE  Up(s, goto_transfer(s))
<1> DEFINE r == goto_transfer(s)
<1>1. r \in NodeState
  BY Zenon DEF goto_transfer, NodeState, State
<1>2. /\ r.state = "TRANSFER" /\ r.told = "BACK"
      /\ r.vip = s.vip /\ r.flg = s.flg /\ r.svc = s.svc
  BY SMT DEF goto_transfer, NodeState
<1> QED
  BY <1>1, <1>2, Zenon DEF Up, Role

\* The branch of had_state_goto_master that takes the role.
LEMMA TakeMaster ==
    ASSUME NEW n \in Node, NEW s \in NodeState
    PROVE  Up(s, take_master(n, s)) /\ take_master(n, s).state = "MAST"
<1> DEFINE t == [s EXCEPT !.vip = TRUE, !.told = "MAST"]
           u == send_adv(n, t, Prio[n])
           r == [u EXCEPT !.rx = TRUE, !.state = "MAST",
                     !.adv = AllLinks(AdverInt), !.master = AllLinks(NoNode)]
<1>1. t \in NodeState
  BY Zenon DEF NodeState
<1>2. t.vip = TRUE /\ t.told = "MAST" /\ t.flg = s.flg /\ t.svc = s.svc
  BY SMT DEF NodeState
<1>3. Prio[n] \in 0..255
  BY NodeAssumption
<1> HIDE DEF t
<1>4. u \in NodeState
  BY <1>1, <1>3, SendAdvType
<1>5. PICK X : u = [t EXCEPT !.out = X]
  BY <1>1, <1>3, SendAdvType
<1>6. u.vip = t.vip /\ u.told = t.told /\ u.flg = t.flg /\ u.svc = t.svc
  BY <1>1, <1>5, SMT DEF NodeState
<1>7. take_master(n, s) = r
  BY DEF take_master, t
<1>8. /\ AllLinks(AdverInt) \in [Link -> 0..AdverInt]
      /\ AllLinks(NoNode) \in [Link -> Node \cup {NoNode}]
  BY AllLinksType, NodeAssumption
<1> HIDE DEF u
<1>9. r \in NodeState
  BY <1>4, <1>8, Zenon DEF NodeState, State
<1>10. /\ r.state = "MAST" /\ r.rx = TRUE /\ r.master = AllLinks(NoNode)
       /\ r.vip = u.vip /\ r.told = u.told /\ r.flg = u.flg /\ r.svc = u.svc
  BY <1>4, SMT DEF NodeState
<1> HIDE DEF r
<1>11. Role(r)
  BY <1>2, <1>6, <1>10, Zenon DEF Role
<1> QED
  BY <1>2, <1>6, <1>7, <1>9, <1>10, <1>11, Zenon DEF Up

\* had_state_goto_master
LEMMA GotoMaster ==
    ASSUME NEW n \in Node, NEW s \in NodeState, Role(s), s.state # "MAST", NEW o
    PROVE  /\ Up(s, goto_master(n, s, o))
           /\ o # "MAST" => goto_master(n, s, o).state = "MAST"
BY GotoTransfer, TakeMaster, Zenon DEF goto_master

-----------------------------------------------------------------------------
(***************************************************************************)
(* Giving up the role.                                                     *)
(***************************************************************************)

\* r is s with another role, consistently put on; the flags are as before.
Recast(s, r) ==
    /\ r \in NodeState
    /\ Role(r)
    /\ r.flg = s.flg
    /\ r.svc = s.svc

\* A master-down timer that has all of its delay before it
Full(n, r) == \A l \in Link : r.ms[l] >= Delay(n)

\* had_vrrp_vif_drop_pck touches the interfaces only.
LEMMA VifDropPck ==
    ASSUME NEW s \in NodeState
    PROVE  /\ vif_drop_pck(s) \in NodeState
           /\ vif_drop_pck(s).flg = s.flg
           /\ vif_drop_pck(s).svc = s.svc
           /\ vif_drop_pck(s).vip = s.vip
<1>1. vif_drop_pck(s) \in NodeState
  BY Zenon DEF vif_drop_pck, NodeState
<1>2. vif_drop_pck(s).flg = s.flg /\ vif_drop_pck(s).svc = s.svc
  BY Zenon DEF vif_drop_pck, NodeState
<1>3. vif_drop_pck(s).vip = s.vip
  BY Zenon DEF vif_drop_pck, NodeState
<1> QED
  BY <1>1, <1>2, <1>3

\* had_vrrp_vif_rcv_pck_ON: so does its opposite.
LEMMA VifRcvPckOn ==
    ASSUME NEW s \in NodeState
    PROVE  /\ vif_rcv_pck_ON(s) \in NodeState
           /\ vif_rcv_pck_ON(s) = [s EXCEPT !.rx = TRUE]
BY Zenon DEF vif_rcv_pck_ON, NodeState

\* had_state_leave_master(vsrv, 1, NULL, NULL)
LEMMA LeaveMasterStop ==
    ASSUME NEW n \in Node, NEW s \in NodeState
    PROVE  /\ Recast(s, leave_master_stop(n, s))
           /\ leave_master_stop(n, s).state = "DISABLE"
           /\ leave_master_stop(n, s).vip = FALSE
           /\ Full(n, leave_master_stop(n, s))
<1> DEFINE t == [s EXCEPT !.vip = FALSE]
           u == send_adv(n, t, Stop)
           v == vif_drop_pck(u)
           r == [v EXCEPT !.master = AllLinks(NoNode), !.state = "DISABLE",
                     !.ms = AllLinks(Delay(n)), !.adv = AllLinks(0),
                     !.told = "DISABLE"]
<1>1. t \in NodeState
  BY Zenon DEF NodeState
<1>2. t.vip = FALSE /\ t.flg = s.flg /\ t.svc = s.svc
  BY SMT DEF NodeState
<1>3. Stop \in 0..255
  BY DEF Stop
<1> HIDE DEF t
<1>4. u \in NodeState
  BY <1>1, <1>3, SendAdvType
<1>5. PICK X : u = [t EXCEPT !.out = X]
  BY <1>1, <1>3, SendAdvType
<1>6. u.vip = t.vip /\ u.flg = t.flg /\ u.svc = t.svc
  BY <1>1, <1>5, SMT DEF NodeState
<1> HIDE DEF u
<1>7. v \in NodeState /\ v.vip = u.vip /\ v.flg = u.flg /\ v.svc = u.svc
  BY <1>4, VifDropPck
<1>8. leave_master_stop(n, s) = r
  BY DEF leave_master_stop, t, u
<1>9. /\ AllLinks(Delay(n)) \in [Link -> Nat]
      /\ AllLinks(0) \in [Link -> 0..AdverInt]
      /\ AllLinks(NoNode) \in [Link -> Node \cup {NoNode}]
  BY AllLinksType, DelayType
<1> HIDE DEF v
<1>10. r \in NodeState
  BY <1>7, <1>9, Zenon DEF NodeState, State
<1>11. /\ r.state = "DISABLE" /\ r.told = "DISABLE" /\ r.ms = AllLinks(Delay(n))
       /\ r.vip = v.vip /\ r.flg = v.flg /\ r.svc = v.svc
  BY <1>7, SMT DEF NodeState
<1> HIDE DEF r
<1>12. Role(r)
  BY <1>2, <1>6, <1>7, <1>11, Zenon DEF Role
<1>13. Full(n, r)
  BY <1>11, DelayType, SMT DEF Full, AllLinks
<1> QED
  BY <1>2, <1>6, <1>7, <1>8, <1>10, <1>11, <1>12, <1>13, Zenon DEF Recast

\* The force-to-fail branch of had_state_leave_master
LEMMA LeaveMasterForced ==
    ASSUME NEW s \in NodeState, NEW m \in Packet
    PROVE  /\ Recast(s, leave_master_forced(s, m))
           /\ leave_master_forced(s, m).state = "DISABLE"
<1> DEFINE r == [s EXCEPT !.vip = FALSE, !.state = "DISABLE",
                     !.master = AllLinks(m.from), !.told = "DISABLE"]
<1>1. m.from \in Node \cup {NoNode}
  BY SMT DEF Packet
<1>2. AllLinks(m.from) \in [Link -> Node \cup {NoNode}]
  BY <1>1, AllLinksType
<1>3. r \in NodeState
  BY <1>2, Zenon DEF NodeState, State
<1>4. /\ r.state = "DISABLE" /\ r.told = "DISABLE" /\ r.vip = FALSE
      /\ r.flg = s.flg /\ r.svc = s.svc
  BY SMT DEF NodeState
<1>5. leave_master_forced(s, m) = r
  BY DEF leave_master_forced
<1> HIDE DEF r
<1> QED
  BY <1>3, <1>4, <1>5, Zenon DEF Recast, Role

\* The label back: of had_state_leave_master
LEMMA LeaveMasterBack ==
    ASSUME NEW n \in Node, NEW s \in NodeState
    PROVE  /\ Recast(s, leave_master_back(n, s))
           /\ leave_master_back(n, s).state = "BACK"
<1> DEFINE v == vif_drop_pck(s)
           r == [v EXCEPT !.vip = FALSE, !.state = "BACK",
                     !.ms = AllLinks(Delay(n)), !.adv = AllLinks(0),
                     !.told = "BACK"]
<1>1. v \in NodeState /\ v.flg = s.flg /\ v.svc = s.svc
  BY VifDropPck
<1>2. AllLinks(Delay(n)) \in [Link -> Nat] /\ AllLinks(0) \in [Link -> 0..AdverInt]
  BY AllLinksType, DelayType
<1>3. leave_master_back(n, s) = r
  BY DEF leave_master_back
<1> HIDE DEF v
<1>4. r \in NodeState
  BY <1>1, <1>2, Zenon DEF NodeState, State
<1>5. /\ r.state = "BACK" /\ r.told = "BACK" /\ r.vip = FALSE
      /\ r.flg = v.flg /\ r.svc = v.svc
  BY <1>1, SMT DEF NodeState
<1> HIDE DEF r
<1> QED
  BY <1>1, <1>3, <1>4, <1>5, Zenon DEF Recast, Role

\* had_state_back
LEMMA StateBack ==
    ASSUME NEW n \in Node, NEW s \in NodeState, Role(s), s.state # "MAST"
    PROVE  /\ Recast(s, state_back(n, s))
           /\ state_back(n, s).state = "BACK"
<1> DEFINE v == vif_drop_pck(s)
           r == [v EXCEPT !.told = "BACK", !.ms = AllLinks(Delay(n)),
                     !.state = "BACK"]
<1>1. v \in NodeState /\ v.flg = s.flg /\ v.svc = s.svc /\ v.vip = s.vip
  BY VifDropPck
<1>2. AllLinks(Delay(n)) \in [Link -> Nat]
  BY AllLinksType, DelayType
<1>3. state_back(n, s) = r
  BY DEF state_back
<1> HIDE DEF v
<1>4. r \in NodeState
  BY <1>1, <1>2, Zenon DEF NodeState, State
<1>5. /\ r.state = "BACK" /\ r.told = "BACK" /\ r.vip = v.vip
      /\ r.flg = v.flg /\ r.svc = v.svc
  BY <1>1, SMT DEF NodeState
<1> HIDE DEF r
<1> QED
  BY <1>1, <1>3, <1>4, <1>5, Zenon DEF Recast, Role

\* had_state_goto_disable
LEMMA GotoDisable ==
    ASSUME NEW n \in Node, NEW s \in NodeState, Role(s), s.state # "DISABLE",
           NEW advF \in BOOLEAN
    PROVE  /\ Recast(s, goto_disable(n, s, advF))
           /\ goto_disable(n, s, advF).state = "DISABLE"
           /\ Full(n, goto_disable(n, s, advF))
<1> DEFINE u == IF advF THEN send_adv(n, s, Stop) ELSE s
           w == u.vip /\ s.state # "MAST"
           r == [u EXCEPT !.vip = w, !.state = "DISABLE",
                     !.master = AllLinks(NoNode), !.told = "DISABLE",
                     !.ms = AllLinks(DisableDelay(n))]
<1>1. Stop \in 0..255
  BY DEF Stop
<1>2. u \in NodeState /\ u.vip = s.vip /\ u.flg = s.flg /\ u.svc = s.svc
  <2>1. CASE advF
    <3>1. send_adv(n, s, Stop) \in NodeState
      BY <1>1, SendAdvType
    <3>2. PICK X : send_adv(n, s, Stop) = [s EXCEPT !.out = X]
      BY <1>1, SendAdvType
    <3>3. [s EXCEPT !.out = X].vip = s.vip /\ [s EXCEPT !.out = X].flg = s.flg
          /\ [s EXCEPT !.out = X].svc = s.svc
      BY SMT DEF NodeState
    <3> QED
      BY <2>1, <3>1, <3>2, <3>3, Zenon
  <2>2. CASE ~advF
    BY <2>2, Zenon
  <2> QED
    BY <2>1, <2>2
<1>3. goto_disable(n, s, advF) = r
  BY DEF goto_disable
<1> HIDE DEF u
<1>4. w = FALSE
  BY <1>2, Zenon DEF Role
<1>5. /\ AllLinks(DisableDelay(n)) \in [Link -> Nat]
      /\ AllLinks(NoNode) \in [Link -> Node \cup {NoNode}]
  BY AllLinksType, DelayType
<1> HIDE DEF w
<1>6. r \in NodeState
  BY <1>2, <1>4, <1>5, Zenon DEF NodeState, State
<1>7. /\ r.state = "DISABLE" /\ r.told = "DISABLE" /\ r.vip = w
      /\ r.ms = AllLinks(DisableDelay(n)) /\ r.flg = u.flg /\ r.svc = u.svc
  BY <1>2, SMT DEF NodeState
<1> HIDE DEF r
<1>8. Role(r)
  BY <1>4, <1>7, Zenon DEF Role
<1>9. Full(n, r)
  BY <1>7, DelayType, SMT DEF Full, AllLinks
<1> QED
  BY <1>2, <1>3, <1>6, <1>7, <1>8, <1>9, Zenon DEF Recast

-----------------------------------------------------------------------------
(***************************************************************************)
(* Steps that hear nothing: a pass of the state thread, an operation of    *)
(* the dbus thread, a change of the links.                                 *)
(***************************************************************************)

\* The parts of the inductive invariant that speak of the record alone
Good(s) ==
    /\ s \in NodeState
    /\ Role(s)
    /\ ~s.svc => s.state \in {"INIT", "MAST", "DISABLE"}

\* What such a step may do to a record: mastership starts with no rival known,
\* BACK is never entered and stateFlg is set with a force-to-fail packet,
\* DISABLE is entered with full timers.
Own(n, s, r) ==
    /\ Good(r)
    /\ r.state = "MAST" => \/ r.master = AllLinks(NoNode)
                           \/ s.state = "MAST" /\ r.master = s.master
    /\ r.state = "BACK" => /\ s.state = "BACK"
                           /\ r.flg => s.flg \/ \E m \in r.out : m.auth = "FAIL"
    /\ r.state = "DISABLE" => Full(n, r) \/ (s.state = "DISABLE" /\ r.ms = s.ms)

\* A step that keeps the role.
LEMMA OwnFrame ==
    ASSUME NEW n \in Node, NEW s, Good(s), NEW r \in NodeState,
           r.state = s.state, r.vip = s.vip, r.told = s.told,
           r.svc = s.svc \/ r.svc = TRUE, r.rx = s.rx \/ r.rx = TRUE,
           r.master = s.master, r.flg = s.flg, r.ms = s.ms \/ Full(n, r)
    PROVE  Own(n, s, r)
BY Zenon DEF Own, Good, Role

\* A step that takes the role, in one of the states that wait for it.
LEMMA OwnUp ==
    ASSUME NEW n \in Node, NEW s, Good(s), NEW r, Up(s, r),
           s.svc \/ r.state = "MAST"
    PROVE  Own(n, s, r)
BY Zenon DEF Own, Good, Up

\* A step that gives it up.
LEMMA OwnDown ==
    ASSUME NEW n \in Node, NEW s, Good(s), NEW r, Recast(s, r),
           r.state = "DISABLE", Full(n, r)
    PROVE  Own(n, s, r)
BY Zenon DEF Own, Good, Recast

\* Timers that were just set to the master-down delay are full.
LEMMA FullTimers ==
    ASSUME NEW n \in Node, NEW r, r.ms = AllLinks(Delay(n))
    PROVE  Full(n, r)
BY DelayType, SMT DEF Full, AllLinks

\* had_state_init
LEMMA StateInit ==
    ASSUME NEW n \in Node, NEW s, Good(s), s.state = "INIT"
    PROVE  Own(n, s, state_init(n, s))
<1> DEFINE r == [s EXCEPT !.ms = AllLinks(Delay(n)), !.state = "LEARN"]
<1>1. s \in NodeState /\ Role(s)
  BY DEF Good
<1>2. Own(n, s, s)
  BY <1>1, OwnFrame
<1>3. ASSUME s.svc PROVE Own(n, s, goto_master(n, s, "MAST"))
  BY <1>1, <1>3, GotoMaster, OwnUp, Zenon
<1>4. ASSUME s.svc PROVE Own(n, s, r)
  <2>1. AllLinks(Delay(n)) \in [Link -> Nat]
    BY AllLinksType, DelayType
  <2>2. r \in NodeState
    BY <1>1, <2>1, Zenon DEF NodeState, State
  <2>3. r.state = "LEARN" /\ r.vip = s.vip /\ r.told = s.told /\ r.svc = s.svc
    BY <1>1, SMT DEF NodeState
  <2> HIDE DEF r
  <2>4. Role(r)
    BY <1>1, <2>3, Zenon DEF Role
  <2> QED
    BY <1>4, <2>2, <2>3, <2>4, Zenon DEF Own, Good
<1> HIDE DEF r
<1> QED
  BY <1>2, <1>3, <1>4, Zenon DEF state_init, r

\* had_state_learn_loop
LEMMA LearnLoop ==
    ASSUME NEW n \in Node, NEW s, Good(s), s.state = "LEARN"
    PROVE  Own(n, s, learn_loop(n, s))
<1>1. s \in NodeState /\ Role(s) /\ s.svc
  BY Zenon DEF Good
<1>2. Own(n, s, goto_master(n, s, "NONE"))
  BY <1>1, GotoMaster, OwnUp, Zenon
<1>3. Prio[n] \in 0..255
  BY NodeAssumption
<1>4. send_adv(n, s, Prio[n]) \in NodeState
  BY <1>1, <1>3, SendAdvType
<1>5. PICK X : send_adv(n, s, Prio[n]) = [s EXCEPT !.out = X]
  BY <1>1, <1>3, SendAdvType
<1> DEFINE r == [s EXCEPT !.out = X]
<1>6. /\ r.state = s.state /\ r.vip = s.vip /\ r.told = s.told /\ r.svc = s.svc
      /\ r.rx = s.rx /\ r.master = s.master /\ r.flg = s.flg /\ r.ms = s.ms
  BY <1>1, Zenon DEF NodeState
<1> HIDE DEF r
<1>7. Own(n, s, r)
  BY <1>4, <1>5, <1>6, OwnFrame DEF r
<1> QED
  BY <1>2, <1>5, <1>7, Zenon DEF learn_loop, r

\* had_state_transfer_loop
LEMMA TransferLoop ==
    ASSUME NEW n \in Node, NEW s, Good(s), s.state = "TRANSFER"
    PROVE  Own(n, s, transfer_loop(n, s))
<1>1. s \in NodeState /\ Role(s) /\ s.svc
  BY Zenon DEF Good
<1>2. Own(n, s, s)
  BY <1>1, OwnFrame
<1>3. Own(n, s, goto_master(n, s, "TRANSFER"))
  BY <1>1, GotoMaster, OwnUp, Zenon
<1> QED
  BY <1>2, <1>3, Zenon DEF transfer_loop

\* had_state_back_loop: it ends in MAST only if stateFlg was set.
LEMMA BackLoop ==
    ASSUME NEW n \in Node, NEW s, Good(s), s.state = "BACK"
    PROVE  /\ Own(n, s, back_loop(n, s))
           /\ back_loop(n, s).state = "MAST" => s.flg
<1>1. s \in NodeState /\ Role(s) /\ s.svc
  BY Zenon DEF Good
<1>2. Own(n, s, s)
  BY <1>1, OwnFrame
<1>3. AllLinks(Delay(n)) \in [Link -> Nat] /\ AllLinks(0) \in [Link -> 0..AdverInt]
      /\ AllLinks(AdverInt) \in [Link -> Nat]
  BY AllLinksType, DelayType, NodeAssumption
<1> DEFINE down == [s EXCEPT !.ms = AllLinks(Delay(n)), !.adv = AllLinks(0)]
           t == [s EXCEPT !.flg = TRUE, !.ms = AllLinks(AdverInt)]
           warn == warn_master(n, s)
           up == goto_master(n, s, "NONE")
           go == [up EXCEPT !.flg = FALSE]
<1>4. Own(n, s, down) /\ down.state = "BACK"
  <2>1. down \in NodeState
    BY <1>1, <1>3, Zenon DEF NodeState
  <2>2. /\ down.state = s.state /\ down.vip = s.vip /\ down.told = s.told
        /\ down.svc = s.svc /\ down.rx = s.rx /\ down.master = s.master
        /\ down.flg = s.flg /\ down.ms = AllLinks(Delay(n))
    BY <1>1, Zenon DEF NodeState
  <2> HIDE DEF down
  <2>3. Full(n, down)
    BY <2>2, FullTimers
  <2> QED
    BY <2>1, <2>2, <2>3, OwnFrame
<1>5. ASSUME LinksUp(s)
      PROVE  Own(n, s, warn) /\ warn.state = "BACK"
  <2>1. t \in NodeState
    BY <1>1, <1>3, Zenon DEF NodeState
  <2>2. /\ t.state = s.state /\ t.vip = s.vip /\ t.told = s.told
        /\ t.svc = s.svc /\ t.link = s.link
    BY <1>1, Zenon DEF NodeState
  <2>3. warn = send_fail(n, t)
    BY DEF warn_master
  <2> HIDE DEF t
  <2>4. LinksUp(t)
    BY <1>5, <2>2, Zenon DEF LinksUp
  <2>5. warn \in NodeState /\ \E m \in warn.out : m.auth = "FAIL"
    BY <1>1, <2>1, <2>2, <2>3, <2>4, SendFailType, Zenon
  <2>6. /\ warn.state = t.state /\ warn.vip = t.vip /\ warn.told = t.told
        /\ warn.svc = t.svc
    <3>1. /\ send_fail(n, t).state = t.state /\ send_fail(n, t).vip = t.vip
          /\ send_fail(n, t).told = t.told /\ send_fail(n, t).svc = t.svc
      BY <2>1, SendFailType
    <3> QED
      BY <2>3, <3>1
  <2> HIDE DEF warn
  <2>7. Role(warn)
    BY <1>1, <2>2, <2>6, Zenon DEF Role
  <2> QED
    BY <1>1, <2>2, <2>5, <2>6, <2>7, Zenon DEF Own, Good
<1>6. Own(n, s, go)
  <2>1. Up(s, up)
    BY <1>1, GotoMaster, Zenon
  <2> HIDE DEF up
  <2>2. up \in NodeState /\ Own(n, s, up)
    BY <1>1, <2>1, OwnUp, Zenon DEF Up
  <2>3. go \in NodeState
    BY <2>2, Zenon DEF NodeState
  <2>4. /\ go.state = up.state /\ go.vip = up.vip /\ go.told = up.told
        /\ go.svc = up.svc /\ go.rx = up.rx /\ go.master = up.master
    BY <2>2, SMT DEF NodeState
  <2> HIDE DEF go
  <2>5. Good(go)
    BY <2>2, <2>3, <2>4, Zenon DEF Own, Good, Role
  <2> QED
    BY <2>1, <2>4, <2>5, Zenon DEF Own, Up
<1> HIDE DEF down, t, warn, up, go
<1>7. back_loop(n, s) = down \/ back_loop(n, s) = s
      \/ (LinksUp(s) /\ back_loop(n, s) = warn) \/ (s.flg /\ back_loop(n, s) = go)
  BY <1>1, Zenon DEF back_loop, down, warn, up, go
<1> QED
  BY <1>2, <1>4, <1>5, <1>6, <1>7, Zenon

\* had_state_mast_loop
LEMMA MastLoop ==
    ASSUME NEW n \in Node, NEW s, Good(s), s.state = "MAST"
    PROVE  Own(n, s, mast_loop(n, s))
<1>1. s \in NodeState /\ Role(s)
  BY Zenon DEF Good
<1>2. Own(n, s, goto_disable(n, s, TRUE))
  BY <1>1, GotoDisable, OwnDown, Zenon
<1> DEFINE due == {l \in Link : s.adv[l] <= 0}
           X == s.out \cup {Pkt(n, s, l, Prio[n], "PASS") :
                                l \in {k \in due : s.ht /\ s.svc}}
           A == [l \in Link |-> IF l \in due THEN AdverInt ELSE s.adv[l]]
           r == [s EXCEPT !.out = X, !.adv = A]
<1>3. Prio[n] \in 0..255
  BY NodeAssumption
<1>4. {Pkt(n, s, l, Prio[n], "PASS") : l \in {k \in due : s.ht /\ s.svc}}
          \in SUBSET Packet
  BY <1>1, <1>3, PktType
<1>5. X \in SUBSET Packet
  BY <1>1, <1>4, SMT DEF NodeState
<1>6. A \in [Link -> 0..AdverInt]
  BY <1>1, NodeAssumption, SMT DEF NodeState
<1>7. mast_loop(n, s) = goto_disable(n, s, TRUE) \/ mast_loop(n, s) = r
  BY DEF mast_loop
<1> HIDE DEF X, A
<1>8. r \in NodeState
  BY <1>1, <1>5, <1>6, Zenon DEF NodeState
<1>9. /\ r.state = s.state /\ r.vip = s.vip /\ r.told = s.told /\ r.svc = s.svc
      /\ r.rx = s.rx /\ r.master = s.master /\ r.flg = s.flg /\ r.ms = s.ms
  BY <1>1, Zenon DEF NodeState
<1> HIDE DEF r
<1>10. Own(n, s, r)
  BY <1>8, <1>9, OwnFrame
<1> QED
  BY <1>2, <1>7, <1>10, Zenon

\* had_state_disable_loop: it ends in MAST only with an expired timer.
LEMMA DisableLoop ==
    ASSUME NEW n \in Node, NEW s, Good(s), s.state = "DISABLE"
    PROVE  /\ Own(n, s, disable_loop(n, s))
           /\ disable_loop(n, s).state = "MAST" => Expired(s.ms)
<1> DEFINE r == [s EXCEPT !.ms = AllLinks(Delay(n))]
           up == goto_master(n, s, "NONE")
<1>1. s \in NodeState /\ Role(s)
  BY Zenon DEF Good
<1>2. Own(n, s, s)
  BY <1>1, OwnFrame
<1>3. Own(n, s, up)
  BY <1>1, GotoMaster, OwnUp, Zenon
<1>4. AllLinks(Delay(n)) \in [Link -> Nat]
  BY AllLinksType, DelayType
<1>5. r \in NodeState
  BY <1>1, <1>4, Zenon DEF NodeState
<1>6. /\ r.state = s.state /\ r.vip = s.vip /\ r.told = s.told /\ r.svc = s.svc
      /\ r.rx = s.rx /\ r.master = s.master /\ r.flg = s.flg
      /\ r.ms = AllLinks(Delay(n))
  BY <1>1, Zenon DEF NodeState
<1>7. \/ disable_loop(n, s) = r \/ disable_loop(n, s) = s
      \/ Expired(s.ms) /\ disable_loop(n, s) = up
  BY DEF disable_loop
<1> HIDE DEF r, up
<1>8. Full(n, r)
  BY <1>6, FullTimers
<1>9. Own(n, s, r)
  BY <1>5, <1>6, <1>8, OwnFrame
<1> QED
  BY <1>2, <1>3, <1>6, <1>7, <1>9, Zenon

\* A pass of had_state_thread_main, and what it takes to reach MAST by one.
LEMMA StateLoop ==
    ASSUME NEW n \in Node, NEW s, Good(s)
    PROVE  /\ Own(n, s, state_loop(n, s))
           /\ s.state = "BACK" /\ state_loop(n, s).state = "MAST" => s.flg
           /\ s.state = "DISABLE" /\ state_loop(n, s).state = "MAST"
                  => Expired(s.ms)
<1>1. s.state \in State
  BY SMT DEF Good, NodeState
<1>2. CASE s.state = "INIT"
  BY <1>2, StateInit DEF state_loop
<1>3. CASE s.state = "LEARN"
  BY <1>3, LearnLoop DEF state_loop
<1>4. CASE s.state = "BACK"
  BY <1>4, BackLoop DEF state_loop
<1>5. CASE s.state = "TRANSFER"
  BY <1>5, TransferLoop DEF state_loop
<1>6. CASE s.state = "MAST"
  BY <1>6, MastLoop DEF state_loop
<1>7. CASE s.state = "DISABLE"
  BY <1>7, DisableLoop DEF state_loop
<1> QED
  BY <1>1, <1>2, <1>3, <1>4, <1>5, <1>6, <1>7, Zenon DEF State

\* had_dbus_service_enable
LEMMA ServiceEnableStep ==
    ASSUME NEW n \in Node, NEW s, Good(s)
    PROVE  Own(n, s, service_enable(s))
<1> DEFINE t == [s EXCEPT !.rx = TRUE]
           r == [t EXCEPT !.svc = TRUE]
<1>1. s \in NodeState
  BY DEF Good
<1>2. t \in NodeState
  BY <1>1, Zenon DEF NodeState
<1>3. /\ t.state = s.state /\ t.vip = s.vip /\ t.told = s.told /\ t.rx = TRUE
      /\ t.master = s.master /\ t.flg = s.flg /\ t.ms = s.ms
  BY <1>1, Zenon DEF NodeState
<1>4. service_enable(s) = r
  BY DEF service_enable, vif_rcv_pck_ON
<1> HIDE DEF t
<1>5. r \in NodeState
  BY <1>2, Zenon DEF NodeState
<1>6. /\ r.state = t.state /\ r.vip = t.vip /\ r.told = t.told /\ r.svc = TRUE
      /\ r.rx = t.rx /\ r.master = t.master /\ r.flg = t.flg /\ r.ms = t.ms
  BY <1>2, Zenon DEF NodeState
<1> HIDE DEF r
<1> QED
  BY <1>3, <1>4, <1>5, <1>6, OwnFrame

\* had_dbus_service_disable ends in INIT, from whatever state.
LEMMA ServiceDisableStep ==
    ASSUME NEW n \in Node, NEW s, Good(s)
    PROVE  Own(n, s, service_disable(n, s))
<1> DEFINE t == [s EXCEPT !.rx = TRUE]
           u == IF s.state = "TRANSFER"
                THEN [t EXCEPT !.wid = FALSE, !.portal = FALSE] ELSE t
           d == goto_disable(n, u, s.state = "MAST")
           e == [d EXCEPT !.state = "INIT"]
           v == IF s.state = "INIT" THEN t ELSE e
           r == [v EXCEPT !.svc = FALSE]
<1>1. s \in NodeState /\ Role(s)
  BY DEF Good
<1>2. t \in NodeState
  BY <1>1, Zenon DEF NodeState
<1>3. t.state = s.state /\ t.vip = s.vip /\ t.told = s.told /\ t.rx = TRUE
  BY <1>1, Zenon DEF NodeState
<1>4. service_disable(n, s) = r
  BY DEF service_disable, vif_rcv_pck_ON
<1> HIDE DEF t
<1>5. u \in NodeState /\ u.state = s.state /\ u.vip = s.vip /\ u.told = s.told
      /\ u.rx = TRUE
  <2> DEFINE w == [t EXCEPT !.wid = FALSE, !.portal = FALSE]
  <2>1. w \in NodeState
    BY <1>2, Zenon DEF NodeState
  <2>2. w.state = t.state /\ w.vip = t.vip /\ w.told = t.told /\ w.rx = t.rx
    BY <1>2, Zenon DEF NodeState
  <2> HIDE DEF w
  <2> QED
    BY <1>2, <1>3, <2>1, <2>2 DEF w
<1> HIDE DEF u
<1>6. Role(u)
  BY <1>1, <1>5, Zenon DEF Role
<1>7. d \in NodeState /\ d.vip = FALSE /\ d.told = "DISABLE"
  <2>1. CASE s.state = "DISABLE"
    <3>1. d = u
      BY <1>5, <2>1 DEF goto_disable
    <3> QED
      BY <1>5, <1>6, <2>1, <3>1, Zenon DEF Role, NodeState
  <2>2. CASE s.state # "DISABLE"
    <3>1. Recast(u, d) /\ d.state = "DISABLE"
      BY <1>5, <1>6, <2>2, GotoDisable
    <3> HIDE DEF d
    <3> QED
      BY <3>1, Zenon DEF Recast, Role, NodeState
  <2> QED
    BY <2>1, <2>2
<1> HIDE DEF d
<1>8. e \in NodeState
  BY <1>7, Zenon DEF NodeState, State
<1>9. e.state = "INIT" /\ e.vip = d.vip /\ e.told = d.told
  BY <1>7, Zenon DEF NodeState
<1> HIDE DEF e
<1>10. v \in NodeState /\ v.state = "INIT" /\ v.vip = FALSE /\ v.told # "MAST"
  <2>1. CASE s.state = "INIT"
    <3>1. v = t
      BY <2>1
    <3>2. s.vip \in BOOLEAN
      BY <1>1, SMT DEF NodeState
    <3>3. ~s.vip /\ s.told # "MAST"
      BY <1>1, <2>1, Zenon DEF Role
    <3>4. s.vip = FALSE
      BY <3>2, <3>3, Zenon
    <3> QED
      BY <1>2, <1>3, <2>1, <3>1, <3>3, <3>4, Zenon
  <2>2. CASE s.state # "INIT"
    <3>1. v = e
      BY <2>2
    <3>2. e.told # "MAST"
      BY <1>7, <1>9, SMT
    <3> QED
      BY <1>7, <1>8, <1>9, <3>1, <3>2, Zenon
  <2> QED
    BY <2>1, <2>2
<1> HIDE DEF v
<1>11. r \in NodeState
  BY <1>10, Zenon DEF NodeState
<1>12. r.state = v.state /\ r.vip = v.vip /\ r.told = v.told
  BY <1>10, Zenon DEF NodeState
<1> HIDE DEF r
<1>13. Role(r)
  BY <1>10, <1>12, Zenon DEF Role
<1> QED
  BY <1>4, <1>10, <1>11, <1>12, <1>13, Zenon DEF Own, Good

\* had_dbus_state_change to MASTER, the global switch of hmd
LEMMA SwitchMasterStep ==
    ASSUME NEW n \in Node, NEW s, Good(s)
    PROVE  Own(n, s, state_change_master(n, s))
<1>1. s \in NodeState /\ Role(s)
  BY DEF Good
<1>2. CASE s.state = "MAST"
  <2>1. Own(n, s, s)
    BY <1>1, OwnFrame
  <2> QED
    BY <1>2, <2>1, Zenon DEF state_change_master
<1>3. CASE s.state # "MAST"
  <2> DEFINE t == [s EXCEPT !.ms = AllLinks(AdverInt)]
             u == send_fail(n, t)
             r == goto_master(n, u, "NONE")
  <2>1. AllLinks(AdverInt) \in [Link -> Nat]
    BY AllLinksType, NodeAssumption
  <2>2. t \in NodeState
    BY <1>1, <2>1, Zenon DEF NodeState
  <2>3. t.state = s.state /\ t.vip = s.vip /\ t.told = s.told
    BY <1>1, Zenon DEF NodeState
  <2>4. state_change_master(n, s) = r
    BY <1>3 DEF state_change_master
  <2> HIDE DEF t
  <2>5. u \in NodeState /\ u.state = t.state /\ u.vip = t.vip /\ u.told = t.told
    BY <2>2, SendFailType
  <2> HIDE DEF u
  <2>6. Role(u) /\ u.state # "MAST"
    BY <1>1, <1>3, <2>3, <2>5, Zenon DEF Role
  <2>7. Up(u, r) /\ r.state = "MAST"
    BY <2>5, <2>6, GotoMaster
  <2> HIDE DEF r
  <2> QED
    BY <2>4, <2>7, Zenon DEF Own, Good, Up
<1> QED
  BY <1>2, <1>3

\* had_dbus_state_change to BACK
LEMMA SwitchBackStep ==
    ASSUME NEW n \in Node, NEW s, Good(s)
    PROVE  Own(n, s, state_change_back(n, s))
<1>1. s \in NodeState
  BY DEF Good
<1>2. Own(n, s, s)
  BY <1>1, OwnFrame
<1>3. Own(n, s, leave_master_stop(n, s))
  BY <1>1, LeaveMasterStop, OwnDown, Zenon
<1> QED
  BY <1>2, <1>3, Zenon DEF state_change_back

\* had_dbus_end and the profile created anew
LEMMA EndProfileStep ==
    ASSUME NEW n \in Node, NEW s, Good(s)
    PROVE  Own(n, s, end_profile(n, s))
<1> DEFINE t == [s EXCEPT !.rx = TRUE]
           u == IF s.state = "MAST" THEN leave_master_stop(n, t) ELSE t
           r == [u EXCEPT !.state = "INIT", !.svc = FALSE, !.want = FALSE,
                     !.master = AllLinks(NoNode),
                     !.ms = AllLinks(0), !.adv = AllLinks(0)]
<1>1. s \in NodeState /\ Role(s)
  BY DEF Good
<1>2. t \in NodeState
  BY <1>1, Zenon DEF NodeState
<1>3. t.vip = s.vip /\ t.told = s.told
  BY <1>1, Zenon DEF NodeState
<1>4. end_profile(n, s) = r
  BY DEF end_profile, vif_rcv_pck_ON
<1> HIDE DEF t
<1>5. u \in NodeState /\ ~u.vip /\ u.told # "MAST"
  <2>1. CASE s.state = "MAST"
    <3>1. Recast(t, u) /\ u.state = "DISABLE"
      BY <1>2, <2>1, LeaveMasterStop
    <3> HIDE DEF u
    <3>2. u \in NodeState /\ Role(u)
      BY <3>1 DEF Recast
    <3>3. u.state # "MAST"
      BY <3>1, SMT
    <3> QED
      BY <3>2, <3>3, Zenon DEF Role
  <2>2. CASE s.state # "MAST"
    <3>1. u = t
      BY <2>2
    <3> QED
      BY <1>1, <1>2, <1>3, <2>2, <3>1, Zenon DEF Role
  <2> QED
    BY <2>1, <2>2
<1> HIDE DEF u
<1>6. /\ AllLinks(0) \in [Link -> Nat] /\ AllLinks(0) \in [Link -> 0..AdverInt]
      /\ AllLinks(NoNode) \in [Link -> Node \cup {NoNode}]
  BY AllLinksType
<1>7. r \in NodeState
  BY <1>5, <1>6, Zenon DEF NodeState, State
<1>8. r.state = "INIT" /\ r.vip = u.vip /\ r.told = u.told
  BY <1>5, Zenon DEF NodeState
<1> HIDE DEF r
<1>9. Role(r)
  BY <1>5, <1>8, Zenon DEF Role
<1> QED
  BY <1>4, <1>7, <1>8, <1>9, Zenon DEF Own, Good

\* The reports and settings of the dbus thread that touch one flag
LEMMA FlagSteps ==
    ASSUME NEW n \in Node, NEW s, Good(s), NEW v \in BOOLEAN
    PROVE  /\ Own(n, s, [s EXCEPT !.wid = v])
           /\ Own(n, s, [s EXCEPT !.portal = v])
           /\ Own(n, s, [s EXCEPT !.want = v])
           /\ Own(n, s, [s EXCEPT !.ht = v])
           /\ Own(n, s, s)
           /\ Own(n, s, no_transfer(s))
<1>1. s \in NodeState
  BY DEF Good
<1>2. Own(n, s, s)
  BY <1>1, OwnFrame
<1>3. Own(n, s, [s EXCEPT !.wid = v])
  <2> DEFINE r == [s EXCEPT !.wid = v]
  <2>1. r \in NodeState
    BY <1>1, Zenon DEF NodeState
  <2>2. /\ r.state = s.state /\ r.vip = s.vip /\ r.told = s.told /\ r.svc = s.svc
        /\ r.rx = s.rx /\ r.master = s.master /\ r.flg = s.flg /\ r.ms = s.ms
    BY <1>1, Zenon DEF NodeState
  <2> HIDE DEF r
  <2>3. Own(n, s, r)
    BY <2>1, <2>2, OwnFrame
  <2> QED
    BY <2>3 DEF r
<1>4. Own(n, s, [s EXCEPT !.portal = v])
  <2> DEFINE r == [s EXCEPT !.portal = v]
  <2>1. r \in NodeState
    BY <1>1, Zenon DEF NodeState
  <2>2. /\ r.state = s.state /\ r.vip = s.vip /\ r.told = s.told /\ r.svc = s.svc
        /\ r.rx = s.rx /\ r.master = s.master /\ r.flg = s.flg /\ r.ms = s.ms
    BY <1>1, Zenon DEF NodeState
  <2> HIDE DEF r
  <2>3. Own(n, s, r)
    BY <2>1, <2>2, OwnFrame
  <2> QED
    BY <2>3 DEF r
<1>5. Own(n, s, [s EXCEPT !.want = v])
  <2> DEFINE r == [s EXCEPT !.want = v]
  <2>1. r \in NodeState
    BY <1>1, Zenon DEF NodeState
  <2>2. /\ r.state = s.state /\ r.vip = s.vip /\ r.told = s.told /\ r.svc = s.svc
        /\ r.rx = s.rx /\ r.master = s.master /\ r.flg = s.flg /\ r.ms = s.ms
    BY <1>1, Zenon DEF NodeState
  <2> HIDE DEF r
  <2>3. Own(n, s, r)
    BY <2>1, <2>2, OwnFrame
  <2> QED
    BY <2>3 DEF r
<1>6. Own(n, s, [s EXCEPT !.ht = v])
  <2> DEFINE r == [s EXCEPT !.ht = v]
  <2>1. r \in NodeState
    BY <1>1, Zenon DEF NodeState
  <2>2. /\ r.state = s.state /\ r.vip = s.vip /\ r.told = s.told /\ r.svc = s.svc
        /\ r.rx = s.rx /\ r.master = s.master /\ r.flg = s.flg /\ r.ms = s.ms
    BY <1>1, Zenon DEF NodeState
  <2> HIDE DEF r
  <2>3. Own(n, s, r)
    BY <2>1, <2>2, OwnFrame
  <2> QED
    BY <2>3 DEF r
<1>7. Own(n, s, no_transfer(s))
  <2> DEFINE r == [s EXCEPT !.wid = FALSE, !.portal = FALSE]
  <2>1. r \in NodeState
    BY <1>1, Zenon DEF NodeState
  <2>2. /\ r.state = s.state /\ r.vip = s.vip /\ r.told = s.told /\ r.svc = s.svc
        /\ r.rx = s.rx /\ r.master = s.master /\ r.flg = s.flg /\ r.ms = s.ms
    BY <1>1, Zenon DEF NodeState
  <2> HIDE DEF r
  <2>3. Own(n, s, r)
    BY <2>1, <2>2, OwnFrame
  <2> QED
    BY <2>3 DEF r, no_transfer
<1> QED
  BY <1>2, <1>3, <1>4, <1>5, <1>6, <1>7

\* had_set_link_state
LEMMA LinkSteps ==
    ASSUME NEW n \in Node, NEW s, Good(s)
    PROVE  /\ \A l \in Link : Own(n, s, [s EXCEPT !.link[l] = ~@])
           /\ \A m \in Mon : Own(n, s, [s EXCEPT !.mon[m] = ~@])
<1>1. s \in NodeState
  BY DEF Good
<1>2. ASSUME NEW l \in Link PROVE Own(n, s, [s EXCEPT !.link[l] = ~@])
  <2> DEFINE f == [s.link EXCEPT ![l] = ~s.link[l]]
             r == [s EXCEPT !.link = f]
  <2>1. s.link \in [Link -> BOOLEAN]
    BY <1>1, SMT DEF NodeState
  <2>2. f \in [Link -> BOOLEAN]
    BY <2>1, Zenon
  <2>3. [s EXCEPT !.link[l] = ~@] = r
    BY <1>1, Zenon DEF NodeState
  <2> HIDE DEF f
  <2>4. r \in NodeState
    BY <1>1, <2>2, Zenon DEF NodeState
  <2>5. /\ r.state = s.state /\ r.vip = s.vip /\ r.told = s.told /\ r.svc = s.svc
        /\ r.rx = s.rx /\ r.master = s.master /\ r.flg = s.flg /\ r.ms = s.ms
    BY <1>1, Zenon DEF NodeState
  <2> HIDE DEF r
  <2>6. Own(n, s, r)
    BY <2>4, <2>5, OwnFrame
  <2> QED
    BY <2>3, <2>6, Zenon
<1>3. ASSUME NEW m \in Mon PROVE Own(n, s, [s EXCEPT !.mon[m] = ~@])
  <2> DEFINE f == [s.mon EXCEPT ![m] = ~s.mon[m]]
             r == [s EXCEPT !.mon = f]
  <2>1. s.mon \in [Mon -> BOOLEAN]
    BY <1>1, SMT DEF NodeState
  <2>2. f \in [Mon -> BOOLEAN]
    BY <2>1, Zenon
  <2>3. [s EXCEPT !.mon[m] = ~@] = r
    BY <1>1, Zenon DEF NodeState
  <2> HIDE DEF f
  <2>4. r \in NodeState
    BY <1>1, <2>2, Zenon DEF NodeState
  <2>5. /\ r.state = s.state /\ r.vip = s.vip /\ r.told = s.told /\ r.svc = s.svc
        /\ r.rx = s.rx /\ r.master = s.master /\ r.flg = s.flg /\ r.ms = s.ms
    BY <1>1, Zenon DEF NodeState
  <2> HIDE DEF r
  <2>6. Own(n, s, r)
    BY <2>4, <2>5, OwnFrame
  <2> QED
    BY <2>3, <2>6, Zenon
<1> QED
  BY <1>2, <1>3

-----------------------------------------------------------------------------
(***************************************************************************)
(* Steps that hear a packet.  had_updata clears stateFlg first; what it    *)
(* then calls starts from a record that is Ready.                          *)
(***************************************************************************)
Ready(s) == Good(s) /\ ~s.flg /\ s.svc

\* What hearing m may do: stateFlg stays clear, a master learns of a rival only
\* from a better master's advertisement, and DISABLE keeps its timers.
Got(n, s, m, r) ==
    /\ Ready(r)
    /\ r.state = "MAST" =>
          \/ r.master = AllLinks(NoNode)
          \/ /\ s.state = "MAST"
             /\ \A l \in Link : r.master[l] # NoNode =>
                    \/ s.master[l] # NoNode
                    \/ l = m.l /\ m.st # "LEARN" /\ m.prio # Stop /\ better(n, m)
    /\ r.state = "DISABLE" /\ s.state = "DISABLE" => r.ms = s.ms

\* The four ways a packet can end.
LEMMA GotFrame ==
    ASSUME NEW n \in Node, NEW s, Ready(s), NEW m, NEW r \in NodeState,
           r.state = s.state, r.vip = s.vip, r.told = s.told, r.svc = s.svc,
           r.rx = s.rx, r.flg = s.flg,
           s.state # "MAST" \/ r.master = s.master,
           s.state # "DISABLE" \/ r.ms = s.ms
    PROVE  Got(n, s, m, r)
BY Zenon DEF Got, Ready, Good, Role

LEMMA GotUp ==
    ASSUME NEW n, NEW s, NEW m, NEW u, Ready(u), NEW r, Up(u, r)
    PROVE  Got(n, s, m, r)
<1>1. r.state # "DISABLE"
  BY SMT DEF Up
<1> QED
  BY <1>1, Zenon DEF Got, Ready, Good, Up

LEMMA GotBack ==
    ASSUME NEW n, NEW s, NEW m, NEW u, Ready(u), NEW r, Recast(u, r),
           r.state = "BACK"
    PROVE  Got(n, s, m, r)
<1>1. r.state # "DISABLE" /\ r.state # "MAST"
  BY SMT
<1> QED
  BY <1>1, Zenon DEF Got, Ready, Good, Recast

LEMMA GotForced ==
    ASSUME NEW n, NEW s, s.state = "MAST", NEW m, NEW u, Ready(u), NEW r,
           Recast(u, r), r.state = "DISABLE"
    PROVE  Got(n, s, m, r)
<1>1. s.state # "DISABLE" /\ r.state # "MAST"
  BY SMT
<1> QED
  BY <1>1, Zenon DEF Got, Ready, Good, Recast

\* The sender becomes the known master of its link.
Known(s, m) == [s EXCEPT !.master[m.l] = m.from]

\* Recording master_ipaddr_xlink changes nothing else.
LEMMA KnownMaster ==
    ASSUME NEW s, Ready(s), NEW m \in Packet
    PROVE  /\ Ready(Known(s, m))
           /\ Known(s, m) \in NodeState
           /\ Known(s, m).state = s.state
           /\ Known(s, m).heard = s.heard
           /\ Known(s, m).master = [s.master EXCEPT ![m.l] = m.from]
<1> DEFINE f == [s.master EXCEPT ![m.l] = m.from]
           u == Known(s, m)
<1>1. s \in NodeState
  BY DEF Ready, Good
<1>2. m.l \in Link /\ m.from \in Node
  BY SMT DEF Packet
<1>3. s.master \in [Link -> Node \cup {NoNode}]
  BY <1>1, SMT DEF NodeState
<1>4. f \in [Link -> Node \cup {NoNode}]
  BY <1>2, <1>3, SMT
<1>5. u = [s EXCEPT !.master = f]
  BY <1>1, Zenon DEF NodeState, Known
<1> HIDE DEF f, u
<1>6. u \in NodeState
  BY <1>1, <1>4, <1>5, Zenon DEF NodeState
<1>7. /\ u.state = s.state /\ u.vip = s.vip /\ u.told = s.told
      /\ u.svc = s.svc /\ u.rx = s.rx /\ u.flg = s.flg /\ u.ms = s.ms
      /\ u.heard = s.heard /\ u.master = f
  BY <1>1, <1>5, Zenon DEF NodeState
<1>8. Ready(u)
  BY <1>6, <1>7, Zenon DEF Ready, Good, Role
<1> QED
  BY <1>6, <1>7, <1>8, Zenon DEF f, u

\* had_state_from_learn
LEMMA FromLearn ==
    ASSUME NEW n \in Node, NEW s, s.state = "LEARN", NEW u, Ready(u),
           u.state = "LEARN", NEW m
    PROVE  Got(n, s, m, from_learn(n, u, m))
<1>1. u \in NodeState /\ Role(u) /\ u.state # "MAST" /\ u.state # "DISABLE"
  BY SMT DEF Ready, Good
<1>2. Got(n, s, m, u)
  BY <1>1, Zenon DEF Got
<1>3. Got(n, s, m, goto_transfer(u))
  BY <1>1, GotoTransfer, GotUp, Zenon
<1>4. Got(n, s, m, state_back(n, u))
  BY <1>1, StateBack, GotBack, Zenon
<1> QED
  BY <1>2, <1>3, <1>4, Zenon DEF from_learn

\* had_state_from_disable
LEMMA FromDisable ==
    ASSUME NEW n \in Node, NEW s, NEW u, Ready(u), u.state = "DISABLE",
           u.ms = s.ms, NEW m
    PROVE  Got(n, s, m, from_disable(n, u, m))
<1>1. u \in NodeState /\ Role(u) /\ u.state # "MAST"
  BY SMT DEF Ready, Good
<1>2. Got(n, s, m, u)
  BY <1>1, Zenon DEF Got
<1>3. Got(n, s, m, goto_transfer(u))
  BY <1>1, GotoTransfer, GotUp, Zenon
<1>4. Got(n, s, m, goto_master(n, u, "LEARN"))
  BY <1>1, GotoMaster, GotUp, Zenon
<1>5. Got(n, s, m, state_back(n, u))
  BY <1>1, StateBack, GotBack, Zenon
<1> QED
  BY <1>2, <1>3, <1>4, <1>5, Zenon DEF from_disable

\* had_update_uplink and had_update_downlink in LEARN
LEMMA UpdateLearn ==
    ASSUME NEW n \in Node, NEW s, Ready(s), s.state = "LEARN", NEW m \in Packet
    PROVE  Got(n, s, m, update_learn(n, s, m))
<1> DEFINE u == Known(s, m)
           v == [u EXCEPT !.ms = AllLinks(Delay(n))]
<1>1. s \in NodeState /\ Role(s) /\ s.state # "MAST" /\ s.state # "DISABLE"
  BY SMT DEF Ready, Good
<1>2. Got(n, s, m, goto_master(n, s, "BACK"))
  BY <1>1, GotoMaster, GotUp, Zenon
<1>3. Ready(u) /\ u \in NodeState /\ u.state = "LEARN"
  BY KnownMaster
<1>4. update_learn(n, s, m) \in {goto_master(n, s, "BACK"), from_learn(n, v, m), u}
  BY DEF update_learn, Known
<1> HIDE DEF u
<1>5. Got(n, s, m, u)
  <2>1. u.state # "MAST" /\ u.state # "DISABLE"
    BY <1>3, SMT
  <2> QED
    BY <1>3, <2>1, Zenon DEF Got
<1>6. AllLinks(Delay(n)) \in [Link -> Nat]
  BY AllLinksType, DelayType
<1>7. v \in NodeState
  BY <1>3, <1>6, Zenon DEF NodeState
<1>8. /\ v.state = u.state /\ v.vip = u.vip /\ v.told = u.told /\ v.svc = u.svc
      /\ v.rx = u.rx /\ v.flg = u.flg
  BY <1>3, Zenon DEF NodeState
<1> HIDE DEF v
<1>9. Ready(v)
  BY <1>3, <1>7, <1>8, Zenon DEF Ready, Good, Role
<1>10. Got(n, s, m, from_learn(n, v, m))
  BY <1>3, <1>8, <1>9, FromLearn
<1> QED
  BY <1>2, <1>4, <1>5, <1>10, Zenon

\* ... in BACK
LEMMA UpdateBack ==
    ASSUME NEW n \in Node, NEW s, Ready(s), s.state = "BACK", NEW m \in Packet
    PROVE  Got(n, s, m, update_back(n, s, m))
<1> DEFINE u == Known(s, m)
           t == [s EXCEPT !.ms[m.l] = Delay(n)]
           v == Known(t, m)
<1>1. s \in NodeState /\ Role(s) /\ s.state # "MAST" /\ s.state # "DISABLE"
  BY SMT DEF Ready, Good
<1>2. \A o : Got(n, s, m, goto_master(n, s, o))
  BY <1>1, GotoMaster, GotUp, Zenon
<1>3. \/ update_back(n, s, m) = goto_master(n, s, "BACK")
      \/ update_back(n, s, m) = goto_master(n, s, m.st)
      \/ update_back(n, s, m) = u
      \/ update_back(n, s, m) = v
  BY DEF update_back, Known
<1>4. Got(n, s, m, u)
  <2>1. Ready(u) /\ u.state = s.state
    BY KnownMaster
  <2> HIDE DEF u
  <2> QED
    BY <1>1, <2>1, Zenon DEF Got
<1>5. Got(n, s, m, v)
  <2> DEFINE f == [s.ms EXCEPT ![m.l] = Delay(n)]
  <2>1. s.ms \in [Link -> Nat] /\ m.l \in Link
    BY <1>1, SMT DEF NodeState, Packet
  <2>2. f \in [Link -> Nat]
    BY <2>1, DelayType, SMT
  <2>3. t = [s EXCEPT !.ms = f]
    BY <1>1, Zenon DEF NodeState
  <2> HIDE DEF f, t
  <2>4. t \in NodeState
    BY <1>1, <2>2, <2>3, Zenon DEF NodeState
  <2>5. /\ t.state = s.state /\ t.vip = s.vip /\ t.told = s.told /\ t.svc = s.svc
        /\ t.rx = s.rx /\ t.flg = s.flg
    BY <1>1, <2>3, Zenon DEF NodeState
  <2>6. Ready(t)
    BY <2>4, <2>5, Zenon DEF Ready, Good, Role
  <2>7. Ready(v) /\ v.state = t.state
    BY <2>6, KnownMaster
  <2> HIDE DEF v
  <2> QED
    BY <1>1, <2>5, <2>7, Zenon DEF Got
<1> HIDE DEF u, t, v
<1> QED
  BY <1>2, <1>3, <1>4, <1>5, Zenon

\* A master's reply to a stop packet leaves it the master.
LEMMA AnswerStop ==
    ASSUME NEW n \in Node, NEW s, Ready(s), s.state = "MAST", NEW m,
           NEW l \in Link
    PROVE  Got(n, s, m, answer_stop(n, s, l))
<1> DEFINE X == s.out \cup {Pkt(n, s, k, Prio[n], "PASS") :
                                k \in {j \in {l} : s.ht /\ s.svc}}
           A == [k \in Link |-> IF k = "up" THEN AdverInt ELSE s.adv[k]]
           t == [s EXCEPT !.out = X]
           r == [t EXCEPT !.adv = A]
<1>1. s \in NodeState /\ s.state # "DISABLE"
  BY SMT DEF Ready, Good
<1>2. Prio[n] \in 0..255
  BY NodeAssumption
<1>3. {Pkt(n, s, k, Prio[n], "PASS") : k \in {j \in {l} : s.ht /\ s.svc}}
         \in SUBSET Packet
  BY <1>1, <1>2, PktType
<1>4. X \in SUBSET Packet
  BY <1>1, <1>3, SMT DEF NodeState
<1>5. A \in [Link -> 0..AdverInt]
  BY <1>1, NodeAssumption, SMT DEF NodeState
<1>6. answer_stop(n, s, l) = r
  BY DEF answer_stop, send_link_adv
<1> HIDE DEF X, A
<1>7. t \in NodeState
  BY <1>1, <1>4, Zenon DEF NodeState
<1>8. /\ t.state = s.state /\ t.vip = s.vip /\ t.told = s.told /\ t.svc = s.svc
      /\ t.rx = s.rx /\ t.flg = s.flg /\ t.master = s.master
  BY <1>1, Zenon DEF NodeState
<1> HIDE DEF t
<1>9. r \in NodeState
  BY <1>5, <1>7, Zenon DEF NodeState
<1>10. /\ r.state = t.state /\ r.vip = t.vip /\ r.told = t.told /\ r.svc = t.svc
       /\ r.rx = t.rx /\ r.flg = t.flg /\ r.master = t.master
  BY <1>7, Zenon DEF NodeState
<1> HIDE DEF r
<1> QED
  BY <1>1, <1>6, <1>8, <1>9, <1>10, GotFrame

\* had_state_leave_master called for a packet
LEMMA LeaveMaster ==
    ASSUME NEW n \in Node, NEW u, Ready(u), NEW m \in Packet
    PROVE  /\ Recast(u, leave_master(n, u, m))
           /\ leave_master(n, u, m).state \in {"BACK", "DISABLE"}
<1>1. u \in NodeState
  BY DEF Ready, Good
<1>2. /\ Recast(u, leave_master_forced(u, m))
      /\ leave_master_forced(u, m).state = "DISABLE"
  BY <1>1, LeaveMasterForced
<1>3. /\ Recast(u, leave_master_back(n, u))
      /\ leave_master_back(n, u).state = "BACK"
  BY <1>1, LeaveMasterBack
<1> QED
  BY <1>2, <1>3, Zenon DEF leave_master

\* A better master heard on one link
LEMMA HearBetter ==
    ASSUME NEW n \in Node, NEW s, Ready(s), s.state = "MAST", NEW m \in Packet,
           m.st # "LEARN", m.prio # Stop, better(n, m)
    PROVE  Got(n, s, m, hear_better(n, s, m))
<1> DEFINE h == [s EXCEPT !.heard[m.l] = 0]
           t == Known(h, m)
           left == leave_master(n, t, m)
           r == [left EXCEPT !.heard = AllLinks(Stale)]
           f == [s.heard EXCEPT ![m.l] = 0]
<1>1. s \in NodeState /\ Role(s) /\ s.state # "DISABLE"
  BY SMT DEF Ready, Good
<1>2. s.heard \in [Link -> 0..Stale] /\ m.l \in Link /\ 0 \in 0..Stale
  BY <1>1, NodeAssumption, SMT DEF NodeState, Packet, Stale
<1>3. f \in [Link -> 0..Stale]
  BY <1>2, Zenon
<1>4. h = [s EXCEPT !.heard = f]
  BY <1>1, Zenon DEF NodeState
<1>5. hear_better(n, s, m) = r \/ hear_better(n, s, m) = t
  BY DEF hear_better, Known
<1> HIDE DEF f, h
<1>6. h \in NodeState
  BY <1>1, <1>3, <1>4, Zenon DEF NodeState
<1>7. /\ h.state = s.state /\ h.vip = s.vip /\ h.told = s.told /\ h.svc = s.svc
      /\ h.rx = s.rx /\ h.flg = s.flg /\ h.master = s.master
  BY <1>1, <1>4, Zenon DEF NodeState
<1>8. Ready(h)
  BY <1>6, <1>7, Zenon DEF Ready, Good, Role
<1>9. /\ Ready(t) /\ t \in NodeState /\ t.state = h.state
      /\ t.master = [h.master EXCEPT ![m.l] = m.from]
  BY <1>8, KnownMaster
<1> HIDE DEF t
<1>10. Got(n, s, m, t)
  <2>1. s.master \in [Link -> Node \cup {NoNode}]
    BY <1>1, SMT DEF NodeState
  <2>2. \A l \in Link : t.master[l] # NoNode => s.master[l] # NoNode \/ l = m.l
    BY <1>7, <1>9, <2>1, SMT
  <2> QED
    BY <1>1, <1>7, <1>9, <2>2, Zenon DEF Got
<1>11. Got(n, s, m, r)
  <2>1. Recast(t, left) /\ left.state \in {"BACK", "DISABLE"}
    BY <1>9, LeaveMaster
  <2> HIDE DEF left
  <2>2. left \in NodeState
    BY <2>1 DEF Recast
  <2>3. r \in NodeState
    BY <2>2, AllLinksType, Zenon DEF NodeState
  <2>4. /\ r.state = left.state /\ r.vip = left.vip /\ r.told = left.told
        /\ r.svc = left.svc /\ r.rx = left.rx /\ r.flg = left.flg
    BY <2>2, Zenon DEF NodeState
  <2> HIDE DEF r
  <2>5. Recast(t, r)
    BY <2>1, <2>3, <2>4, Zenon DEF Recast, Role
  <2>6. CASE r.state = "BACK"
    BY <1>9, <2>5, <2>6, GotBack
  <2>7. CASE r.state = "DISABLE"
    BY <1>9, <2>5, <2>7, GotForced
  <2> QED
    BY <2>1, <2>4, <2>6, <2>7, Zenon
<1> QED
  BY <1>5, <1>10, <1>11, Zenon

\* had_update_uplink and had_update_downlink in MAST
LEMMA UpdateMast ==
    ASSUME NEW n \in Node, NEW s, Ready(s), s.state = "MAST", NEW m \in Packet
    PROVE  Got(n, s, m, update_mast(n, s, m))
<1>1. s \in NodeState /\ m.l \in Link /\ s.state # "DISABLE"
  BY SMT DEF Ready, Good, Packet
<1>2. Got(n, s, m, s)
  BY <1>1, GotFrame
<1>3. Got(n, s, m, answer_stop(n, s, m.l))
  BY <1>1, AnswerStop
<1>4. Got(n, s, m, leave_master(n, s, m))
  <2> DEFINE r == leave_master(n, s, m)
  <2>1. Recast(s, r) /\ r.state \in {"BACK", "DISABLE"}
    BY LeaveMaster
  <2> HIDE DEF r
  <2>2. ASSUME r.state = "BACK" PROVE Got(n, s, m, r)
    BY <2>1, <2>2, GotBack
  <2>3. ASSUME r.state = "DISABLE" PROVE Got(n, s, m, r)
    BY <2>1, <2>3, GotForced
  <2>4. Got(n, s, m, r)
    BY <2>1, <2>2, <2>3, Zenon
  <2> QED
    BY <2>4 DEF r
<1>5. ASSUME m.st # "LEARN", m.prio # Stop, better(n, m)
      PROVE  Got(n, s, m, hear_better(n, s, m))
  BY <1>5, HearBetter
<1> QED
  BY <1>2, <1>3, <1>4, <1>5, Zenon DEF update_mast

\* had_updata in DISABLE
LEMMA UpdataDisable ==
    ASSUME NEW n \in Node, NEW s, Ready(s), s.state = "DISABLE", NEW m \in Packet
    PROVE  Got(n, s, m, updata_disable(n, s, m))
<1> DEFINE f == [k \in Link |-> IF k = m.l THEN 0
                                ELSE IF s.buf[k] = Stale THEN Unset
                                ELSE s.buf[k]]
           t == save_packet(s, m.l)
           u == [s EXCEPT !.master = AllLinks(m.from)]
           go == from_disable(n, u, m)
           r == [go EXCEPT !.buf = AllLinks(Unset)]
<1>1. s \in NodeState /\ s.state # "MAST"
  BY SMT DEF Ready, Good
<1>2. /\ s.buf \in [Link -> 0..Unset] /\ m.l \in Link
      /\ 0 \in 0..Unset /\ Unset \in 0..Unset
      /\ m.from \in Node \cup {NoNode}
  BY <1>1, NodeAssumption, SMT DEF NodeState, Packet, Stale, Unset
<1>3. Got(n, s, m, s)
  BY <1>1, GotFrame
<1>4. Got(n, s, m, t)
  <2>1. f \in [Link -> 0..Unset]
    BY <1>2, Zenon
  <2>2. t = [s EXCEPT !.buf = f]
    BY DEF save_packet
  <2> HIDE DEF f, t
  <2>3. t \in NodeState
    BY <1>1, <2>1, <2>2, Zenon DEF NodeState
  <2>4. /\ t.state = s.state /\ t.vip = s.vip /\ t.told = s.told /\ t.svc = s.svc
        /\ t.rx = s.rx /\ t.flg = s.flg /\ t.ms = s.ms
    BY <1>1, <2>2, Zenon DEF NodeState
  <2> QED
    BY <1>1, <2>3, <2>4, GotFrame
<1>5. Ready(u) /\ u.state = "DISABLE" /\ u.ms = s.ms
  <2>1. AllLinks(m.from) \in [Link -> Node \cup {NoNode}]
    BY <1>2, AllLinksType
  <2>2. u \in NodeState
    BY <1>1, <2>1, Zenon DEF NodeState
  <2>3. /\ u.state = s.state /\ u.vip = s.vip /\ u.told = s.told /\ u.svc = s.svc
        /\ u.rx = s.rx /\ u.flg = s.flg /\ u.ms = s.ms
    BY <1>1, Zenon DEF NodeState
  <2> HIDE DEF u
  <2> QED
    BY <2>2, <2>3, Zenon DEF Ready, Good, Role
<1>6. updata_disable(n, s, m) \in {s, go, r, t}
  BY DEF updata_disable
<1> HIDE DEF u, t
<1>7. Got(n, s, m, go)
  BY <1>5, FromDisable
<1> HIDE DEF go
<1>8. Got(n, s, m, r)
  <2>1. go \in NodeState
    BY <1>7 DEF Got, Ready, Good
  <2>2. r \in NodeState
    BY <2>1, AllLinksType, Zenon DEF NodeState
  <2>3. /\ r.state = go.state /\ r.vip = go.vip /\ r.told = go.told
        /\ r.svc = go.svc /\ r.rx = go.rx /\ r.flg = go.flg /\ r.ms = go.ms
        /\ r.master = go.master
    BY <2>1, Zenon DEF NodeState
  <2> HIDE DEF r
  <2>4. Ready(r)
    BY <1>7, <2>2, <2>3, Zenon DEF Got, Ready, Good, Role
  <2> QED
    BY <1>7, <2>3, <2>4, Zenon DEF Got
<1> QED
  BY <1>3, <1>4, <1>6, <1>7, <1>8, Zenon

\* had_updata
LEMMA Updata ==
    ASSUME NEW n \in Node, NEW s, Good(s), s.svc, NEW m \in Packet
    PROVE  Got(n, s, m, updata(n, s, m))
<1> DEFINE t == [s EXCEPT !.flg = FALSE]
           r == updata(n, s, m)
<1>1. s \in NodeState /\ Role(s)
  BY DEF Good
<1>2. t \in NodeState
  BY <1>1, Zenon DEF NodeState
<1>3. /\ t.state = s.state /\ t.vip = s.vip /\ t.told = s.told /\ t.svc = s.svc
      /\ t.rx = s.rx /\ t.flg = FALSE /\ t.ms = s.ms /\ t.master = s.master
  BY <1>1, Zenon DEF NodeState
<1>4. IF s.state = "DISABLE" THEN r = updata_disable(n, t, m)
                            ELSE r \in {update_link(n, t, m), t}
  BY DEF updata
<1> HIDE DEF t, r
<1>5. Ready(t)
  BY <1>1, <1>2, <1>3, Zenon DEF Ready, Good, Role
<1>6. Got(n, t, m, t)
  BY <1>2, <1>5, GotFrame
<1>7. s.state # "DISABLE" => Got(n, t, m, update_link(n, t, m))
  <2>1. CASE t.state = "LEARN"
    BY <1>5, <2>1, UpdateLearn DEF update_link
  <2>2. CASE t.state = "BACK"
    BY <1>5, <2>2, UpdateBack DEF update_link
  <2>3. CASE t.state = "MAST"
    BY <1>5, <2>3, UpdateMast DEF update_link
  <2>4. CASE t.state \notin {"LEARN", "BACK", "MAST"}
    BY <1>6, <2>4 DEF update_link
  <2> QED
    BY <2>1, <2>2, <2>3, <2>4
<1>8. s.state = "DISABLE" => Got(n, t, m, updata_disable(n, t, m))
  BY <1>3, <1>5, UpdataDisable
<1>9. Got(n, t, m, r)
  BY <1>4, <1>6, <1>7, <1>8, Zenon
<1>10. Got(n, s, m, r)
  BY <1>3, <1>9, Zenon DEF Got
<1> QED
  BY <1>10 DEF r

-----------------------------------------------------------------------------
(***************************************************************************)
(* The ends of a critical section, time and the initial record.            *)
(***************************************************************************)

\* Emptying the list of sent packets at the end of a critical section
LEMMA Emptied ==
    ASSUME NEW r \in NodeState
    PROVE  LET e == [r EXCEPT !.out = {}]
           IN  /\ e \in NodeState /\ e.out = {}
               /\ e.state = r.state /\ e.vip = r.vip /\ e.told = r.told
               /\ e.svc = r.svc /\ e.rx = r.rx /\ e.flg = r.flg
               /\ e.ms = r.ms /\ e.master = r.master
<1>1. {} \in SUBSET Packet
  OBVIOUS
<1>2. [r EXCEPT !.out = {}] \in NodeState
  BY <1>1, Zenon DEF NodeState
<1> QED
  BY <1>2, Zenon DEF NodeState

\* The fields the masters of a cluster are compared by survive it as well.
LEMMA EmptiedLinks ==
    ASSUME NEW r \in NodeState
    PROVE  LET e == [r EXCEPT !.out = {}]
           IN  /\ e.adv = r.adv /\ e.heard = r.heard
               /\ e.link = r.link /\ e.mon = r.mon /\ e.ht = r.ht
BY Zenon DEF NodeState

\* A record that is good is still good when its packets have been sent.
LEMMA EmptiedGood ==
    ASSUME NEW r, Good(r)
    PROVE  Good([r EXCEPT !.out = {}]) /\ [r EXCEPT !.out = {}].out = {}
<1> DEFINE e == [r EXCEPT !.out = {}]
<1>1. r \in NodeState
  BY DEF Good
<1>2. /\ e \in NodeState /\ e.out = {}
      /\ e.state = r.state /\ e.vip = r.vip /\ e.told = r.told
      /\ e.svc = r.svc /\ e.rx = r.rx
  BY <1>1, Emptied
<1> HIDE DEF e
<1>3. Good(e)
  BY <1>2, Zenon DEF Good, Role
<1> QED
  BY <1>2, <1>3 DEF e

\* A profile just created by had_start is good.
LEMMA InitNodeGood == Good(InitNode) /\ InitNode.out = {}
<1>1. /\ AllLinks(0) \in [Link -> Nat]
      /\ AllLinks(0) \in [Link -> 0..AdverInt]
      /\ AllLinks(NoNode) \in [Link -> Node \cup {NoNode}]
      /\ AllLinks(Stale) \in [Link -> 0..Stale]
      /\ AllLinks(Unset) \in [Link -> 0..Unset]
      /\ AllLinks(TRUE) \in [Link -> BOOLEAN]
      /\ [m \in Mon |-> TRUE] \in [Mon -> BOOLEAN]
  BY AllLinksType, Zenon DEF AllLinks
<1>2. InitNode \in NodeState
  BY <1>1, Zenon DEF InitNode, NodeState, State
<1>3. /\ InitNode.state = "INIT" /\ InitNode.vip = FALSE
      /\ InitNode.told = "NONE" /\ InitNode.out = {}
  BY Zenon DEF InitNode
<1> QED
  BY <1>2, <1>3, Zenon DEF Good, Role

\* One second of vrrp_timer_thread_main with no timer old enough to wrap
\* around: each timer loses a tick, each age gains one, nothing else changes.
LEMMA TickStep ==
    ASSUME NEW s, Good(s)
    PROVE  LET r == timer_tick(s, {}, {})
           IN  /\ Good(r)
               /\ r.state = s.state /\ r.svc = s.svc /\ r.ht = s.ht
               /\ r.link = s.link /\ r.mon = s.mon /\ r.master = s.master
               /\ r.out = s.out
               /\ \A l \in Link :
                     /\ r.adv[l] = CountDown(s.adv[l])
                     /\ r.ms[l] = CountDown(s.ms[l])
                     /\ s.heard[l] < Stale => r.heard[l] = s.heard[l] + 1
<1> DEFINE A == [l \in Link |-> CountDown(s.adv[l])]
           M == [l \in Link |-> IF l \in {} /\ s.ms[l] = 0
                                THEN WrapTicks ELSE CountDown(s.ms[l])]
           H == Older(s.heard, {})
           B == Older(s.buf, {})
           r == [s EXCEPT !.adv = A, !.ms = M, !.heard = H, !.buf = B]
<1>1. timer_tick(s, {}, {}) = r
  BY DEF timer_tick
<1>2. s \in NodeState
  BY DEF Good
<1>3. /\ s.adv \in [Link -> 0..AdverInt] /\ s.ms \in [Link -> Nat]
      /\ s.heard \in [Link -> 0..Stale] /\ s.buf \in [Link -> 0..Unset]
  BY <1>2, SMT DEF NodeState
<1>4. Stale \in Nat /\ Unset = Stale + 1
  BY NodeAssumption, SMT DEF Stale, Unset
<1>5. A \in [Link -> 0..AdverInt] /\ M \in [Link -> Nat]
  BY <1>3, NodeAssumption, SMT DEF CountDown
<1>6. H \in [Link -> 0..Stale] /\ B \in [Link -> 0..Unset]
  BY <1>3, <1>4, SMT DEF Older
<1>7. \A l \in Link :
         /\ A[l] = CountDown(s.adv[l]) /\ M[l] = CountDown(s.ms[l])
         /\ s.heard[l] < Stale => H[l] = s.heard[l] + 1
  BY SMT DEF Older
<1> HIDE DEF A, M, H, B
<1>8. r \in NodeState
  BY <1>2, <1>5, <1>6, Zenon DEF NodeState
<1>9. /\ r.state = s.state /\ r.svc = s.svc /\ r.ht = s.ht
      /\ r.link = s.link /\ r.mon = s.mon /\ r.master = s.master
      /\ r.out = s.out /\ r.vip = s.vip /\ r.told = s.told /\ r.rx = s.rx
      /\ r.adv = A /\ r.ms = M /\ r.heard = H
  BY <1>2, Zenon DEF NodeState
<1> HIDE DEF r
<1>10. Good(r)
  BY <1>8, <1>9, Zenon DEF Good, Role
<1> QED
  BY <1>1, <1>7, <1>9, <1>10, Zenon

-----------------------------------------------------------------------------
(***************************************************************************)
(* The timers of a node never hold more than the delays that set them.     *)
(***************************************************************************)
\* The master-down delay in ticks: the skew makes it a tick longer.
MsDown == DownCount * AdverInt + 1
\* No operator waits for a change of role, and no timer is above the delays that
\* had_state_leave_master, had_state_back and had_state_goto_disable set.
Timed(s) ==
    /\ s.want = FALSE
    /\ \A l \in Link :
          /\ s.ms[l] <= MsDown + 1
          /\ s.state \in {"LEARN", "BACK"} => s.ms[l] <= MsDown
\* Delay and DisableDelay are the same for every priority.
LEMMA Delays ==
    /\ MsDown \in Nat /\ AdverInt \in Nat \ {0} /\ AdverInt + 1 <= MsDown
    /\ \A n \in Node : Delay(n) = MsDown /\ DisableDelay(n) = MsDown + 1
<1> DEFINE base == DownCount * AdverInt
<1>1. /\ base \in Nat /\ base >= AdverInt /\ AdverInt \in Nat \ {0}
      /\ MsDown = base + 1
  BY NodeAssumption, SMT DEF MsDown
<1>2. ASSUME NEW n \in Node
      PROVE  Delay(n) = base + 1 /\ DisableDelay(n) = base + 2
  <2> DEFINE scaled == (256 - Prio[n]) * 1000000
             skew == scaled \div 256
             x == base * 1000000 + skew + 1000000 - 1
             y == base * 1000000 + skew + 1001000 + 1000000 - 1
  <2>1. scaled \in Nat /\ scaled >= 1000000 /\ scaled <= 255000000
    <3> DEFINE prio == Prio[n]
    <3>1. prio \in 1..255
      BY PrioRange
    <3> HIDE DEF prio
    <3>2. scaled = (256 - prio) * 1000000
      BY DEF prio
    <3> QED
      BY <3>1, <3>2, SMT
  <2>2. Delay(n) = x \div 1000000 /\ DisableDelay(n) = y \div 1000000
    BY DEF Delay, DisableDelay, Ticks, VRRP_TIMER_HZ, VRRP_TIMER_SKEW
  <2> HIDE DEF base, scaled
  <2>3. skew \in Nat /\ skew >= 1 /\ skew <= 996093
    BY <2>1, SMT
  <2> HIDE DEF skew
  <2>4. x \in Nat /\ (base + 1) * 1000000 <= x /\ x < (base + 2) * 1000000
    BY <1>1, <2>3, SMT
  <2>5. y \in Nat /\ (base + 2) * 1000000 <= y /\ y < (base + 3) * 1000000
    BY <1>1, <2>3, SMT
  <2> HIDE DEF x, y
  <2>6. x \div 1000000 = base + 1
    BY <1>1, <2>4, SMT
  <2>7. y \div 1000000 = base + 2
    BY <1>1, <2>5, SMT
  <2> QED
    BY <2>2, <2>6, <2>7
<1> HIDE DEF base
<1> QED
  BY <1>1, <1>2, SMT

\* The takeovers leave the timers alone.
LEMMA TimedTake ==
    ASSUME NEW n \in Node, NEW s \in NodeState, Timed(s)
    PROVE  /\ Timed(goto_transfer(s))
           /\ Timed(take_master(n, s))
           /\ \A o : Timed(goto_master(n, s, o))
BY SMT DEF goto_transfer, take_master, goto_master, send_adv, NodeState, Timed

\* A master that leaves its role starts the master-down or the disable delay.
LEMMA TimedLeave ==
    ASSUME NEW n \in Node, NEW s \in NodeState, Timed(s), NEW m
    PROVE  /\ Timed(leave_master_stop(n, s))
           /\ Timed(leave_master(n, s, m))
           /\ \A f : Timed(goto_disable(n, s, f))
BY Delays, SMT DEF leave_master_stop, leave_master, leave_master_forced,
   leave_master_back, goto_disable, vif_drop_pck, send_adv, AllLinks, NodeState,
   Timed

\* had_state_back starts the master-down delay.
LEMMA TimedBack ==
    ASSUME NEW n \in Node, NEW s \in NodeState, Timed(s)
    PROVE  Timed(state_back(n, s))
BY Delays, SMT DEF state_back, vif_drop_pck, AllLinks, NodeState, Timed

\* So do the ways out of DISABLE and LEARN.
LEMMA TimedFrom ==
    ASSUME NEW n \in Node, NEW s \in NodeState, Timed(s), NEW m
    PROVE  Timed(from_disable(n, s, m)) /\ Timed(from_learn(n, s, m))
BY TimedTake, TimedBack, Zenon DEF from_disable, from_learn

\* Sending sets no timer but that of the warned master, to an interval.
LEMMA TimedSent ==
    ASSUME NEW n \in Node, NEW s \in NodeState, Timed(s)
    PROVE  /\ Timed(warn_master(n, s)) /\ Timed(send_adv(n, s, Prio[n]))
           /\ Timed(send_fail(n, s))
BY Delays, SMT DEF warn_master, send_fail, send_adv, AllLinks, NodeState, Timed

\* The changes of a timer that the passes of the state thread make in place
LEMMA TimedWait ==
    ASSUME NEW n \in Node, NEW s \in NodeState, Timed(s)
    PROVE  /\ Timed([s EXCEPT !.ms = AllLinks(Delay(n))])
           /\ Timed([s EXCEPT !.ms = AllLinks(Delay(n)), !.state = "LEARN"])
           /\ Timed([s EXCEPT !.ms = AllLinks(Delay(n)), !.adv = AllLinks(0)])
           /\ Timed([s EXCEPT !.flg = FALSE])
           /\ Timed([s EXCEPT !.ms = AllLinks(AdverInt)])
BY Delays, SMT DEF AllLinks, NodeState, Timed

\* A pass of had_vrrp_thread keeps the timers within their delays.
LEMMA TimedLoop ==
    ASSUME NEW n \in Node, NEW s \in NodeState, Timed(s)
    PROVE  Timed(state_loop(n, s))
<1>1. Timed(state_init(n, s))
  BY TimedTake, TimedWait, Zenon DEF state_init
<1>2. Timed(learn_loop(n, s))
  BY TimedTake, TimedSent, Zenon DEF learn_loop
<1>3. Timed(transfer_loop(n, s))
  BY TimedTake, Zenon DEF transfer_loop
<1>4. Timed(back_loop(n, s))
  <2>1. ~s.svc => Timed([s EXCEPT !.state = "INIT"])
    BY SMT DEF NodeState, Timed
  <2>2. Timed([goto_master(n, s, "NONE") EXCEPT !.flg = FALSE])
    <3>1. take_master(n, s) \in NodeState
      BY TakeMaster DEF Up
    <3>2. goto_master(n, s, "NONE") \in NodeState
      BY <3>1, Zenon DEF goto_master
    <3> QED
      BY <3>2, TimedTake, TimedWait, Zenon
  <2> QED
    BY <2>1, <2>2, TimedWait, TimedSent, Zenon DEF back_loop
<1>5. Timed(mast_loop(n, s))
  <2>1. Timed(goto_disable(n, s, TRUE))
    BY TimedLeave
  <2>2. \A X, Y : Timed([s EXCEPT !.out = X, !.adv = Y])
    BY SMT DEF NodeState, Timed
  <2> QED
    BY <2>1, <2>2, Zenon DEF mast_loop
<1>6. Timed(disable_loop(n, s))
  BY TimedTake, TimedWait, Zenon DEF disable_loop
<1>7. s.state \in State
  BY SMT DEF NodeState
<1> QED
  BY <1>1, <1>2, <1>3, <1>4, <1>5, <1>6, <1>7, SMT DEF state_loop, State

\* So does what the reception notes of a packet.
LEMMA TimedNote ==
    ASSUME NEW n \in Node, NEW s \in NodeState, Timed(s), NEW m \in Packet
    PROVE  /\ Timed(Known(s, m)) /\ Known(s, m) \in NodeState
           /\ Timed([s EXCEPT !.heard[m.l] = 0, !.master[m.l] = m.from])
           /\ [s EXCEPT !.heard[m.l] = 0, !.master[m.l] = m.from] \in NodeState
           /\ \A X : Timed([s EXCEPT !.heard = X]) /\ Timed([s EXCEPT !.buf = X])
           /\ Timed([s EXCEPT !.ms[m.l] = Delay(n), !.master[m.l] = m.from])
           /\ [s EXCEPT !.master = AllLinks(m.from)] \in NodeState
           /\ Timed([s EXCEPT !.master = AllLinks(m.from)])
<1>1. m.l \in Link /\ m.from \in Node
  BY SMT DEF Packet
<1>2. 0 \in 0..Stale /\ AllLinks(m.from) \in [Link -> Node \cup {NoNode}]
  BY <1>1, NodeAssumption, AllLinksType, SMT DEF Stale
<1>3. /\ Timed(Known(s, m))
      /\ Timed([s EXCEPT !.heard[m.l] = 0, !.master[m.l] = m.from])
      /\ Timed([s EXCEPT !.master = AllLinks(m.from)])
  BY SMT DEF Known, NodeState, Timed
<1>4. \A X : Timed([s EXCEPT !.heard = X]) /\ Timed([s EXCEPT !.buf = X])
  BY SMT DEF NodeState, Timed
<1>5. Timed([s EXCEPT !.ms[m.l] = Delay(n), !.master[m.l] = m.from])
  BY <1>1, Delays, SMT DEF NodeState, Timed
<1>6. Known(s, m) \in NodeState
  BY <1>1, SMT DEF Known, NodeState
<1>7. [s EXCEPT !.heard[m.l] = 0, !.master[m.l] = m.from] \in NodeState
  <2> DEFINE H == [s.heard EXCEPT ![m.l] = 0]
             M == [s.master EXCEPT ![m.l] = m.from]
  <2>1. H \in [Link -> 0..Stale] /\ M \in [Link -> Node \cup {NoNode}]
    BY <1>1, <1>2, SMT DEF NodeState
  <2>2. [s EXCEPT !.heard[m.l] = 0, !.master[m.l] = m.from]
           = [s EXCEPT !.heard = H, !.master = M]
    BY Zenon DEF NodeState
  <2> HIDE DEF H, M
  <2> QED
    BY <2>1, <2>2, Zenon DEF NodeState
<1>8. [s EXCEPT !.master = AllLinks(m.from)] \in NodeState
  BY <1>2, Zenon DEF NodeState
<1> QED
  BY <1>3, <1>4, <1>5, <1>6, <1>7, <1>8

\* A packet received by had_updata keeps the timers within their delays.
LEMMA TimedUpdata ==
    ASSUME NEW n \in Node, NEW s \in NodeState, Timed(s), NEW m \in Packet
    PROVE  Timed(updata(n, s, m))
<1> DEFINE t == [s EXCEPT !.flg = FALSE]
           u == Known(t, m)
           v == [t EXCEPT !.heard[m.l] = 0, !.master[m.l] = m.from]
           w == [t EXCEPT !.master = AllLinks(m.from)]
           z == [u EXCEPT !.ms = AllLinks(Delay(n))]
<1>1. t \in NodeState /\ Timed(t)
  BY TimedWait, Zenon DEF NodeState
<1> HIDE DEF t
<1>2. Timed(u) /\ Timed(v) /\ Timed(w) /\ u \in NodeState /\ v \in NodeState
      /\ w \in NodeState
  BY <1>1, TimedNote
<1>3. Timed(update_learn(n, t, m))
  <2>1. Timed(z)
    BY <1>2, TimedWait
  <2>2. z \in NodeState
    <3>1. AllLinks(Delay(n)) \in [Link -> Nat]
      BY AllLinksType, DelayType
    <3> QED
      BY <1>2, <3>1, Zenon DEF NodeState
  <2>3. update_learn(n, t, m) \in {goto_master(n, t, "BACK"), from_learn(n, z, m), u}
    BY DEF update_learn, Known
  <2> HIDE DEF u, z
  <2> QED
    BY <1>1, <1>2, <2>1, <2>2, <2>3, TimedTake, TimedFrom, Zenon
<1>4. Timed(update_back(n, t, m))
  BY <1>1, <1>2, TimedTake, TimedNote, Zenon DEF update_back, Known
<1>5. Timed(update_mast(n, t, m))
  <2>1. Timed(answer_stop(n, t, m.l))
    BY <1>1, SMT DEF answer_stop, send_link_adv, NodeState, Timed
  <2>2. Timed(hear_better(n, t, m))
    <3> HIDE DEF u, v, w, z
    <3>1. leave_master(n, v, m) \in NodeState /\ Timed(leave_master(n, v, m))
      <4>1. leave_master_forced(v, m) \in NodeState
        BY <1>2, LeaveMasterForced DEF Recast
      <4>2. leave_master_back(n, v) \in NodeState
        BY <1>2, LeaveMasterBack DEF Recast
      <4>3. Timed(leave_master(n, v, m))
        BY <1>2, TimedLeave
      <4> QED
        BY <4>1, <4>2, <4>3 DEF leave_master
    <3>2. Timed([leave_master(n, v, m) EXCEPT !.heard = AllLinks(Stale)])
      BY <3>1, TimedNote
    <3> QED
      BY <1>2, <3>2, Zenon DEF hear_better, v
  <2> QED
    BY <1>1, <2>1, <2>2, TimedLeave, Zenon DEF update_mast
<1>6. Timed(updata_disable(n, t, m))
  <2> DEFINE go == from_disable(n, w, m)
  <2>1. Timed(go)
    BY <1>2, TimedFrom
  <2>2. go \in NodeState
    <3>1. goto_transfer(w) \in NodeState
      BY <1>2, Zenon DEF goto_transfer, NodeState, State
    <3>2. goto_master(n, w, "LEARN") \in NodeState
      BY <1>2, TakeMaster, Zenon DEF goto_master, Up
    <3>3. state_back(n, w) \in NodeState
      <4>1. AllLinks(Delay(n)) \in [Link -> Nat] /\ vif_drop_pck(w) \in NodeState
        BY <1>2, AllLinksType, DelayType, Zenon DEF vif_drop_pck, NodeState
      <4> QED
        BY <4>1, Zenon DEF state_back, NodeState, State
    <3> QED
      BY <1>2, <3>1, <3>2, <3>3, Zenon DEF from_disable
  <2>3. Timed([go EXCEPT !.buf = AllLinks(Unset)]) /\ Timed(save_packet(t, m.l))
    BY <1>1, <2>1, <2>2, TimedNote, Zenon DEF save_packet
  <2> QED
    BY <1>1, <2>1, <2>3, Zenon DEF updata_disable
<1> QED
  BY <1>1, <1>3, <1>4, <1>5, <1>6, Zenon DEF updata, update_link, t

\* A new profile has its timers within their delays.
LEMMA InitTimed == Timed(InitNode)
BY Delays, SMT DEF InitNode, AllLinks, Timed

\* The settings of the dbus thread that leave the timers alone
LEMMA TimedSmall ==
    ASSUME NEW n \in Node, NEW s \in NodeState, Timed(s)
    PROVE  /\ Timed(no_transfer(s)) /\ Timed([s EXCEPT !.out = {}])
           /\ Timed(service_enable(s))
           /\ Timed([s EXCEPT !.ht = ~@])
           /\ \A l \in Link : Timed([s EXCEPT !.link[l] = ~@])
           /\ Timed(InitNode)
<1>1. Timed(no_transfer(s)) /\ Timed([s EXCEPT !.out = {}])
  BY SMT DEF no_transfer, NodeState, Timed
<1>2. Timed([s EXCEPT !.ht = ~@]) /\ \A l \in Link : Timed([s EXCEPT !.link[l] = ~@])
  BY SMT DEF NodeState, Timed
<1>3. Timed(service_enable(s))
  BY SMT DEF service_enable, vif_rcv_pck_ON, NodeState, Timed
<1>4. Timed(InitNode)
  BY InitTimed
<1> QED
  BY <1>1, <1>2, <1>3, <1>4

\* A tick takes the timers down.
LEMMA TimedTick ==
    ASSUME NEW n \in Node, NEW s \in NodeState, Timed(s), Good(s)
    PROVE  Timed(timer_tick(s, {}, {}))
<1> DEFINE r == timer_tick(s, {}, {})
<1>1. r.state = s.state /\ \A l \in Link : r.ms[l] = CountDown(s.ms[l])
  BY TickStep
<1>2. r.want = s.want
  BY Zenon DEF timer_tick, NodeState
<1>3. \A l \in Link : s.ms[l] \in Nat
  BY SMT DEF NodeState
<1> HIDE DEF r
<1>4. \A l \in Link : r.ms[l] <= s.ms[l] /\ r.ms[l] \in Nat
  BY <1>1, <1>3, SMT DEF CountDown
<1> QED
  BY <1>1, <1>2, <1>3, <1>4, Delays, SMT DEF Timed, r

\* The operations of the dbus thread that change the role
LEMMA TimedOperator ==
    ASSUME NEW n \in Node, NEW s \in NodeState, Timed(s)
    PROVE  /\ Timed(service_disable(n, s))
           /\ Timed(state_change_master(n, s)) /\ Timed(state_change_back(n, s))
<1>1. Timed(service_disable(n, s))
  <2> DEFINE t == vif_rcv_pck_ON(s)
             u == IF s.state = "TRANSFER"
                  THEN [t EXCEPT !.wid = FALSE, !.portal = FALSE] ELSE t
             d == goto_disable(n, u, s.state = "MAST")
             e == [d EXCEPT !.state = "INIT"]
             v == IF s.state = "INIT" THEN t ELSE e
  <2>1. t \in NodeState /\ u \in NodeState
    BY Zenon DEF vif_rcv_pck_ON, NodeState
  <2>2. Timed(t) /\ Timed(u)
    BY SMT DEF vif_rcv_pck_ON, NodeState, Timed
  <2> HIDE DEF t, u
  <2>3. Timed(d)
    BY <2>1, <2>2, TimedLeave
  <2>4. d \in NodeState
    <3> DEFINE w == IF s.state = "MAST" THEN send_adv(n, u, Stop) ELSE u
               y(f) == [w EXCEPT !.vip = f, !.state = "DISABLE",
                             !.master = AllLinks(NoNode), !.told = "DISABLE",
                             !.ms = AllLinks(DisableDelay(n))]
    <3>1. Stop \in 0..255 /\ w \in NodeState
      BY <2>1, SendAdvType, SMT DEF Stop
    <3>2. d = IF u.state = "DISABLE" THEN u ELSE y(w.vip /\ u.state # "MAST")
      BY DEF goto_disable
    <3>3. /\ AllLinks(NoNode) \in [Link -> Node \cup {NoNode}]
          /\ AllLinks(DisableDelay(n)) \in [Link -> Nat]
      BY AllLinksType, DelayType
    <3> HIDE DEF w
    <3>4. \A f \in BOOLEAN : y(f) \in NodeState
      BY <3>1, <3>3, Zenon DEF NodeState, State
    <3> QED
      BY <2>1, <3>2, <3>4
  <2> HIDE DEF d
  <2>5. Timed([e EXCEPT !.svc = FALSE]) /\ Timed([t EXCEPT !.svc = FALSE])
    BY <2>1, <2>2, <2>3, <2>4, SMT DEF NodeState, Timed
  <2>6. service_disable(n, s) = [v EXCEPT !.svc = FALSE]
    BY DEF service_disable, t, u, d
  <2> QED
    BY <2>5, <2>6
<1>2. Timed(state_change_master(n, s))
  <2> DEFINE t == [s EXCEPT !.ms = AllLinks(AdverInt)]
  <2>1. t \in NodeState /\ Timed(t)
    BY TimedWait, AllLinksType, NodeAssumption, Zenon DEF NodeState
  <2>2. send_fail(n, t) \in NodeState /\ Timed(send_fail(n, t))
    BY <2>1, TimedSent, SendFailType
  <2> HIDE DEF t
  <2> QED
    BY <2>2, TimedTake, Zenon DEF state_change_master, t
<1>3. Timed(state_change_back(n, s))
  BY TimedLeave, Zenon DEF state_change_back
<1> QED
  BY <1>1, <1>2, <1>3
=============================================================================
