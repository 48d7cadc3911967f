---------------------------- MODULE HadOpen_proofs ----------------------------
(***************************************************************************)
(* Proofs about HadOpen, for every configuration that NodeAssumption       *)
(* admits: any number of nodes, any priorities, addresses and intervals,   *)
(* one link or two.                                                        *)
(***************************************************************************)
EXTENDS HadOpen, HadNode_proofs, TLAPS

-----------------------------------------------------------------------------
(***************************************************************************)
(* The inductive invariant.  To the properties of HadOpen it adds what     *)
(* makes the two action properties true: stateFlg set in BACK means that   *)
(* the old master was warned in this stay, and in DISABLE the time already *)
(* spent and the time still on each timer make up the delay.               *)
(***************************************************************************)
FlagMeansWarned == node.state = "BACK" /\ node.flg => warned

TimersCoverDelay ==
    node.state = "DISABLE" /\ ~forced
        => \A l \in Link : node.ms[l] + quiet >= Delay(Self)

IInv ==
    /\ TypeOK
    /\ RoleConsistent
    /\ ServiceOffAtRest
    /\ RivalsOfThisMastership
    /\ FlagMeansWarned
    /\ TimersCoverDelay

\* The invariant holds of a profile just created (had_start).
LEMMA InitInv == Init => IInv
<1> SUFFICES ASSUME Init PROVE IInv
  OBVIOUS
<1>1. node = InitNode /\ quiet = 0 /\ rivals = {}
      /\ passed = FALSE /\ warned = FALSE /\ forced = FALSE
  BY DEF Init
<1>3. InitNode \in NodeState
  BY InitNodeGood DEF Good
<1>4. /\ node.state = "INIT" /\ node.vip = FALSE /\ node.told = "NONE"
      /\ node.out = {}
  BY <1>1, Zenon DEF InitNode
<1>5. Delay(Self) \in Nat
  BY SelfAssumption, DelayType
<1>6. TypeOK
  <2>1. quiet \in 0..Delay(Self) /\ rivals \in SUBSET Link
    BY <1>1, <1>5, SMT
  <2> QED
    BY <1>1, <1>3, <1>4, <2>1, Zenon DEF TypeOK
<1>7. RoleConsistent
  BY <1>4, Zenon DEF RoleConsistent, Role
<1> QED
  BY <1>4, <1>6, <1>7, Zenon DEF IInv, ServiceOffAtRest,
     RivalsOfThisMastership, FlagMeansWarned, TimersCoverDelay

\* A step of the state thread, the dbus thread or the link thread
LEMMA OwnInv ==
    ASSUME IInv, NEW r, Own(Self, node, r), Become(r), NoPacket(r),
           passed' \in BOOLEAN
    PROVE  IInv'
<1> DEFINE e == [r EXCEPT !.out = {}]
<1>1. r \in NodeState /\ Role(r)
  BY DEF Own, Good
<1>2. /\ e \in NodeState /\ e.out = {}
      /\ e.state = r.state /\ e.vip = r.vip /\ e.told = r.told
      /\ e.svc = r.svc /\ e.rx = r.rx /\ e.flg = r.flg
      /\ e.ms = r.ms /\ e.master = r.master
  BY <1>1, Emptied
<1>3. node' = e
  BY DEF Become
<1> HIDE DEF e
<1>4. node \in NodeState /\ quiet \in 0..Delay(Self) /\ rivals \in SUBSET Link
  BY DEF IInv, TypeOK
<1>5. Delay(Self) \in Nat
  BY SelfAssumption, DelayType
<1>6. TypeOK'
  <2>1. quiet' \in 0..Delay(Self) /\ rivals' \in SUBSET Link
    BY <1>4, <1>5, SMT DEF NoPacket
  <2>2. warned' \in BOOLEAN /\ forced' \in BOOLEAN
    BY Zenon DEF NoPacket
  <2> QED
    BY <1>2, <1>3, <2>1, <2>2, Zenon DEF TypeOK
<1>7. RoleConsistent'
  BY <1>1, <1>2, <1>3, Zenon DEF RoleConsistent, Role
<1>8. ServiceOffAtRest'
  BY <1>2, <1>3, Zenon DEF ServiceOffAtRest, Own, Good
<1>9. RivalsOfThisMastership'
  <2> SUFFICES ASSUME r.state = "MAST", NEW l \in Link, r.master[l] # NoNode
               PROVE  l \in rivals'
    BY <1>2, <1>3, Zenon DEF RivalsOfThisMastership
  <2>1. r.master # AllLinks(NoNode)
    BY SMT DEF AllLinks
  <2>2. node.state = "MAST" /\ r.master = node.master
    BY <2>1, Zenon DEF Own
  <2>3. l \in rivals
    BY <2>2, Zenon DEF IInv, RivalsOfThisMastership
  <2> QED
    BY <2>2, <2>3 DEF NoPacket, Stays
<1>10. FlagMeansWarned'
  <2> SUFFICES ASSUME r.state = "BACK", r.flg
               PROVE  warned'
    BY <1>2, <1>3, Zenon DEF FlagMeansWarned
  <2>1. node.state = "BACK" /\ (node.flg \/ \E m \in r.out : m.auth = "FAIL")
    BY Zenon DEF Own
  <2>2. warned \/ \E m \in r.out : m.auth = "FAIL"
    BY <2>1, Zenon DEF IInv, FlagMeansWarned
  <2> QED
    BY <2>1, <2>2, Zenon DEF NoPacket, Stays
<1>11. TimersCoverDelay'
  <2> SUFFICES ASSUME r.state = "DISABLE", ~forced', NEW l \in Link
               PROVE  r.ms[l] + quiet' >= Delay(Self)
    BY <1>2, <1>3, Zenon DEF TimersCoverDelay
  <2>1. r.ms[l] \in Nat /\ quiet' \in Nat
    BY <1>1, <1>4, <1>5, SMT DEF NodeState, NoPacket
  <2>2. CASE Full(Self, r)
    BY <1>5, <2>1, <2>2, SMT DEF Full
  <2>3. CASE node.state = "DISABLE" /\ r.ms = node.ms
    <3>1. ~forced /\ quiet' = quiet
      BY <2>3, Zenon DEF NoPacket, Stays
    <3> QED
      BY <2>3, <3>1, Zenon DEF IInv, TimersCoverDelay
  <2> QED
    BY <2>2, <2>3, Zenon DEF Own
<1> QED
  BY <1>6, <1>7, <1>8, <1>9, <1>10, <1>11 DEF IInv

\* A packet
LEMMA HearInv ==
    ASSUME IInv, NEW m \in Packet, Hear(m)
    PROVE  IInv'
<1> DEFINE r == updata(Self, node, m)
           e == [r EXCEPT !.out = {}]
<1>1. Good(node) /\ node.svc
  BY Zenon DEF IInv, TypeOK, RoleConsistent, ServiceOffAtRest, Good, Hear, Hears
<1>2. Got(Self, node, m, r)
  BY <1>1, SelfAssumption, Updata
<1>3. /\ node' = e
      /\ warned' = FALSE
      /\ forced' = (r.state = "DISABLE" /\ (node.state = "DISABLE" => forced))
      /\ quiet'  = IF node.state = "DISABLE" /\ r.state = "DISABLE"
                   THEN quiet ELSE 0
      /\ rivals' = IF ~(node.state = "MAST" /\ r.state = "MAST") THEN {}
                   ELSE IF m.st # "LEARN" /\ m.prio # Stop /\ better(Self, m)
                        THEN rivals \cup {m.l} ELSE rivals
      /\ passed' = passed
  BY DEF Hear, Become, Stays
<1> HIDE DEF r
<1>4. r \in NodeState /\ Role(r) /\ ~r.flg
  BY <1>2, Zenon DEF Got, Ready, Good
<1>5. /\ e \in NodeState /\ e.out = {}
      /\ e.state = r.state /\ e.vip = r.vip /\ e.told = r.told
      /\ e.svc = r.svc /\ e.rx = r.rx /\ e.flg = r.flg
      /\ e.ms = r.ms /\ e.master = r.master
  BY <1>4, Emptied
<1> HIDE DEF e
<1>6. /\ node \in NodeState /\ quiet \in 0..Delay(Self) /\ rivals \in SUBSET Link
      /\ m.l \in Link /\ passed \in BOOLEAN
  BY SMT DEF IInv, TypeOK, Packet
<1>7. Delay(Self) \in Nat
  BY SelfAssumption, DelayType
<1>8. TypeOK'
  <2>1. quiet' \in 0..Delay(Self)
    BY <1>3, <1>6, <1>7, SMT
  <2>2. rivals' \in SUBSET Link
    BY <1>3, <1>6, SMT
  <2>3. warned' \in BOOLEAN /\ forced' \in BOOLEAN
    BY <1>3, Zenon
  <2> QED
    BY <1>3, <1>5, <1>6, <2>1, <2>2, <2>3, Zenon DEF TypeOK
<1>9. RoleConsistent'
  BY <1>3, <1>4, <1>5, Zenon DEF RoleConsistent, Role
<1>10. ServiceOffAtRest'
  BY <1>2, <1>3, <1>5, Zenon DEF ServiceOffAtRest, Got, Ready, Good
<1>11. RivalsOfThisMastership'
  <2> SUFFICES ASSUME r.state = "MAST", NEW l \in Link, r.master[l] # NoNode
               PROVE  l \in rivals'
    BY <1>3, <1>5, Zenon DEF RivalsOfThisMastership
  <2>1. r.master # AllLinks(NoNode)
    BY SMT DEF AllLinks
  <2>2. /\ node.state = "MAST"
        /\ \/ node.master[l] # NoNode
           \/ l = m.l /\ m.st # "LEARN" /\ m.prio # Stop /\ better(Self, m)
    BY <1>2, <2>1, Zenon DEF Got
  <2>3. node.master[l] # NoNode => l \in rivals
    BY <2>2, Zenon DEF IInv, RivalsOfThisMastership
  <2> QED
    BY <1>3, <2>2, <2>3
<1>12. FlagMeansWarned'
  BY <1>3, <1>4, <1>5, Zenon DEF FlagMeansWarned
<1>13. TimersCoverDelay'
  <2> SUFFICES ASSUME r.state = "DISABLE", ~forced', NEW l \in Link
               PROVE  r.ms[l] + quiet' >= Delay(Self)
    BY <1>3, <1>5, Zenon DEF TimersCoverDelay
  <2>1. node.state = "DISABLE" /\ ~forced
    BY <1>3, Zenon
  <2>2. r.ms = node.ms
    BY <1>2, <2>1, Zenon DEF Got
  <2>3. quiet' = quiet
    BY <1>3, <2>1
  <2> QED
    BY <2>1, <2>2, <2>3, Zenon DEF IInv, TimersCoverDelay
<1> QED
  BY <1>8, <1>9, <1>10, <1>11, <1>12, <1>13 DEF IInv

\* A second passes: what the timers lose, quiet gains.
LEMMA TickInv ==
    ASSUME IInv, Tick
    PROVE  IInv'
<1>1. PICK wrap \in SUBSET Link, old \in SUBSET Link :
         /\ Become(timer_tick(node, wrap, old))
         /\ quiet' = IF node.state = "DISABLE" /\ quiet < Delay(Self)
                     THEN quiet + 1 ELSE quiet
         /\ UNCHANGED <<passed, warned, forced, rivals>>
  BY DEF Tick, Second
<1> DEFINE A == [l \in Link |-> CountDown(node.adv[l])]
           M == [l \in Link |-> IF l \in wrap /\ node.ms[l] = 0
                                THEN WrapTicks ELSE CountDown(node.ms[l])]
           H == Older(node.heard, old)
           B == Older(node.buf, old)
           r == [node EXCEPT !.adv = A, !.ms = M, !.heard = H, !.buf = B]
           e == [r EXCEPT !.out = {}]
<1>2. timer_tick(node, wrap, old) = r
  BY DEF timer_tick
<1>3. node' = e
  BY <1>1, <1>2 DEF Become
<1>4. node \in NodeState /\ quiet \in 0..Delay(Self)
  BY DEF IInv, TypeOK
<1>5. /\ node.adv \in [Link -> 0..AdverInt] /\ node.ms \in [Link -> Nat]
      /\ node.heard \in [Link -> 0..Stale] /\ node.buf \in [Link -> 0..Unset]
  BY <1>4, SMT DEF NodeState
<1>6. Stale \in Nat /\ Unset = Stale + 1
  BY NodeAssumption, SMT DEF Stale, Unset
<1>7. A \in [Link -> 0..AdverInt] /\ M \in [Link -> Nat]
  BY <1>5, NodeAssumption, SMT DEF CountDown
<1>8. H \in [Link -> 0..Stale] /\ B \in [Link -> 0..Unset]
  BY <1>5, <1>6, SMT DEF Older
<1>9. Delay(Self) \in Nat
  BY SelfAssumption, DelayType
<1>10. ASSUME node.state = "DISABLE", ~forced, NEW l \in Link
       PROVE  M[l] + quiet' >= Delay(Self)
  <2>1. node.ms[l] + quiet >= Delay(Self)
    BY <1>10, Zenon DEF IInv, TimersCoverDelay
  <2>2. M[l] >= node.ms[l] - 1 /\ (node.ms[l] = 0 => M[l] >= 0)
    BY <1>5, NodeAssumption, SMT DEF CountDown
  <2>3. quiet' = IF quiet < Delay(Self) THEN quiet + 1 ELSE quiet
    BY <1>1, <1>10
  <2>4. node.ms[l] \in Nat /\ M[l] \in Nat
    BY <1>5, <1>7
  <2> HIDE DEF M
  <2> QED
    BY <1>4, <1>9, <2>1, <2>2, <2>3, <2>4, SMT
<1> HIDE DEF A, M, H, B
<1>11. r \in NodeState
  BY <1>4, <1>7, <1>8, Zenon DEF NodeState
<1>12. /\ r.state = node.state /\ r.vip = node.vip /\ r.told = node.told
       /\ r.svc = node.svc /\ r.rx = node.rx /\ r.flg = node.flg
       /\ r.ms = M /\ r.master = node.master
  BY <1>4, Zenon DEF NodeState
<1> HIDE DEF r
<1>13. /\ e \in NodeState /\ e.out = {}
       /\ e.state = r.state /\ e.vip = r.vip /\ e.told = r.told
       /\ e.svc = r.svc /\ e.rx = r.rx /\ e.flg = r.flg
       /\ e.ms = r.ms /\ e.master = r.master
  BY <1>11, Emptied
<1> HIDE DEF e
<1>14. TypeOK'
  <2>1. quiet' \in 0..Delay(Self)
    BY <1>1, <1>4, <1>9, SMT
  <2> QED
    BY <1>1, <1>3, <1>13, <2>1, Zenon DEF IInv, TypeOK
<1>15. RoleConsistent'
  BY <1>3, <1>12, <1>13, Zenon DEF IInv, RoleConsistent, Role
<1>16. ServiceOffAtRest'
  BY <1>3, <1>12, <1>13, Zenon DEF IInv, ServiceOffAtRest
<1>17. RivalsOfThisMastership'
  BY <1>1, <1>3, <1>12, <1>13, Zenon DEF IInv, RivalsOfThisMastership
<1>18. FlagMeansWarned'
  BY <1>1, <1>3, <1>12, <1>13, Zenon DEF IInv, FlagMeansWarned
<1>19. TimersCoverDelay'
  BY <1>1, <1>3, <1>10, <1>12, <1>13, Zenon DEF TimersCoverDelay
<1> QED
  BY <1>14, <1>15, <1>16, <1>17, <1>18, <1>19 DEF IInv

\* An operation of the dbus thread or the link thread
LEMMA OperateInv ==
    ASSUME IInv, NEW r, Own(Self, node, r), Operate(r)
    PROVE  IInv'
<1>1. Become(r) /\ NoPacket(r) /\ passed' = passed
  BY DEF Operate
<1>2. passed' \in BOOLEAN
  BY <1>1 DEF IInv, TypeOK
<1> QED
  BY <1>1, <1>2, OwnInv

\* Every step of the process and its environment preserves the invariant.
LEMMA NextInv == IInv /\ [Next]_vars => IInv'
<1> SUFFICES ASSUME IInv, [Next]_vars PROVE IInv'
  OBVIOUS
<1> USE SelfAssumption
<1>1. Good(node)
  BY DEF IInv, TypeOK, RoleConsistent, ServiceOffAtRest, Good
<1>2. CASE LoopTest
  BY <1>2, Zenon DEF LoopTest, IInv, TypeOK, RoleConsistent, ServiceOffAtRest,
     RivalsOfThisMastership, FlagMeansWarned, TimersCoverDelay
<1>3. CASE Loop
  <2> DEFINE r == state_loop(Self, node)
  <2>1. Own(Self, node, r)
    BY <1>1, StateLoop
  <2>2. Become(r) /\ NoPacket(r) /\ passed' \in BOOLEAN
    BY <1>3, Zenon DEF Loop
  <2> HIDE DEF r
  <2> QED
    BY <2>1, <2>2, OwnInv
<1>4. CASE Tick
  BY <1>4, TickInv
<1>5. CASE \E m \in Packet : CanSend(m) /\ Hear(m)
  BY <1>5, HearInv
<1>6. CASE ServiceEnable
  BY <1>1, <1>6, ServiceEnableStep, OperateInv, Zenon DEF ServiceEnable
<1>7. CASE ServiceDisable
  BY <1>1, <1>7, ServiceDisableStep, OperateInv, Zenon DEF ServiceDisable
<1>8. CASE SwitchMaster
  BY <1>1, <1>8, SwitchMasterStep, OperateInv, Zenon DEF SwitchMaster
<1>9. CASE SwitchBack
  BY <1>1, <1>9, SwitchBackStep, OperateInv, Zenon DEF SwitchBack
<1>10. CASE WantMaster
  <2>1. Own(Self, node, want_master(node))
    BY <1>1, FlagSteps, Zenon DEF want_master
  <2> QED
    BY <1>10, <2>1, OperateInv, Zenon DEF WantMaster
<1>11. CASE WantInit
  <2>1. Own(Self, node, want_init(node))
    BY <1>1, FlagSteps, Zenon DEF want_init
  <2> QED
    BY <1>11, <2>1, OperateInv, Zenon DEF WantInit
<1>12. CASE WidReport
  <2>1. \A v \in BOOLEAN : Own(Self, node, set_wid_transfer_state(node, v))
    BY <1>1, FlagSteps, Zenon DEF set_wid_transfer_state
  <2> QED
    BY <1>12, <2>1, OperateInv, Zenon DEF WidReport
<1>13. CASE PortalReport
  <2>1. \A v \in BOOLEAN : Own(Self, node, set_portal_transfer_state(node, v))
    BY <1>1, FlagSteps, Zenon DEF set_portal_transfer_state
  <2> QED
    BY <1>13, <2>1, OperateInv, Zenon DEF PortalReport
<1>14. CASE NoTransfer
  <2>1. Own(Self, node, no_transfer(node))
    BY <1>1, FlagSteps, Zenon
  <2> QED
    BY <1>14, <2>1, OperateInv, Zenon DEF NoTransfer
<1>15. CASE EndProfile
  BY <1>1, <1>15, EndProfileStep, OperateInv, Zenon DEF EndProfile
<1>16. CASE \E l \in Link : LinkChange(l)
  <2>1. PICK l \in Link : Operate([node EXCEPT !.link[l] = ~@])
    BY <1>16 DEF LinkChange
  <2>2. Own(Self, node, [node EXCEPT !.link[l] = ~@])
    BY <1>1, LinkSteps
  <2> QED
    BY <2>1, <2>2, OperateInv, Zenon
<1>17. CASE \E m \in Mon : MonChange(m)
  <2>1. PICK m \in Mon : Operate([node EXCEPT !.mon[m] = ~@])
    BY <1>17 DEF MonChange
  <2>2. Own(Self, node, [node EXCEPT !.mon[m] = ~@])
    BY <1>1, LinkSteps
  <2> QED
    BY <2>1, <2>2, OperateInv, Zenon
<1>18. CASE HeartbeatChange
  <2>1. Own(Self, node, [node EXCEPT !.ht = ~@])
    BY <1>1, FlagSteps, Zenon
  <2> QED
    BY <1>18, <2>1, OperateInv, Zenon DEF HeartbeatChange
<1>19. CASE UNCHANGED vars
  BY <1>19, Zenon DEF vars, IInv, TypeOK, RoleConsistent, ServiceOffAtRest,
     RivalsOfThisMastership, FlagMeansWarned, TimersCoverDelay
<1> QED
  BY <1>2, <1>3, <1>4, <1>5, <1>6, <1>7, <1>8, <1>9, <1>10, <1>11, <1>12,
     <1>13, <1>14, <1>15, <1>16, <1>17, <1>18, <1>19 DEF Next, Environment

-----------------------------------------------------------------------------
(***************************************************************************)
(* The theorems.                                                           *)
(***************************************************************************)

\* The inductive invariant holds throughout, whatever the peers, the network,
\* the links and the operators do to the had process.
THEOREM Invariance == Spec => []IInv
BY InitInv, NextInv, PTL DEF Spec

\* All variables keep their types: no had_* function leaves the record of a
\* virtual router malformed or with packets unsent.
THEOREM TypeCorrect == Spec => []TypeOK
<1>1. IInv => TypeOK
  BY DEF IInv
<1> QED
  BY <1>1, Invariance, PTL

\* Virtual address, notified role and state machine agree at all times.
THEOREM RoleCorrect == Spec => []RoleConsistent
<1>1. IInv => RoleConsistent
  BY DEF IInv
<1> QED
  BY <1>1, Invariance, PTL

\* A disabled service is never left in a state that waits for the state thread
\* or for packets.
THEOREM RestCorrect == Spec => []ServiceOffAtRest
<1>1. IInv => ServiceOffAtRest
  BY DEF IInv
<1> QED
  BY <1>1, Invariance, PTL

\* The rivals a master goes by are those of its present mastership.
THEOREM RivalsCorrect == Spec => []RivalsOfThisMastership
<1>1. IInv => RivalsOfThisMastership
  BY DEF IInv
<1> QED
  BY <1>1, Invariance, PTL

\* A standby takes over in had_state_back_loop only after a warning.
THEOREM WarnedCorrect == Spec => WarnedBeforeTakeover
<1>1. IInv /\ [Next]_vars
        => [node.state = "BACK" /\ node'.state = "MAST" /\ Loop => warned]_vars
  <2> SUFFICES ASSUME IInv, node.state = "BACK", node'.state = "MAST", Loop
               PROVE  warned
    OBVIOUS
  <2> DEFINE r == state_loop(Self, node)
  <2>1. Good(node)
    BY DEF IInv, TypeOK, RoleConsistent, ServiceOffAtRest, Good
  <2>2. /\ Own(Self, node, r)
        /\ node.state = "BACK" /\ r.state = "MAST" => node.flg
    BY <2>1, SelfAssumption, StateLoop
  <2>3. node' = [r EXCEPT !.out = {}]
    BY DEF Loop, Become
  <2> HIDE DEF r
  <2>4. r \in NodeState
    BY <2>2 DEF Own, Good
  <2>5. node'.state = r.state
    BY <2>3, <2>4, Emptied
  <2> QED
    BY <2>2, <2>5, Zenon DEF IInv, FlagMeansWarned
<1> QED
  BY <1>1, Invariance, PTL DEF Spec, WarnedBeforeTakeover

\* A node in DISABLE, unless it was forced there, waits out the delay before
\* had_state_disable_loop promotes it.
THEOREM QuietCorrect == Spec => QuietBeforeSelfPromotion
<1>1. IInv /\ [Next]_vars
        => [node.state = "DISABLE" /\ node'.state = "MAST" /\ ~forced /\ Loop
              => quiet >= Delay(Self)]_vars
  <2> SUFFICES ASSUME IInv, node.state = "DISABLE", node'.state = "MAST",
                      ~forced, Loop
               PROVE  quiet >= Delay(Self)
    OBVIOUS
  <2> DEFINE r == state_loop(Self, node)
  <2>1. Good(node)
    BY DEF IInv, TypeOK, RoleConsistent, ServiceOffAtRest, Good
  <2>2. /\ Own(Self, node, r)
        /\ node.state = "DISABLE" /\ r.state = "MAST" => Expired(node.ms)
    BY <2>1, SelfAssumption, StateLoop
  <2>3. node' = [r EXCEPT !.out = {}]
    BY DEF Loop, Become
  <2> HIDE DEF r
  <2>4. r \in NodeState
    BY <2>2 DEF Own, Good
  <2>5. node'.state = r.state
    BY <2>3, <2>4, Emptied
  <2>6. PICK l \in Link : node.ms[l] <= 0
    BY <2>2, <2>5, Zenon DEF Expired
  <2>7. node.ms[l] + quiet >= Delay(Self)
    BY Zenon DEF IInv, TimersCoverDelay
  <2>8. node.ms[l] \in Nat /\ quiet \in 0..Delay(Self) /\ Delay(Self) \in Nat
    BY SelfAssumption, DelayType, SMT DEF IInv, TypeOK, NodeState
  <2> QED
    BY <2>6, <2>7, <2>8, SMT
<1> QED
  BY <1>1, Invariance, PTL DEF Spec, QuietBeforeSelfPromotion

-----------------------------------------------------------------------------
(***************************************************************************)
(* HadOpen implements HadRole: each critical section of the process is one *)
(* step of the role protocol, or none.  The invariant already says that    *)
(* address, notified role and state agree after it; what remains is which  *)
(* state may follow which.                                                 *)
(***************************************************************************)
\* The edges of the protocol, as a relation between the record before and after
Edge(s, r) ==
    \/ r.state = s.state /\ r.told = s.told
    \/ s.state = "INIT" /\ r.state = "LEARN" /\ r.told = s.told
    \/ s.state # "MAST" /\ r.state \in {"TRANSFER", "MAST"}
    \/ s.state \in {"LEARN", "MAST", "DISABLE"} /\ r.state = "BACK"
    \/ s.state \notin {"BACK", "DISABLE"} /\ r.state = "DISABLE"
    \/ /\ s.state # "INIT" /\ r.state = "INIT"
       /\ r.told = "DISABLE" \/ (s.state # "MAST" /\ r.told = s.told)

\* A way into the role is an edge from every state but MAST.
LEMMA EdgeUp ==
    ASSUME NEW s, s.state # "MAST", NEW u, NEW r, Up(u, r)
    PROVE  Edge(s, r)
BY Zenon DEF Edge, Up

\* had_state_goto_master and had_state_goto_transfer
LEMMA EdgeGoto ==
    ASSUME NEW n \in Node, NEW s \in NodeState, Role(s), s.state # "MAST", NEW o
    PROVE  Edge(s, goto_master(n, s, o)) /\ Edge(s, goto_transfer(s))
BY GotoMaster, GotoTransfer, EdgeUp, Zenon

-----------------------------------------------------------------------------
\* had_state_thread_main
LEMMA EdgeLoop ==
    ASSUME NEW n \in Node, NEW s, Good(s)
    PROVE  Edge(s, state_loop(n, s))
<1>1. s \in NodeState /\ Role(s) /\ s.state \in State
  BY SMT DEF Good, NodeState
<1>2. Edge(s, s)
  BY DEF Edge
<1>3. s.state # "MAST" => \A o : Edge(s, goto_master(n, s, o))
  BY <1>1, EdgeGoto, Zenon
<1>4. CASE s.state = "INIT"
  <2> DEFINE r == [s EXCEPT !.ms = AllLinks(Delay(n)), !.state = "LEARN"]
  <2>1. r.state = "LEARN" /\ r.told = s.told
    BY <1>1, SMT DEF NodeState
  <2>2. Edge(s, r)
    BY <1>4, <2>1, Zenon DEF Edge
  <2>3. state_loop(n, s) \in {s, goto_master(n, s, "MAST"), r}
    BY <1>4, SMT DEF state_loop, state_init
  <2> HIDE DEF r
  <2>4. s.state # "MAST"
    BY <1>4, SMT
  <2> QED
    BY <1>2, <1>3, <2>2, <2>3, <2>4, Zenon
<1>5. CASE s.state = "LEARN"
  <2>1. Prio[n] \in 0..255
    BY NodeAssumption
  <2>2. PICK X : send_adv(n, s, Prio[n]) = [s EXCEPT !.out = X]
    BY <1>1, <2>1, SendAdvType
  <2>3. [s EXCEPT !.out = X].state = s.state /\ [s EXCEPT !.out = X].told = s.told
    BY <1>1, SMT DEF NodeState
  <2>4. Edge(s, send_adv(n, s, Prio[n]))
    BY <2>2, <2>3, Zenon DEF Edge
  <2>5. state_loop(n, s) \in {goto_master(n, s, "NONE"), send_adv(n, s, Prio[n])}
    BY <1>5, SMT DEF state_loop, learn_loop
  <2>6. s.state # "MAST"
    BY <1>5, SMT
  <2> QED
    BY <1>3, <2>4, <2>5, <2>6, Zenon
<1>6. CASE s.state = "BACK"
  <2> DEFINE down == [s EXCEPT !.ms = AllLinks(Delay(n)), !.adv = AllLinks(0)]
             t == [s EXCEPT !.flg = TRUE, !.ms = AllLinks(AdverInt)]
             warn == send_fail(n, t)
             up == goto_master(n, s, "NONE")
             go == [up EXCEPT !.flg = FALSE]
  <2>1. down.state = s.state /\ down.told = s.told
    BY <1>1, SMT DEF NodeState
  <2>2. AllLinks(AdverInt) \in [Link -> Nat]
    BY AllLinksType, NodeAssumption
  <2>3. t \in NodeState
    BY <1>1, <2>2, Zenon DEF NodeState
  <2>4. t.state = s.state /\ t.told = s.told
    BY <1>1, SMT DEF NodeState
  <2> HIDE DEF t
  <2>5. warn.state = s.state /\ warn.told = s.told
    BY <2>3, <2>4, SendFailType
  <2>6. s.state # "MAST" /\ s.svc
    BY <1>6, SMT DEF Good
  <2>7. Up(s, up)
    BY <1>1, <2>6, GotoMaster
  <2>8. go.state = up.state
    BY <2>7, SMT DEF Up, NodeState
  <2>9. up.state \in {"TRANSFER", "MAST"}
    BY <2>7, Zenon DEF Up
  <2>10. state_loop(n, s) \in {down, s, warn, go}
    BY <1>6, <2>6, SMT DEF state_loop, back_loop, warn_master, t
  <2> HIDE DEF down, warn, up, go
  <2>11. Edge(s, down) /\ Edge(s, warn) /\ Edge(s, go)
    BY <2>1, <2>5, <2>6, <2>8, <2>9, Zenon DEF Edge
  <2> QED
    BY <1>2, <2>10, <2>11, Zenon
<1>7. CASE s.state = "TRANSFER"
  <2>1. state_loop(n, s) \in {s, goto_master(n, s, "TRANSFER")}
    BY <1>7, SMT DEF state_loop, transfer_loop
  <2>2. s.state # "MAST"
    BY <1>7, SMT
  <2> QED
    BY <1>2, <1>3, <2>1, <2>2, Zenon
<1>8. CASE s.state = "MAST"
  <2> DEFINE due == {l \in Link : s.adv[l] <= 0}
             X == s.out \cup {Pkt(n, s, l, Prio[n], "PASS") :
                                  l \in {k \in due : s.ht /\ s.svc}}
             A == [l \in Link |-> IF l \in due THEN AdverInt ELSE s.adv[l]]
             r == [s EXCEPT !.out = X, !.adv = A]
  <2>1. state_loop(n, s) = mast_loop(n, s)
    BY <1>8, SMT DEF state_loop
  <2>2. mast_loop(n, s) = goto_disable(n, s, TRUE) \/ mast_loop(n, s) = r
    BY DEF mast_loop
  <2> HIDE DEF X, A
  <2>3. r.state = s.state /\ r.told = s.told
    BY <1>1, SMT DEF NodeState
  <2>4. s.state # "DISABLE" /\ s.state # "BACK"
    BY <1>8, SMT
  <2>5. goto_disable(n, s, TRUE).state = "DISABLE"
    BY <1>1, <2>4, GotoDisable
  <2> HIDE DEF r
  <2> QED
    BY <2>1, <2>2, <2>3, <2>4, <2>5, Zenon DEF Edge
<1>9. CASE s.state = "DISABLE"
  <2> DEFINE r == [s EXCEPT !.ms = AllLinks(Delay(n))]
  <2>1. state_loop(n, s) \in {r, goto_master(n, s, "NONE"), s}
    BY <1>9, SMT DEF state_loop, disable_loop
  <2>2. r.state = s.state /\ r.told = s.told
    BY <1>1, SMT DEF NodeState
  <2> HIDE DEF r
  <2>3. s.state # "MAST"
    BY <1>9, SMT
  <2>4. Edge(s, r)
    BY <2>2, Zenon DEF Edge
  <2> QED
    BY <1>2, <1>3, <2>1, <2>3, <2>4, Zenon
<1> QED
  BY <1>1, <1>4, <1>5, <1>6, <1>7, <1>8, <1>9, Zenon DEF State

-----------------------------------------------------------------------------
\* The operations of the dbus thread and the changes of links and flags
LEMMA EdgeOperate ==
    ASSUME NEW n \in Node, NEW s, Good(s)
    PROVE  /\ Edge(s, service_enable(s))
           /\ Edge(s, service_disable(n, s))
           /\ Edge(s, state_change_master(n, s))
           /\ Edge(s, state_change_back(n, s))
           /\ Edge(s, end_profile(n, s))
           /\ Edge(s, want_master(s)) /\ Edge(s, want_init(s))
           /\ Edge(s, no_transfer(s))
           /\ \A v : /\ Edge(s, set_wid_transfer_state(s, v))
                     /\ Edge(s, set_portal_transfer_state(s, v))
                     /\ Edge(s, [s EXCEPT !.ht = v])
                     /\ Edge(s, [s EXCEPT !.link = v])
                     /\ Edge(s, [s EXCEPT !.mon = v])
<1>1. s \in NodeState /\ Role(s)
  BY DEF Good
<1>2. Edge(s, s)
  BY DEF Edge
<1> DEFINE t == [s EXCEPT !.rx = TRUE]
<1>3. t \in NodeState /\ Role(t)
  <2>1. t \in NodeState
    BY <1>1, Zenon DEF NodeState
  <2>2. t.state = s.state /\ t.told = s.told /\ t.vip = s.vip /\ t.rx
    BY <1>1, Zenon DEF NodeState
  <2> HIDE DEF t
  <2> QED
    BY <1>1, <2>1, <2>2, Zenon DEF Role
<1>4. t.state = s.state /\ t.told = s.told
  BY <1>1, Zenon DEF NodeState
<1>5. Edge(s, service_enable(s))
  <2> DEFINE r == [t EXCEPT !.svc = TRUE]
  <2>1. service_enable(s) = r
    BY DEF service_enable, vif_rcv_pck_ON
  <2> HIDE DEF t
  <2>2. r.state = t.state /\ r.told = t.told
    BY <1>3, SMT DEF NodeState
  <2> HIDE DEF r
  <2> QED
    BY <1>4, <2>1, <2>2, Zenon DEF Edge
<1>6. Edge(s, service_disable(n, s))
  <2> DEFINE u == IF s.state = "TRANSFER"
                  THEN [t EXCEPT !.wid = FALSE, !.portal = FALSE] ELSE t
             d == goto_disable(n, u, s.state = "MAST")
             v == IF s.state = "INIT" THEN t ELSE [d EXCEPT !.state = "INIT"]
             r == [v EXCEPT !.svc = FALSE]
  <2>1. service_disable(n, s) = r
    BY DEF service_disable, vif_rcv_pck_ON
  <2> HIDE DEF t
  <2>2. u \in NodeState /\ Role(u) /\ u.state = s.state /\ u.told = s.told
    <3> DEFINE w == [t EXCEPT !.wid = FALSE, !.portal = FALSE]
    <3>1. w \in NodeState
      BY <1>3, Zenon DEF NodeState
    <3>2. w.state = t.state /\ w.told = t.told /\ w.vip = t.vip /\ w.rx = t.rx
      BY <1>3, Zenon DEF NodeState
    <3> HIDE DEF w
    <3>3. Role(w)
      BY <1>3, <3>2, Zenon DEF Role
    <3> QED
      BY <1>3, <1>4, <3>1, <3>2, <3>3, Zenon DEF w
  <2> HIDE DEF u
  <2>3. d \in NodeState /\ d.told = "DISABLE"
    <3>1. CASE u.state = "DISABLE"
      <4>1. d = u
        BY <3>1, Zenon DEF goto_disable
      <4> QED
        BY <2>2, <3>1, <4>1, Zenon DEF Role
    <3>2. CASE u.state # "DISABLE"
      <4>1. (s.state = "MAST") \in BOOLEAN
        OBVIOUS
      <4>2. Recast(u, d) /\ d.state = "DISABLE"
        BY <2>2, <3>2, <4>1, GotoDisable
      <4> HIDE DEF d
      <4> QED
        BY <4>2, Zenon DEF Recast, Role
    <3> QED
      BY <3>1, <3>2
  <2> HIDE DEF d
  <2>4. CASE s.state = "INIT"
    <3>1. r = [t EXCEPT !.svc = FALSE]
      BY <2>4
    <3>2. r.state = t.state /\ r.told = t.told
      BY <1>3, <3>1, SMT DEF NodeState
    <3> HIDE DEF r
    <3> QED
      BY <1>4, <2>1, <3>2, Zenon DEF Edge
  <2>5. CASE s.state # "INIT"
    <3>1. r = [d EXCEPT !.state = "INIT", !.svc = FALSE]
      BY <2>3, <2>5, SMT DEF NodeState
    <3> HIDE DEF r
    <3>2. r.state = "INIT" /\ r.told = d.told
      BY <2>3, <3>1, SMT DEF NodeState
    <3> QED
      BY <2>1, <2>3, <2>5, <3>2, Zenon DEF Edge
  <2> QED
    BY <2>4, <2>5
<1>7. Edge(s, state_change_master(n, s))
  <2>1. CASE s.state = "MAST"
    BY <1>2, <2>1 DEF state_change_master
  <2>2. CASE s.state # "MAST"
    <3> DEFINE a == [s EXCEPT !.ms = AllLinks(AdverInt)]
               u == send_fail(n, a)
    <3>1. AllLinks(AdverInt) \in [Link -> Nat]
      BY AllLinksType, NodeAssumption
    <3>2. a \in NodeState
      BY <1>1, <3>1, Zenon DEF NodeState
    <3>3. a.state = s.state /\ a.vip = s.vip /\ a.told = s.told
      BY <1>1, Zenon DEF NodeState
    <3>4. state_change_master(n, s) = goto_master(n, u, "NONE")
      BY <2>2 DEF state_change_master
    <3> HIDE DEF a
    <3>5. u \in NodeState /\ u.state = a.state /\ u.vip = a.vip /\ u.told = a.told
      BY <3>2, SendFailType
    <3> HIDE DEF u
    <3>6. Role(u) /\ u.state # "MAST"
      BY <1>1, <2>2, <3>3, <3>5, Zenon DEF Role
    <3>7. Up(u, goto_master(n, u, "NONE"))
      BY <3>5, <3>6, GotoMaster
    <3> QED
      BY <2>2, <3>4, <3>7, EdgeUp
  <2> QED
    BY <2>1, <2>2
<1>8. Edge(s, state_change_back(n, s))
  <2>1. leave_master_stop(n, s).state = "DISABLE"
    BY <1>1, LeaveMasterStop
  <2> QED
    BY <1>2, <2>1, Zenon DEF state_change_back, Edge
<1>9. Edge(s, end_profile(n, s))
  <2> DEFINE u == IF s.state = "MAST" THEN leave_master_stop(n, t) ELSE t
             r == [u EXCEPT !.state = "INIT", !.svc = FALSE, !.want = FALSE,
                       !.master = AllLinks(NoNode),
                       !.ms = AllLinks(0), !.adv = AllLinks(0)]
  <2>1. end_profile(n, s) = r
    BY DEF end_profile, vif_rcv_pck_ON
  <2> HIDE DEF t
  <2>2. u \in NodeState
        /\ u.told = (IF s.state = "MAST" THEN "DISABLE" ELSE s.told)
    <3>1. CASE s.state = "MAST"
      <4>1. Recast(t, u) /\ u.state = "DISABLE"
        BY <1>3, <3>1, LeaveMasterStop
      <4> HIDE DEF u
      <4> QED
        BY <3>1, <4>1, Zenon DEF Recast, Role
    <3>2. CASE s.state # "MAST"
      BY <1>3, <1>4, <3>2
    <3> QED
      BY <3>1, <3>2
  <2> HIDE DEF u
  <2>3. r.state = "INIT" /\ r.told = u.told
    BY <2>2, Zenon DEF NodeState
  <2> HIDE DEF r
  <2>4. CASE s.state = "INIT"
    <3>1. s.state # "MAST"
      BY <2>4, SMT
    <3> QED
      BY <2>1, <2>2, <2>3, <2>4, <3>1, Zenon DEF Edge
  <2>5. CASE s.state # "INIT"
    BY <2>1, <2>2, <2>3, <2>5, Zenon DEF Edge
  <2> QED
    BY <2>4, <2>5
<1>10. ASSUME NEW v
       PROVE  /\ Edge(s, [s EXCEPT !.wid = v])
              /\ Edge(s, [s EXCEPT !.portal = v])
              /\ Edge(s, [s EXCEPT !.want = v])
              /\ Edge(s, [s EXCEPT !.ht = v])
              /\ Edge(s, [s EXCEPT !.link = v])
              /\ Edge(s, [s EXCEPT !.mon = v])
  <2>1. /\ [s EXCEPT !.wid = v].state = s.state
        /\ [s EXCEPT !.wid = v].told = s.told
        /\ [s EXCEPT !.portal = v].state = s.state
        /\ [s EXCEPT !.portal = v].told = s.told
        /\ [s EXCEPT !.want = v].state = s.state
        /\ [s EXCEPT !.want = v].told = s.told
        /\ [s EXCEPT !.ht = v].state = s.state
        /\ [s EXCEPT !.ht = v].told = s.told
        /\ [s EXCEPT !.link = v].state = s.state
        /\ [s EXCEPT !.link = v].told = s.told
        /\ [s EXCEPT !.mon = v].state = s.state
        /\ [s EXCEPT !.mon = v].told = s.told
    BY <1>1, SMT DEF NodeState
  <2> QED
    BY <2>1, Zenon DEF Edge
<1>11. Edge(s, no_transfer(s))
  <2> DEFINE r == [s EXCEPT !.wid = FALSE, !.portal = FALSE]
  <2>1. r.state = s.state /\ r.told = s.told
    BY <1>1, SMT DEF NodeState
  <2> HIDE DEF r
  <2>2. Edge(s, r)
    BY <2>1, Zenon DEF Edge
  <2> QED
    BY <2>2 DEF no_transfer, r
<1>12. Edge(s, want_master(s)) /\ Edge(s, want_init(s))
  BY <1>2, <1>10, Zenon DEF want_master, want_init
<1> QED
  BY <1>5, <1>6, <1>7, <1>8, <1>9, <1>10, <1>11, <1>12
     DEF set_wid_transfer_state, set_portal_transfer_state

-----------------------------------------------------------------------------
\* had_update_uplink and had_update_downlink, in the states they act in
LEMMA EdgeUpdate ==
    ASSUME NEW n \in Node, NEW s, Ready(s), NEW m \in Packet
    PROVE  Edge(s, update_link(n, s, m))
<1>1. s \in NodeState /\ Role(s) /\ m.l \in Link
  BY SMT DEF Ready, Good, Packet
<1>2. Edge(s, s)
  BY DEF Edge
<1>3. s.state # "MAST" => \A o : Edge(s, goto_master(n, s, o))
  BY <1>1, EdgeGoto, Zenon
<1>4. /\ Ready(Known(s, m)) /\ Known(s, m) \in NodeState
      /\ Known(s, m).state = s.state
  BY KnownMaster
<1>5. Known(s, m).told = s.told
  BY <1>1, SMT DEF Known, NodeState
<1>6. CASE s.state = "LEARN"
  <2> DEFINE u == Known(s, m)
             v == [u EXCEPT !.ms = AllLinks(Delay(n))]
  <2>1. update_link(n, s, m)
          \in {goto_master(n, s, "BACK"), from_learn(n, v, m), u}
    BY <1>6, SMT DEF update_link, update_learn, Known
  <2> HIDE DEF u
  <2>2. u \in NodeState /\ Role(u) /\ u.state = s.state /\ u.told = s.told
    BY <1>4, <1>5 DEF u, Ready, Good
  <2>3. AllLinks(Delay(n)) \in [Link -> Nat]
    BY AllLinksType, DelayType
  <2>4. v \in NodeState
    BY <2>2, <2>3, Zenon DEF NodeState
  <2>5. v.state = u.state /\ v.told = u.told /\ v.vip = u.vip /\ v.rx = u.rx
    BY <2>2, Zenon DEF NodeState
  <2> HIDE DEF v
  <2>6. Role(v) /\ v.state # "MAST" /\ s.state # "MAST"
    BY <1>6, <2>2, <2>5, SMT DEF Role
  <2>7. /\ goto_transfer(v).state \in {"TRANSFER", "MAST"}
        /\ state_back(n, v).state = "BACK"
    BY <2>4, <2>6, GotoTransfer, StateBack, Zenon DEF Up
  <2>8. from_learn(n, v, m) \in {v, goto_transfer(v), state_back(n, v)}
    BY DEF from_learn
  <2>9. Edge(s, u) /\ Edge(s, v)
    BY <2>2, <2>5, Zenon DEF Edge
  <2>10. Edge(s, goto_transfer(v)) /\ Edge(s, state_back(n, v))
    BY <1>6, <2>6, <2>7, Zenon DEF Edge
  <2> QED
    BY <1>3, <2>1, <2>6, <2>8, <2>9, <2>10, Zenon
<1>7. CASE s.state = "BACK"
  <2> DEFINE w == [s EXCEPT !.ms[m.l] = Delay(n), !.master[m.l] = m.from]
  <2>1. update_link(n, s, m) \in {goto_master(n, s, "BACK"),
                                   goto_master(n, s, m.st), Known(s, m), w}
    BY <1>7, SMT DEF update_link, update_back, Known
  <2>2. w.state = s.state /\ w.told = s.told
    BY <1>1, SMT DEF NodeState
  <2> HIDE DEF w
  <2>3. s.state # "MAST"
    BY <1>7, SMT
  <2>4. Edge(s, w) /\ Edge(s, Known(s, m))
    BY <1>4, <1>5, <2>2, Zenon DEF Edge
  <2> QED
    BY <1>3, <2>1, <2>3, <2>4, Zenon
<1>8. CASE s.state = "MAST"
  <2> DEFINE h == [s EXCEPT !.heard[m.l] = 0]
             k == Known(h, m)
             left == leave_master(n, k, m)
             gave == [left EXCEPT !.heard = AllLinks(Stale)]
             a == answer_stop(n, s, m.l)
  <2>1. update_link(n, s, m) \in {s, a, leave_master(n, s, m), k, gave}
    BY <1>8, SMT DEF update_link, update_mast, hear_better, Known
  <2>2. a.state = s.state /\ a.told = s.told
    BY <1>1, SMT DEF answer_stop, send_link_adv, NodeState
  <2>3. h \in NodeState
    <3> DEFINE f == [s.heard EXCEPT ![m.l] = 0]
    <3>1. s.heard \in [Link -> 0..Stale] /\ 0 \in 0..Stale
      BY <1>1, NodeAssumption, SMT DEF NodeState, Stale
    <3>2. f \in [Link -> 0..Stale]
      BY <1>1, <3>1, Zenon
    <3>3. h = [s EXCEPT !.heard = f]
      BY <1>1, Zenon DEF NodeState
    <3> HIDE DEF f, h
    <3> QED
      BY <1>1, <3>2, <3>3, Zenon DEF NodeState
  <2>4. /\ h.state = s.state /\ h.told = s.told /\ h.vip = s.vip /\ h.rx = s.rx
        /\ h.svc = s.svc /\ h.flg = s.flg
    BY <1>1, SMT DEF NodeState
  <2> HIDE DEF h
  <2>5. Ready(h)
    BY <2>3, <2>4, Zenon DEF Ready, Good, Role
  <2>6. Ready(k) /\ k.state = s.state
    BY <2>4, <2>5, KnownMaster
  <2>7. k.told = s.told
    BY <2>3, <2>4, SMT DEF Known, NodeState
  <2> HIDE DEF k, a
  <2>8. left \in NodeState /\ left.state \in {"BACK", "DISABLE"}
    BY <2>6, LeaveMaster DEF Recast
  <2> HIDE DEF left
  <2>9. gave.state = left.state
    BY <2>8, SMT DEF NodeState
  <2>10. leave_master(n, s, m).state \in {"BACK", "DISABLE"}
    BY LeaveMaster
  <2> HIDE DEF gave
  <2>11. s.state \notin {"BACK", "DISABLE"}
    BY <1>8, SMT
  <2>12. Edge(s, leave_master(n, s, m)) /\ Edge(s, gave)
    BY <1>8, <2>8, <2>9, <2>10, <2>11, Zenon DEF Edge
  <2>13. Edge(s, a) /\ Edge(s, k)
    BY <2>2, <2>6, <2>7, Zenon DEF Edge
  <2> QED
    BY <1>2, <2>1, <2>12, <2>13, Zenon
<1>9. CASE s.state \notin {"LEARN", "BACK", "MAST"}
  <2>1. update_link(n, s, m) = s
    BY <1>9 DEF update_link
  <2> QED
    BY <1>2, <2>1
<1> QED
  BY <1>6, <1>7, <1>8, <1>9

\* had_updata in DISABLE
LEMMA EdgeUpdataDisable ==
    ASSUME NEW n \in Node, NEW s, Ready(s), s.state = "DISABLE", NEW m \in Packet
    PROVE  Edge(s, updata_disable(n, s, m))
<1> DEFINE t == save_packet(s, m.l)
           u == [s EXCEPT !.master = AllLinks(m.from)]
           go == from_disable(n, u, m)
           r == [go EXCEPT !.buf = AllLinks(Unset)]
<1>1. s \in NodeState /\ Role(s) /\ s.state # "MAST" /\ m.from \in Node \cup {NoNode}
  BY SMT DEF Ready, Good, Packet
<1>2. updata_disable(n, s, m) \in {s, go, r, t}
  BY DEF updata_disable
<1>3. t.state = s.state /\ t.told = s.told
  BY <1>1, SMT DEF save_packet, NodeState
<1>4. u \in NodeState
  BY <1>1, AllLinksType, Zenon DEF NodeState
<1>5. u.state = s.state /\ u.told = s.told /\ u.vip = s.vip /\ u.rx = s.rx
  BY <1>1, Zenon DEF NodeState
<1> HIDE DEF t, u
<1>6. Role(u) /\ u.state # "MAST"
  BY <1>1, <1>5, Zenon DEF Role
<1>7. go \in {u, goto_master(n, u, "LEARN"), goto_transfer(u), state_back(n, u)}
  BY DEF from_disable
<1>8. /\ Up(u, goto_master(n, u, "LEARN")) /\ Up(u, goto_transfer(u))
      /\ Recast(u, state_back(n, u)) /\ state_back(n, u).state = "BACK"
  BY <1>4, <1>6, GotoMaster, GotoTransfer, StateBack
<1> HIDE DEF go
<1>9. go \in NodeState
  BY <1>4, <1>7, <1>8, Zenon DEF Up, Recast
<1>10. Edge(s, go)
  <2>1. CASE go = u
    BY <1>5, <2>1, Zenon DEF Edge
  <2>2. CASE go = goto_master(n, u, "LEARN") \/ go = goto_transfer(u)
    BY <1>1, <1>8, <2>2, EdgeUp, Zenon
  <2>3. CASE go = state_back(n, u)
    BY <1>8, <2>3, Zenon DEF Edge
  <2> QED
    BY <1>7, <2>1, <2>2, <2>3, Zenon
<1>11. r.state = go.state /\ r.told = go.told
  BY <1>9, SMT DEF NodeState
<1> HIDE DEF r
<1>12. Edge(s, r) /\ Edge(s, t) /\ Edge(s, s)
  BY <1>3, <1>10, <1>11, Zenon DEF Edge
<1> QED
  BY <1>2, <1>10, <1>12, Zenon

\* had_updata
LEMMA EdgeUpdata ==
    ASSUME NEW n \in Node, NEW s, Good(s), s.svc, NEW m \in Packet
    PROVE  Edge(s, updata(n, s, m))
<1> DEFINE t == [s EXCEPT !.flg = FALSE]
           r == updata(n, s, m)
<1>1. s \in NodeState
  BY DEF Good
<1>2. t \in NodeState
  BY <1>1, Zenon DEF NodeState
<1>3. /\ t.state = s.state /\ t.vip = s.vip /\ t.told = s.told /\ t.svc = s.svc
      /\ t.rx = s.rx /\ t.flg = FALSE
  BY <1>1, Zenon DEF NodeState
<1>4. IF s.state = "DISABLE" THEN r = updata_disable(n, t, m)
                            ELSE r \in {update_link(n, t, m), t}
  BY DEF updata
<1> HIDE DEF t, r
<1>5. Ready(t)
  BY <1>2, <1>3, Zenon DEF Ready, Good, Role
<1>6. Edge(t, t) /\ Edge(t, update_link(n, t, m))
  BY <1>5, EdgeUpdate DEF Edge
<1>7. s.state = "DISABLE" => Edge(t, updata_disable(n, t, m))
  BY <1>3, <1>5, EdgeUpdataDisable
<1>8. Edge(t, r)
  BY <1>4, <1>6, <1>7, Zenon
<1> QED
  BY <1>3, <1>8, Zenon DEF Edge, r

-----------------------------------------------------------------------------
\* A step of the protocol, or none
ProtocolStep == [Protocol!Next]_<<node.state, node.vip, node.told>>

\* An edge whose two ends have their address and notified role in order is a
\* step of the protocol.
LEMMA EdgeIsStep ==
    ASSUME IInv, IInv', NEW r \in NodeState, Edge(node, r), Become(r)
    PROVE  ProtocolStep
<1> USE DEF ProtocolStep
<1>1. /\ node'.state = r.state /\ node'.told = r.told
  BY Emptied DEF Become
<1>2. Role(node) /\ Role(node')
  BY DEF IInv, RoleConsistent
<1>3. node.vip \in BOOLEAN /\ node'.vip \in BOOLEAN
  BY SMT DEF IInv, TypeOK, NodeState
<1>4. node.vip = (node.state = "MAST") /\ node'.vip = (node'.state = "MAST")
  BY <1>2, <1>3, Zenon DEF Role
<1>5. CASE node'.state = node.state /\ node'.told = node.told
  BY <1>4, <1>5
<1>6. CASE node.state = "INIT" /\ node'.state = "LEARN" /\ node'.told = node.told
  <2>1. node'.state # "MAST"
    BY <1>6, SMT
  <2>2. node'.vip = FALSE
    BY <1>4, <2>1, Zenon
  <2> QED
    BY <1>6, <2>2 DEF Protocol!Next, Protocol!Learn, Protocol!Without
<1>7. CASE node.state # "MAST" /\ node'.state = "MAST"
  BY <1>2, <1>4, <1>7, Zenon DEF Protocol!Next, Protocol!Take, Role
<1>8. CASE node.state # "MAST" /\ node'.state = "TRANSFER"
  <2>1. node'.told = "BACK" /\ node'.vip = FALSE
    BY <1>2, <1>4, <1>8, SMT DEF Role
  <2>2. CASE node.state = "TRANSFER"
    <3>1. node.told = "BACK" /\ node.vip = FALSE
      BY <1>2, <1>4, <2>2, SMT DEF Role
    <3> QED
      BY <1>8, <2>1, <2>2, <3>1
  <2>3. CASE node.state # "TRANSFER"
    BY <1>8, <2>1, <2>3 DEF Protocol!Next, Protocol!Transfer, Protocol!Without
  <2> QED
    BY <2>2, <2>3
<1>9. CASE node.state \in {"LEARN", "MAST", "DISABLE"} /\ node'.state = "BACK"
  <2>1. node'.told = "BACK" /\ node'.vip = FALSE
    BY <1>2, <1>4, <1>9, SMT DEF Role
  <2> QED
    BY <1>9, <2>1 DEF Protocol!Next, Protocol!Follow, Protocol!Without
<1>10. CASE node.state \notin {"BACK", "DISABLE"} /\ node'.state = "DISABLE"
  <2>1. node'.told = "DISABLE" /\ node'.vip = FALSE
    BY <1>2, <1>4, <1>10, SMT DEF Role
  <2> QED
    BY <1>10, <2>1 DEF Protocol!Next, Protocol!Leave, Protocol!Without
<1>11. CASE /\ node.state # "INIT" /\ node'.state = "INIT"
            /\ \/ node'.told = "DISABLE"
               \/ node.state # "MAST" /\ node'.told = node.told
  <2>1. node'.state # "MAST"
    BY <1>11, SMT
  <2>2. node'.vip = FALSE
    BY <1>4, <2>1, Zenon
  <2> QED
    BY <1>11, <2>2 DEF Protocol!Next, Protocol!Rest, Protocol!End, Protocol!Without
<1> QED
  BY <1>1, <1>5, <1>6, <1>7, <1>8, <1>9, <1>10, <1>11, Zenon DEF Edge

\* Every step of the process and its environment is one of the protocol.
LEMMA NextIsStep ==
    ASSUME IInv, IInv', [Next]_vars
    PROVE  ProtocolStep
<1> USE SelfAssumption
<1>1. Good(node) /\ node \in NodeState
  BY DEF IInv, TypeOK, RoleConsistent, ServiceOffAtRest, Good
<1>2. ASSUME NEW r, Own(Self, node, r), Edge(node, r), Become(r)
      PROVE  ProtocolStep
  BY <1>2, EdgeIsStep DEF Own, Good
<1>3. CASE LoopTest \/ UNCHANGED vars
  BY <1>3 DEF LoopTest, vars, ProtocolStep
<1>4. CASE Loop
  <2> DEFINE r == state_loop(Self, node)
  <2>1. Own(Self, node, r) /\ Edge(node, r) /\ Become(r)
    BY <1>1, <1>4, StateLoop, EdgeLoop, Zenon DEF Loop
  <2> HIDE DEF r
  <2> QED
    BY <1>2, <2>1
<1>5. CASE Tick
  <2>1. PICK wrap \in SUBSET Link, old \in SUBSET Link :
            node' = [timer_tick(node, wrap, old) EXCEPT !.out = {}]
    BY <1>5 DEF Tick, Second, Become
  <2>2. node'.state = node.state /\ node'.told = node.told /\ node'.vip = node.vip
    BY <1>1, <2>1, SMT DEF timer_tick, NodeState
  <2> QED
    BY <2>2 DEF ProtocolStep
<1>6. CASE \E m \in Packet : CanSend(m) /\ Hear(m)
  <2>1. PICK m \in Packet : Hear(m)
    BY <1>6
  <2> DEFINE r == updata(Self, node, m)
  <2>2. node.svc /\ Become(r)
    BY <2>1, Zenon DEF Hear, Hears
  <2>3. Got(Self, node, m, r) /\ Edge(node, r)
    BY <1>1, <2>2, Updata, EdgeUpdata
  <2> HIDE DEF r
  <2>4. r \in NodeState
    BY <2>3 DEF Got, Ready, Good
  <2> QED
    BY <2>2, <2>3, <2>4, EdgeIsStep
<1>7. CASE ServiceEnable
  BY <1>1, <1>2, <1>7, ServiceEnableStep, EdgeOperate, Zenon DEF ServiceEnable, Operate
<1>8. CASE ServiceDisable
  BY <1>1, <1>2, <1>8, ServiceDisableStep, EdgeOperate, Zenon DEF ServiceDisable, Operate
<1>9. CASE SwitchMaster
  BY <1>1, <1>2, <1>9, SwitchMasterStep, EdgeOperate, Zenon DEF SwitchMaster, Operate
<1>10. CASE SwitchBack
  BY <1>1, <1>2, <1>10, SwitchBackStep, EdgeOperate, Zenon DEF SwitchBack, Operate
<1>11. CASE EndProfile
  BY <1>1, <1>2, <1>11, EndProfileStep, EdgeOperate, Zenon DEF EndProfile, Operate
<1>12. CASE WantMaster \/ WantInit
  <2>1. Own(Self, node, want_master(node)) /\ Own(Self, node, want_init(node))
    BY <1>1, FlagSteps, Zenon DEF want_master, want_init
  <2> QED
    BY <1>1, <1>2, <1>12, <2>1, EdgeOperate, Zenon DEF WantMaster, WantInit, Operate
<1>13. CASE WidReport \/ PortalReport
  <2>1. \A v \in BOOLEAN : /\ Own(Self, node, set_wid_transfer_state(node, v))
                           /\ Own(Self, node, set_portal_transfer_state(node, v))
    BY <1>1, FlagSteps, Zenon DEF set_wid_transfer_state, set_portal_transfer_state
  <2> QED
    BY <1>1, <1>2, <1>13, <2>1, EdgeOperate, Zenon DEF WidReport, PortalReport, Operate
<1>14. CASE NoTransfer
  BY <1>1, <1>2, <1>14, FlagSteps, EdgeOperate, Zenon DEF NoTransfer, Operate
<1>15. CASE HeartbeatChange
  <2>1. Become([node EXCEPT !.ht = ~@])
    BY <1>15 DEF HeartbeatChange, Operate
  <2>2. Own(Self, node, [node EXCEPT !.ht = ~@])
    BY <1>1, FlagSteps, Zenon
  <2>3. Edge(node, [node EXCEPT !.ht = ~@])
    BY <1>1, EdgeOperate, Zenon
  <2> QED
    BY <1>2, <2>1, <2>2, <2>3
<1>16. CASE \E l \in Link : LinkChange(l)
  <2>1. PICK l \in Link : Become([node EXCEPT !.link[l] = ~@])
    BY <1>16 DEF LinkChange, Operate
  <2>2. Own(Self, node, [node EXCEPT !.link[l] = ~@])
    BY <1>1, LinkSteps
  <2>3. [node EXCEPT !.link[l] = ~@]
           = [node EXCEPT !.link = [node.link EXCEPT ![l] = ~node.link[l]]]
    BY <1>1, Zenon DEF NodeState
  <2>4. Edge(node, [node EXCEPT !.link[l] = ~@])
    BY <1>1, <2>3, EdgeOperate, Zenon
  <2> QED
    BY <1>2, <2>1, <2>2, <2>4
<1>17. CASE \E m \in Mon : MonChange(m)
  <2>1. PICK m \in Mon : Become([node EXCEPT !.mon[m] = ~@])
    BY <1>17 DEF MonChange, Operate
  <2>2. Own(Self, node, [node EXCEPT !.mon[m] = ~@])
    BY <1>1, LinkSteps
  <2>3. [node EXCEPT !.mon[m] = ~@]
           = [node EXCEPT !.mon = [node.mon EXCEPT ![m] = ~node.mon[m]]]
    BY <1>1, Zenon DEF NodeState
  <2>4. Edge(node, [node EXCEPT !.mon[m] = ~@])
    BY <1>1, <2>3, EdgeOperate, Zenon
  <2> QED
    BY <1>2, <2>1, <2>2, <2>4
<1> QED
  BY <1>3, <1>4, <1>5, <1>6, <1>7, <1>8, <1>9, <1>10, <1>11, <1>12, <1>13,
     <1>14, <1>15, <1>16, <1>17 DEF Next, Environment

\* had_vrrpd.c keeps the role protocol: state, virtual address and notified
\* role change together, and only along the edges of HadRole, in every
\* configuration and whatever the peers, the links and the dbus clients do.
THEOREM ImplementsRole == Spec => KeepsProtocol
<1>1. Init => Protocol!Init
  BY SMT DEF Init, InitNode, Protocol!Init
<1>2. IInv /\ IInv' /\ [Next]_vars
        => [Protocol!Next]_<<node.state, node.vip, node.told>>
  BY NextIsStep DEF ProtocolStep
<1>3. Spec => []IInv
  BY Invariance
<1> QED
  BY <1>1, <1>2, <1>3, PTL DEF Spec, KeepsProtocol, Protocol!Spec, Protocol!roleVars
=============================================================================
