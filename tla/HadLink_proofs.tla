--------------------------- MODULE HadLink_proofs ---------------------------
(***************************************************************************)
(* The link thread agrees with the kernel whenever it has caught up, for   *)
(* every set of interfaces and every configuration of slots.               *)
(***************************************************************************)
EXTENDS HadLink, TLAPS

(* The queue of messages *)

\* What Append does to a sequence.
LEMMA Appended ==
    ASSUME NEW S, NEW s \in Seq(S), NEW e \in S
    PROVE  /\ Append(s, e) \in Seq(S)
           /\ DOMAIN s = 1 .. Len(s)
           /\ DOMAIN Append(s, e) = 1 .. Len(s) + 1
           /\ \A n \in 1 .. Len(s) : Append(s, e)[n] = s[n]
           /\ Append(s, e)[Len(s) + 1] = e
OBVIOUS

\* What Tail does to a sequence.
LEMMA Removed ==
    ASSUME NEW S, NEW s \in Seq(S), s # <<>>
    PROVE  /\ Tail(s) \in Seq(S)
           /\ Head(s) \in S
           /\ Len(s) \in Nat \ {0}
           /\ DOMAIN s = 1 .. Len(s)
           /\ DOMAIN Tail(s) = 1 .. Len(s) - 1
           /\ \A n \in 1 .. Len(s) - 1 : Tail(s)[n] = s[n + 1]
           /\ Head(s) = s[1]
OBVIOUS

-----------------------------------------------------------------------------

\* The newest message about i that waits
Newest(i, n) ==
    /\ n \in DOMAIN queue
    /\ queue[n].ifname = i
    /\ \A p \in DOMAIN queue : p > n => queue[p].ifname # i

\* The newest message about an interface says what the kernel says.
NewestTrue ==
    lost = 0 => \A i \in Iface, n \in Nat : Newest(i, n) => queue[n].up = kernel[i]

IInv == TypeOK /\ NewestTrue /\ DrainedAgrees /\ HeartbeatDrained

-----------------------------------------------------------------------------
\* A slot names an interface and a profile.
LEMMA SlotType ==
    \A k \in DOMAIN Slot : Slot[k].ifname \in Iface /\ Slot[k].prof \in Nat
<1>1. \A k \in DOMAIN Slot : Slot[k] \in Entry
  BY LinkAssumption, SMT
<1> QED BY <1>1, SMT DEF Entry

\* Every slot starts with the state vrrp_get_ifname_linkstate reads.
LEMMA InitIInv == Init => IInv
<1> SUFFICES ASSUME Init PROVE IInv
  OBVIOUS
<1>1. \A i \in Iface : get_ifname_linkstate(i) \in BOOLEAN
  BY LinkAssumption DEF Init, get_ifname_linkstate, check_ebr_state
<1>3. TypeOK
  BY <1>1, SlotType, LinkAssumption DEF Init, TypeOK
<1>4. NewestTrue
  BY DEF Init, NewestTrue, Newest
<1>5. DrainedAgrees
  BY SlotType DEF Init, DrainedAgrees, get_ifname_linkstate
<1>6. HeartbeatDrained
  BY DEF Init, HeartbeatDrained
<1> QED BY <1>3, <1>4, <1>5, <1>6 DEF IInv

-----------------------------------------------------------------------------
(* Types of what the thread computes *)

\* The states had_check_ebr_state and its callers return are Booleans.
LEMMA StateType ==
    ASSUME TypeOK
    PROVE  \A k \in DOMAIN Slot :
               bridge_state(k) \in BOOLEAN /\ update_vlink_state(k) \in BOOLEAN
<1>1. \A b : check_ebr_state(b) \in BOOLEAN /\ check_l2_ebr_state(b) \in BOOLEAN
  BY DEF check_ebr_state, check_l2_ebr_state
<1>2. \A k : bridge_state(k) \in BOOLEAN
  BY <1>1, Zenon DEF bridge_state
<1>3. \A k \in DOMAIN Slot : kernel[Slot[k].ifname] \in BOOLEAN
  BY SlotType DEF TypeOK
<1> QED BY <1>2, <1>3, Zenon DEF update_vlink_state

\* Every step of the link thread and of the kernel preserves the types.
LEMMA TypeStep == TypeOK /\ [Next]_vars => TypeOK'
<1> SUFFICES ASSUME TypeOK, [Next]_vars PROVE TypeOK'
  OBVIOUS
<1>0. Len(Slot) \in Nat /\ DOMAIN Slot = 1 .. Len(Slot)
  BY LinkAssumption
<1>1. ASSUME NEW i \in Iface, Change(i) PROVE TypeOK'
  <2>1. [ifname |-> i, up |-> ~ kernel[i]] \in Message
    BY DEF TypeOK, Message
  <2>2. queue' \in Seq(Message \cup {Other})
    BY <1>1, <2>1, Appended DEF TypeOK, Change
  <2> QED BY <1>1, <2>2 DEF TypeOK, Change
<1>2. ASSUME NEW i \in Iface, LostChange(i) PROVE TypeOK'
  BY <1>2 DEF TypeOK, LostChange
<1>3. ASSUME NEW i \in Iface, Announce(i) PROVE TypeOK'
  <2>1. [ifname |-> i, up |-> kernel[i]] \in Message
    BY DEF TypeOK, Message
  <2>2. queue' \in Seq(Message \cup {Other})
    BY <1>3, <2>1, Appended DEF TypeOK, Announce
  <2> QED BY <1>3, <2>2 DEF TypeOK, Announce
<1>4. CASE OtherMessage
  <2>1. queue' \in Seq(Message \cup {Other})
    BY <1>4, Appended DEF TypeOK, OtherMessage
  <2> QED BY <1>4, <2>1 DEF TypeOK, OtherMessage
<1>5. CASE Receive
  <2>1. queue' \in Seq(Message \cup {Other}) /\ Head(queue) \in Message \cup {Other}
    BY <1>5, Removed DEF TypeOK, Receive
  <2>2. Head(queue).up \in BOOLEAN
    <3>1. CASE Head(queue) \in Message
      BY <3>1 DEF Message
    <3>2. CASE Head(queue) = Other
      <4>1. Other.up = FALSE
        BY Zenon DEF Other
      <4> QED BY <3>2, <4>1, Zenon
    <3> QED BY <2>1, <3>1, <3>2
  <2>3. ht' \in BOOLEAN
    BY <1>5, <2>2, Zenon DEF TypeOK, Receive, read_heartbeat
  <2>4. linkstate' \in [DOMAIN Slot -> BOOLEAN]
    <3>1. \A k \in DOMAIN Slot :
             linkstate[k] \in BOOLEAN /\ bridge_state(k) \in BOOLEAN
      BY StateType DEF TypeOK
    <3> QED BY <1>5, <2>2, <3>1, Zenon DEF Receive, set_link_state
  <2>5. check' \in 0 .. CheckTimes - 1 /\ todo' \in 0 .. Len(Slot)
    BY <1>0, <1>5, LinkAssumption DEF TypeOK, Receive, count_message, poll_due
  <2> QED BY <1>5, <2>1, <2>3, <2>4, <2>5 DEF TypeOK, Receive
<1>6. CASE Timeout
  BY <1>0, <1>6 DEF TypeOK, Timeout
<1>7. CASE PollSlot
  <2>1. linkstate' \in [DOMAIN Slot -> BOOLEAN]
    BY <1>0, <1>7, StateType DEF TypeOK, PollSlot
  <2> QED BY <1>0, <1>7, <2>1 DEF TypeOK, PollSlot
<1>8. CASE UNCHANGED vars
  BY <1>8 DEF TypeOK, vars
<1> QED BY <1>1, <1>2, <1>3, <1>4, <1>5, <1>6, <1>7, <1>8 DEF Next

-----------------------------------------------------------------------------
(* The invariant *)

\* A message m that is queued with the state the kernel now has keeps the
\* invariant: before m is handled nothing is claimed about its interface.
LEMMA QueuedStep ==
    ASSUME IInv, TypeOK',
           NEW m \in Message \cup {Other},
           queue' = Append(queue, m),
           m.ifname \in Iface => kernel'[m.ifname] = m.up,
           \A i \in Iface : i # m.ifname => kernel'[i] = kernel[i],
           UNCHANGED <<linkstate, ht, lost>>
    PROVE  IInv'
<1>1. /\ DOMAIN queue = 1 .. Len(queue)
      /\ DOMAIN queue' = 1 .. Len(queue) + 1
      /\ \A n \in 1 .. Len(queue) : queue'[n] = queue[n]
      /\ queue'[Len(queue) + 1] = m
      /\ Len(queue) \in Nat
  BY Appended DEF IInv, TypeOK
<1>2. ASSUME NEW i \in Iface, NonePending(i)'
      PROVE  i # m.ifname /\ NonePending(i) /\ kernel'[i] = kernel[i]
  BY <1>1, <1>2 DEF NonePending
<1>3. NewestTrue'
  <2> SUFFICES ASSUME lost' = 0, NEW i \in Iface, NEW n \in Nat, Newest(i, n)'
               PROVE  queue'[n].up = kernel'[i]
    BY DEF NewestTrue
  <2>1. CASE n = Len(queue) + 1
    BY <1>1, <2>1 DEF Newest
  <2>2. CASE n # Len(queue) + 1
    <3>1. n \in 1 .. Len(queue) /\ queue'[n] = queue[n]
      BY <1>1, <2>2 DEF Newest
    <3>2. m.ifname # i
      BY <1>1, <3>1 DEF Newest
    <3>3. Newest(i, n)
      BY <1>1, <3>1 DEF Newest
    <3>4. queue[n].up = kernel[i]
      BY <3>3, Zenon DEF IInv, NewestTrue
    <3> QED BY <3>1, <3>2, <3>4, Zenon
  <2> QED BY <2>1, <2>2
<1>4. DrainedAgrees'
  <2> SUFFICES ASSUME lost' = 0, NEW k \in DOMAIN Slot,
                      Slot[k].ifname \notin Bridge, Reaches(Slot[k].ifname, k),
                      NonePending(Slot[k].ifname)'
               PROVE  linkstate'[k] = kernel'[Slot[k].ifname]
    BY Zenon DEF DrainedAgrees, Reaches, BridgesOf
  <2>1. NonePending(Slot[k].ifname) /\ kernel'[Slot[k].ifname] = kernel[Slot[k].ifname]
    BY <1>2, SlotType, Zenon
  <2>2. linkstate[k] = kernel[Slot[k].ifname]
    BY <2>1, Zenon DEF IInv, DrainedAgrees
  <2> QED BY <2>1, <2>2, Zenon
<1>5. HeartbeatDrained'
  <2> SUFFICES ASSUME lost' = 0, NonePending(Heartbeat)' PROVE ht' = kernel'[Heartbeat]
    BY Zenon DEF HeartbeatDrained
  <2>1. NonePending(Heartbeat) /\ kernel'[Heartbeat] = kernel[Heartbeat]
    BY <1>2, LinkAssumption, Zenon
  <2> QED BY <2>1, Zenon DEF IInv, HeartbeatDrained
<1> QED BY <1>3, <1>4, <1>5 DEF IInv

\* Handling the oldest message keeps the invariant: if it was the last one about
\* its interface it was also the newest, and so tells the truth.
LEMMA ReceiveStep ==
    ASSUME IInv, TypeOK', Receive
    PROVE  IInv'
<1> DEFINE m == Head(queue)
<1>1. /\ Len(queue) \in Nat \ {0}
      /\ DOMAIN queue = 1 .. Len(queue)
      /\ DOMAIN queue' = 1 .. Len(queue) - 1
      /\ \A n \in 1 .. Len(queue) - 1 : queue'[n] = queue[n + 1]
      /\ m = queue[1]
  BY Removed DEF IInv, TypeOK, Receive
<1>2. UNCHANGED <<kernel, lost>>
  BY DEF Receive
<1>3. ASSUME NEW i \in Iface, NonePending(i)', m.ifname = i, lost = 0
      PROVE  m.up = kernel[i]
  <2>1. ASSUME NEW p \in DOMAIN queue, p > 1 PROVE queue[p].ifname # i
    <3>1. p - 1 \in DOMAIN queue' /\ queue'[p - 1] = queue[p]
      BY <1>1, <2>1
    <3> QED BY <1>3, <3>1 DEF NonePending
  <2>2. Newest(i, 1)
    BY <1>1, <1>3, <2>1 DEF Newest
  <2>3. queue[1].up = kernel[i]
    BY <1>3, <2>2 DEF IInv, NewestTrue
  <2> QED BY <1>1, <2>3, Zenon
<1>4. ASSUME NEW i \in Iface, NonePending(i)', m.ifname # i
      PROVE  NonePending(i)
  <2> SUFFICES ASSUME NEW p \in DOMAIN queue PROVE queue[p].ifname # i
    BY DEF NonePending
  <2>1. CASE p = 1
    BY <1>1, <1>4, <2>1
  <2>2. CASE p # 1
    <3>1. p - 1 \in DOMAIN queue' /\ queue'[p - 1] = queue[p]
      BY <1>1, <2>2
    <3> QED BY <1>4, <3>1 DEF NonePending
  <2> QED BY <2>1, <2>2
<1>5. NewestTrue'
  <2> SUFFICES ASSUME lost' = 0, NEW i \in Iface, NEW n \in Nat, Newest(i, n)'
               PROVE  queue'[n].up = kernel'[i]
    BY DEF NewestTrue
  <2>1. n \in 1 .. Len(queue) - 1 /\ queue'[n] = queue[n + 1]
    BY <1>1 DEF Newest
  <2>2. ASSUME NEW p \in DOMAIN queue, p > n + 1 PROVE queue[p].ifname # i
    <3>1. p - 1 \in DOMAIN queue' /\ queue'[p - 1] = queue[p] /\ p - 1 > n
      BY <1>1, <2>1, <2>2
    <3> QED BY <3>1 DEF Newest
  <2>3. Newest(i, n + 1)
    BY <1>1, <2>1, <2>2 DEF Newest
  <2>4. queue[n + 1].up = kernel[i]
    BY <1>2, <2>3 DEF IInv, NewestTrue
  <2> QED BY <1>2, <2>1, <2>4, Zenon
<1>6. DrainedAgrees'
  <2> SUFFICES ASSUME lost' = 0, NEW k \in DOMAIN Slot,
                      Slot[k].ifname \notin Bridge, Reaches(Slot[k].ifname, k),
                      NonePending(Slot[k].ifname)'
               PROVE  linkstate'[k] = kernel'[Slot[k].ifname]
    BY Zenon DEF DrainedAgrees, Reaches, BridgesOf
  <2>0. Slot[k].ifname \in Iface
    BY SlotType
  <2>1. ~ StopsAt(m.ifname, k)
    BY Zenon DEF StopsAt, BridgesOf
  <2>2. linkstate'[k] = IF Reaches(m.ifname, k) THEN m.up ELSE linkstate[k]
    BY <2>1, Zenon DEF Receive, set_link_state
  <2>3. CASE m.ifname = Slot[k].ifname
    <3>1. m.up = kernel[Slot[k].ifname]
      BY <1>2, <1>3, <2>0, <2>3, Zenon
    <3> QED BY <1>2, <2>2, <2>3, <3>1, Zenon
  <2>4. CASE m.ifname # Slot[k].ifname
    <3>1. linkstate[k] = kernel[Slot[k].ifname]
      BY <1>2, <1>4, <2>0, <2>4, Zenon DEF IInv, DrainedAgrees
    <3> QED BY <1>2, <2>2, <2>4, <3>1, Zenon DEF Reaches
  <2> QED BY <2>3, <2>4
<1>7. HeartbeatDrained'
  <2> SUFFICES ASSUME lost' = 0, NonePending(Heartbeat)' PROVE ht' = kernel'[Heartbeat]
    BY Zenon DEF HeartbeatDrained
  <2>0. Heartbeat \in Iface
    BY LinkAssumption
  <2>1. CASE m.ifname = Heartbeat
    <3>1. m.up = kernel[Heartbeat]
      BY <1>2, <1>3, <2>0, <2>1, Zenon
    <3> QED BY <1>2, <2>1, <3>1, Zenon DEF Receive, read_heartbeat
  <2>2. CASE m.ifname # Heartbeat
    <3>1. ht = kernel[Heartbeat]
      BY <1>2, <1>4, <2>0, <2>2, Zenon DEF IInv, HeartbeatDrained
    <3> QED BY <1>2, <2>2, <3>1, Zenon DEF Receive, read_heartbeat
  <2> QED BY <2>1, <2>2
<1> QED BY <1>5, <1>6, <1>7 DEF IInv

\* A poll reads the kernel, so it can only bring a slot to the state it must have.
LEMMA PollStep ==
    ASSUME IInv, TypeOK', PollSlot
    PROVE  IInv'
<1> DEFINE h == Len(Slot) - todo + 1
<1>1. UNCHANGED <<kernel, queue, ht, lost>>
  BY DEF PollSlot
<1>2. NewestTrue' /\ HeartbeatDrained'
  BY <1>1 DEF IInv, NewestTrue, Newest, HeartbeatDrained, NonePending
<1>3. DrainedAgrees'
  <2> SUFFICES ASSUME lost' = 0, NEW k \in DOMAIN Slot,
                      Slot[k].ifname \notin Bridge, Reaches(Slot[k].ifname, k),
                      NonePending(Slot[k].ifname)'
               PROVE  linkstate'[k] = kernel'[Slot[k].ifname]
    BY Zenon DEF DrainedAgrees, Reaches, BridgesOf
  <2>1. linkstate[k] = kernel[Slot[k].ifname]
    BY <1>1, Zenon DEF IInv, DrainedAgrees, NonePending
  <2>2. linkstate' = [linkstate EXCEPT ![h] = update_vlink_state(h)]
    BY Zenon DEF PollSlot
  <2>3. k \in DOMAIN linkstate
    BY DEF IInv, TypeOK
  <2>4. CASE k = h
    BY <1>1, <2>2, <2>3, <2>4, Zenon DEF update_vlink_state
  <2>5. CASE k # h
    BY <1>1, <2>1, <2>2, <2>3, <2>5, Zenon
  <2> QED BY <2>4, <2>5
<1> QED BY <1>2, <1>3 DEF IInv

\* The invariant is inductive: one case for each thing the kernel or the link
\* thread may do.
LEMMA NextIInv == IInv /\ [Next]_vars => IInv'
<1> SUFFICES ASSUME IInv, [Next]_vars PROVE IInv'
  OBVIOUS
<1>0. TypeOK'
  BY TypeStep DEF IInv
<1>1. ASSUME NEW i \in Iface, Change(i) PROVE IInv'
  <2> DEFINE m == [ifname |-> i, up |-> ~ kernel[i]]
  <2>1. m \in Message \cup {Other} /\ m.ifname = i /\ m.up = ~ kernel[i]
    BY DEF IInv, TypeOK, Message
  <2>2. kernel'[i] = ~ kernel[i] /\ \A j \in Iface : j # i => kernel'[j] = kernel[j]
    BY <1>1 DEF IInv, TypeOK, Change
  <2>3. queue' = Append(queue, m) /\ UNCHANGED <<linkstate, ht, lost>>
    BY <1>1 DEF Change
  <2> HIDE DEF m
  <2> QED BY <1>0, <2>1, <2>2, <2>3, QueuedStep
<1>2. ASSUME NEW i \in Iface, LostChange(i) PROVE IInv'
  <2>1. lost' # 0
    BY <1>2 DEF IInv, TypeOK, LostChange
  <2> QED BY <1>0, <2>1 DEF IInv, NewestTrue, DrainedAgrees, HeartbeatDrained
<1>3. ASSUME NEW i \in Iface, Announce(i) PROVE IInv'
  <2> DEFINE m == [ifname |-> i, up |-> kernel[i]]
  <2>1. m \in Message \cup {Other} /\ m.ifname = i /\ m.up = kernel[i]
    BY DEF IInv, TypeOK, Message
  <2>2. queue' = Append(queue, m) /\ UNCHANGED <<kernel, linkstate, ht, lost>>
    BY <1>3 DEF Announce
  <2> HIDE DEF m
  <2> QED BY <1>0, <2>1, <2>2, QueuedStep
<1>4. CASE OtherMessage
  <2>1. Other.ifname \notin Iface
    BY LinkAssumption DEF Other
  <2>2. queue' = Append(queue, Other) /\ UNCHANGED <<kernel, linkstate, ht, lost>>
    BY <1>4 DEF OtherMessage
  <2> QED BY <1>0, <2>1, <2>2, QueuedStep
<1>5. CASE Receive
  BY <1>0, <1>5, ReceiveStep
<1>6. CASE Timeout
  <2>1. UNCHANGED <<kernel, queue, linkstate, lost>> /\ ht' = (ht \/ kernel[Heartbeat])
    BY <1>6 DEF Timeout
  <2>2. NewestTrue' /\ DrainedAgrees'
    BY <2>1 DEF IInv, NewestTrue, Newest, DrainedAgrees, NonePending, Reaches, BridgesOf
  <2>3. kernel[Heartbeat] \in BOOLEAN
    BY LinkAssumption DEF IInv, TypeOK
  <2>4. HeartbeatDrained'
    BY <2>1, <2>3, Zenon DEF IInv, HeartbeatDrained, NonePending
  <2> QED BY <1>0, <2>2, <2>4 DEF IInv
<1>7. CASE PollSlot
  BY <1>0, <1>7, PollStep
<1>8. CASE UNCHANGED vars
  <2>1. UNCHANGED <<kernel, queue, linkstate, ht, lost>>
    BY <1>8 DEF vars
  <2>2. NewestTrue' /\ DrainedAgrees' /\ HeartbeatDrained'
    BY <2>1 DEF IInv, NewestTrue, Newest, DrainedAgrees, HeartbeatDrained, NonePending,
                Reaches, BridgesOf
  <2> QED BY <1>0, <2>2 DEF IInv
<1> QED BY <1>1, <1>2, <1>3, <1>4, <1>5, <1>6, <1>7, <1>8 DEF Next

-----------------------------------------------------------------------------
\* The link thread keeps the invariant, for every configuration.
THEOREM LinkInvariance == Spec => []IInv
BY InitIInv, NextIInv, PTL DEF Spec

\* Its variables keep their types.
THEOREM LinkTypeCorrect == Spec => []TypeOK
<1>1. IInv => TypeOK
  BY DEF IInv
<1> QED BY LinkInvariance, <1>1, PTL

\* With no message lost, a reachable plain interface without waiting messages
\* has the state the kernel gives it.
THEOREM DrainedCorrect == Spec => []DrainedAgrees
<1>1. IInv => DrainedAgrees
  BY DEF IInv
<1> QED BY LinkInvariance, <1>1, PTL

\* With no message lost and none waiting, global_ht_state is the state of the
\* heartbeat interface.
THEOREM HeartbeatCorrect == Spec => []HeartbeatDrained
<1>1. IInv => HeartbeatDrained
  BY DEF IInv
<1> QED BY LinkInvariance, <1>1, PTL
=============================================================================
