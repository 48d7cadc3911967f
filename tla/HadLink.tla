------------------------------ MODULE HadLink ------------------------------
(***************************************************************************)
(* The link thread of a had process (had_link_thread_main): it follows the *)
(* state of the interfaces that the profiles use, and of the heartbeat     *)
(* interface, by netlink messages and by polling.  Its results, linkstate  *)
(* and ht, are what the state machine of HadNode reads as the state of its *)
(* links.                                                                  *)
(*                                                                         *)
(* A message says what the kernel saw when it was queued; the thread reads *)
(* some states from the message and others from the kernel, at the time    *)
(* the message is handled.  The kernel may change in between, drops        *)
(* messages when the socket is full, and also sends messages that report   *)
(* no change of state.                                                     *)
(***************************************************************************)
EXTENDS Naturals, Sequences, FiniteSets

CONSTANTS
    Iface,          \* the interfaces, bridges included
    Bridge,         \* the ones named ebr...
    Member,         \* Member[b]: what /sys/class/net/b/brif lists
    UplinkPort,     \* UplinkPort[b]: what the bridge's uplink file lists
    Sensitive,      \* the ones named eth..., vlan... or ve...
    Slot,           \* the configured interfaces, in the order of the scan
    Heartbeat,      \* global_ht_ifname
    MultiDetect,    \* global_multi_link_detect
    CheckTimes,     \* messages between two polls while messages keep coming
    NoIface,        \* stands for the interface in messages of other types
    QueueMax,       \* bound: messages waiting in the socket
    MaxChange,      \* bound: changes in the kernel
    MaxLost         \* bound: changes whose message the kernel drops

\* A slot is an entry of uplink_vif, l2_uplink_vif, downlink_vif or
\* vgateway_vif of a profile.
Kind == {"uplink", "l2_uplink", "downlink", "vgateway"}
Entry == [prof : Nat, kind : Kind, ifname : Iface]

ASSUME LinkAssumption ==
    /\ Bridge \subseteq Iface
    /\ Sensitive \subseteq Iface
    /\ Member \in [Bridge -> SUBSET Iface]
    /\ UplinkPort \in [Bridge -> SUBSET Iface]
    /\ Slot \in Seq(Entry)
    /\ Heartbeat \in Iface \ Bridge
    /\ MultiDetect \in BOOLEAN
    /\ CheckTimes \in Nat \ {0}
    /\ NoIface \notin Iface
    /\ {QueueMax, MaxChange, MaxLost} \subseteq Nat

VARIABLES
    kernel,     \* kernel[i]: interface i is running
    queue,      \* messages in the netlink socket, oldest first
    linkstate,  \* linkstate[k]: the linkstate of slot k is INTERFACE_UP
    ht,         \* global_ht_state
    todo,       \* slots the poll under way has still to visit
    check,      \* checktimes
    changes,    \* number of kernel changes so far
    lost        \* number of messages dropped so far

vars == <<kernel, queue, linkstate, ht, todo, check, changes, lost>>

\* RTM_NEWLINK messages, and all the others the socket is subscribed to
Message == [ifname : Iface, up : BOOLEAN]
Other == [ifname |-> NoIface, up |-> FALSE]

-----------------------------------------------------------------------------
\* had_check_ebr_state: a bridge is up when some member is, with MultiDetect
\* when all are; members that are not sensitive count as up.
check_ebr_state(b) ==
    LET Up(i) == i \in Sensitive => kernel[i]
    IN  IF MultiDetect
        THEN Member[b] # {} /\ \A i \in Member[b] : Up(i)
        ELSE \E i \in Member[b] : Up(i)

\* had_check_l2_ebr_state: all sensitive uplink ports are up, and there is one.
check_l2_ebr_state(b) ==
    LET ports == UplinkPort[b] \cap Sensitive
    IN  ports # {} /\ \A i \in ports : kernel[i]

bridge_state(k) ==
    IF Slot[k].kind = "l2_uplink" THEN check_l2_ebr_state(Slot[k].ifname)
    ELSE check_ebr_state(Slot[k].ifname)

\* vrrp_get_ifname_linkstate
get_ifname_linkstate(i) == IF i \in Bridge THEN check_ebr_state(i) ELSE kernel[i]

\* had_update_vlink_state, for one slot
update_vlink_state(k) ==
    IF Slot[k].ifname \in Bridge THEN bridge_state(k) ELSE kernel[Slot[k].ifname]

-----------------------------------------------------------------------------
\* The slots that are bridges with member i
BridgesOf(i) ==
    {k \in DOMAIN Slot : Slot[k].ifname \in Bridge /\ i \in Member[Slot[k].ifname]}

\* had_set_link_state stops at the first bridge with member i ...
StopsAt(i, k) ==
    /\ k \in BridgesOf(i)
    /\ \A h \in BridgesOf(i) : k <= h

\* ... and reaches the plain entries only of the profiles before it.  The
\* entries of l2_uplink_vif are not among those it looks at.
Reaches(i, k) ==
    /\ Slot[k].ifname = i
    /\ Slot[k].kind # "l2_uplink"
    /\ \A h \in BridgesOf(i) : Slot[k].prof < Slot[h].prof

\* A mutant leaves the downlinks out as well.
set_link_state_mutant(m) ==
    [k \in DOMAIN Slot |->
        IF StopsAt(m.ifname, k) THEN bridge_state(k)
        ELSE IF Reaches(m.ifname, k) /\ Slot[k].kind # "downlink" THEN m.up
        ELSE linkstate[k]]
set_link_state(m) ==
    [k \in DOMAIN Slot |->
        IF StopsAt(m.ifname, k) THEN bridge_state(k)
        ELSE IF Reaches(m.ifname, k) THEN m.up
        ELSE linkstate[k]]

\* had_read_link, heartbeat interface: a second after the message arrived the
\* kernel must still say the same.  A mutant only ever raises the state.
read_heartbeat_mutant(m) ==
    IF m.ifname = Heartbeat /\ m.up /\ kernel[Heartbeat] THEN TRUE ELSE ht
read_heartbeat(m) ==
    IF m.ifname = Heartbeat /\ m.up = kernel[Heartbeat] THEN m.up ELSE ht

\* checktimes after one more message; a mutant never starts again.
count_message_mutant == check + 1
count_message == IF check + 1 >= CheckTimes THEN 0 ELSE check + 1

\* The number of slots to visit after a message: all of them at the last count.
\* A mutant waits for a quiet moment.
poll_due_mutant == 0
poll_due == IF check + 1 >= CheckTimes THEN Len(Slot) ELSE 0

-----------------------------------------------------------------------------
Init ==
    /\ kernel \in [Iface -> BOOLEAN]
    /\ queue = <<>>
    /\ linkstate = [k \in DOMAIN Slot |-> get_ifname_linkstate(Slot[k].ifname)]
    /\ ht = kernel[Heartbeat]
    /\ todo = 0
    /\ check = 0
    /\ changes = 0
    /\ lost = 0

\* The state of an interface changes and the kernel queues a message.
Change(i) ==
    /\ changes < MaxChange
    /\ Len(queue) < QueueMax
    /\ changes' = changes + 1
    /\ kernel' = [kernel EXCEPT ![i] = ~ kernel[i]]
    /\ queue' = Append(queue, [ifname |-> i, up |-> ~ kernel[i]])
    /\ UNCHANGED <<linkstate, ht, todo, check, lost>>

\* The state changes and the message is dropped: recvmsg reports an error,
\* upon which had_get_netlink continues.
LostChange(i) ==
    /\ changes < MaxChange
    /\ lost < MaxLost
    /\ changes' = changes + 1
    /\ lost' = lost + 1
    /\ kernel' = [kernel EXCEPT ![i] = ~ kernel[i]]
    /\ UNCHANGED <<queue, linkstate, ht, todo, check>>

\* A message that reports no change of state: something else about the
\* interface changed.
Announce(i) ==
    /\ Len(queue) < QueueMax
    /\ queue' = Append(queue, [ifname |-> i, up |-> kernel[i]])
    /\ UNCHANGED <<kernel, linkstate, ht, todo, check, changes, lost>>

\* An address or a route changed.
OtherMessage ==
    /\ Len(queue) < QueueMax
    /\ queue' = Append(queue, Other)
    /\ UNCHANGED <<kernel, linkstate, ht, todo, check, changes, lost>>

\* had_get_netlink: a message is there; had_read_link handles it.
Receive ==
    /\ todo = 0
    /\ queue # <<>>
    /\ queue' = Tail(queue)
    /\ ht' = read_heartbeat(Head(queue))
    /\ linkstate' = set_link_state(Head(queue))
    /\ check' = count_message
    /\ todo' = poll_due
    /\ UNCHANGED <<kernel, changes, lost>>

\* had_get_netlink: ten seconds without a message.
Timeout ==
    /\ todo = 0
    /\ queue = <<>>
    /\ ht' = (ht \/ kernel[Heartbeat])
    /\ todo' = Len(Slot)
    /\ UNCHANGED <<kernel, queue, linkstate, check, changes, lost>>

\* had_update_uplink_downlink_state visits its next slot.
PollSlot ==
    /\ todo > 0
    /\ LET k == Len(Slot) - todo + 1
       IN  linkstate' = [linkstate EXCEPT ![k] = update_vlink_state(k)]
    /\ todo' = todo - 1
    /\ UNCHANGED <<kernel, queue, ht, check, changes, lost>>

Thread == Receive \/ Timeout \/ PollSlot

Next ==
    \/ \E i \in Iface : Change(i) \/ LostChange(i) \/ Announce(i)
    \/ OtherMessage
    \/ Receive
    \/ Timeout
    \/ PollSlot

\* The thread runs and select returns after ten seconds at the latest.
Spec == Init /\ [][Next]_vars /\ WF_vars(Thread)

-----------------------------------------------------------------------------
\* Type invariant.
TypeOK ==
    /\ kernel \in [Iface -> BOOLEAN]
    /\ queue \in Seq(Message \cup {Other})
    /\ linkstate \in [DOMAIN Slot -> BOOLEAN]
    /\ ht \in BOOLEAN
    /\ todo \in 0 .. Len(Slot)
    /\ check \in 0 .. CheckTimes - 1
    /\ changes \in Nat
    /\ lost \in Nat

NonePending(i) == \A n \in DOMAIN queue : queue[n].ifname # i

\* As long as the kernel drops no message, a plain interface that
\* had_set_link_state reaches has the state the kernel gives it whenever no
\* message about it is waiting: polls that read a newer state than the messages
\* still queued, and old messages handled after a poll, leave no trace.
DrainedAgrees ==
    lost = 0 =>
        \A k \in DOMAIN Slot :
            LET i == Slot[k].ifname
            IN  i \notin Bridge /\ Reaches(i, k) /\ NonePending(i)
                    => linkstate[k] = kernel[i]

\* The same for the heartbeat interface, whose messages had_read_link believes
\* only if the kernel agrees with them a second later: with nothing waiting and
\* nothing dropped, global_ht_state is the state of the interface.
HeartbeatDrained ==
    lost = 0 /\ NonePending(Heartbeat) => ht = kernel[Heartbeat]

Followed(k) == linkstate[k] = update_vlink_state(k)

\* Once the kernel stops changing, had_get_netlink brings every entry to the
\* right state, messages lost or not, and though messages that never stop keep
\* select from timing out: plain interfaces stay right; so do bridges and layer-2
\* uplinks when there are no more messages about a bridge itself, which
\* had_set_link_state takes for the state of its members.
LinksFollowed ==
    /\ \A k \in DOMAIN Slot : Slot[k].ifname \notin Bridge => <>[]Followed(k)
    /\ <>[](\A b \in Bridge : NonePending(b))
            => \A k \in DOMAIN Slot : <>[]Followed(k)

\* What the comment in had_get_netlink says of its poll after ten quiet seconds,
\* that it updates the state of the heartbeat interface too: if there is always
\* another such poll, global_ht_state ends up as the state of the interface.
HeartbeatPolled ==
    []<><<Timeout>>_vars => <>[](ht = kernel[Heartbeat])
=============================================================================
