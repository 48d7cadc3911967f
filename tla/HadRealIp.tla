----------------------------- MODULE HadRealIp -----------------------------
(***************************************************************************)
(* The real address of one configured interface of a profile: the address  *)
(* had sends its packets from, and by which nodes of equal priority are    *)
(* ordered.  The link thread follows it by the netlink messages about      *)
(* addresses (had_real_ipaddr_syn).  A message says what happened when it  *)
(* was queued; the list of the interface's addresses is read when it is    *)
(* handled, by one recvmsg, and holds MAX_IP_COUNT entries at most.        *)
(***************************************************************************)
EXTENDS Naturals, Sequences, FiniteSets

CONSTANTS
    Addr,           \* addresses, the virtual ones of all profiles included
    Vip,            \* the virtual address of this profile on the interface
    NoAddr,         \* the real address is 0
    MAX_IP_COUNT,
    QueueMax,       \* bound: messages waiting in the socket
    MaxLost         \* bound: messages the kernel drops

ASSUME AddrAssumption ==
    /\ Vip \in Addr
    /\ NoAddr \notin Addr
    /\ MAX_IP_COUNT \in Nat /\ MAX_IP_COUNT > 1
    /\ {QueueMax, MaxLost} \subseteq Nat

VARIABLES
    addrs,      \* the addresses of the interface, in the kernel
    queue,      \* RTM_NEWADDR and RTM_DELADDR messages, oldest first
    real,       \* vif.ipaddr
    lost,       \* number of messages dropped so far
    short       \* history: the list by which the real address was given up
                \* held neither all addresses nor as many as the array takes

vars == <<addrs, queue, real, lost, short>>

Message == [addr : Addr, add : BOOLEAN]

-----------------------------------------------------------------------------
\* had_intf_netlink_get_ip_addrs: what one recvmsg returns of a dump of all
\* interfaces, in the kernel's order, which is not known here, and at most as much
\* as the array holds.  It is nothing when the dump's first part does not reach the
\* interface, when a notification about another interface was in the socket, which
\* is bound to RTMGRP_IPV4_IFADDR, before the dump, or when a call fails.
Listing == {s \in SUBSET addrs : Cardinality(s) <= MAX_IP_COUNT}

\* A list shows what there is: all of A, or as much of it as the array holds
Whole(list, A) == A \subseteq list \/ Cardinality(list) = MAX_IP_COUNT

\* had_real_ipaddr_syn when address a was deleted: the real address is replaced
\* by another one of the list, if there is one.  One mutant takes any address of
\* the list, one keeps the old address when there is no other.
deleted_any_mutant(a, list) ==
    IF real # a THEN {real} ELSE IF list = {} THEN {NoAddr} ELSE list
deleted_keep_mutant(a, list) ==
    IF real # a \/ list \subseteq {Vip} THEN {real} ELSE list \ {Vip}
deleted(a, list) ==
    IF real # a THEN {real}
    ELSE IF list \subseteq {Vip} THEN {NoAddr}
    ELSE list \ {Vip}

\* had_real_ipaddr_syn when address a was added: it becomes the real address
\* if the present one is not in the list.  A mutant takes no real address for
\* one that need not change.
added_mutant(a, list) ==
    IF real \in list \cup {NoAddr} \/ a = Vip THEN real ELSE a
added(a, list) ==
    IF real \in list \/ a = Vip THEN real ELSE a

real_ipaddr_syn(m, list) ==
    IF m.add THEN {added(m.addr, list)} ELSE deleted(m.addr, list)

-----------------------------------------------------------------------------
\* The interface is configured: its address is the real one, and is not the
\* virtual one, which the configuration would have refused.
Init ==
    /\ addrs \in SUBSET (Addr \ {Vip})
    /\ queue = <<>>
    /\ real \in addrs
    /\ lost = 0
    /\ short = FALSE

\* An address is added to the interface or deleted from it.
Flip(a) == addrs' = IF a \in addrs THEN addrs \ {a} ELSE addrs \cup {a}

\* The message about it joins those of q, or the link thread's socket is full.
Announce(q, a) ==
    \/ /\ Len(q) < QueueMax
       /\ queue' = Append(q, [addr |-> a, add |-> a \notin addrs])
       /\ UNCHANGED lost
    \/ /\ lost < MaxLost
       /\ lost' = lost + 1
       /\ queue' = q

Change(a) ==
    /\ Flip(a)
    /\ Announce(queue, a)
    /\ UNCHANGED <<real, short>>

\* The oldest message is handled with a list, when A is what the interface has.
Handle(list, A) ==
    /\ real' \in real_ipaddr_syn(Head(queue), list)
    /\ short' = (real' = NoAddr /\ IF real = NoAddr THEN short ELSE ~ Whole(list, A))

\* had_read_link takes the next message, and the list comes from the dump.
Receive ==
    /\ queue # <<>>
    /\ queue' = Tail(queue)
    /\ \E list \in Listing : Handle(list, addrs)
    /\ UNCHANGED <<addrs, lost>>

\* The same when an address of the interface changes between the bind and the
\* request: the one recvmsg returns the notification, RTM_DELADDR included, and
\* the dump is never read.
ReceiveNotified(a) ==
    /\ queue # <<>>
    /\ Flip(a)
    /\ Announce(Tail(queue), a)
    /\ Handle({a}, addrs')

Next ==
    \/ \E a \in Addr : Change(a) \/ ReceiveNotified(a)
    \/ Receive

Spec == Init /\ [][Next]_vars

-----------------------------------------------------------------------------
\* Type invariant.
TypeOK ==
    /\ addrs \in SUBSET Addr
    /\ queue \in Seq(Message)
    /\ real \in Addr \cup {NoAddr}
    /\ lost \in Nat
    /\ short \in BOOLEAN

NonePending(a) == \A n \in DOMAIN queue : queue[n].addr # a

\* had_real_ipaddr_syn, for any order of additions and deletions and however late
\* it sees them, as long as no message is dropped: the real address is one the
\* interface has, unless a message about it is still waiting.
RealIsThere ==
    lost = 0 /\ real # NoAddr /\ NonePending(real) => real \in addrs

\* had_real_ipaddr_syn leaves an interface without a real address only while each
\* of its addresses but the virtual one has a message waiting, unless the list it
\* looked in had been a part: a list that is cut off at MAX_IP_COUNT is no excuse,
\* nor is anything that happens after the real address was given up.
RealIsFound ==
    lost = 0 /\ real = NoAddr /\ ~ short =>
        \A a \in addrs \ {Vip} : ~ NonePending(a)

\* The profile's own virtual address, which comes and goes with the role, is
\* never taken for the real one: a master would order itself by an address that
\* its successor also has.
NeverVip == real # Vip
=============================================================================
