------------------------------ MODULE HadConfig ------------------------------
(***************************************************************************)
(* The interfaces and virtual addresses of one profile: the tables that    *)
(* the dbus handlers edit (had_start, had_add_vip, had_delete_vip and      *)
(* their IPv6 twins), and the addresses that had_ipaddr_ops installs in    *)
(* the kernel from them when the node becomes master and removes when it   *)
(* stops being one.  Every action is one critical section of StateMutex or *)
(* one call of the only thread that serves dbus.                           *)
(***************************************************************************)
EXTENDS Integers, Sequences, FiniteSets, Functions, FiniteSetsExt, SequencesExt

CONSTANTS
    Kind,           \* the link types looked at
    If, Vip, V6,    \* interfaces, IPv4 (with mask) and IPv6 virtual addresses
    Begins,         \* <<i, j>> in it: the name of j is longer and begins with i's
    None,           \* a null address, an empty interface name
    NoMask,         \* an IPv4 address whose mask was overwritten with 0
    VRRP_LINK_MAX_CNT,
    HmdSwitch,      \* hmd may switch a node whose service is disabled
    CountMax        \* bound: how far an address counter may go

ASSUME KindAssumption == Kind \subseteq {"UPLINK", "DOWNLINK", "VGATEWAY"}
ASSUME BeginsAssumption == Begins \subseteq If \X If
ASSUME MaxAssumption == VRRP_LINK_MAX_CNT \in Nat \ {0}
ASSUME NullAssumption ==
    None \notin If \cup Vip \cup V6 \cup {NoMask} /\ NoMask \notin Vip
ASSUME BoundAssumption ==
    HmdSwitch \in BOOLEAN /\ CountMax \in Nat

VARIABLES
    vrrp,       \* hansiNode->vlist is there
    svc,        \* service_enable
    mast,       \* state is MAST
    tab,        \* for each link type its table
    installed   \* <<interface, virtual address>> in the kernel

vars == <<vrrp, svc, mast, tab, installed>>

Slot == 0 .. VRRP_LINK_MAX_CNT - 1
LastSlot == VRRP_LINK_MAX_CNT - 1
Link == {"UPLINK", "DOWNLINK"}

\* One position of the arrays *_vif, *_vaddr, *_local_ipv6_vaddr, *_ipv6_vaddr;
\* del says which of its addresses are marked deletable.
SlotState ==
    [set : BOOLEAN, name : If \cup {None},
     v4 : Vip \cup {None, NoMask}, ll : V6 \cup {None}, gl : V6 \cup {None},
     del : SUBSET {"v4", "ll", "gl"}]

EmptySlot ==
    [set |-> FALSE, name |-> None, v4 |-> None, ll |-> None, gl |-> None,
     del |-> {}]

Table == [flag : BOOLEAN, n4 : Int, n6 : Int, slot : [Slot -> SlotState]]

EmptyTable ==
    [flag |-> FALSE, n4 |-> 0, n6 |-> 0, slot |-> [n \in Slot |-> EmptySlot]]

NoTables == [k \in Kind |-> EmptyTable]

-----------------------------------------------------------------------------
(* had_get_link_index_by_ifname *)

\* A mutant does not look at the last position.
Named_mutant(t, i) ==
    {n \in Slot \ {LastSlot} : t.slot[n].set /\ t.slot[n].name = i}
Named(t, i) == {n \in Slot : t.slot[n].set /\ t.slot[n].name = i}
Unset(t)    == {n \in Slot : ~t.slot[n].set}

\* The position of interface i, else the first one that is not set, else -1.
\* A mutant prefers the first one that is not set.
index_mutant(t, i) ==
    IF Unset(t) # {} THEN Min(Unset(t))
    ELSE IF Named(t, i) # {} THEN Min(Named(t, i)) ELSE -1
index(t, i) ==
    IF Named(t, i) # {} THEN Min(Named(t, i))
    ELSE IF Unset(t) # {} THEN Min(Unset(t)) ELSE -1

\* had_check_link_vip_exist; a mutant looks at as many positions as there are
\* addresses.
vip_exist_mutant(t, a) == \E n \in Slot : n < t.n4 /\ t.slot[n].v4 = a
vip_exist(t, a) == \E n \in Slot : t.slot[n].v4 = a

\* An address is written into a position or, with None, cleared there.
Put(t, n, f, a) ==
    LET s == t.slot[n]
    IN  [t EXCEPT !.slot[n] = [s EXCEPT ![f] = a, !.del = s.del \ {f}]]

-----------------------------------------------------------------------------
(* The arrays follow each other in vrrp_rt, so what a deletion writes at    *)
(* index -1 falls on the counters or on the last position of the array      *)
(* before.                                                                  *)

Wipe(T, k, f) ==
    IF k \in Kind THEN [T EXCEPT ![k] = Put(@, LastSlot, f, None)] ELSE T

\* the other IPv4 counters, before uplink_vaddr
stray_v4(T, k) ==
    CASE k = "UPLINK"   -> [j \in Kind |-> IF j = k THEN T[j]
                                           ELSE [T[j] EXCEPT !.n4 = 0]]
      [] k = "DOWNLINK" -> Wipe(T, "UPLINK", "v4")
      [] k = "VGATEWAY" -> Wipe(T, "DOWNLINK", "v4")

\* the IPv6 counters and the mask of the last vgateway address, before
\* uplink_local_ipv6_vaddr
stray_ll(T, k) ==
    CASE k = "UPLINK" ->
           [j \in Kind |->
              LET t == [T[j] EXCEPT !.n6 = 0]
              IN  IF j = "VGATEWAY" /\ t.slot[LastSlot].v4 # None
                  THEN [t EXCEPT !.slot[LastSlot].v4 = NoMask] ELSE t]
      [] k = "DOWNLINK" -> Wipe(T, "UPLINK", "gl")
      [] k = "VGATEWAY" -> Wipe(T, "DOWNLINK", "gl")

\* the array of link-local addresses, before that of the global ones
stray_gl(T, k) == Wipe(T, k, "ll")

\* What the deletion of an address at index -1 does to the tables
stray(T, k, f) ==
    CASE f = "v4" -> stray_v4([T EXCEPT ![k].n4 = @ - 1], k)
      [] f = "ll" -> stray_ll([T EXCEPT ![k].n6 = @ - 1], k)
      [] f = "gl" -> stray_gl(T, k)

-----------------------------------------------------------------------------
(* Changes of one table *)

\* had_add_vip_to_linkvif, had_add_vip6_to_linkvif; when the real address of
\* the interface cannot be read only the name is written.
add_to_linkvif(t, n, i, ok) ==
    IF ok THEN [t EXCEPT !.flag = TRUE, !.slot[n].set = TRUE, !.slot[n].name = i]
    ELSE [t EXCEPT !.slot[n].name = i]

\* had_del_vip_from_linkvif; a mutant clears the flag of the link as soon as a
\* position is given back.
del_from_linkvif_mutant(t, n) ==
    LET s == t.slot[n]
    IN  IF s.v4 = None /\ s.ll = None /\ s.gl = None
        THEN [t EXCEPT !.slot[n].set = FALSE, !.slot[n].name = None,
                       !.flag = FALSE]
        ELSE t
del_from_linkvif(t, n) ==
    LET s == t.slot[n]
        u == IF s.v4 = None /\ s.ll = None /\ s.gl = None
             THEN [t EXCEPT !.slot[n].set = FALSE, !.slot[n].name = None] ELSE t
    IN  IF Unset(u) = Slot THEN [u EXCEPT !.flag = FALSE] ELSE u

\* had_cfg_vlink_add_ipaddr, had_cfg_vlink_del_ipaddr; a mutant deletes without
\* counting.
add_ipaddr(t, n, a) == [Put(t, n, "v4", a) EXCEPT !.n4 = @ + 1]
del_ipaddr_mutant(t, n) == Put(t, n, "v4", None)
del_ipaddr(t, n)    == [Put(t, n, "v4", None) EXCEPT !.n4 = @ - 1]

\* had_cfg_vlink_add_ip6addr, had_cfg_vlink_del_ip6addr: the counter counts the
\* link-local addresses, and a global one needs a link-local one.
add_ip6addr(t, n, f, a) ==
    CASE f = "ll" -> [Put(t, n, f, a) EXCEPT !.n6 = @ + 1]
      [] f = "gl" /\ t.slot[n].ll # None -> Put(t, n, f, a)
      [] OTHER -> t
del_ip6addr(t, n, f) ==
    IF f = "ll" THEN [Put(t, n, f, None) EXCEPT !.n6 = @ - 1]
    ELSE Put(t, n, f, None)

del_addr(t, n, f) ==
    IF f = "v4" THEN del_ipaddr(t, n) ELSE del_ip6addr(t, n, f)

-----------------------------------------------------------------------------
(* had_ipaddr_ops: the kernel is asked to add all virtual addresses of the  *)
(* tables or to delete those marked deletable.  To add an address that is   *)
(* there fails, and so does to delete one that is not.  The tables and the  *)
(* kernel's addresses are worked on as a pair.                              *)

\* A mutant does not mark what it added.
ipaddr_op_mutant(p, k, n, f, add) ==
    LET s == p.tab[k].slot[n]
        a == <<s.name, s[f]>>
    IN  [p EXCEPT !.inst = IF add THEN @ \cup {a} ELSE @ \ {a}]
ipaddr_op(p, k, n, f, add) ==
    LET s  == p.tab[k].slot[n]
        a  == <<s.name, s[f]>>
        ok == add <=> a \notin p.inst
        d  == IF ok THEN s.del \cup {f} ELSE s.del \ {f}
    IN  [tab  |-> IF k = "VGATEWAY" THEN p.tab
                  ELSE [p.tab EXCEPT ![k].slot[n].del = d],
         inst |-> IF ~ok THEN p.inst
                  ELSE IF add THEN p.inst \cup {a} ELSE p.inst \ {a}]

\* Is address f of slot s up to be added or deleted?  The null IPv4 address is
\* left out: the kernel ignores it.
Due(s, k, f, add) == s[f] # None /\ (add \/ k = "VGATEWAY" \/ f \in s.del)

\* A mutant asks for the mark of an address that is to be added, too.
ops_v4_mutant(p, k, n, add) ==
    LET s == p.tab[k].slot[n]
    IN  IF s.set /\ Due(s, k, "v4", FALSE) THEN ipaddr_op(p, k, n, "v4", add)
        ELSE p
ops_v4(p, k, n, add) ==
    LET s == p.tab[k].slot[n]
    IN  IF s.set /\ Due(s, k, "v4", add) THEN ipaddr_op(p, k, n, "v4", add)
        ELSE p

\* The global address is not looked at when the link-local one is passed over.
ops_v6(p, k, n, add) ==
    LET s == p.tab[k].slot[n]
        q == ipaddr_op(p, k, n, "ll", add)
    IN  IF ~(IF k = "VGATEWAY" THEN s.set ELSE s.name # None) THEN p
        ELSE IF ~Due(s, k, "ll", add) THEN p
        ELSE IF Due(s, k, "gl", add) THEN ipaddr_op(q, k, n, "gl", add) ELSE q

\* One link type: the loop over the positions for the IPv4 addresses, then
\* that for the IPv6 ones
pass_v4(p, k, add) ==
    LET r[n \in 0 .. VRRP_LINK_MAX_CNT] ==
            IF n = 0 THEN p ELSE ops_v4(r[n - 1], k, n - 1, add)
    IN  r[VRRP_LINK_MAX_CNT]
pass_v6(p, k, add) ==
    LET r[n \in 0 .. VRRP_LINK_MAX_CNT] ==
            IF n = 0 THEN p ELSE ops_v6(r[n - 1], k, n - 1, add)
    IN  r[VRRP_LINK_MAX_CNT]
ops_link(p, k, add) ==
    IF k \notin Kind \/ ~p.tab[k].flag THEN p
    ELSE pass_v6(pass_v4(p, k, add), k, add)

ipaddr_ops(p, add) ==
    ops_link(ops_link(ops_link(p, "UPLINK", add), "DOWNLINK", add),
             "VGATEWAY", add)

\* The tables and the kernel's addresses after the virtual addresses were
\* installed (had_state_goto_master) or removed (had_state_leave_master).
after_ops(add) == ipaddr_ops([tab |-> tab, inst |-> installed], add)

-----------------------------------------------------------------------------
(* The dbus handlers.  All but had_dbus_end refuse to touch a profile whose *)
(* service is enabled.                                                      *)

Init ==
    /\ vrrp = FALSE /\ svc = FALSE /\ mast = FALSE
    /\ tab = NoTables
    /\ installed = {}

Idle == vrrp /\ ~svc

\* had_end: leave the master state, if in it; the tables become T.
end(T) ==
    /\ mast' = FALSE
    /\ tab' = T
    /\ installed' = IF mast THEN after_ops(FALSE).inst ELSE installed

\* had_start: the links of c get their first interface and address, and all
\* that was configured before is gone.  When the real address of an interface
\* is lost under way, nothing takes its place.
started(c) ==
    [k \in Kind |->
       IF k \in DOMAIN c
       THEN add_ipaddr(add_to_linkvif(EmptyTable, 0, c[k][1], TRUE), 0, c[k][2])
       ELSE EmptyTable]

start(c, ok) ==
    /\ \A k \in DOMAIN c : c[k] \notin installed
    /\ vrrp' = ok
    /\ UNCHANGED svc
    /\ end(IF ok THEN started(c) ELSE NoTables)

Start(c, ok) == ~svc /\ start(c, ok)

\* had_dbus_end; a mutant leaves the service enabled.
End_mutant ==
    /\ vrrp
    /\ vrrp' = FALSE
    /\ UNCHANGED svc
    /\ end(NoTables)
End ==
    /\ vrrp
    /\ vrrp' = FALSE
    /\ svc' = FALSE
    /\ end(NoTables)

\* had_ipv6_start: position 0 is given a name and an IPv6 address, without
\* being marked as set.  An uplink that cannot be finished ends the handler.
\* Without an instance it fails in had_chk_min_cfg, which wants IPv4 addresses.
\* Of the name in position 0 it compares as many characters as the new one has.
Passes(name, i) == name \in {None, i} \/ <<i, name>> \in Begins

start6_fails(T, k, f, ok) ==
    k \notin ok \/ (f = "gl" /\ T[k].slot[0].ll = None)

start6_up(t, i, a, f, bad) ==
    LET u == IF t.slot[0].name = None
             THEN [t EXCEPT !.flag = TRUE, !.slot[0].name = i] ELSE t
    IN  IF bad THEN u ELSE add_ip6addr(u, 0, f, a)

start6_down(t, i, a, f, bad) ==
    LET u == [t EXCEPT !.slot[0].name = i]
    IN  IF bad THEN u ELSE [add_ip6addr(u, 0, f, a) EXCEPT !.flag = TRUE]

start6(c, f, ok) ==
    /\ \A k \in DOMAIN c : /\ Passes(tab[k].slot[0].name, c[k][1])
                           /\ tab[k].n6 < CountMax
    /\ LET up  == "UPLINK" \in DOMAIN c
           T   == IF up
                  THEN [tab EXCEPT !["UPLINK"] =
                          start6_up(@, c["UPLINK"][1], c["UPLINK"][2], f,
                                    start6_fails(tab, "UPLINK", f, ok))]
                  ELSE tab
       IN  tab' = IF "DOWNLINK" \notin DOMAIN c
                     \/ (up /\ start6_fails(tab, "UPLINK", f, ok))
                  THEN T
                  ELSE [T EXCEPT !["DOWNLINK"] =
                          start6_down(@, c["DOWNLINK"][1], c["DOWNLINK"][2], f,
                                      start6_fails(tab, "DOWNLINK", f, ok))]
    /\ UNCHANGED <<vrrp, svc, mast, installed>>

Start6(c, f, ok) == Idle /\ start6(c, f, ok)

\* had_add_vip
add_vip(k, i, a, ok) ==
    /\ Idle
    /\ k \in Link => tab[k].flag
    /\ Named(tab[k], i) = {}
    /\ ~vip_exist(tab[k], a)
    /\ index(tab[k], i) # -1
    /\ tab[k].n4 < CountMax
    /\ LET n == index(tab[k], i)
           t == add_to_linkvif(tab[k], n, i, ok)
       IN  tab' = [tab EXCEPT ![k] = IF ok THEN add_ipaddr(t, n, a) ELSE t]
    /\ UNCHANGED <<vrrp, svc, mast, installed>>

AddVip(k, i, a, ok) == k \in Link /\ add_vip(k, i, a, ok)

\* had_v_gateway; to a master it also adds, or finds there, the real address
\* of the first gateway interface, no virtual one.
VGateway(i, a, ok) ==
    <<i, a>> \notin installed /\ add_vip("VGATEWAY", i, a, ok)

\* had_add_vipv6, had_vip6_gateway.  had_cfg_vlink_add_ip6addr_check looks only
\* at an interface that is in the table.  had_check_link_vip6_exist is given
\* the address of a pointer: what it finds, a refusal, changes nothing.
add_ip6addr_check(t, i, f) ==
    \A n \in Named(t, i) :
        f = "gl" => t.slot[n].ll # None /\ t.slot[n].gl = None

add_vipv6(k, i, a, f, ok) ==
    /\ Idle
    /\ k \in Link => tab[k].flag
    /\ add_ip6addr_check(tab[k], i, f)
    /\ index(tab[k], i) # -1
    /\ tab[k].n6 < CountMax
    /\ LET n == index(tab[k], i)
           t == add_to_linkvif(tab[k], n, i, ok)
       IN  tab' = [tab EXCEPT ![k] = IF ok THEN add_ip6addr(t, n, f, a) ELSE t]
    /\ UNCHANGED <<vrrp, svc, mast, installed>>

AddVip6(k, i, a, f, ok) == add_vipv6(k, i, a, f, ok)

\* What had_delete_vip and had_delete_vipv6 share, n being the counter they
\* look at: of an interface that is not in a full table they go on with index -1.
delete(k, i, f, n) ==
    /\ Idle
    /\ tab[k].flag
    /\ Named(tab[k], i) # {} \/ Unset(tab[k]) = {}
    /\ k \in Link => n # 1
    /\ n > -CountMax
    /\ tab' = IF Named(tab[k], i) # {}
              THEN LET m == index(tab[k], i)
                   IN  [tab EXCEPT ![k] = del_from_linkvif(del_addr(@, m, f), m)]
              ELSE stray(tab, k, f)
    /\ UNCHANGED <<vrrp, svc, mast, installed>>

\* had_delete_vip; a mutant looks at the number of IPv6 addresses.
delete_vip_mutant(k, i) == delete(k, i, "v4", tab[k].n6)
delete_vip(k, i)        == delete(k, i, "v4", tab[k].n4)

DelVip(k, i) == k \in Link /\ delete_vip(k, i)

\* had_no_v_gateway
NoVGateway(i, a) ==
    (mast => <<i, a>> \in installed) /\ delete_vip("VGATEWAY", i)

\* had_delete_vipv6
delete_vipv6(k, i, f) == delete(k, i, f, tab[k].n6)

DelVip6(k, i, f) == V6 # {} /\ delete_vipv6(k, i, f)

-----------------------------------------------------------------------------
(* The service and the master state.  Which node becomes master and when is *)
(* the subject of HadNode; here it may be at any time.                      *)

\* had_dbus_service_enable
Enable ==
    /\ Idle
    /\ svc' = TRUE
    /\ UNCHANGED <<vrrp, mast, tab, installed>>

Disable ==
    /\ vrrp
    /\ svc' = FALSE
    /\ UNCHANGED vrrp
    /\ end(IF mast THEN after_ops(FALSE).tab ELSE tab)

\* had_state_goto_master; had_dbus_state_change does not ask for the service
GotoMaster ==
    /\ vrrp /\ ~mast
    /\ svc \/ HmdSwitch
    /\ mast' = TRUE
    /\ UNCHANGED <<vrrp, svc>>
    /\ tab' = after_ops(TRUE).tab
    /\ installed' = after_ops(TRUE).inst

LeaveMaster ==
    /\ vrrp
    /\ mast \/ HmdSwitch
    /\ mast' = FALSE
    /\ UNCHANGED <<vrrp, svc>>
    /\ tab' = after_ops(FALSE).tab
    /\ installed' = after_ops(FALSE).inst

\* The IPv6 handlers are called only where there are IPv6 addresses (V6).
Next ==
    \/ \E K \in (SUBSET (Link \cap Kind)) \ {{}} :
         \/ \E c \in [K -> If \X Vip], ok \in BOOLEAN : Start(c, ok)
         \/ \E c \in [K -> If \X V6], f \in {"ll", "gl"}, ok \in SUBSET K :
              Start6(c, f, ok)
    \/ End
    \/ \E k \in Kind \cap Link, i \in If :
         DelVip(k, i) \/ \E a \in Vip, ok \in BOOLEAN : AddVip(k, i, a, ok)
    \/ \E k \in Kind \cap {"VGATEWAY"}, i \in If, a \in Vip :
         NoVGateway(i, a) \/ \E ok \in BOOLEAN : VGateway(i, a, ok)
    \/ \E k \in Kind, i \in If, f \in {"ll", "gl"} :
         \/ DelVip6(k, i, f)
         \/ \E a \in V6, ok \in BOOLEAN : AddVip6(k, i, a, f, ok)
    \/ Enable \/ Disable
    \/ GotoMaster \/ LeaveMaster

Spec == Init /\ [][Next]_vars

-----------------------------------------------------------------------------
(* Properties *)

\* Every table entry, counter and installed address has its type, and a node
\* without an instance is neither enabled nor master.
TypeOK ==
    /\ {vrrp, svc, mast} \subseteq BOOLEAN
    /\ svc \/ mast => vrrp
    /\ tab \in [Kind -> Table]
    /\ installed \subseteq If \X (Vip \cup V6 \cup {NoMask})

\* had_ipv6_start may have given interface i position 0 of link k, where another
\* interface was whose name begins with that of i: it renames a downlink's
Renamed(k, i) == k = "DOWNLINK" /\ V6 # {} /\ \E j \in If : <<i, j>> \in Begins

\* An interface has one position among those of a link that are set, although
\* positions are given back and taken again in any order: the lookups of
\* had_get_link_index_by_ifname stop at the first.  Only had_ipv6_start breaks
\* this, and no further than to a second position, 0.
NamesDistinct ==
    \A k \in Kind : \A m, n \in Slot :
        /\ tab[k].slot[m].set /\ tab[k].slot[n].set
        /\ tab[k].slot[m].name = tab[k].slot[n].name
        => m = n \/ (0 \in {m, n} /\ Renamed(k, tab[k].slot[n].name))

\* An IPv4 virtual address is in one position of a link, whatever the additions,
\* deletions and restarts before (had_check_link_vip_exist).
VipsDistinct ==
    \A k \in Kind : \A m, n \in Slot :
        /\ tab[k].slot[m].v4 = tab[k].slot[n].v4
        /\ tab[k].slot[m].v4 \notin {None, NoMask}
        => m = n

\* No position that is set hides behind a link flag that is not: had_ipaddr_ops
\* and had_delete_vip would pass it over.
FlagCovers ==
    \A k \in Kind :
        (\E n \in Slot : tab[k].slot[n].set) => tab[k].flag

\* The counter of a link is the number of its IPv4 virtual addresses.
CountRight ==
    \A k \in Kind :
        tab[k].n4 = Cardinality({n \in Slot : tab[k].slot[n].v4 # None})

\* An instance keeps an uplink or downlink virtual address as long as it lives:
\* had_delete_vip refuses to take the last one of a link, going by the counter.
LastVipKept ==
    vrrp => \E k \in Kind \cap Link : \E n \in Slot :
              tab[k].slot[n].set /\ tab[k].slot[n].v4 # None

\* A node that is not master, or has no instance any more, holds no virtual
\* address: those it installed were all removed when it stopped being master.
NothingLeft == ~mast => installed = {}

\* A master holds every IPv4 virtual address of its configuration.
AllInstalled ==
    mast => \A k \in Kind : \A n \in Slot :
              LET s == tab[k].slot[n]
              IN  s.set /\ s.v4 # None => <<s.name, s.v4>> \in installed

=============================================================================
