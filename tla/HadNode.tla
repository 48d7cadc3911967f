------------------------------- MODULE HadNode -------------------------------
(***************************************************************************)
(* The HANSI state machine of one had process (had/src/lib/had_vrrpd.c,    *)
(* had_uid.c, had_dbus.c), as operators on a record that holds the state   *)
(* of one virtual router.  There is one operator per C function; each one  *)
(* takes the node n, its record s and its arguments, and returns the       *)
(* record the function leaves behind.  The packets a function sends are    *)
(* collected in the field out.                                             *)
(*                                                                         *)
(* All these functions run under StateMutex, so a module that uses them    *)
(* applies a whole function in one step.                                   *)
(*                                                                         *)
(* An operator whose name ends in _mutant is a faulty variant of the one   *)
(* that follows it.  No specification uses it: it stands for the mistake   *)
(* that a property of the modules HadOpen or HadCluster has to notice.     *)
(***************************************************************************)
EXTENDS Integers

CONSTANTS
    Node,       \* the had processes that serve the same virtual router
    NoNode,     \* the IP address 0: no node
    Link,       \* the configured links, a subset of {"up", "down"}
    Mon,        \* other tracked interfaces, a subset of {"l2", "vgw"}
    Prio,       \* [Node -> 1..255], the VRRP priorities
    Preempt,    \* [Node -> BOOLEAN]
    Addr,       \* [Node -> [Link -> Nat]], the largest address of a link
    AdverInt,   \* the advertisement interval, in seconds
    DownCount,  \* global_ms_down_packet_count
    BackDown,   \* links a standby closes to traffic (back_down_flag)
    Portal,     \* global_protal: a transfer also waits for the portal
    WrapTicks   \* what an int timer shows after it wraps around: 2147 s

ASSUME NodeAssumption ==
    /\ NoNode \notin Node
    /\ Link \subseteq {"up", "down"} /\ Link # {}
    /\ Mon \subseteq {"l2", "vgw"}
    /\ BackDown \subseteq Link
    /\ Prio \in [Node -> 1..255]
    /\ Preempt \in [Node -> BOOLEAN]
    /\ Addr \in [Node -> [Link -> Nat]]
    /\ AdverInt \in Nat \ {0}
    /\ DownCount \in Nat \ {0}
    /\ Portal \in BOOLEAN
    /\ WrapTicks \in Nat \ {0}

State == {"INIT", "LEARN", "BACK", "TRANSFER", "MAST", "DISABLE"}

\* VRRP_PRIO_OWNER and VRRP_PRIO_STOP
Owner == 255
Stop  == 0

-----------------------------------------------------------------------------
(***************************************************************************)
(* Timers.  The code counts microseconds, but the only thread that counts  *)
(* them down does so by a whole second at a time, so what a timer set to   *)
(* us microseconds means is the number of ticks after which it is <= 0.    *)
(***************************************************************************)
VRRP_TIMER_HZ == 1000000

Ticks(us) == (us + VRRP_TIMER_HZ - 1) \div VRRP_TIMER_HZ

VRRP_TIMER_SKEW(n) == ((256 - Prio[n]) * VRRP_TIMER_HZ) \div 256

\* The master-down delay: used on entering LEARN, BACK and most of DISABLE.
Delay(n) ==
    Ticks((DownCount * AdverInt) * VRRP_TIMER_HZ + VRRP_TIMER_SKEW(n))

\* had_state_goto_disable waits 1001 ms longer.
DisableDelay(n) ==
    Ticks((DownCount * AdverInt) * VRRP_TIMER_HZ + VRRP_TIMER_SKEW(n) + 1001000)

\* VRRP_TIMER_EXPIRED on a configured link
Expired(timer) == \E l \in Link : timer[l] <= 0

\* Time stamps (bufNode[].time, xlink_leave_master_timer) are kept as ages in
\* ticks.  Age Stale is "more than two advertisement intervals": the code does
\* not use a stamp that old.  Unset is a packet buffer that holds no packet.
Stale == 2 * AdverInt + 1
Unset == Stale + 1

AllLinks(v) == [l \in Link |-> v]

\* One tick later.  Ages are compared as ints of microseconds, so that a stamp
\* of more than 2^31 of them looks recent again: it does for the links of old.
Older(age, old) ==
    [l \in Link |-> IF age[l] < Stale THEN age[l] + 1
                    ELSE IF age[l] = Stale /\ l \in old THEN 0
                    ELSE age[l]]

-----------------------------------------------------------------------------
(***************************************************************************)
(* Packets.  An advertisement (auth "PASS") travels over the heartbeat     *)
(* link whatever the link l it speaks for; a force-to-fail packet (auth    *)
(* "FAIL") travels over l itself and names the master it is meant for.     *)
(***************************************************************************)
Pkt(n, s, l, prio, auth) ==
    [from |-> n, l |-> l, prio |-> prio, auth |-> auth, st |-> s.state,
     old |-> IF auth = "FAIL" THEN s.master[l] ELSE NoNode]

Packet ==
    [from : Node, l : Link, prio : 0..255, auth : {"PASS", "FAIL"},
     st : State, old : Node \cup {NoNode}]

LinksUp(s) == \A l \in Link : s.link[l]

\* had_vrrp_vif_drop_pck and had_vrrp_vif_rcv_pck_ON
vif_drop_pck(s)   == [s EXCEPT !.rx = FALSE]
vif_rcv_pck_ON(s) == [s EXCEPT !.rx = TRUE]

\* vrrp_send_uplink_adv, vrrp_send_downlink_adv and vrrp_send_pkt: only when
\* the heartbeat link is up, and only while the send socket is open.
send_link_adv(n, s, l, prio) ==
    [s EXCEPT !.out = @ \cup {Pkt(n, s, k, prio, "PASS") :
                                 k \in {j \in {l} : s.ht /\ s.svc}}]

\* vrrp_send_adv with auth type PASS
send_adv(n, s, prio) ==
    [s EXCEPT !.out = @ \cup {Pkt(n, s, l, prio, "PASS") :
                                 l \in {k \in Link : s.link[k] /\ s.ht /\ s.svc}}]

\* vrrp_send_adv between the two had_set_link_auth_type calls: the packets go
\* out on the links themselves, which are opened for traffic first.
send_fail(n, s) ==
    [s EXCEPT !.rx  = TRUE,
              !.out = @ \cup {Pkt(n, s, l, Prio[n], "FAIL") :
                                 l \in {k \in Link : s.link[k] /\ s.svc}}]

-----------------------------------------------------------------------------
(***************************************************************************)
(* State transitions.                                                      *)
(***************************************************************************)

\* The state is not changed.
goto_transfer_mutant(s) ==
    [s EXCEPT !.wid = TRUE, !.portal = TRUE, !.told = "BACK"]

\* The batch synchronisation that precedes a takeover from a live master:
\* wid and portal are told BACK and asked to report back.
goto_transfer(s) ==
    [s EXCEPT !.wid = TRUE, !.portal = TRUE, !.told = "BACK",
              !.state = "TRANSFER"]

\* The masters heard before are not forgotten.
take_master_mutant(n, s) ==
    [send_adv(n, [s EXCEPT !.vip = TRUE, !.told = "MAST"], Prio[n]) EXCEPT
        !.rx     = TRUE,
        !.state  = "MAST",
        !.adv    = AllLinks(AdverInt)]

\* The branch of had_state_goto_master that takes the role.  The first
\* advertisements go out before the state changes, so they carry the old one.
take_master(n, s) ==
    [send_adv(n, [s EXCEPT !.vip = TRUE, !.told = "MAST"], Prio[n]) EXCEPT
        !.rx     = TRUE,
        !.state  = "MAST",
        !.adv    = AllLinks(AdverInt),
        !.master = AllLinks(NoNode)]

goto_master(n, s, opposite) ==
    IF s.state = "MAST" THEN s
    ELSE IF opposite = "MAST" THEN goto_transfer(s)
    ELSE take_master(n, s)

\* had_state_leave_master(vsrv, 1, NULL, NULL)
leave_master_stop(n, s) ==
    [vif_drop_pck(send_adv(n, [s EXCEPT !.vip = FALSE], Stop)) EXCEPT
        !.master = AllLinks(NoNode),
        !.state  = "DISABLE",
        !.ms     = AllLinks(Delay(n)),
        !.adv    = AllLinks(0),
        !.told   = "DISABLE"]

\* The virtual address is not removed.
leave_master_forced_mutant(s, m) ==
    [s EXCEPT !.state  = "DISABLE",
              !.master = AllLinks(m.from),
              !.told   = "DISABLE"]

\* The force-to-fail branch of had_state_leave_master: the packet names us as
\* the master to be put down.  The timers are left as they are.
leave_master_forced(s, m) ==
    [s EXCEPT !.vip    = FALSE,
              !.state  = "DISABLE",
              !.master = AllLinks(m.from),
              !.told   = "DISABLE"]

\* The label back: of had_state_leave_master
leave_master_back(n, s) ==
    [vif_drop_pck(s) EXCEPT
        !.vip   = FALSE,
        !.state = "BACK",
        !.ms    = AllLinks(Delay(n)),
        !.adv   = AllLinks(0),
        !.told  = "BACK"]

\* had_state_leave_master called for a packet
leave_master(n, s, m) ==
    IF m.auth = "FAIL" /\ m.old = n THEN leave_master_forced(s, m)
                                    ELSE leave_master_back(n, s)

\* The timers are not restarted.
goto_disable_mutant(n, s, advF) ==
    IF s.state = "DISABLE" THEN s
    ELSE [(IF advF THEN send_adv(n, s, Stop) ELSE s) EXCEPT
             !.vip    = @ /\ s.state # "MAST",
             !.state  = "DISABLE",
             !.master = AllLinks(NoNode),
             !.told   = "DISABLE"]

\* had_state_goto_disable: the address is removed only on the way out of MAST.
goto_disable(n, s, advF) ==
    IF s.state = "DISABLE" THEN s
    ELSE [(IF advF THEN send_adv(n, s, Stop) ELSE s) EXCEPT
             !.vip    = @ /\ s.state # "MAST",
             !.state  = "DISABLE",
             !.master = AllLinks(NoNode),
             !.told   = "DISABLE",
             !.ms     = AllLinks(DisableDelay(n))]

state_back(n, s) ==
    [vif_drop_pck(s) EXCEPT
        !.told  = "BACK",
        !.ms    = AllLinks(Delay(n)),
        !.state = "BACK"]

from_disable(n, s, m) ==
    IF "vgw" \in Mon /\ ~s.mon["vgw"] THEN s
    ELSE IF m.prio < Prio[n] /\ m.st = "LEARN" THEN goto_master(n, s, "LEARN")
    ELSE IF m.prio < Prio[n] /\ Preempt[n] THEN goto_transfer(s)
    ELSE state_back(n, s)

from_learn(n, s, m) ==
    IF m.prio < Prio[n] /\ (Prio[n] = Owner \/ Preempt[n])
    THEN IF m.st = "LEARN" THEN s ELSE goto_transfer(s)
    ELSE state_back(n, s)

-----------------------------------------------------------------------------
(***************************************************************************)
(* The state thread: one pass of the loop for each state.                  *)
(***************************************************************************)
state_init(n, s) ==
    IF ~s.svc THEN s
    ELSE IF s.want THEN goto_master(n, s, "MAST")
    ELSE IF ~(LinksUp(s) /\ s.ht) THEN s
    ELSE [s EXCEPT !.ms = AllLinks(Delay(n)), !.state = "LEARN"]

learn_loop(n, s) ==
    IF Expired(s.ms) THEN goto_master(n, s, "NONE")
                     ELSE send_adv(n, s, Prio[n])

transfer_loop(n, s) ==
    IF s.wid \/ (Portal /\ s.portal) THEN s ELSE goto_master(n, s, "TRANSFER")

\* Only the heartbeat link is looked at.
check_vif_state_trans_mutant(s) == ~s.ht

\* had_sm_check_vif_state_trans: the reasons to leave BACK for MAST
check_vif_state_trans(s) == ~s.ht \/ Expired(s.ms)

\* The first of the two passes that take a standby to MAST: warn the old
\* master, and give it one advertisement interval.
warn_master(n, s) ==
    send_fail(n, [s EXCEPT !.flg = TRUE, !.ms = AllLinks(AdverInt)])

\* A standby that loses a link goes out of service, as a master does.
back_loop_mutant(n, s) ==
    IF ~s.svc THEN [s EXCEPT !.state = "INIT"]
    ELSE IF ~LinksUp(s) THEN goto_disable(n, s, FALSE)
    ELSE IF ~check_vif_state_trans(s) THEN s
    ELSE IF ~s.flg THEN warn_master(n, s)
    ELSE [goto_master(n, s, "NONE") EXCEPT !.flg = FALSE]

back_loop(n, s) ==
    IF ~s.svc THEN [s EXCEPT !.state = "INIT"]
    ELSE IF ~LinksUp(s)
         THEN [s EXCEPT !.ms = AllLinks(Delay(n)), !.adv = AllLinks(0)]
    ELSE IF ~check_vif_state_trans(s) THEN s
    ELSE IF ~s.flg THEN warn_master(n, s)
    ELSE [goto_master(n, s, "NONE") EXCEPT !.flg = FALSE]

\* Everything had_state_mast_loop and had_state_disable_loop track is up.
Tracked(s) == LinksUp(s) /\ \A m \in Mon : s.mon[m]

mast_loop(n, s) ==
    IF ~Tracked(s) THEN goto_disable(n, s, TRUE)
    ELSE LET due == {l \in Link : s.adv[l] <= 0}
         IN  [s EXCEPT
                !.out = @ \cup {Pkt(n, s, l, Prio[n], "PASS") :
                                   l \in {k \in due : s.ht /\ s.svc}},
                !.adv = [l \in Link |-> IF l \in due THEN AdverInt ELSE s.adv[l]]]

disable_loop(n, s) ==
    IF ~(s.ht /\ Tracked(s)) THEN [s EXCEPT !.ms = AllLinks(Delay(n))]
    ELSE IF Expired(s.ms) THEN goto_master(n, s, "NONE")
    ELSE s

\* One pass of had_state_thread_main
state_loop(n, s) ==
    CASE s.state = "INIT"     -> state_init(n, s)
      [] s.state = "LEARN"    -> learn_loop(n, s)
      [] s.state = "BACK"     -> back_loop(n, s)
      [] s.state = "TRANSFER" -> transfer_loop(n, s)
      [] s.state = "MAST"     -> mast_loop(n, s)
      [] s.state = "DISABLE"  -> disable_loop(n, s)

-----------------------------------------------------------------------------
(***************************************************************************)
(* The packet thread.  had_update_uplink and had_update_downlink are the   *)
(* same function of the link, but for the advertisement timer that a stop  *)
(* packet restarts: both restart the uplink's.                             *)
(***************************************************************************)

\* The packet comes from a better master than n.
better(n, m) ==
    \/ m.prio > Prio[n]
    \/ m.prio = Prio[n] /\ Addr[m.from][m.l] > Addr[n][m.l]

worse(n, m) ==
    \/ m.prio < Prio[n]
    \/ m.prio = Prio[n] /\ Addr[m.from][m.l] < Addr[n][m.l]

\* A master of link l is known for every other configured link.
others_known(s, l) == \A k \in Link \ {l} : s.master[k] # NoNode

update_learn(n, s, m) ==
    IF m.prio = Stop THEN goto_master(n, s, "BACK")
    ELSE LET t == [s EXCEPT !.master[m.l] = m.from]
         IN  IF others_known(t, m.l)
             THEN from_learn(n, [t EXCEPT !.ms = AllLinks(Delay(n))], m)
             ELSE t

update_back(n, s, m) ==
    IF m.prio = Stop THEN goto_master(n, s, "BACK")
    ELSE IF ~Preempt[n] \/ better(n, m)
         THEN [s EXCEPT !.ms[m.l] = Delay(n), !.master[m.l] = m.from]
    ELSE IF worse(n, m) THEN goto_master(n, s, m.st)
    ELSE [s EXCEPT !.master[m.l] = m.from]

\* The reply of a master to a stop packet
answer_stop(n, s, l) ==
    [send_link_adv(n, s, l, Prio[n]) EXCEPT
        !.adv = [k \in Link |-> IF k = "up" THEN AdverInt ELSE s.adv[k]]]

\* The time at which the better master was heard is not recorded.
hear_better_mutant(n, s, m) ==
    LET t == [s EXCEPT !.master[m.l] = m.from]
    IN  IF others_known(t, m.l) /\ \A k \in Link \ {m.l} : t.heard[k] < Stale
        THEN [leave_master(n, t, m) EXCEPT !.heard = AllLinks(Stale)]
        ELSE t

\* A better master is heard on link m.l: give way once every other link has
\* heard one within two advertisement intervals.
hear_better(n, s, m) ==
    LET t == [s EXCEPT !.heard[m.l] = 0, !.master[m.l] = m.from]
    IN  IF others_known(t, m.l) /\ \A k \in Link \ {m.l} : t.heard[k] < Stale
        THEN [leave_master(n, t, m) EXCEPT !.heard = AllLinks(Stale)]
        ELSE t

\* A master does not give way.
update_mast_mutant(n, s, m) ==
    IF m.st = "LEARN" THEN s
    ELSE IF m.prio = Stop THEN answer_stop(n, s, m.l)
    ELSE IF m.auth = "FAIL" THEN leave_master(n, s, m)
    ELSE s

update_mast(n, s, m) ==
    IF m.st = "LEARN" THEN s
    ELSE IF m.prio = Stop THEN answer_stop(n, s, m.l)
    ELSE IF m.auth = "FAIL" THEN leave_master(n, s, m)
    ELSE IF better(n, m) THEN hear_better(n, s, m)
    ELSE s

update_link(n, s, m) ==
    CASE s.state = "LEARN" -> update_learn(n, s, m)
      [] s.state = "BACK"  -> update_back(n, s, m)
      [] s.state = "MAST"  -> update_mast(n, s, m)
      [] OTHER -> s

\* A packet is saved for its link; one of the other link that is too old goes.
save_packet(s, l) ==
    [s EXCEPT !.buf = [k \in Link |-> IF k = l THEN 0
                                      ELSE IF s.buf[k] = Stale THEN Unset
                                      ELSE s.buf[k]]]

\* had_updata in state DISABLE: with one link the packet counts at once, with
\* two it is saved until the other link has one less than two advertisement
\* intervals old.
updata_disable(n, s, m) ==
    LET t == save_packet(s, m.l)
        fresh == \A k \in Link : t.buf[k] < 2 * AdverInt
        go == from_disable(n, [s EXCEPT !.master = AllLinks(m.from)], m)
    IN  IF ~LinksUp(s) \/ ("l2" \in Mon /\ ~s.mon["l2"]) THEN s
        ELSE IF Link = {m.l} THEN go
        ELSE IF fresh /\ s.ht THEN [go EXCEPT !.buf = AllLinks(Unset)]
        ELSE t

\* stateFlg survives the packet.
updata_mutant(n, s, m) ==
    IF s.state = "DISABLE" THEN updata_disable(n, s, m)
    ELSE IF s.link[m.l] THEN update_link(n, s, m)
    ELSE s

\* had_updata for a packet of another node
updata(n, s, m) ==
    LET t == [s EXCEPT !.flg = FALSE]
    IN  IF s.state = "DISABLE" THEN updata_disable(n, t, m)
        ELSE IF s.link[m.l] THEN update_link(n, t, m)
        ELSE t

\* had_read_sock_list: whether the packet reaches had_updata at all
Hears(s, m) ==
    /\ s.svc
    /\ IF m.auth = "PASS" THEN s.ht
                          ELSE s.link[m.l] /\ (m.l \in BackDown => s.rx)

-----------------------------------------------------------------------------
(***************************************************************************)
(* The timer thread: one second.  The timers are ints that nothing stops   *)
(* at zero; an expired one stays expired until it is set again or, after   *)
(* 2^31 microseconds, wraps around (the links of wrap).                    *)
(***************************************************************************)
CountDown_mutant(t) == t - 1

CountDown(t) == IF t > 0 THEN t - 1 ELSE 0

timer_tick(s, wrap, old) ==
    [s EXCEPT
        !.adv   = [l \in Link |-> CountDown(s.adv[l])],
        !.ms    = [l \in Link |-> IF l \in wrap /\ s.ms[l] = 0
                                  THEN WrapTicks ELSE CountDown(s.ms[l])],
        !.heard = Older(s.heard, old),
        !.buf   = Older(s.buf, old)]

-----------------------------------------------------------------------------
(***************************************************************************)
(* The dbus thread: operations of the command line, of hmd, wid and eag.   *)
(***************************************************************************)
service_enable(s) == [vif_rcv_pck_ON(s) EXCEPT !.svc = TRUE]

\* Only a master is taken out of its state.
service_disable_mutant(n, s) ==
    LET t == vif_rcv_pck_ON(s)
        v == IF s.state # "MAST" THEN t
             ELSE [goto_disable(n, t, TRUE) EXCEPT !.state = "INIT"]
    IN  [v EXCEPT !.svc = FALSE]

service_disable(n, s) ==
    LET t == vif_rcv_pck_ON(s)
        u == IF s.state = "TRANSFER"
             THEN [t EXCEPT !.wid = FALSE, !.portal = FALSE] ELSE t
        v == IF s.state = "INIT" THEN t
             ELSE [goto_disable(n, u, s.state = "MAST") EXCEPT !.state = "INIT"]
    IN  [v EXCEPT !.svc = FALSE]

\* had_dbus_state_change, the global switch of hmd
state_change_master(n, s) ==
    IF s.state = "MAST" THEN s
    ELSE goto_master(n, send_fail(n, [s EXCEPT !.ms = AllLinks(AdverInt)]), "NONE")

state_change_back(n, s) ==
    IF s.state \in {"BACK", "DISABLE"} THEN s ELSE leave_master_stop(n, s)

want_master(s) == IF s.svc THEN s ELSE [s EXCEPT !.want = TRUE]
want_init(s)   == [s EXCEPT !.want = FALSE]

set_wid_transfer_state(s, v)    == [s EXCEPT !.wid = v]
set_portal_transfer_state(s, v) == [s EXCEPT !.portal = v]
no_transfer(s) == [s EXCEPT !.wid = FALSE, !.portal = FALSE]

\* had_dbus_end, and the profile created anew with the same configuration:
\* the fields of vrrp_rt start afresh, the global arrays keep their values.
end_profile(n, s) ==
    LET t == vif_rcv_pck_ON(s)
        u == IF s.state = "MAST" THEN leave_master_stop(n, t) ELSE t
    IN  [u EXCEPT !.state = "INIT", !.svc = FALSE, !.want = FALSE,
                  !.master = AllLinks(NoNode),
                  !.ms = AllLinks(0), !.adv = AllLinks(0)]

-----------------------------------------------------------------------------
(***************************************************************************)
(* The record of a node.                                                   *)
(***************************************************************************)
NodeState ==
    [state  : State,
     vip    : BOOLEAN,                     \* virtual address and MAC installed
     told   : {"NONE", "MAST", "BACK", "DISABLE"}, \* last role notified
     rx     : BOOLEAN,                     \* interfaces open for traffic
     ms     : [Link -> Nat],               \* xlink_ms_down_timer
     adv    : [Link -> 0..AdverInt],       \* xlink_adver_timer
     master : [Link -> Node \cup {NoNode}],\* master_ipaddr_xlink
     heard  : [Link -> 0..Stale],          \* xlink_leave_master_timer
     buf    : [Link -> 0..Unset],          \* bufNode
     flg    : BOOLEAN,                     \* stateFlg
     link   : [Link -> BOOLEAN],           \* link state of the interfaces
     mon    : [Mon -> BOOLEAN],
     ht     : BOOLEAN,                     \* global_ht_state
     wid    : BOOLEAN,                     \* wid_transfer_state
     portal : BOOLEAN,                     \* portal_transfer_state
     svc    : BOOLEAN,                     \* service_enable
     want   : BOOLEAN,                     \* wantstate = MAST
     out    : SUBSET Packet]

\* A profile just created by had_start: service not enabled yet.
InitNode ==
    [state |-> "INIT", vip |-> FALSE, told |-> "NONE", rx |-> TRUE,
     ms |-> AllLinks(0), adv |-> AllLinks(0), master |-> AllLinks(NoNode),
     heard |-> AllLinks(Stale), buf |-> AllLinks(Unset), flg |-> FALSE,
     link |-> AllLinks(TRUE), mon |-> [m \in Mon |-> TRUE], ht |-> TRUE,
     wid |-> FALSE, portal |-> FALSE, svc |-> FALSE, want |-> FALSE,
     out |-> {}]

\* A record whose address, notified role and traffic agree with its state
Role(s) ==
    /\ s.vip <=> s.state = "MAST"
    /\ s.told = "MAST" <=> s.state = "MAST"
    /\ s.state \in {"BACK", "TRANSFER"} => s.told = "BACK"
    /\ s.state = "DISABLE" => s.told = "DISABLE"
    /\ s.state = "MAST" => s.rx
=============================================================================
