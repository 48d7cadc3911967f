# Verification of HANSI redundancy (had, hmd)

This project models the part of the repository that decides which of several
access controllers serves: the high-availability daemon `had`
(`src/had/src/lib/`), a VRRP-like protocol called HANSI, and the part of its
management daemon `hmd` (`src/hmd/`) that creates, checks and deletes HANSI instances. It is the repository's
own distributed algorithm: several threads in every process, lossy packets between
processes, timeouts, preemption, and commands from four other daemons. If it goes
wrong two controllers hold the same address, or none does; or an instance runs that
nobody manages, or dies and nobody notices.

Contents: 1 inventory, 2 modules and how they correspond to the code, 3 runs,
4 proofs, 5 what was found and what does not hold, 6 what is not modelled, 7 plan.

## 1. Inventory

The repository is the software of a chassis of access controllers: about fifty
daemons, a command line, a web interface, and vendored packages. The parts with
logic of their own around redundancy are these.

| component | state it keeps | operations | interacts with |
|---|---|---|---|
| had state machine (`had_vrrpd.c`) | per profile `vrrp_rt`: state, priority, interval, master-down and advertisement timers per link; globals per instance: `stateFlg`, leave-master stamps, saved packets | the six `had_state_*_loop`s, `had_state_goto_master`, `_leave_master`, `_goto_disable`, `_goto_transfer`, `_back`, `_from_learn`, `_from_disable`; timer thread | shares `StateMutex` with packet and dbus threads; notifies wid, portal, pppoe, hmd, dhcp |
| had packet reception (`had_uid.c`, `had_vrrpd.c`) | `bufNode` | `had_read_sock_list`, `had_updata`, `had_update_uplink`, `had_update_downlink` | peers, state machine |
| had dbus operations (`had_dbus.c`) | `service_enable`, `wantstate`, transfer flags | service enable/disable, state change, transfer reports, end of profile, all configuration | command line, hmd, wid, eag |
| had link monitor (`had_uid.c`) | link flags of uplink, downlink, gateway, layer-2 uplink; `global_ht_state` | netlink messages, poll after ten quiet seconds | writes what the loops read, without the lock |
| had configuration (`had_vrrpd.c` 4286-6530, `had_dbus.c`) | lists of interfaces and addresses of each link | add and delete link, address, gateway, layer-2 uplink; priority, interval, preemption, back-down | state machine |
| hmd timer library (`HmdTimeLib.c`) | queue of timers, the one the ticker waits for | `timer_add`, `timer_rem`, the ticker thread `cronometer` | all of hmd; the interval timer and SIGALRM |
| hmd | boards, their state, the instances on each, with `delete_flag`, failure counts and a checking timer | main board: configure, delete, free an entry; service board: create an instance, check its daemons, delete it; election of main and standby board, global switch | had, wid, eag by dbus, other boards by TIPC, its own monitors by a System V queue |
| wid, eag | access points, portal users | batch synchronisation at takeover, then a report | had by dbus |
| others | | | `PROJECT.json` lists them all with the reason each is left out |

`had` runs, per process, a state thread (one pass a second over all profiles), a
packet thread, a timer thread (takes one second off every timer), a dbus thread,
a link thread, and threads for ARP and neighbour answers. The first four take
`StateMutex` for a whole handler. The link thread takes no lock, and the state
thread reads `service_enable` and the profile pointer before it takes it.

`hmd` runs on the main board and on every service board. Configuring a hansi makes an entry on the main board and sends CREATE
to the service board. There the management thread allocates the instance, starts its daemons, creates a monitor thread
and asks for a timer. The ticker of the timer library turns each expiry into a message in the System V queue; the
monitor checks the daemons, reloads one that has failed often enough, and asks for the next timer. DELETE travels the same way and ends the
monitor, which tells the main board twice: before it starts, so that the hansi is not configured
meanwhile, and when the entry may be freed. None of these threads takes a lock over the instances.

A node starts in INIT; with its service enabled and its links up it goes to LEARN
and listens for a master-down delay (`global_ms_down_packet_count * adver_int`
plus a skew below a second). A master advertises every `adver_int` on every
link, over a separate heartbeat network. A standby (BACK) whose timer runs out
sends a *force-to-fail* packet over the service link, waits one interval, and
takes over if it heard nothing (`stateFlg`). A node better than the living master
goes to TRANSFER, waits until wid and portal have copied their tables, and takes
over; the old master hears better advertisements *on all its links within two
intervals* and leaves. A master whose tracked interface goes down sends a stop
packet (priority 0) and goes to DISABLE. A node in DISABLE goes to BACK, TRANSFER
or MAST on a packet, and to MAST by itself after a quiet master-down delay.

What makes this hard: the flags and stamps are globals that outlive the state they
belong to; every packet that drives a transition is sent once; the two networks
fail separately; timers are signed microseconds that nobody stops at zero; and
the role is spread over an address, a MAC, filters and five notified daemons, put
on and taken off by hand on a dozen paths. What makes each component correct:

* state machine: address, notifications and filters follow the state; no promotion
  without the warning or the quiet delay the code means to require; no decision
  from a stamp or flag of an earlier stay; no state left that nobody will run again;
* group: at most one master except for a bounded settling time, one master within
  a bounded time once nothing fails, the preferred one in the end;
* link monitor: what the loops read is what the kernel last said, once its messages are read, and
  becomes so even if one is lost; the real address is one the interface has;
* configuration: a name or address has one position, the counters count, an address is installed iff it is
  configured and the node is master;
* timer library: a handler runs once, not early, not after a cancellation, and does run; no wake-up is lost;
* hmd: the two boards' entries for a hansi agree in the end and a deletion hits the one it was asked for; the checks of a
  hansi never cease and bring its daemons back; never two main boards (the last is not modelled).

The hazards, each at its line with the properties that watch it, are in
`PROJECT.json`.

## 2. Modules

**`HadNode`** has no variables. It is the process as operators on one record
(`NodeState`), one operator per C function with the function's name less the
`had_`/`had_state_`/`had_dbus_` prefix. Each field of the record names the C variable
it stands for. What a function sends is collected in `out`. Handlers run under
`StateMutex`, so a handler is one application. The two link structures of the
code, written out twice (`uplink_`, `downlink_`), are one array over `Link`, a subset of
`{"up", "down"}`; where the copies differ, the difference is kept (`answer_stop`). Data is
abstracted as follows.

* Timers: microseconds become ticks of the timer thread; `Ticks` rounds up, because a
  timer counts as expired at or below zero. `CountDown` stops at 0, since every negative value is
  read alike, until the `int` wraps: `timer_tick` lets an expired timer of the links in `wrap` become
  `WrapTicks`.
* Stamps: `bufNode[].time` and the leave-master timers become ages, cut off at `Stale`, the
  first age the code rejects. `Older` lets a stale stamp look new again for the links in `old`, as
  the signed difference does after 2^31 microseconds.
* Packets: sender, link, priority, authentication type (`PASS`, or `FAIL` for
  force-to-fail), sender's state, and for `FAIL` the master it is meant for.
* The installed address, MAC and ARP answers are `vip`; the filters of the back-down
  option are `rx`; the last role notified is `told`.

**`HadOpen`** is one node in an arbitrary environment: any packet that another node could
send, at any time and as often as it likes; any dbus operation; links, tracked
interfaces and heartbeat changing freely; ticks that wrap anything. Its actions are the threads:
`LoopTest` and `Loop` (the unlocked test of `service_enable`, then the pass), `Tick`, `Hear`, one
action per dbus operation, and the link changes. `warned`, `forced`, `quiet` and `rivals` are
history variables: no action reads them, they record what the properties speak about.
Whatever holds here holds whatever the peers and the network do.

**`HadCluster`** composes `HadNode` records with the network. A round is one second:
every timer thread ticks once, every state thread makes one pass, in any order, every packet sent is
delivered or lost before the round ends. Faults are lost packets, links or heartbeat
interfaces going down and up, the heartbeat network silently losing everything, reboots, service
disabled, the global switch. `dual` and `vacant` count the rounds, since the last fault, that end
with two masters or with none.

**`HadRole`** is what other daemons and the network may rely on, with nothing of timers, links and packets: the state, the address
and the role last told, and which state may follow which. A node takes the role from any state, but address and notice come in the same
step; it never goes from MAST back to TRANSFER, from TRANSFER back to standby, or from standby out of service; only a
disabled service or the end of the profile lead to INIT. `HadOpen` implements it (`KeepsProtocol`, the instance
`Protocol`, with the three fields of the node record substituted).

**`HadLink`** is the link thread: the kernel's interface states, the netlink socket as a queue
(messages may be dropped, and may report no change), the entries of `uplink_vif`,
`l2_uplink_vif`, `downlink_vif` and `vgateway_vif` of all profiles as one sequence `Slot` in the order
`had_set_link_state` scans them, `global_ht_state`, and the poll as a walk over the slots that
the kernel may change under. `set_link_state` keeps the early return of the code: the first
bridge the interface belongs to is the last thing a message updates. The second that
`had_read_link` sleeps is the time between the arrival of a message and `Receive`. One
check of a bridge's members is one step. Its results are the link and heartbeat states that
`HadOpen` lets change at will.

**`HadRealIp`** is the other thing the link thread follows, the real address of an
interface (`had_real_ipaddr_syn`), for one entry of one profile: entries do not
influence each other. `deleted` and `added` are the two branches, which the code has three times over. `Listing` is what
`had_intf_netlink_get_ip_addrs` may return: it does one `recvmsg` for a dump of all interfaces, on a socket bound to
`RTMGRP_IPV4_IFADDR`. So the list is any part of the interface's addresses, none included (the first part of the dump ended before them, a notification
about another interface came first, or a call failed), and at most `MAX_IP_COUNT`; or, in `ReceiveNotified`, the one address of a notification
about this interface, which may just have been deleted. `short` remembers that the real address was given up on a list that showed neither
all addresses nor as many as the array holds; no guard reads it.

**`HadConfig`** is the configuration of one profile: for each link type the table of positions
(`SlotState`: interface name, the set flag, an IPv4, a link-local and a global virtual address, and which of them are
marked deletable), the counters and the link flag; and the addresses in the kernel. Its actions are the dbus handlers
that edit the tables (`Start`, `Start6`, `AddVip`, `AddVip6`, `VGateway`, `DelVip`, `DelVip6`, `NoVGateway`, `End`),
the service commands, and becoming and ceasing to be master, which is free here because `HadNode` says when. The same
code is written out for uplink, downlink and gateway in most functions; here it is one operator on a table, and the
places where the copies differ are kept (the gateway has no marks, no last address to protect, and asks for the set flag where the links
ask for the name). The loops of `had_ipaddr_ops` over the positions are recursive functions (`pass_v4`, `pass_v6`). `ok` is whether the real address of the interface can still be read, the one failure half-way through
an addition. Every function that may get index -1 writes in front of its array: `stray_v4`, `stray_ll` and `stray_gl` say what
lies there in `vrrp_rt`. Assumed of the environment: the kernel refuses to add an address that is there and to delete one that is not;
the order in which names extend each other is the constant `Begins`, a set of pairs such as `<<eth1, eth10>>`: `had_ipv6_start` compares only as many bytes
as the new name has (`Passes`), the other handlers whole names; the target is big-endian, as its cross compiler (`mips-linux-gnu-gcc`) says, so that the comparison of
addresses in `had_start` works.

**`HmdTimerService`** is the promise of the timer library in four actions: a timer is added with a time to come, removed, run at its time or
later, and its handler returns before the next one runs. The time of day goes anywhere.

**`HmdTimer`** is the library: the queue in its order with `in_use` and `cancelled`, the interval timer (`alarm`, 0 when off), SIGALRM
as one bit, and the ticker thread, whose place in `cronometer` is `ticker`. A step is a critical section of
`timerq.mutex`, or `sigwait`. A time is a number of microseconds; `TV_MINUS` keeps the borrow of the macro, which is
`MAX_USEC` and so one short of a second. `timer_add(d, k)` inserts behind the first `k` timers; `Ahead` is
the search for that place. `Tick` and `SetClock` are the kernel's clock. `KeepsService` says that it implements `HmdTimerService`,
a timer marked as cancelled counting as removed.

**`HmdHansi`** is the life of one remote hansi: the main board's entry (`srv`, with `gen` numbering the entries made one after
the other), the TIPC messages both ways, the service board's instance, the management thread between its steps, the
monitor, the messages of this hansi in the System V queue, its timers, `HANSI_CHECK_OP`, and eag as the one daemon followed. The number in a
message (`gen`) is not in the code: it is there for the properties, as the code cannot tell incarnations apart, and no guard
reads it. Timers are those of `HmdTimerService` without the clock: one known by `HmdTimerID` (`own`), and any number that a later request has
overwritten (`stray`). A check is two steps, so that a switch or a deletion falls into it; a deletion is four: begun, announced,
freed, eag stopped. A monitor that has freed its instance and not yet stopped eag is counted in `leaving`,
since the next incarnation may already run. A failed `pthread_create` ends the management thread, as in the code. eag runs, hangs or is dead: `hansi_eag_checking` counts calls that end in
an error and calls that are not answered apart, and reloads eag when either count reaches its limit (3 and 5 in the code).

**`MCHadOpen`**, **`MCHadCluster`**, **`MCHadLink`**, **`MCHadRealIp`**, **`MCHadConfig`**, **`MCHmdTimer`**, **`MCHmdHansi`** give the constants values and bound the environment.
**`HadNode_proofs`** holds lemmas about the functions of `HadNode`; **`HadOpen_proofs`**, **`HadCluster_proofs`**, **`HadLink_proofs`**, **`HadRealIp_proofs`**, **`HadConfig_proofs`**,
**`HmdTimer_proofs`** and **`HmdHansi_proofs`** hold the theorems.

Operators ending in `_mutant` or `_late` are faulty variants of the operator after them: a missing
reset, a dropped guard, a forgotten address. Putting one in place of its original must break the
property `PROJECT.json` names beside it; no specification uses them.

## 3. Runs

| run | instance | properties | states |
|---|---|---|---|
| `open_one` | one link, tracked gateway and layer-2 uplink, 5 environment steps | `TypeOK`, `RoleConsistent`, `ServiceOffAtRest`, `WarnedBeforeTakeover`, `QuietBeforeSelfPromotion`, `KeepsProtocol` | 291 k |
| `open_two` | two links, 1 environment step | `RivalsOfThisMastership` | 483 k |
| `forced_out` | as `open_one`, 1 step; expected violation | `QuietBeforeAnySelfPromotion` | |
| `cluster_preferred` | two nodes, priorities 110 and 100, one link, 2 faults | `TypeOK`, `DualMasterBounded`, `VacancyBounded`, `PreferredMasterEventually` | 616 k |
| `cluster_two` | two nodes, equal priority, two links, 1 fault | `DualMasterBounded` | 3650 k |
| `link_follow` | two profiles, five slots, a bridge of two ports, 3 changes, 1 message dropped | `TypeOK`, `DrainedAgrees`, `HeartbeatDrained`, `LinksFollowed` | 627 k |
| `link_heartbeat` | the same, 1 change; expected violation | `HeartbeatPolled` | |
| `real_ip` | three alike addresses and the virtual one, list of two, queue of four, 1 message dropped | `RealIsThere`, `RealIsFound`, `NeverVip` | 22 k |
| `config_v4` | three link types, two interfaces, two IPv4 addresses, tables of two positions | `TypeOK`, `NamesDistinct`, `VipsDistinct`, `CountRight`, `LastVipKept`, `NothingLeft`, `AllInstalled` | 154 k |
| `config_v6` | the downlink, two interfaces of which one's name begins with the other's, two IPv4 addresses and an IPv6 one, hmd may switch disabled nodes | `NamesDistinct`, `FlagCovers` | 1021 k |
| `hmd_timer` | three timers, delays of 1, 2 and 4, seconds of 3 microseconds, the clock set once | `TypeOK`, `QueueInOrder`, `WakeupComes`, `KeepsService`, `EveryTimerServed` | 320 k |
| `hmd_hansi` | three incarnations, 1 repeated deletion, 1 lost message, 2 switches of the checking, eag dies or hangs once, threads may fail | `TypeOK`, `ChainAlive`, `NoOrphan`, `NoUseAfterFree`, `DeletesWhatWasAsked`, `DeleteCompletes`, `EagHealed` | 1308 k |

* `RoleConsistent`: the address is installed, and the other daemons have been told MAST, exactly in
  MAST; a standby was told BACK, a disabled node DISABLE; a master's interfaces are open.
* `ServiceOffAtRest`: a node whose service is off is in INIT, MAST or DISABLE, never in a
  state that waits for the thread that no longer runs. MAST and DISABLE are possible because the global
  switch does not look at `service_enable`.
* `WarnedBeforeTakeover`: from BACK to MAST by the state thread only after a force-to-fail packet
  in this very stay in BACK with nothing heard since.
* `QuietBeforeSelfPromotion`: from DISABLE to MAST by the state thread only after a whole
  master-down delay there, unless a force-to-fail packet put the node there (see 5).
* `RivalsOfThisMastership`: the masters a node counts when it decides to step down were heard
  since it became master.
* `KeepsProtocol`: the node implements `HadRole`.
* `DualMasterBounded`: two masters that hear each other settle within `2 * AdverInt` rounds.
* `VacancyBounded`: with everything up, some node is master within two master-down delays, an interval
  and three rounds; the time wid and portal take is not counted.
* `PreferredMasterEventually`: once nothing fails any more, the best node that preempts is and stays the only
  master.
* `DrainedAgrees`, `HeartbeatDrained`: with no message dropped and none waiting about an interface, the thread's
  idea of it is the kernel's, however messages, polls and the second's delay interleave.
* `LinksFollowed`: once the kernel is still, every slot becomes and stays right, dropped messages or not, and though
  unrelated messages never cease. For bridges this needs that messages about a bridge itself cease, because such a
  message overwrites what `had_check_ebr_state` found.
* `RealIsThere`, `NeverVip`: the real address is one of the interface and not the profile's virtual address, though messages are
  handled late and against whatever part of the list was read.
* `RealIsFound`: the interface is without a real address only while each other address has a message waiting, unless the
  real address was given up on a list that was a part (see 5). A list that is cut off because the array is full is no exception.
* `NamesDistinct`, `VipsDistinct`: after any sequence of additions, deletions and restarts an interface has one position
  that is set, and an IPv4 address one position, so that lookups that stop at the first match find the only one. The one exception is position 0 of a
  downlink that `had_ipv6_start` has renamed from a name that begins with the new one (see 5); the run reaches it and shows that there is no other.
* `FlagCovers`: a position that is set belongs to a link whose flag is set; otherwise `had_ipaddr_ops` would pass it over.
* `CountRight`, `LastVipKept`: the counters are right, and the refusal to delete the last address, which goes by
  them, keeps an address in every instance.
* `NothingLeft`, `AllInstalled`: only a master holds virtual addresses, and it holds all the IPv4 ones configured.
* `QueueInOrder`: the timer queue is ordered by time and only its first timer is ever marked as waited for, which is what
  `timer_rem` goes by.
* `WakeupComes`: a ticker that waits has nothing to do, or a signal pending, or an interval that ends in time; the one
  exception is the interval of zero (see 5).
* `KeepsService`: the library implements `HmdTimerService`: through all interleavings no handler runs early, after a removal
  in time, or twice, and no timer drops out of the queue.
* `EveryTimerServed`: every timer runs or is removed in the end, also after the clock was set back, with the same exception.
* `ChainAlive`: while a monitor runs and the checking is on, the next check is due: a timer, a handler, a message or the monitor
  has it in hand, however switches, deletions and the next incarnation come between.
* `NoOrphan`: the main board frees its entry only when the instance is about to be freed, whatever messages are lost or threads fail.
* `NoUseAfterFree`: a monitor that runs has its instance; so has the management thread when it asks for the first timer, unless
  a deletion was repeated.
* `DeletesWhatWasAsked`: no incarnation is deleted by a message meant for an earlier one, unless a deletion was repeated.
* `DeleteCompletes`: a deletion that has reached the monitor ends with the main board's entry freed, unless a message was lost.
* `EagHealed`: an eag that died or hangs, or that an earlier incarnation's monitor stopped late, runs again in the end.

**Bounds.** `MCHadOpen` has one packet of each kind `HadNode` tells apart (worse, better, stop; from
LEARN, MAST, another state; force-to-fail for this node or another), without a limit, as are ticks,
passes and enabling the service. `EnvMax` limits the rest; five such steps are enough for a link
to fail and return, a switch and a service command in one behaviour. `AdverInt = DownCount = 1` makes
the delay two ticks and the disable delay three, so the two still differ; `Stale` is 3. `WrapTicks = 3`
stands for 2147: all that counts is that it is not expired. The proofs cover all other
values. In `HadCluster` `DownCount` is 3 and not less: with the random order of threads
inside a round a living master can be silent for two rounds, and a smaller count would take
that for its death. The code's defaults, 8 and an interval of 2, leave more room. `MaxFaults` is 2 where the
state space allows it: two cover a failure and its repair, or two unrelated ones. There is no symmetry
reduction, as nodes differ in priority or address. In `MCHadLink` two slots share the plain interface, one is the bridge
seen from the downlink, one from the layer-2 uplink, and one is a port of the bridge that an earlier profile's bridge
hides; `q` is a port that is not sensitive; `CheckTimes` is 2 for 15, so that the count starts again in a behaviour; three changes allow
a flap and an unrelated change, or a dropped change and a flap. Announcements and other messages are not limited. In
`MCHadRealIp` only the queue is bounded, changes are not; `MAX_IP_COUNT` is 2 for 8, so that lists are cut off. Its three addresses are
interchangeable (`SYMMETRY`; no temporal property is checked there). In `MCHadConfig` two positions stand for eight: the first, which
`had_start` and `had_ipv6_start` use, and the last, which stray writes hit. Sequences of operations are not bounded; `CountMax` bounds the
counters from both sides, which only the IPv6 counter would exceed, as it also counts an address put over another. The IPv6 handlers are
called where `V6` is not empty: with them on all three link types at once the state space is out of reach, and the
tables of different link types meet only in `Start6` and in stray writes. Addresses are interchangeable (`SYMMETRY` in `config_v6`); interfaces
are not, as the name of one begins with that of the other (`OneTwo`).
In `MCHmdTimer` a second has 3 microseconds, so that both branches of `TV_MINUS` and the interval of zero occur; delays of 1, 2 and 4
give timers within a second, at its end and beyond it; three timers allow one to be waited for, one to overtake it and one to be removed. At
`MaxTime` the time of day stands still and the interval timer goes on, so that what is pending is still served. In
`MCHmdHansi` each incarnation needs a CREATE and a DELETE; three let a message of the first meet the third.
`EAG_FAILS` is 2 for 3 and `EAG_TIMEOUTS` 3 for 5: they differ, and each is counted up over several checks; with the code's own
numbers the run passes too, with 2 million states. The bounds are on what users and surroundings do (configuring, repeating, losing, switching, crashing); threads are not bounded.
The proofs hold for all values of all these bounds.

**Fairness** (`HadCluster`): weak fairness of each thread's pass and tick (they are loops around a
one-second sleep), of delivery (a packet arrives or is lost within the
round), of the end of the round, of `Synchronised` (wid and portal report in the end: an assumption on
them, since TRANSFER has no timeout) and of `ServiceEnable` (an operator turns the service on again,
without which `Healthy` would be false anyway). Faults are not fair. In `HadLink` the thread is weakly fair: it is a loop, and its
`select` returns after ten seconds at the latest. In `HmdTimer` each step of the ticker thread
and the tick of the clock are weakly fair: the thread is a loop, handlers return (they send a message), and time passes; callers are not fair. In `HmdHansi` the
main board's receiver, the management thread, the monitor, the late stop of eag, and the ticker are weakly fair: each blocks only to receive, and
that a pending timer goes off is what `HmdTimer` shows. Users, losses and crashes are not fair.
`HadOpen`, `HadRealIp` and `HadConfig` have no fairness.

**Deadlock** is checked in all runs but two. In `hmd_hansi` the system may stop: the hansi is deleted, the bounds on what users may still do are
used up, and all threads wait. In `config_v6`, with addresses left behind by a switched master, every address of
the small instance can be on every interface, and `had_start` refuses an address that is.

## 4. Proofs

`HadOpen_proofs` proves for every number of nodes, all priorities, addresses, intervals, counts and links
that `NodeAssumption` and `SelfAssumption` admit (one or two links, positive
interval and count, priorities from 1 to 255):

| theorem | statement |
|---|---|
| `Invariance` | `Spec => []IInv` |
| `TypeCorrect`, `RoleCorrect`, `RestCorrect`, `RivalsCorrect` | `Spec => []` of `TypeOK`, `RoleConsistent`, `ServiceOffAtRest`, `RivalsOfThisMastership` |
| `WarnedCorrect`, `QuietCorrect` | `Spec =>` `WarnedBeforeTakeover`, `QuietBeforeSelfPromotion` |

The four invariants are not enough for the two action properties. `IInv` adds `FlagMeansWarned`: in
BACK with `stateFlg` set, the old master was warned during this stay (so no path may enter BACK with the flag set;
it works because BACK is entered only while hearing a packet, and `had_updata` clears the flag
first). And `TimersCoverDelay`: in DISABLE, unless forced, the time spent and the time left on *each* timer
together make up the delay (so every way in must set all timers, and a tick or a restart
in `had_state_disable_loop` keeps the sum; a wrapped timer only adds).

The proof follows the code: in `HadNode_proofs` a lemma for each function says what it may do to a record
(`Own` for steps that hear nothing, `Got` for packets); `OwnInv` and `HearInv` lift these to
actions; `Invariance` has one case per action. The theorems quantify over
`Packet`, all packets of all nodes, where the runs use one of each kind.

`HadCluster_proofs` puts the same lemmas about the functions into the cluster:

| theorem | statement | under |
|---|---|---|
| `ClusterTyped` | `Spec => []TypeOK` | nothing: any number of nodes and faults |
| `EveryNodeConsistent` | `Spec => []EveryRoleConsistent` (`Role` of every node) | nothing |
| `DualMastersSettle` | `Spec => []DualMasterBounded` | two nodes, one of which outranks the other |
| `PairRecovers` | `Spec => []VacancyBounded` | two nodes `a` and `b`, `a` of higher priority and preempting, one link, `BackDown = {}`, `DownCount * AdverInt >= AdverInt + 2` |

The runs check `DualMasterBounded` with an interval of one second; the theorem is for every interval, count, priority, address and one or two
links. `DualInv` speaks of a healthy pair that has ended `dual` rounds with two masters, `a` the better one. While `b` has not given
way, each link is in one of three situations (`Undecided`): the next advertisement of `a` is unsent, and what is left on
its timer and the time elapsed make up no more than one interval; it is on its way; or `b` has heard it, no longer ago than the time elapsed, which is
less than the two intervals after which `had_update_uplink` and `had_update_downlink` forget. Not all links are in the third, since hearing the last one makes `b` leave. Once it has left
(`Settled`) its timers last longer than the round, as the master-down delay is at least two ticks for every priority. So the proof gives `AdverInt + 1` rounds, one interval
and the round it ends in, where the property allows two intervals. All packets of such a pair are advertisements of masters: a fault that could have left another one starts the
count again. A pair in which neither outranks the other really stays divided (section 5).

`PairRecovers` is for every interval and count that satisfy the condition (the defaults, eight advertisements of a second, do, and so does the run),
whether or not `b` preempts, with any faults before the pair was healthy. `vacant` counts the rounds without a master since then. The inductive
invariant `MasterComes` says in which way the better node `a` is on its way to MAST, and that the rounds counted and the time left on its timer make up no more than
the limit of that part of the way. In INIT, LEARN and DISABLE (`AStarts`, `ALearns`, `AIsDown`) the limit is `LearnLimit`, a master-down delay and three rounds; a takeover
may wait there for wid and portal, whose time is not counted (`ATransfers`, `ATransfersLate`). A node sent to BACK from there waits another delay (`AWaits`, up to `BackLimit`), then warns and
gives the old master an interval (`AWarned`, up to `WarnLimit`, which is `VacancyLimit`). A fresh master can still be put out by a warning that `b` sent in the same round, to BACK or, if the warning
names `a`, to DISABLE (`ALeadsYet`, `AIsDownLate`); after that it stays (`ALeads`). So each case also says which packets may be on their way and how long the timer of `b` still lasts. `DownCount * AdverInt >= AdverInt + 2` is
what keeps a standby that has just heard from `a` quiet until `a`, warned or put out, has taken over. `AllTimed` says that no timer ever
holds more than the delay that set it. The lemmas come in two layers. The first (`PassSeen`, `HearWorseSeen`, `HearBetterSeen`, `TickSeen`, `SyncSeen`)
translates each step of the code into what it does to a view (role, master-down timer, flag and the like of one node) and to a box (the packets on their way to a node, by kind); the second is arithmetic on views, one
lemma per case and step.

`HadLink_proofs` proves `DrainedAgrees`, `HeartbeatDrained` and type correctness for every set of interfaces, bridges, slots and
bounds (`LinkAssumption`). What makes them inductive is `NewestTrue`: the newest waiting message about an interface says what the kernel says. So
when the last message about it is handled it tells the truth, whatever older messages and polls
wrote before. `HadRealIp_proofs` proves the three properties of the real address with the same idea, for every set of addresses,
every `MAX_IP_COUNT` above one and every list that one `recvmsg` may return. `WholeHasOther` is why two are enough: a full list of two entries holds one that is not the
virtual address. A list that is a part says nothing about the others, hence the exception of `RealIsFound`; `RealIsThere` needs none, because
an address that is only in such a list, deleted a moment ago, has its own message waiting.

`HadOpen_proofs` also proves `ImplementsRole`, that is `Spec => KeepsProtocol`: `Role` already ties address and notice to the
state after each handler, so what is left is the relation `Edge` between the states before and after, one lemma per thread or packet
kind.

`HmdTimer_proofs` proves for every number of timers, all delays and every length of a second:

| theorem | statement |
|---|---|
| `Inductive` | `Spec => []IInv` |
| `TypeCorrect`, `OrderKept`, `NoLostWakeup` | `Spec => []` of `TypeOK`, `QueueInOrder`, `WakeupComes` |
| `ImplementsService` | `Spec => KeepsService` |

`IInv` adds that ids differ and that a handler runs exactly while the ticker is in it. `IntervalZero` is the arithmetic of `TV_MINUS`: it is never negative,
never too long, and zero only when the timer is due at a full second. For the refinement, inserting, removing and dropping the head
of the queue are lemmas that say what they do to the set of pending timers; with different ids one leaves and the others stay.

`HmdHansi_proofs` proves for all bounds, whether threads fail or not:

| theorem | statement |
|---|---|
| `Inductive` | `Spec => []IInv` |
| `TypeCorrect`, `ChecksGoOn`, `NoneOrphaned`, `NoneUsedFreed` | `Spec => []` of `TypeOK`, `ChainAlive`, `NoOrphan`, `NoUseAfterFree` |
| `DeletesAsked` | `Spec => DeletesWhatWasAsked` |

The argument is a token: a hansi is on its way to the service board (one CREATE), in use there, or on its way back (one SERVER_DELETE), never two of
these, and none when the main board has no entry (`OneToken`). So an entry is freed only by the answer of the very instance it stands for, and an
instance in use belongs to the present entry (`Current`). For what is deleted by which message `OneDelete` says that as long as no deletion is repeated there is one DELETE
per entry, in one of the two queues, and it is gone before the entry is. That is where the exception of the two properties comes from.

`HadConfig_proofs` proves for every set of interfaces and addresses and every number of positions:

| theorem | statement | under |
|---|---|---|
| `ConfigTyped`, `NamesStayDistinct`, `VipsStayDistinct`, `FlagAlwaysCovers` | `Spec => []` of `TypeOK`, `NamesDistinct`, `VipsDistinct`, `FlagCovers` | nothing |
| `MasterHoldsAll` | `Spec => []AllInstalled` | `HmdSwitch = FALSE` |
| `NothingIsLeft` | `Spec => []NothingLeft` | `HmdSwitch = FALSE`, no IPv6 addresses |
| `CountStaysRight` | `Spec => []CountRight` | no IPv6 addresses, no more interfaces than positions |
| `LastVipIsKept` | `Spec => []LastVipKept` | no more interfaces than positions; fewer, if there are IPv6 addresses and names that begin with others |

The conditions are those without which the properties fail (section 5). `IInv` says of each
table that a set position has a name and is covered by the flag of its link, and that no address is there twice, and no name but for the one of a renamed position 0; it holds
even where a handler goes on with index -1, whose writes (`StrayGood`) only clear. `MasterInv` adds that a node whose service is disabled is not master, so that no
table is edited under a master. `OwnInv` says that every installed address has a set position that `had_ipaddr_ops` will remove it for: it is marked deletable there, or the position is one of
the gateway, which looks at no mark. That is what makes the removal complete although the kernel refuses an address that two link types share: the refusal takes the mark off one
position and leaves it on the other. `CountInv` says that a position is set iff it has its IPv4 address (true only without IPv6), and counts them; `KeptInv` that the counter is not above
the number of addresses, and that a started instance has a link with a counter of at least one. Index -1 needs a full table
that lacks the interface asked for, which the pigeonhole principle (`NoOverrun`) excludes when there are enough positions; a renamed position 0 may be wasted
on a name that is there already, which costs one.

Each loop over the positions is shown to be a run, the sequence of its intermediate results (`PassV4`, `PassV6`), and what it has done after its
last position is proved by induction on the position. The induction theorems of the library take an operator, which the provers here cannot instantiate, so induction is stated for sets of numbers
(`SetInduction`, `BoundedInduction`), from the theorem that a nonempty set has a least element.

Only model-checked: the liveness properties `LinksFollowed`, `EveryTimerServed`, `DeleteCompletes`, `EagHealed` and `PreferredMasterEventually`, which are
out of the prover's reach. The theorems about the cluster that bound a number of rounds are about pairs, as are the runs.

## 5. What was found, and what does not hold

**Forced-out master (run `forced_out`).** `had_state_disable_loop` promotes a node "link up but not receive packets
in ms down timer" (`had_vrrpd.c:12242`). All ways into DISABLE set the timers for this, but for the force-to-fail branch
of `had_state_leave_master`. In a master the timers expired long ago, so a master that is forced out is master
again on its next pass, before it can hear the node that displaced it. Two masters then settle by
advertisements (`DualMasterBounded` holds with this behaviour in the model).

**Heartbeat poll (run `link_heartbeat`).** `had_get_netlink` says it updates "heartbeat/uplink/downlink if state" when
`select` times out (`had_uid.c:2192`). The links are set to what the kernel says; the heartbeat is only ever raised. A down whose message was
dropped is never seen. With no message dropped `HeartbeatDrained` holds.

**Deletion from a full table.** (No run; seen with three interfaces on two positions.) `had_get_link_index_by_ifname` answers `IF_UP_LIMIT` and index -1 for an unknown
interface when no position is free. `had_delete_vip` refuses only `IF_NOT_EXIST` (`had_vrrpd.c:6408`), goes on, lowers
`uplink_naddr`, "number of uplink ip addresses" (`had_vrrpd.h:318`), and clears what lies in front of the array. In `config_v4`, where no
third interface exists, `CountRight` holds. With IPv6 addresses the counter can also be wrong with positions enough: an interface that was added with an IPv6
address alone can have its IPv4 address deleted, which is counted (three interfaces on three positions). It is then too low, so the last
address stays protected (`LastVipIsKept`).

**Global address left behind.** (No run; seen with the uplink and IPv6 addresses.) `had_state_leave_master` is to "remove the ip
addresses" (`had_vrrpd.c:9846`). `had_ipv6_start` can put an interface into
position 0 that has another position already; the same link-local address given to both is refused by the kernel the second time, is not marked
deletable, and the removal skips the global address of that position with it (`had_vrrpd.c:1989`).

Things the model shows that no document denies, and so no run states:

* `VacancyBounded` fails when the better node does not preempt: two standbys whose timers expire in step warn each other, and each takes
  the warning for a sign of life and waits again. There is no random delay; the skew is lost
  in whole-second ticks.
* Even in a pair that preempts, a standby whose timer runs out in the round of a takeover can warn the fresh and better master away: its force-to-fail
  packet is not compared with the receiver's priority. The bound therefore holds two delays. When `DownCount * AdverInt < AdverInt + 2`, for example with a
  count of one, this can happen again and again, and `PairRecovers` excludes it.
* `VacancyBounded` also fails with two links under a schedule that delivers the two force-to-fail packets around a change of state
  for ever.
* Equal priorities with addresses that order differently on the two links give two masters for good: each link has
  another winner and a master needs to lose on both. Hence "on every link" in `Outranks`.
* A service disabled while the node is elsewhere than INIT ends in INIT; the global switch after that gives a
  master nobody looks after (hazard at `had_dbus.c:4016`). Its tables may be edited, since only `service_enable` protects them, and what is
  removed when it leaves goes by the edited tables: `NothingLeft` and `AllInstalled` fail with `HmdSwitch = TRUE`.
* `had_ipv6_start` fills position 0 without marking it as set (`had_vrrpd.c:12637`, commented out): the next addition on another
  interface takes the position over, with the IPv6 address in it.
* `had_ipv6_start` takes the interface in position 0 for the one it is given when its name begins with that one (`had_vrrpd.c:12592`-`12602`), and
  writes the given name over it on the downlink (`12711`). With eth10 in position 0 and eth1 in position 1, both set, starting IPv6 on eth1 leaves two set
  positions named eth1 and none named eth10: the next master installs the IPv4 address of eth10 on eth1, and lookups of eth1 find position 0 only. That is the exception of `NamesDistinct`.
* The list `had_real_ipaddr_syn` looks in is what one `recvmsg` returns, on a socket that also gets notifications (`had_uid.c:1666`, `1707`). When the real
  address is deleted and the list comes back short, or as a single notification, the real address becomes 0 although the interface has others, and stays 0 until
  an address is added. That is the exception of `RealIsFound`. After an addition a short list has the new address taken although the old one is still there.

* `TV_MINUS` borrows `MAX_USEC` (999999). One microsecond before the full second at which the first timer is due the interval comes out as
  0, which turns the interval timer off, and the ticker waits for a signal that comes only when an earlier timer is added. Until then no
  timer of hmd goes off: no check, no saved configuration (`Disarmed`).
* The monitor sends HMD_SERVER_DELETE_HANSI before it frees the instance (`HmdMonitor.c:2388`). A hansi configured again in between is ignored by the
  service board, since the old instance is still there, and the main board has an entry nobody serves.
* A deletion asked for twice, which nothing prevents, leaves a DELETE in the System V queue for the next incarnation. It is then
  deleted at once, perhaps before the management thread asks for its first timer through a pointer that is
  null by now (`HmdManagement.c:466`).
* A lost CREATE, DELETE or SERVER_DELETE is never repeated. After a lost DELETE someone can ask again; after a lost CREATE or
  SERVER_DELETE the main board's entry stays for ever, as there is no monitor that would answer.
* The eag of the next incarnation can be stopped by the monitor of the last one (`HmdMonitor.c:2408`); the checks start it again.

Seen while reading, outside what is modelled: `HmdTimeLib.h` asks that all threads block SIGALRM, and `HmdThreadSetSignals`, which would, is never called; the
System V queue outlives hmd, so messages of an earlier run await the next; the deletion of a local hansi frees the instance in the dbus
thread (`HmdDbus.c:4713`) while its monitor may use it; `had_ipv6addr_list` lists IPv4 addresses (`had_ipaddr.c:155`), so an IPv6 address the interface
already has is not noticed; `had_ipaddr_op` leaves its socket open when the kernel refuses (`had_ipaddr.c:223`);
`had_no_v_gateway` removes the real address of the first gateway interface from a master (`had_vrrpd.c:13297`);
`had_check_boot_status` returns no value on one path (`had_vrrpd.c:14324`).

## 6. Not modelled

* Several interfaces per link: a link is one interface that is up or down. IPv4 and IPv6
  addresses, MACs, ARP and neighbour answers: `vip`.
* The layer-2 uplink's shutdown of bridge interfaces, beyond its being tracked.
* In `HadNode` the configuration is constant, but for priorities, which in `HadOpen` are free in every packet. `HadConfig` leaves out
  layer-2 uplinks, appointed real addresses, priority, interval, preemption and back-down.
* The check for duplicate IPv6 addresses (`had_check_link_vip6_exist`), which is given the address of a pointer: it may
  refuse, and the model does without it.
* Interfaces that disappear or cannot be read, and bridges whose members change: `HadLink` has a fixed set.
  Real addresses appointed by the operator.
* The boot check, which delays all threads at start-up.
* Packet layout, checksum, byte order, receive filters: a packet that fails these is a lost one.
* Time inside a handler: notifications are blocking dbus calls under `StateMutex`, here instantaneous.
* Writes of the link thread and of the transfer reports, which take no lock, fall between critical sections. Inside
  one they could be seen by half of it; the loops read each flag once on a path, so the difference is
  that of an earlier or later write, but for conditions that read several flags.
* Freed memory: the profile pointer that the state thread reads before the lock.
* `time_synchronize` and its thread: the code that would use it is commented out.
* In hmd: local hansi (they have the same handlers with other arrays, and two entries per instance), main and standby boards, hmd
  itself restarting, licences, updates, the configuration files. The main board's own hansi, which need no messages. wid, asd, rdc, pdc and pppoe, which
  are checked like eag. `timer_destroy`, which nobody calls, and failing allocations.
* The other daemons, listed in `PROJECT.json`. The repository has 3.2 million lines, most of them command line, web pages, hardware headers and
  vendored packages; the modules cover the redundancy core and make no claim about the rest.

## 7. Plan

Done so far: `HadNode`, `HadOpen`, `HadCluster`, `HadLink`, `HadRealIp`, `HadConfig`, the abstract `HadRole` with its refinement, the timer library
of hmd with its service, and the life of a hansi, all of them with proofs. Left, in this order:

1. hmd: main and standby boards and the copying of entries to the standby, the global switch of all instances composed with `HadNode`'s
   `state_change_*` operations; local hansi with their two boards.
2. Composition of `HadLink` with `HadOpen`: the link changes of `HadOpen` as steps of the link thread.
3. The rest of the configuration: layer-2 uplinks, priority, interval and back-down.
4. Then `bsd` (file transfer between boards: retries, partial copies) and `wbmd`.
