------------------------------- MODULE HadOpen -------------------------------
(***************************************************************************)
(* One had process in an arbitrary environment: any packet another node    *)
(* could send arrives at any time, links go up and down, and every dbus    *)
(* operation comes whenever it likes.  What holds here holds for a node    *)
(* whatever its peers and the network do.                                  *)
(*                                                                         *)
(* The threads of the process are the actions: each takes StateMutex once. *)
(* The one thing a thread carries from outside the lock is the state       *)
(* thread's test of service_enable, which is the variable passed.          *)
(***************************************************************************)
EXTENDS HadNode

CONSTANT Self       \* the node modelled

ASSUME SelfAssumption == Self \in Node

VARIABLES
    node,       \* the record of HadNode
    passed,     \* the state thread has seen the service enabled, before the lock
    (* The other variables are history: no action reads them. *)
    warned,     \* in BACK: the old master was warned and nothing was heard since
    forced,     \* in DISABLE: put there by a force-to-fail packet
    quiet,      \* in DISABLE: seconds spent there, counted up to Delay
    rivals      \* in MAST: links that heard a better master since MAST was entered

vars == <<node, passed, warned, forced, quiet, rivals>>

\* Every packet some other node could send.  The priority is whatever
\* had_priority_cfg last set there: it may change while the service runs.
CanSend(m) ==
    /\ m.from # Self
    /\ m.auth = "FAIL" => m.prio # Stop /\ m.st # "MAST"
    /\ m.auth = "PASS" => m.old = NoNode

-----------------------------------------------------------------------------
Init ==
    /\ node = InitNode
    /\ passed = FALSE
    /\ warned = FALSE
    /\ forced = FALSE
    /\ quiet = 0
    /\ rivals = {}

\* The process ends a critical section with its record at r.
Become(r) == node' = [r EXCEPT !.out = {}]

Stays(st, r) == node.state = st /\ r.state = st

\* History of a step to r that neither hears a packet nor lets time pass
NoPacket(r) ==
    /\ warned' = (Stays("BACK", r)
                  /\ (warned \/ \E m \in r.out : m.auth = "FAIL"))
    /\ forced' = (Stays("DISABLE", r) /\ forced)
    /\ quiet'  = IF Stays("DISABLE", r) THEN quiet ELSE 0
    /\ rivals' = IF Stays("MAST", r) THEN rivals ELSE {}

-----------------------------------------------------------------------------
\* had_state_thread_main reads service_enable and waits for StateMutex ...
LoopTest ==
    /\ node.svc
    /\ passed' = TRUE
    /\ UNCHANGED <<node, warned, forced, quiet, rivals>>

\* ... and runs one pass of the loop with it.
Loop ==
    /\ node.svc \/ passed
    /\ passed' = FALSE
    /\ LET r == state_loop(Self, node) IN Become(r) /\ NoPacket(r)

\* vrrp_timer_thread_main: one second passes.
Second(wrap, old) ==
    /\ Become(timer_tick(node, wrap, old))
    /\ quiet' = IF node.state = "DISABLE" /\ quiet < Delay(Self)
                THEN quiet + 1 ELSE quiet
    /\ UNCHANGED <<passed, warned, forced, rivals>>

Tick == \E wrap, old \in SUBSET Link : Second(wrap, old)

\* had_packet_thread2_main: a packet arrives.
Hear(m) ==
    /\ Hears(node, m)
    /\ LET r == updata(Self, node, m)
       IN  /\ Become(r)
           /\ warned' = FALSE
           /\ forced' = (r.state = "DISABLE" /\ (node.state = "DISABLE" => forced))
           /\ quiet'  = IF Stays("DISABLE", r) THEN quiet ELSE 0
           /\ rivals' = IF ~Stays("MAST", r) THEN {}
                        ELSE IF m.st # "LEARN" /\ m.prio # Stop /\ better(Self, m)
                             THEN rivals \cup {m.l} ELSE rivals
    /\ UNCHANGED passed

\* A dbus operation that leaves the record at r
Operate(r) == Become(r) /\ NoPacket(r) /\ UNCHANGED passed

ServiceEnable  == Operate(service_enable(node))
ServiceDisable == Operate(service_disable(Self, node))
SwitchMaster   == Operate(state_change_master(Self, node))
SwitchBack     == Operate(state_change_back(Self, node))
WantMaster     == Operate(want_master(node))
WantInit       == Operate(want_init(node))
WidReport      == \E v \in BOOLEAN : Operate(set_wid_transfer_state(node, v))
PortalReport   == \E v \in BOOLEAN : Operate(set_portal_transfer_state(node, v))
NoTransfer     == Operate(no_transfer(node))
EndProfile     == Operate(end_profile(Self, node))

\* had_set_link_state and the heartbeat state, written by the link thread
LinkChange(l) == Operate([node EXCEPT !.link[l] = ~@])
MonChange(m)  == Operate([node EXCEPT !.mon[m] = ~@])
HeartbeatChange == Operate([node EXCEPT !.ht = ~@])

\* What the environment decides
Environment ==
    \/ ServiceEnable \/ ServiceDisable \/ SwitchMaster \/ SwitchBack
    \/ WantMaster \/ WantInit
    \/ WidReport \/ PortalReport \/ NoTransfer \/ EndProfile
    \/ \E l \in Link : LinkChange(l)
    \/ \E m \in Mon : MonChange(m)
    \/ HeartbeatChange

Next ==
    \/ LoopTest \/ Loop \/ Tick
    \/ \E m \in Packet : CanSend(m) /\ Hear(m)
    \/ Environment

Spec == Init /\ [][Next]_vars

-----------------------------------------------------------------------------
\* The types of all variables; between two critical sections nothing is left
\* to send.
TypeOK ==
    /\ node \in NodeState
    /\ node.out = {}
    /\ passed \in BOOLEAN
    /\ warned \in BOOLEAN
    /\ forced \in BOOLEAN
    /\ quiet \in 0..Delay(Self)
    /\ rivals \in SUBSET Link

\* The virtual address is installed and the other daemons believe this node is
\* the master exactly while the state machine is in MAST, whichever of the
\* many paths of had_state_goto_master, had_state_leave_master,
\* had_state_goto_disable and the dbus handlers it came and went by; and the
\* interfaces of a master are open for traffic.
RoleConsistent == Role(node)

\* With the service disabled the state thread no longer runs and no packet is
\* heard, so the node must not be left in a state that waits for either.
ServiceOffAtRest ==
    ~node.svc => node.state \in {"INIT", "MAST", "DISABLE"}

\* A standby whose timer expires takes over only after it has warned the old
\* master with a force-to-fail packet and heard nothing since: stateFlg, which
\* is one global for all paths into BACK, never carries over from an earlier
\* stay in BACK.
WarnedBeforeTakeover ==
    [][node.state = "BACK" /\ node'.state = "MAST" /\ Loop => warned]_vars

\* A node that is in DISABLE for any reason but a force-to-fail packet does not
\* promote itself before a whole master-down delay has passed there.
QuietBeforeSelfPromotion ==
    [][node.state = "DISABLE" /\ node'.state = "MAST" /\ ~forced /\ Loop
         => quiet >= Delay(Self)]_vars

\* "link up but not receive packets in ms down timer,goto master"
\* (had_state_disable_loop): the same for every node in DISABLE.
QuietBeforeAnySelfPromotion ==
    [][node.state = "DISABLE" /\ node'.state = "MAST" /\ Loop
         => quiet >= Delay(Self)]_vars

\* The better masters a node in MAST goes by when it decides to step down
\* (had_update_uplink, had_update_downlink) were all heard during this very
\* mastership: the addresses and time stamps that an earlier one left behind
\* never count.
RivalsOfThisMastership ==
    node.state = "MAST" => \A l \in Link : node.master[l] # NoNode => l \in rivals

\* What the other daemons and the network see of the process is the role
\* protocol of HadRole: whatever path through the state machine, the packets
\* and the dbus operations a change of role takes, the state, the address and
\* the notified role change in one step, and only along the protocol's edges.
Protocol == INSTANCE HadRole WITH
                state <- node.state, vip <- node.vip, told <- node.told

KeepsProtocol == Protocol!Spec
=============================================================================
