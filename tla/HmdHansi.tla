------------------------------ MODULE HmdHansi ------------------------------
(***************************************************************************)
(* The life of one remote hansi under hmd.  The main board keeps an entry  *)
(* for it and tells the service board by TIPC to create and to delete it.  *)
(* There the management thread creates the instance and its monitor        *)
(* thread; the monitor takes messages from a System V queue, checks the    *)
(* daemons of the hansi each time the checking timer has gone off, and     *)
(* deletes the instance, telling the main board before and after it has    *)
(* taken the daemons down.                                                 *)
(*                                                                         *)
(* The timer is the one HmdTimerService promises, without its clock: a     *)
(* pending timer goes off at some time.  Of the timers asked for, only the *)
(* last is known to the instance (HmdTimerID); the others are strays.      *)
(* Of the daemons one, eag, is followed.                                   *)
(***************************************************************************)
EXTENDS Naturals, Sequences

CONSTANTS
    EAG_FAILS,      \* checks that end in an error, then eag is reloaded
    EAG_TIMEOUTS,   \* checks without an answer, then eag is reloaded
    MaxGen,         \* bound: times the hansi is configured
    MaxRepeat,      \* bound: times a deletion is asked for again
    MaxLoss,        \* bound: messages lost between the boards
    MaxToggle,      \* bound: times the checking is switched
    MaxCrash,       \* bound: times eag dies or hangs by itself
    ThreadFails     \* whether threads may fail to start

ASSUME HansiAssumption ==
    /\ EAG_FAILS \in Nat \ {0} /\ EAG_TIMEOUTS \in Nat \ {0}
    /\ {MaxGen, MaxRepeat, MaxLoss, MaxToggle, MaxCrash} \subseteq Nat
    /\ ThreadFails \in BOOLEAN

VARIABLES
    srv,        \* main board: its entry, with delete_flag
    gen,        \* main board: how often the entry was made
    asked,      \* main board: the entry a deletion was last asked for
    tocli,      \* messages to the service board
    tosrv,      \* messages to the main board
    inst,       \* service board: Hmd_Inst, the gen it was made for, or 0
    mgmt,       \* service board: where the management thread is
    monitor,    \* service board: where the monitor thread is
    leaving,    \* monitors that have freed their instance, not yet ended
    mq,         \* messages of this hansi in the System V queue
    own,        \* the timer HmdTimerID names is pending
    stray,      \* pending timers no HmdTimerID names
    handler,    \* HmdHandleTimer has seen the instance, not yet sent
    check_op,   \* HANSI_CHECK_OP
    eag,        \* eag runs, hangs without answering, or is dead
    eag_check,  \* checks of eag that ended in an error
    eag_check_timeout,  \* checks eag did not answer
    used        \* the bounded events so far

server == <<srv, gen, asked>>
timers == <<own, stray, handler>>
daemons == <<eag, eag_check, eag_check_timeout>>
vars == <<srv, gen, asked, tocli, tosrv, inst, mgmt, monitor, leaving, mq,
          own, stray, handler, check_op, eag, eag_check, eag_check_timeout,
          used>>

CREATE == "CREATE"
DELETE == "DELETE"
CHECKING == "CHECKING"
IS_DELETE == "IS_DELETE"
SERVER_DELETE == "SERVER_DELETE"

\* A message to the service board or in the queue, with the entry it is about.
Msg == [op : {CREATE, DELETE, CHECKING}, gen : 0..MaxGen]

Event == {"repeat", "loss", "toggle", "crash"}

Count(e) == [used EXCEPT ![e] = @ + 1]

Init ==
    /\ srv = "none" /\ gen = 0 /\ asked = 0
    /\ tocli = <<>> /\ tosrv = <<>>
    /\ inst = 0 /\ mgmt = "idle" /\ monitor = "none" /\ leaving = 0
    /\ mq = <<>>
    /\ own = FALSE /\ stray = 0 /\ handler = FALSE
    /\ check_op = TRUE
    /\ eag = "dead" /\ eag_check = 0 /\ eag_check_timeout = 0
    /\ used = [e \in Event |-> 0]

-----------------------------------------------------------------------------
(* The main board.                                                         *)

\* A hansi is configured: an entry is made and the service board told.  One
\* that is there already, being deleted or not, is left as it is.
config_remote_hansi ==
    /\ srv = "none" /\ gen < MaxGen
    /\ srv' = "present" /\ gen' = gen + 1
    /\ tocli' = Append(tocli, [op |-> CREATE, gen |-> gen'])
    /\ UNCHANGED <<asked, tosrv, inst, mgmt, monitor, leaving, mq, timers,
                   check_op, daemons, used>>

delete_remote_hansi_mutant ==
    /\ srv # "none"
    /\ \/ asked # gen /\ used' = used
       \/ asked = gen /\ used["repeat"] < MaxRepeat /\ used' = Count("repeat")
    /\ asked' = gen
    /\ srv' = "none"
    /\ tocli' = Append(tocli, [op |-> DELETE, gen |-> gen])
    /\ UNCHANGED <<gen, tosrv, inst, mgmt, monitor, leaving, mq, timers,
                   check_op, daemons>>

\* A hansi is deleted: the service board is told; the entry stays until it
\* answers.  Nothing keeps a user from asking again.
delete_remote_hansi ==
    /\ srv # "none"
    /\ \/ asked # gen /\ used' = used
       \/ asked = gen /\ used["repeat"] < MaxRepeat /\ used' = Count("repeat")
    /\ asked' = gen
    /\ tocli' = Append(tocli, [op |-> DELETE, gen |-> gen])
    /\ UNCHANGED <<srv, gen, tosrv, inst, mgmt, monitor, leaving, mq, timers,
                   check_op, daemons>>

\* The service board has begun to delete the hansi: delete_flag is set.
is_delete_hansi ==
    /\ tosrv # <<>> /\ Head(tosrv) = IS_DELETE
    /\ srv' = IF srv = "none" THEN "none" ELSE "deleting"
    /\ tosrv' = Tail(tosrv)
    /\ UNCHANGED <<gen, asked, tocli, inst, mgmt, monitor, leaving, mq,
                   timers, check_op, daemons, used>>

\* The service board has deleted the hansi: the entry is freed.
server_delete_hansi ==
    /\ tosrv # <<>> /\ Head(tosrv) = SERVER_DELETE
    /\ srv' = "none"
    /\ tosrv' = Tail(tosrv)
    /\ UNCHANGED <<gen, asked, tocli, inst, mgmt, monitor, leaving, mq,
                   timers, check_op, daemons, used>>

-----------------------------------------------------------------------------
(* Timers of the hansi.                                                    *)

\* HMDTimerRequest: a new timer takes the place of the one known.
Request ==
    /\ own' = TRUE
    /\ stray' = IF own THEN stray + 1 ELSE stray

\* HmdTimerCancel followed by HMDTimerRequest.
CancelAndRequest == own' = TRUE /\ stray' = stray

\* The ticker takes a timer that has gone off and looks for the instance.
HandleTimer_test ==
    /\ ~handler
    /\ \/ own /\ own' = FALSE /\ stray' = stray
       \/ stray > 0 /\ stray' = stray - 1 /\ own' = own
    /\ handler' = (inst # 0)
    /\ UNCHANGED <<server, tocli, tosrv, inst, mgmt, monitor, leaving, mq,
                   check_op, daemons, used>>

\* The ticker sends the check to the monitor, whether there still is one or
\* not.
HandleTimer_send ==
    /\ handler
    /\ handler' = FALSE
    /\ mq' = Append(mq, [op |-> CHECKING, gen |-> 0])
    /\ UNCHANGED <<server, tocli, tosrv, inst, mgmt, monitor, leaving, own,
                   stray, check_op, daemons, used>>

set_hansi_check_state_mutant ==
    /\ mgmt # "dead" /\ used["toggle"] < MaxToggle
    /\ used' = Count("toggle")
    /\ check_op' = ~check_op
    /\ UNCHANGED <<server, tocli, tosrv, inst, mgmt, monitor, leaving, mq,
                   timers, daemons>>

\* The checking is switched off, or on: then every instance gets a new timer.
set_hansi_check_state ==
    /\ mgmt # "dead" /\ used["toggle"] < MaxToggle
    /\ used' = Count("toggle")
    /\ check_op' = ~check_op
    /\ IF check_op' /\ inst # 0 THEN CancelAndRequest
                                ELSE UNCHANGED <<own, stray>>
    /\ UNCHANGED <<server, tocli, tosrv, inst, mgmt, monitor, leaving, mq,
                   handler, daemons>>

-----------------------------------------------------------------------------
(* The management thread of the service board.                             *)

Received(op) == mgmt = "idle" /\ tocli # <<>> /\ Head(tocli).op = op

\* CREATE makes the instance, unless there is one, and starts its daemons.
create_instance ==
    /\ Received(CREATE)
    /\ tocli' = Tail(tocli)
    /\ IF inst = 0
       THEN /\ inst' = Head(tocli).gen
            /\ mgmt' = "starting"
            /\ eag' = "runs" /\ eag_check' = 0 /\ eag_check_timeout' = 0
            /\ stray' = IF own THEN stray + 1 ELSE stray
            /\ own' = FALSE
       ELSE UNCHANGED <<inst, mgmt, daemons, own, stray>>
    /\ UNCHANGED <<server, tosrv, monitor, leaving, mq, handler, check_op,
                   used>>

\* The monitor thread is created; if that fails the management thread ends.
create_monitor ==
    /\ mgmt = "starting"
    /\ \/ mgmt' = "requesting" /\ monitor' = "init"
       \/ ThreadFails /\ mgmt' = "ended" /\ monitor' = monitor
    /\ UNCHANGED <<server, tocli, tosrv, inst, leaving, mq, timers, check_op,
                   daemons, used>>

\* The first timer is asked for, through the instance.
first_timer ==
    /\ mgmt = "requesting" /\ inst # 0
    /\ mgmt' = "idle"
    /\ Request
    /\ UNCHANGED <<server, tocli, tosrv, inst, monitor, leaving, mq, handler,
                   check_op, daemons, used>>

\* The instance is gone by then: hmd writes through a null pointer and dies.
first_timer_fault ==
    /\ mgmt = "requesting" /\ inst = 0
    /\ mgmt' = "dead" /\ monitor' = "none" /\ leaving' = 0
    /\ own' = FALSE /\ stray' = 0 /\ handler' = FALSE
    /\ UNCHANGED <<server, tocli, tosrv, inst, mq, check_op, daemons, used>>

forward_delete_mutant ==
    /\ Received(DELETE)
    /\ tocli' = Tail(tocli)
    /\ mq' = mq \o <<Head(tocli), Head(tocli)>>
    /\ UNCHANGED <<server, tosrv, inst, mgmt, monitor, leaving, timers,
                   check_op, daemons, used>>

\* DELETE is passed on to the monitor, whether there is one or not.
forward_delete ==
    /\ Received(DELETE)
    /\ tocli' = Tail(tocli)
    /\ mq' = Append(mq, Head(tocli))
    /\ UNCHANGED <<server, tosrv, inst, mgmt, monitor, leaving, timers,
                   check_op, daemons, used>>

-----------------------------------------------------------------------------
(* The monitor thread of the hansi.                                        *)

\* It opens its dbus connection and TIPC socket, or ends.
HMDHansiMonitor_init ==
    /\ monitor = "init"
    /\ monitor' \in {"idle"} \cup (IF ThreadFails THEN {"none"} ELSE {})
    /\ UNCHANGED <<server, tocli, tosrv, inst, mgmt, leaving, mq, timers,
                   check_op, daemons, used>>

Taken(op) == monitor = "idle" /\ mq # <<>> /\ Head(mq).op = op /\ mq' = Tail(mq)

\* HANSI_CHECKING begins; while the checking is off it does nothing.
HANSI_CHECKING_begin ==
    /\ Taken(CHECKING)
    /\ monitor' = IF check_op THEN "checking" ELSE "idle"
    /\ UNCHANGED <<server, tocli, tosrv, inst, mgmt, leaving, timers,
                   check_op, daemons, used>>

hansi_eag_checking_late ==
    LET errors == IF eag = "dead" THEN eag_check + 1 ELSE eag_check
        silent == IF eag = "hangs" THEN eag_check_timeout + 1
                                   ELSE eag_check_timeout
        reload == errors >= EAG_FAILS \/ silent > EAG_TIMEOUTS
    IN IF eag = "runs" \/ reload
       THEN eag' = "runs" /\ eag_check' = 0 /\ eag_check_timeout' = 0
       ELSE eag' = eag /\ eag_check' = errors /\ eag_check_timeout' = silent

hansi_eag_checking_mutant ==
    LET errors == IF eag = "dead" THEN eag_check + 1 ELSE eag_check
        reload == errors >= EAG_FAILS
    IN IF eag = "runs" \/ reload
       THEN eag' = "runs" /\ eag_check' = 0 /\ eag_check_timeout' = 0
       ELSE eag' = eag /\ eag_check' = errors /\ eag_check_timeout' = 0

\* eag is asked for its status.  Its answer clears both counters; a call that
\* ends in an error and one that is not answered are counted apart, and
\* either counter at its limit has eag reloaded.
hansi_eag_checking ==
    LET errors == IF eag = "dead" THEN eag_check + 1 ELSE eag_check
        silent == IF eag = "hangs" THEN eag_check_timeout + 1
                                   ELSE eag_check_timeout
        reload == errors >= EAG_FAILS \/ silent >= EAG_TIMEOUTS
    IN IF eag = "runs" \/ reload
       THEN eag' = "runs" /\ eag_check' = 0 /\ eag_check_timeout' = 0
       ELSE eag' = eag /\ eag_check' = errors /\ eag_check_timeout' = silent

\* HANSI_CHECKING ends: eag is checked, and the next check is asked for.
\* Without its instance neither is done.
HANSI_CHECKING_end ==
    /\ monitor = "checking"
    /\ monitor' = "idle"
    /\ IF inst # 0 THEN hansi_eag_checking /\ Request
                   ELSE UNCHANGED <<daemons, own, stray>>
    /\ UNCHANGED <<server, tocli, tosrv, inst, mgmt, leaving, mq, handler,
                   check_op, used>>

\* HANSI_DELETE cancels the timer and tells the main board that the hansi is
\* being deleted.
HANSI_DELETE_begin ==
    /\ Taken(DELETE)
    /\ monitor' = "deleting"
    /\ own' = FALSE
    /\ tosrv' = Append(tosrv, IS_DELETE)
    /\ UNCHANGED <<server, tocli, inst, mgmt, leaving, stray, handler,
                   check_op, daemons, used>>

HANSI_DELETE_notice_mutant ==
    /\ monitor = "deleting"
    /\ monitor' = "notified"
    /\ UNCHANGED <<server, tocli, tosrv, inst, mgmt, leaving, mq, timers,
                   check_op, daemons, used>>

\* had is disabled, wid has quit: it tells the main board to free the entry.
HANSI_DELETE_notice ==
    /\ monitor = "deleting"
    /\ monitor' = "notified"
    /\ tosrv' = Append(tosrv, SERVER_DELETE)
    /\ UNCHANGED <<server, tocli, inst, mgmt, leaving, mq, timers, check_op,
                   daemons, used>>

\* It frees the instance.
HANSI_DELETE_free ==
    /\ monitor = "notified"
    /\ monitor' = "none" /\ inst' = 0 /\ leaving' = leaving + 1
    /\ UNCHANGED <<server, tocli, tosrv, mgmt, mq, timers, check_op, daemons,
                   used>>

\* It stops eag, and ends.
HANSI_DELETE_EAG ==
    /\ leaving > 0
    /\ leaving' = leaving - 1
    /\ eag' = "dead"
    /\ UNCHANGED <<server, tocli, tosrv, inst, mgmt, monitor, mq, timers,
                   check_op, eag_check, eag_check_timeout, used>>

-----------------------------------------------------------------------------
(* The surroundings.                                                       *)

\* A message between the boards is lost.
Lose ==
    /\ used["loss"] < MaxLoss
    /\ used' = Count("loss")
    /\ \/ tocli # <<>> /\ tocli' = Tail(tocli) /\ tosrv' = tosrv
       \/ tosrv # <<>> /\ tosrv' = Tail(tosrv) /\ tocli' = tocli
    /\ UNCHANGED <<server, inst, mgmt, monitor, leaving, mq, timers, check_op,
                   daemons>>

\* eag dies by itself, or hangs.
EagFails ==
    /\ used["crash"] < MaxCrash
    /\ used' = Count("crash")
    /\ \/ eag # "dead" /\ eag' = "dead"
       \/ eag = "runs" /\ eag' = "hangs"
    /\ UNCHANGED <<server, tocli, tosrv, inst, mgmt, monitor, leaving, mq,
                   timers, check_op, eag_check, eag_check_timeout>>

\* An eag that hung answers again.
EagResumes ==
    /\ eag = "hangs"
    /\ eag' = "runs"
    /\ UNCHANGED <<server, tocli, tosrv, inst, mgmt, monitor, leaving, mq,
                   timers, check_op, eag_check, eag_check_timeout, used>>

Server == is_delete_hansi \/ server_delete_hansi
User == config_remote_hansi \/ delete_remote_hansi \/ set_hansi_check_state
Ticker == HandleTimer_test \/ HandleTimer_send
Management ==
    \/ create_instance \/ create_monitor
    \/ first_timer \/ first_timer_fault
    \/ forward_delete
Monitor ==
    \/ HMDHansiMonitor_init
    \/ HANSI_CHECKING_begin \/ HANSI_CHECKING_end
    \/ HANSI_DELETE_begin \/ HANSI_DELETE_notice \/ HANSI_DELETE_free

Next ==
    \/ Server \/ User \/ Ticker \/ Management \/ Monitor
    \/ HANSI_DELETE_EAG \/ Lose \/ EagFails \/ EagResumes

Spec == Init /\ [][Next]_vars

\* Every thread that can go on does: the ticker serves its timers
\* (HmdTimer), the others block only to receive.
FairSpec ==
    /\ Spec
    /\ WF_vars(Server) /\ WF_vars(Ticker) /\ WF_vars(Management)
    /\ WF_vars(Monitor) /\ WF_vars(HANSI_DELETE_EAG)

-----------------------------------------------------------------------------
\* The kinds of the variables, and eag is reloaded in time.
TypeOK ==
    /\ srv \in {"none", "present", "deleting"}
    /\ gen \in 0..MaxGen /\ asked \in 0..gen
    /\ tocli \in Seq(Msg) /\ mq \in Seq(Msg)
    /\ tosrv \in Seq({IS_DELETE, SERVER_DELETE})
    /\ inst \in 0..gen
    /\ mgmt \in {"idle", "starting", "requesting", "ended", "dead"}
    /\ monitor \in {"none", "init", "idle", "checking", "deleting", "notified"}
    /\ leaving \in Nat
    /\ own \in BOOLEAN /\ stray \in Nat /\ handler \in BOOLEAN
    /\ check_op \in BOOLEAN
    /\ eag \in {"runs", "hangs", "dead"}
    /\ eag_check \in 0..EAG_FAILS - 1
    /\ eag_check_timeout \in 0..EAG_TIMEOUTS - 1
    /\ used \in [Event -> Nat]

\* There is a message op in a queue.
Has(s, op) == \E i \in 1..Len(s) : s[i].op = op

\* The monitor thread runs and is not deleting the hansi.
Alive == monitor \in {"init", "idle", "checking"}

\* Something that leads to another check is under way.
CheckDue ==
    \/ own \/ stray > 0 \/ handler
    \/ monitor = "checking"
    \/ mgmt \in {"starting", "requesting"}
    \/ Has(mq, CHECKING)

\* The chain of checks never breaks: timer, handler, message and check pass
\* it on, and each can be overtaken by a switch of HANSI_CHECK_OP, by a
\* deletion or by the next incarnation (HANSI_CHECKING, HmdHandleTimer,
\* hmd_dbus_interface_set_hansi_check_state).
ChainAlive == Alive /\ check_op => CheckDue

\* The main board frees its entry only when the service board has no use for
\* the hansi any more, whatever is lost and whichever thread fails: a hansi it
\* does not know of is at most being freed (the comment in
\* hmd_dbus_interface_delete_remote_hansi: "only if service board delete
\* hansi ,master control board delete hansi").
NoOrphan == srv = "none" /\ inst # 0 => monitor = "notified"

\* A monitor that runs has its instance, and so has the management thread
\* when it asks for the first timer through it (HMDManagementC, HMD_CREATE),
\* unless a deletion was asked for twice.
NoUseAfterFree ==
    /\ monitor # "none" => inst # 0
    /\ mgmt = "requesting" /\ inst = 0 => used["repeat"] > 0

\* A monitor deletes the incarnation whose deletion was asked for, never a
\* later one that finds the message in the queue, unless a deletion was asked
\* for twice (HANSI_DELETE, the queue is never cleared).
DeletesWhatWasAsked ==
    [][monitor # "deleting" /\ monitor' = "deleting" =>
        Head(mq).gen = inst \/ used["repeat"] > 0]_vars

\* A deletion that reaches the monitor completes: the main board frees its
\* entry, unless a message is lost (HANSI_DELETE, HMD_SERVER_DELETE_HANSI).
DeleteCompletes ==
    (monitor = "idle" /\ Has(mq, DELETE)) ~> (srv = "none" \/ used["loss"] > 0)

\* An eag that has died or hangs, or that the monitor of an earlier
\* incarnation has stopped late, is brought back by the checks
\* (hansi_eag_checking), as long as the hansi is there and checked.
EagHealed == (Alive /\ check_op) ~> (eag = "runs" \/ ~(Alive /\ check_op))

=============================================================================
