------------------------------ MODULE HmdTimer ------------------------------
(***************************************************************************)
(* The timer library of hmd (HmdTimeLib.c): callers add and remove timers  *)
(* in a queue, the ticker thread (cronometer) arms the one interval timer  *)
(* of the process for the first of them, waits in sigwait for SIGALRM and  *)
(* runs the handler.                                                       *)
(*                                                                         *)
(* What is done under timerq.mutex is one step.  The ticker gives the      *)
(* mutex up while it waits for the condition or the signal and while a     *)
(* handler runs, and callers get in between.  Times are microseconds; the  *)
(* time of day, by which timers are due, can be set, and the interval      *)
(* timer does not notice.                                                  *)
(***************************************************************************)
EXTENDS Integers, Sequences, SequencesExt

CONSTANTS
    MICRO_PER_SEC,  \* microseconds in a second
    ALMOST_NOW,     \* interval for a timer that is already due
    Delay,          \* the delays callers ask for
    MaxTime,        \* bound: the time of day
    MaxId,          \* bound: timers added
    MaxJump         \* bound: times the time of day is set

ASSUME TimerAssumption ==
    /\ MICRO_PER_SEC \in Nat \ {0}
    /\ ALMOST_NOW \in Nat \ {0}
    /\ Delay \subseteq Nat \ {0}
    /\ {MaxTime, MaxId, MaxJump} \subseteq Nat

VARIABLES
    now,        \* gettimeofday
    queue,      \* timerq, first to last
    cur_id,     \* timerq.cur_id
    ticker,     \* where the ticker thread is
    alarm,      \* what is left of the interval timer; 0: it is not running
    sigalrm,    \* SIGALRM is pending
    running,    \* the timer whose handler the ticker runs, if any
    jumps       \* times the time of day has been set

vars == <<now, queue, cur_id, ticker, alarm, sigalrm, running, jumps>>

Timer == [id : Nat, timeout : Nat, in_use : BOOLEAN, cancelled : BOOLEAN]

\* "lock": before the mutex at the top of the loop; "cond": in
\* pthread_cond_wait; "sigwait"; "woken": after sigwait, before the mutex;
\* "handler": in hdl(hdl_arg).
Place == {"lock", "cond", "sigwait", "woken", "handler"}

-----------------------------------------------------------------------------
\* TV_MINUS, for t1 later than t2.  The borrow is MAX_USEC, one microsecond
\* less than a second.  A mutant has the two the wrong way round.
TV_MINUS_mutant(t1, t2) == t2 - t1
TV_MINUS(t1, t2) ==
    IF t1 % MICRO_PER_SEC >= t2 % MICRO_PER_SEC THEN t1 - t2 ELSE t1 - t2 - 1

\* timer_start: the value given to setitimer, for which 0 means off
timer_start(abs_to) == IF now < abs_to THEN TV_MINUS(abs_to, now) ELSE ALMOST_NOW

\* A new timer of time t goes behind the first k, before the first one that is
\* strictly later.  A mutant puts it last.
Ahead_mutant(k, t) == k = Len(queue)
Ahead(k, t) ==
    /\ \A i \in 1 .. k : queue[i].timeout <= t
    /\ k < Len(queue) => t < queue[k + 1].timeout

-----------------------------------------------------------------------------
Init ==
    /\ now = 0
    /\ queue = <<>>
    /\ cur_id = 0
    /\ ticker = "lock"
    /\ alarm = 0
    /\ sigalrm = FALSE
    /\ running = {}
    /\ jumps = 0

\* timer_add, behind the first k timers.  A mutant does not signal the
\* condition.
timer_add_mutant(d, k) ==
    LET app == [id |-> cur_id, timeout |-> now + d,
                in_use |-> k = 0, cancelled |-> FALSE]
    IN  /\ cur_id < MaxId
        /\ now + d <= MaxTime
        /\ Ahead(k, now + d)
        /\ cur_id' = cur_id + 1
        /\ queue' = InsertAt(queue, k + 1, app)
        /\ sigalrm' = (sigalrm \/ k = 0)
        /\ UNCHANGED <<now, ticker, alarm, running, jumps>>

timer_add(d, k) ==
    LET app(u) == [id |-> cur_id, timeout |-> now + d,
                   in_use |-> u, cancelled |-> FALSE]
    IN  /\ cur_id < MaxId
        /\ now + d <= MaxTime
        /\ Ahead(k, now + d)
        /\ cur_id' = cur_id + 1
        /\ IF queue # <<>> /\ k = 0
           THEN /\ queue' = InsertAt([queue EXCEPT ![1].in_use = FALSE], 1, app(TRUE))
                /\ sigalrm' = TRUE
           ELSE /\ queue' = InsertAt(queue, k + 1, app(FALSE))
                /\ UNCHANGED sigalrm
        /\ ticker' = IF queue = <<>> /\ ticker = "cond" THEN "lock" ELSE ticker
        /\ UNCHANGED <<now, alarm, running, jumps>>

\* timer_rem, of a timer that is in the queue; otherwise it does nothing.  A
\* mutant takes the timer out although the ticker waits for it.
timer_rem_mutant(i) ==
    /\ queue' = RemoveAt(queue, i)
    /\ UNCHANGED <<now, cur_id, ticker, alarm, sigalrm, running, jumps>>

timer_rem(i) ==
    /\ queue' = IF queue[i].in_use THEN [queue EXCEPT ![i].cancelled = TRUE]
                ELSE RemoveAt(queue, i)
    /\ UNCHANGED <<now, cur_id, ticker, alarm, sigalrm, running, jumps>>

-----------------------------------------------------------------------------
\* cronometer, from the top of the loop to a wait
cronometer_wait ==
    /\ ticker = "lock"
    /\ IF queue = <<>>
       THEN /\ ticker' = "cond"
            /\ UNCHANGED <<queue, alarm>>
       ELSE /\ alarm' = timer_start(queue[1].timeout)
            /\ queue' = [queue EXCEPT ![1].in_use = TRUE]
            /\ ticker' = "sigwait"
    /\ UNCHANGED <<now, cur_id, sigalrm, running, jumps>>

\* sigwait returns; however often SIGALRM was sent, it is pending once.
cronometer_sigwait ==
    /\ ticker = "sigwait"
    /\ sigalrm
    /\ sigalrm' = FALSE
    /\ ticker' = "woken"
    /\ UNCHANGED <<now, queue, cur_id, alarm, running, jumps>>

\* The first timer is dropped when it was cancelled and left when it is not
\* due; else its handler runs.  A mutant does not look at the time again.
cronometer_wake_mutant ==
    /\ ticker = "woken"
    /\ IF queue[1].cancelled
       THEN /\ ticker' = "lock"
            /\ UNCHANGED running
       ELSE /\ ticker' = "handler"
            /\ running' = {queue[1]}
    /\ queue' = Tail(queue)
    /\ UNCHANGED <<now, cur_id, alarm, sigalrm, jumps>>

cronometer_wake ==
    /\ ticker = "woken"
    /\ IF queue = <<>> \/ (~queue[1].cancelled /\ now < queue[1].timeout)
       THEN /\ ticker' = "lock"
            /\ UNCHANGED <<queue, running>>
       ELSE /\ queue' = Tail(queue)
            /\ IF queue[1].cancelled
               THEN /\ ticker' = "lock"
                    /\ UNCHANGED running
               ELSE /\ ticker' = "handler"
                    /\ running' = {queue[1]}
    /\ UNCHANGED <<now, cur_id, alarm, sigalrm, jumps>>

cronometer_return ==
    /\ ticker = "handler"
    /\ ticker' = "lock"
    /\ running' = {}
    /\ UNCHANGED <<now, queue, cur_id, alarm, sigalrm, jumps>>

-----------------------------------------------------------------------------
\* A microsecond passes.  At MaxTime the time of day stands still and only the
\* interval timer goes on.
Tick ==
    /\ now' = IF now < MaxTime THEN now + 1 ELSE now
    /\ alarm' = IF alarm > 0 THEN alarm - 1 ELSE 0
    /\ sigalrm' = (sigalrm \/ alarm = 1)
    /\ UNCHANGED <<queue, cur_id, ticker, running, jumps>>

\* The time of day is set.
SetClock(t) ==
    /\ jumps < MaxJump
    /\ jumps' = jumps + 1
    /\ now' = t
    /\ UNCHANGED <<queue, cur_id, ticker, alarm, sigalrm, running>>

Next ==
    \/ \E d \in Delay, k \in 0 .. Len(queue) : timer_add(d, k)
    \/ \E i \in DOMAIN queue : timer_rem(i)
    \/ cronometer_wait
    \/ cronometer_sigwait
    \/ cronometer_wake
    \/ cronometer_return
    \/ Tick
    \/ \E t \in 0 .. MaxTime : SetClock(t)

Spec == Init /\ [][Next]_vars

\* The ticker thread keeps being scheduled, handlers return, time passes.
Fairness ==
    /\ WF_vars(cronometer_wait)
    /\ WF_vars(cronometer_sigwait)
    /\ WF_vars(cronometer_wake)
    /\ WF_vars(cronometer_return)
    /\ WF_vars(Tick)

FairSpec == Spec /\ Fairness

-----------------------------------------------------------------------------
\* The kinds of the variables; an interval given to setitimer is never
\* negative.
TypeOK ==
    /\ now \in Nat
    /\ queue \in Seq(Timer)
    /\ cur_id \in Nat
    /\ ticker \in Place
    /\ alarm \in Nat
    /\ sigalrm \in BOOLEAN
    /\ running \subseteq Timer
    /\ jumps \in Nat

\* The queue is ordered by time, earliest first, and the only timer that can be
\* marked as the one the ticker waits for is its first: timer_rem relies on
\* the mark to leave that timer in place, timer_add moves it.
QueueInOrder ==
    /\ \A i \in 1 .. Len(queue) - 1 : queue[i].timeout <= queue[i + 1].timeout
    /\ \A i \in 2 .. Len(queue) : ~queue[i].in_use

\* The ticker waits for the interval timer with no signal on its way.
Disarmed == ticker = "sigwait" /\ ~sigalrm /\ alarm = 0

\* No wake-up is lost.  A ticker in pthread_cond_wait has nothing to do; one in
\* sigwait waits for the first timer of the queue, marked as such, and SIGALRM
\* is pending or the interval timer runs and, unless the clock was set, rings
\* by the time that timer is due or ALMOST_NOW later.  There is one exception,
\* the interval computed as 0 one microsecond before a full second.
WakeupComes ==
    /\ ticker = "cond" => queue = <<>>
    /\ ticker \in {"sigwait", "woken"} => queue # <<>> /\ queue[1].in_use
    /\ ticker = "sigwait" /\ ~sigalrm =>
        \/ /\ alarm > 0
           /\ jumps = 0 => alarm <= ALMOST_NOW \/ now + alarm <= queue[1].timeout
        \/ /\ alarm = 0
           /\ queue[1].timeout % MICRO_PER_SEC = 0

\* A timer as callers know it
Seen(timer) == [id |-> timer.id, timeout |-> timer.timeout]

Pending == {Seen(queue[i]) : i \in {k \in DOMAIN queue : ~queue[k].cancelled}}

Service == INSTANCE HmdTimerService WITH
    pending <- Pending,
    running <- {Seen(timer) : timer \in running},
    next <- cur_id

\* The library keeps its promise: through all interleavings of callers and
\* ticker a handler never runs early, never after its timer was removed while
\* it waited, never twice, and no timer is lost on the way.
KeepsService == Service!Spec

Waits(id) == \E i \in DOMAIN queue : queue[i].id = id /\ ~queue[i].cancelled

\* Every timer runs in the end or is removed, also after the time of day was
\* set, unless the ticker got stuck with the interval timer off.
EveryTimerServed ==
    \A id \in 0 .. MaxId - 1 : Waits(id) ~> (~Waits(id) \/ Disarmed)
=============================================================================
