-------------------------- MODULE HmdTimerService --------------------------
(***************************************************************************)
(* What the timer library of hmd promises its callers (HmdTimeLib.h): a    *)
(* timer that was added and is not removed runs its handler once, at its   *)
(* time or later; a timer that was removed in time never does; handlers    *)
(* run one at a time.  The clock is the time of day and can be set.        *)
(***************************************************************************)
EXTENDS Integers

CONSTANT Delay  \* the delays callers ask for

VARIABLES
    now,        \* the time of day
    pending,    \* the timers that wait
    running,    \* the timer whose handler runs, if any
    next        \* the id of the next timer

serviceVars == <<now, pending, running, next>>

Init ==
    /\ now \in Nat
    /\ pending = {}
    /\ running = {}
    /\ next = 0

\* Every timer gets an id of its own and a time that is still to come.
Add(d) ==
    /\ d > 0
    /\ pending' = pending \cup {[id |-> next, timeout |-> now + d]}
    /\ next' = next + 1
    /\ UNCHANGED <<now, running>>

Remove(timer) ==
    /\ pending' = pending \ {timer}
    /\ UNCHANGED <<now, running, next>>

Fire(timer) ==
    /\ running = {}
    /\ timer.timeout <= now
    /\ pending' = pending \ {timer}
    /\ running' = {timer}
    /\ UNCHANGED <<now, next>>

Return ==
    /\ running # {}
    /\ running' = {}
    /\ UNCHANGED <<now, pending, next>>

Clock ==
    /\ now' \in Nat
    /\ UNCHANGED <<pending, running, next>>

Next ==
    \/ \E d \in Delay : Add(d)
    \/ \E timer \in pending : Remove(timer) \/ Fire(timer)
    \/ Return
    \/ Clock

Spec == Init /\ [][Next]_serviceVars
=============================================================================
