------------------------------- MODULE TimerSet -------------------------------
(* What a collection of timers promises: a clock, a deadline for every armed
   timer, and an operation that hands out the due timers one by one. The timing
   wheel of TimingWheel.tla is shown to implement it.                        *)
EXTENDS Naturals

CONSTANTS
    Timers,     \* the timers
    Repeating,  \* those that are armed again when they are handed out
    MaxTime,    \* bound on the clock and on the times given
    Null,       \* no timer, no deadline
    Idle        \* the last operation was not Get

VARIABLES
    now,        \* the clock
    deadline,   \* of every timer: when it is due, or Null
    period,     \* of every timer: the interval of a repeating one
    got         \* what Get answered

vars == <<now, deadline, period, got>>

Due == {t \in Timers : deadline[t] # Null /\ deadline[t] <= now}

Init ==
    /\ now = 0
    /\ deadline = [t \in Timers |-> Null]
    /\ period = [t \in Timers |-> 0]
    /\ got = Idle

\* Arming a timer, armed or not, replaces its deadline.
Arm(t) ==
    /\ \E e \in 0 .. 2 * MaxTime : deadline' = [deadline EXCEPT ![t] = e]
    /\ \E i \in 0 .. MaxTime : period' = [period EXCEPT ![t] = i]
    /\ got' = Idle
    /\ UNCHANGED now

\* Only a timer that is not due yet can be cancelled.
Cancel(t) ==
    /\ t \notin Due
    /\ deadline' = [deadline EXCEPT ![t] = Null]
    /\ got' = Idle
    /\ UNCHANGED <<now, period>>

Advance ==
    /\ now' \in now .. MaxTime
    /\ got' = Idle
    /\ UNCHANGED <<deadline, period>>

\* A repeating timer is next due at the first multiple of its period after its
\* last deadline that is still to come.
NextDeadline(t, e) ==
    IF t \in Repeating
    THEN /\ e \in (now + 1) .. (now + period[t])
         /\ (e - deadline[t]) % period[t] = 0
    ELSE e = Null

\* Get answers a due timer; it answers that there is none only if there is none.
Get ==
    \/ \E t \in Due :
          /\ got' = t
          /\ \E e \in (0 .. 2 * MaxTime) \cup {Null} :
                /\ NextDeadline(t, e)
                /\ deadline' = [deadline EXCEPT ![t] = e]
          /\ UNCHANGED <<now, period>>
    \/ /\ Due = {}
       /\ got' = Null
       /\ UNCHANGED <<now, deadline, period>>

\* The collection is destroyed with the timers in it, and a new one is opened.
Reopen ==
    /\ now' = 0
    /\ deadline' = [t \in Timers |-> Null]
    /\ got' = Idle
    /\ UNCHANGED period

Next ==
    \/ \E t \in Timers : Arm(t) \/ Cancel(t)
    \/ Advance
    \/ Get
    \/ Reopen

Spec == Init /\ [][Next]_vars
===============================================================================
