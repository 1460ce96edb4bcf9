------------------------------- MODULE ITimer -------------------------------
(***************************************************************************)
(* The application timers: a thread of its own, _ITimerThread, sleeps for  *)
(* the count of the first timer of the line, and then charges the line     *)
(* with the time it really slept.  Starting a timer charges the head with  *)
(* the time since the last charge and wakes the thread.                    *)
(***************************************************************************)
EXTENDS Timer

CONSTANTS
    IdleTick,   \* LW_ITIMER_IDLE_TICK: how long the thread sleeps on no timer
    MaxDelay,   \* ticks until the scheduler lets the woken thread run
    MaxTime     \* bound: ticks

ASSUME IdleTickAssumption == IdleTick \in Nat \ {0}
ASSUME MaxDelayAssumption == MaxDelay \in Nat
ASSUME MaxTimeAssumption == MaxTime \in Nat

VARIABLES
    now,        \* the kernel time
    at,         \* where the thread is: "start", "sleep" or "calling"
    until,      \* when its sleep ends
    noTimer,    \* bNoTimer: it went to sleep on an empty line
    charge,     \* ulCounter: what its scan has left to charge
    due,        \* history: when each timer is due at the earliest
    early,      \* history: a timer was called before that
    mixed       \* history: a timer was put on the line in the middle of a scan
                \* that had ticks left to charge to the line

thread == <<at, until, noTimer, charge>>
ITimerVars == <<w, tmr, now, thread, due, early, mixed>>

ITimerInit ==
    /\ w = [Empty EXCEPT !.last = 1]
    /\ tmr = [t \in Timers |-> Unused]
    /\ now = 1
    /\ at = "start" /\ until = 0 /\ noTimer = FALSE /\ charge = 0
    /\ due = [t \in Timers |-> 0]
    /\ early = FALSE
    /\ mixed = FALSE

\* A thread on the delay line leaves it at a tick.  On a count that is used up
\* it sleeps until the next one.
Delay(counter) == IF counter = 0 THEN 1 ELSE counter

\* The thread sets the time it counts from and goes to sleep.
Sleep ==
    /\ at = "start"
    /\ w' = [w EXCEPT !.last = now]
    /\ at' = "sleep"
    /\ noTimer' = (w.line = <<>>)
    /\ until' = now + IF w.line = <<>> THEN IdleTick
                      ELSE Delay(w.line[1].counter)
    /\ mixed' = (mixed /\ w.line # <<>>)
    /\ UNCHANGED <<tmr, now, charge, due, early>>

\* The scan goes on to the next due timer, or ends and the loop starts again.
ITimerScan(from, n) ==
    \/ /\ PassDue(from, n)
       /\ Fire(PassNode(from, n), from.op)
       /\ at' = "calling"
       /\ charge' = PassLeft(from, n)
       /\ early' = (early \/ (now < due[from.op] /\ ~mixed))
       /\ mixed' = (mixed \/ (tmr[from.op].auto /\ PassLeft(from, n) > 0))
       /\ due' = [due EXCEPT ![from.op] =
                     IF tmr[from.op].auto THEN @ + tmr[from.op].save ELSE 0]
    \/ /\ ~PassDue(from, n)
       /\ w' = IF from.op = Null THEN from ELSE PassNode(from, n)
       /\ at' = "start"
       /\ charge' = 0
       /\ UNCHANGED <<tmr, due, early, mixed>>

\* The thread has slept.  On no timer it only starts again.
Awake ==
    /\ at = "sleep" /\ now >= until
    /\ until' = 0 /\ noTimer' = FALSE
    /\ \/ /\ noTimer
          /\ at' = "start"
          /\ UNCHANGED <<w, tmr, charge, due, early, mixed>>
       \/ /\ ~noTimer
          /\ ITimerScan(PassFirst([w EXCEPT !.last = now]), now - w.last)
    /\ UNCHANGED now

ITimerReturns ==
    /\ at = "calling"
    /\ ITimerScan(w, charge)
    /\ UNCHANGED <<now, until, noTimer>>

\* _ITimerWakeup ends the sleep of the thread.
ITimerWakeupLost == UNCHANGED until

ITimerWakeup == until' = IF at = "sleep" /\ until > now THEN now ELSE until

Start(t, init, count, auto) ==
    /\ TimerStartEx(t, init, count, auto, TRUE, now)
    /\ ITimerWakeup
    /\ due' = [due EXCEPT ![t] = now + init]
    /\ mixed' = (mixed \/ (w.op # Null /\ charge > 0))
    /\ UNCHANGED <<now, at, noTimer, charge, early>>

Reset(t) ==
    /\ TimerReset(t, TRUE, now)
    /\ ITimerWakeup
    /\ due' = [due EXCEPT ![t] = now + tmr[t].save]
    /\ mixed' = (mixed \/ (w.op # Null /\ charge > 0))
    /\ UNCHANGED <<now, at, noTimer, charge, early>>

Stop(t) ==
    /\ TimerCancel(t, TRUE, now) \/ TimerDelete(t, TRUE, now)
    /\ due' = [due EXCEPT ![t] = 0]
    /\ UNCHANGED <<now, thread, early, mixed>>

Create(t) ==
    /\ TimerCreate(t)
    /\ UNCHANGED <<now, thread, due, early, mixed>>

\* Time passes; a thread that is to run does so within MaxDelay ticks.
Tick ==
    /\ now < MaxTime
    /\ at = "sleep" => now < until + MaxDelay
    /\ now' = now + 1
    /\ UNCHANGED <<w, tmr, thread, due, early, mixed>>

ITimerNext ==
    \/ Sleep \/ Awake \/ ITimerReturns \/ Tick
    \/ \E t \in Timers :
          \/ Create(t) \/ Reset(t) \/ Stop(t)
          \/ \E init, count \in Counts, auto \in BOOLEAN :
                Start(t, init, count, auto)

ITimerSpec == ITimerInit /\ [][ITimerNext]_ITimerVars

-----------------------------------------------------------------------------
\* The thread never oversleeps: whatever is started, reset, cancelled or deleted
\* while it sleeps, its sleep ends when the first timer is due by the line's
\* count, or before; when that count is used up, at the next tick.
ThreadWakesInTime ==
    at = "sleep" /\ w.line # <<>> => until <= w.last + Delay(w.line[1].counter)

\* No timer is called before its count has passed: WUN_ulCounter is the time to
\* wait relative to the node before (k_class.h), however late the thread runs
\* and long the routines take, and while timers are started, reset, cancelled
\* and deleted during a scan.  The one exception are timers that were on a line
\* to which another was added (by _WakeupAdd, in the scan or by a caller) while
\* the scan still had ticks to charge: those ticks are then charged beside a
\* node that was counted without them.
NeverEarly == ~early
=============================================================================
