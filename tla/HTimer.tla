------------------------------- MODULE HTimer -------------------------------
(***************************************************************************)
(* The hardware timers: API_TimerHTicks, called at each tick, scans the    *)
(* line with one tick to charge.  It lets go of the kernel while it calls  *)
(* the routine of a timer, and routines, threads and interrupts may start, *)
(* cancel, reset, delete and create timers meanwhile.                      *)
(***************************************************************************)
EXTENDS Timer

VARIABLES
    calling,    \* the timer whose routine the scan is calling, or Null
    ticks       \* ulCounter: what the scan has left to charge

vars == <<w, tmr, calling, ticks>>

Init ==
    /\ w = Empty
    /\ tmr = [t \in Timers |-> Unused]
    /\ calling = Null
    /\ ticks = 0

\* The scan goes on from a line and a count to the next due timer, or ends.
Scan(from, n) ==
    \/ /\ PassDue(from, n)
       /\ Fire(PassNode(from, n), from.op)
       /\ calling' = from.op
       /\ ticks' = PassLeft(from, n)
    \/ /\ ~PassDue(from, n)
       /\ w' = IF from.op = Null THEN from ELSE PassNode(from, n)
       /\ calling' = Null
       /\ ticks' = 0
       /\ UNCHANGED tmr

TimerHTicks == calling = Null /\ Scan(PassFirst(w), 1)

RoutineReturns == calling # Null /\ Scan(w, ticks)

User ==
    /\ \E t \in Timers :
          \/ TimerCreate(t)
          \/ TimerCancel(t, FALSE, 0)
          \/ TimerReset(t, FALSE, 0)
          \/ TimerDelete(t, FALSE, 0)
          \/ \E init, count \in Counts, auto \in BOOLEAN :
                TimerStartEx(t, init, count, auto, FALSE, 0)
    /\ UNCHANGED <<calling, ticks>>

Next == TimerHTicks \/ RoutineReturns \/ User

Spec == Init /\ [][Next]_vars

-----------------------------------------------------------------------------
TypeOK ==
    /\ w.line \in Seq([node : Timers, counter : Nat])
    /\ w.op \in Timers \union {Null} /\ w.last = 0
    /\ tmr \in [Timers -> Block]
    /\ calling \in Timers \union {Null}
    /\ ticks \in 0 .. 1

\* The line holds each running timer once and no other, and the place the scan
\* keeps while a routine runs is a timer of the line still, whatever was
\* cancelled, deleted or started meanwhile: the scan never follows a node that
\* is gone.
ScanStaysOnLine ==
    /\ IsInjective([i \in DOMAIN w.line |-> w.line[i].node])
    /\ {w.line[i].node : i \in DOMAIN w.line} = {t \in Timers : tmr[t].running}
    /\ w.op # Null => tmr[w.op].running

Countdown == INSTANCE TimerCountdown WITH
    left <- [t \in Timers |->
                IF tmr[t].running THEN WakeupStatus(w, t, 0) ELSE 0]

\* The list of differences implements the counters it stands for: through every
\* mixture of ticks, routines and calls, each timer is called at the tick its
\* count asks for, never early and never late, and API_TimerStatus shows what
\* is left.
CountsDown == Countdown!Spec
=============================================================================
