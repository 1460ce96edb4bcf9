-------------------------------- MODULE Timer --------------------------------
(***************************************************************************)
(* What the functions of the timer interface do to a timer control block   *)
(* and to the wakeup line of its kind (TimerCreate.c, TimerStart.c,        *)
(* TimerCancel.c, TimerReset.c, TimerDelete.c).  Each runs with the kernel *)
(* locked and interrupts off, in one piece.                                *)
(***************************************************************************)
EXTENDS WakeupLine

CONSTANTS
    Timers,     \* the timer control blocks
    Counts      \* the initial and repeat counts callers give

ASSUME TimersAssumption == Null \notin Timers
ASSUME CountsAssumption == Counts \subseteq Nat \ {0}

VARIABLES
    w,      \* _K_wuHTmr or _K_wuITmr
    tmr     \* _K_tmrBuffer

\* TIMER_ucType (used), TIMER_ucStatus, LW_OPTION_AUTO_RESTART and
\* TIMER_ulCounterSave.
Block == [used : BOOLEAN, running : BOOLEAN, auto : BOOLEAN,
          save : Counts \union {0}]

Unused == [used |-> FALSE, running |-> FALSE, auto |-> FALSE, save |-> 0]

TimerCreate(t) ==
    /\ ~tmr[t].used
    /\ tmr' = [tmr EXCEPT ![t] = [Unused EXCEPT !.used = TRUE]]
    /\ UNCHANGED w

\* A timer that runs is taken from the line first.
TimerStartEx(t, init, count, auto, proc, now) ==
    /\ tmr[t].used
    /\ LET off == IF tmr[t].running THEN WakeupDel(w, t, proc, now) ELSE w
       IN  w' = WakeupAdd(off, t, init, proc, now)
    /\ tmr' = [tmr EXCEPT ![t] = [used |-> TRUE, running |-> TRUE,
                                  auto |-> auto, save |-> count]]

TimerCancel(t, proc, now) ==
    /\ tmr[t].used /\ tmr[t].running
    /\ w' = WakeupDel(w, t, proc, now)
    /\ tmr' = [tmr EXCEPT ![t].running = FALSE]

TimerReset(t, proc, now) ==
    /\ tmr[t].used /\ tmr[t].running
    /\ w' = WakeupAdd(WakeupDel(w, t, proc, now), t, tmr[t].save, proc, now)
    /\ UNCHANGED tmr

TimerDelete(t, proc, now) ==
    /\ tmr[t].used
    /\ w' = IF tmr[t].running THEN WakeupDel(w, t, proc, now) ELSE w
    /\ tmr' = [tmr EXCEPT ![t].used = FALSE, ![t].running = FALSE]

\* A due timer leaves the line; one that restarts is added again with its
\* repeat count, the others stop.
Fire(from, t) ==
    LET off == WakeupDel(from, t, FALSE, 0)
    IN  /\ w' = IF tmr[t].auto THEN WakeupAdd(off, t, tmr[t].save, FALSE, 0)
                ELSE off
        /\ tmr' = [tmr EXCEPT ![t].running = tmr[t].auto]
=============================================================================
