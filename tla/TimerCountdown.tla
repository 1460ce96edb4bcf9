--------------------------- MODULE TimerCountdown ---------------------------
(***************************************************************************)
(* What timers promise, with no list behind them: a running timer counts   *)
(* down by one at each tick, and its routine is called when, and only      *)
(* when, its count has reached zero; a timer that restarts goes on from    *)
(* its repeat count.                                                       *)
(***************************************************************************)
EXTENDS Integers

CONSTANTS Timers, Counts, Null

VARIABLES
    left,       \* ticks until the timer is due; 0 too when it does not run
    tmr,        \* its control block
    calling     \* the timer whose routine is being called, or Null

cvars == <<left, tmr, calling>>

Idle == [used |-> FALSE, running |-> FALSE, auto |-> FALSE, save |-> 0]

Due(l) == {t \in Timers : tmr[t].running /\ l[t] = 0}

Create(t) ==
    /\ ~tmr[t].used
    /\ tmr' = [tmr EXCEPT ![t] = [Idle EXCEPT !.used = TRUE]]
    /\ UNCHANGED <<left, calling>>

Start(t, init, count, auto) ==
    /\ tmr[t].used
    /\ left' = [left EXCEPT ![t] = init]
    /\ tmr' = [tmr EXCEPT ![t] = [used |-> TRUE, running |-> TRUE,
                                  auto |-> auto, save |-> count]]
    /\ UNCHANGED calling

Stop(t) ==
    /\ tmr[t].running
    /\ left' = [left EXCEPT ![t] = 0]
    /\ tmr' = [tmr EXCEPT ![t].running = FALSE]
    /\ UNCHANGED calling

Reset(t) ==
    /\ tmr[t].running
    /\ left' = [left EXCEPT ![t] = tmr[t].save]
    /\ UNCHANGED <<tmr, calling>>

Delete(t) ==
    /\ tmr[t].used
    /\ left' = [left EXCEPT ![t] = 0]
    /\ tmr' = [tmr EXCEPT ![t].used = FALSE, ![t].running = FALSE]
    /\ UNCHANGED calling

\* Some due timer is called, given the counts; none when none is due.
Call(l) ==
    \/ /\ Due(l) = {}
       /\ left' = l
       /\ calling' = Null
       /\ UNCHANGED tmr
    \/ \E t \in Due(l) :
          /\ left' = [l EXCEPT ![t] = IF tmr[t].auto THEN tmr[t].save ELSE 0]
          /\ tmr' = [tmr EXCEPT ![t].running = tmr[t].auto]
          /\ calling' = t

Tick ==
    /\ calling = Null
    /\ Call([t \in Timers |-> IF tmr[t].running THEN left[t] - 1 ELSE 0])

Return ==
    /\ calling # Null
    /\ Call(left)

Init ==
    /\ left = [t \in Timers |-> 0]
    /\ tmr = [t \in Timers |-> Idle]
    /\ calling = Null

Next ==
    \/ \E t \in Timers :
          \/ Create(t) \/ Stop(t) \/ Reset(t) \/ Delete(t)
          \/ \E init, count \in Counts, auto \in BOOLEAN :
                Start(t, init, count, auto)
    \/ Tick
    \/ Return

Spec == Init /\ [][Next]_cvars
=============================================================================
