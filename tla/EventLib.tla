------------------------------- MODULE EventLib -------------------------------
(***************************************************************************)
(* How a thread waits on a kernel object and how its wait ends: the part   *)
(* that the mutex, the reader-writer semaphore and the message queue share *)
(* (_EventWait*, _EventReady*LowLevel, _EventReadyHighLevel,               *)
(* _EventUnQueue, the tick, the signals).  SemaphoreC models the same      *)
(* machinery with the length of every timeout and proves that it strands   *)
(* nobody; here a timeout is only NotWait, Timed or Infinite, and a timed  *)
(* wait may run out at any moment.                                         *)
(*                                                                         *)
(* One action of the modules that extend this one is one stretch with      *)
(* interrupts closed, with the open stretch before it that only touches    *)
(* what the kernel lock protects.  A thread with interrupts open inside    *)
(* the kernel is klock; ticks may fall there, other threads wait.          *)
(***************************************************************************)
EXTENDS WaitQueue, FiniteSets

CONSTANTS
    Threads,        \* the threads that use the objects
    NoThread,       \* a value that is not a thread (LW_NULL)
    Queues,         \* the wait queues of the objects
    NoQueue,        \* a value that is not a queue
    WaitPriority    \* LW_OPTION_WAIT_PRIORITY set, else FIFO

ASSUME ThreadsAssumption == NoThread \notin Threads /\ IsFiniteSet(Threads)
ASSUME QueuesAssumption == NoQueue \notin Queues /\ IsFiniteSet(Queues)
ASSUME WaitPriorityAssumption == WaitPriority \in BOOLEAN

VARIABLES
    waitQ,      \* EVENT_wqWaitQ of each queue, next thread to wake first
    sem,        \* the threads with LW_THREAD_STATUS_SEM or _MSGQUEUE; they
                \*   are those with TCB_peventPtr (SemaphoreC!NoStrandedWaiter)
    delayed,    \* the threads on the wakeup line
    timedOut,   \* TCB_ucWaitTimeout = LW_WAIT_TIME_OUT
    deleted,    \* TCB_ucIsEventDelete = LW_EVENT_DELETE
    signalled,  \* TCB_iSchedRet is not ERROR_NONE
    klock,      \* the thread in the kernel with interrupts open
    picked,     \* the TCB between ...LowLevel and _EventReadyHighLevel
    call        \* where each thread is in its call, the queue and the timeout

waitVars == <<waitQ, sem, delayed, timedOut, deleted, signalled>>
libVars  == <<waitVars, klock, picked, call>>

Timeouts == {"NotWait", "Timed", "Infinite"}
Idle     == [at |-> "idle", q |-> NoQueue, timeout |-> "NotWait"]

-----------------------------------------------------------------------------
\* __KERNEL_ENTER: a thread outside of any call may enter the kernel.
Caller(t) == call[t].at = "idle" /\ klock = NoThread

\* t goes on at another place of its call, which is about queue q.
At(t, place, q) ==
    call' = [call EXCEPT ![t] = [at |-> place, q |-> q, timeout |-> @.timeout]]

\* The call of t returns; a module keeps of the result what matters later.
Return(t) == call' = [call EXCEPT ![t] = Idle]

-----------------------------------------------------------------------------
(* The steps of the event library, as conjuncts of actions. *)

\* _EventWaitFifo and _EventWaitPriority, and the status bits before them.
JoinKeepsDeleted(t, q, timeout, prio) ==
    /\ waitQ' = [waitQ EXCEPT ![q] = Added(@, t, WaitPriority, prio)]
    /\ sem' = sem \union {t}
    /\ timedOut' = timedOut \ {t}
    /\ delayed' = IF timeout = "Timed" THEN delayed \union {t} ELSE delayed
    /\ call' = [call EXCEPT ![t] = [at |-> "waiting", q |-> q, timeout |-> timeout]]
    /\ UNCHANGED <<signalled, deleted>>

Join(t, q, timeout, prio) ==
    /\ waitQ' = [waitQ EXCEPT ![q] = Added(@, t, WaitPriority, prio)]
    /\ sem' = sem \union {t}
    /\ timedOut' = timedOut \ {t}
    /\ deleted' = deleted \ {t}
    /\ delayed' = IF timeout = "Timed" THEN delayed \union {t} ELSE delayed
    /\ call' = [call EXCEPT ![t] = [at |-> "waiting", q |-> q, timeout |-> timeout]]
    /\ UNCHANGED signalled

\* _EventReadyFifoLowLevel and _EventReadyPriorityLowLevel: the first waiter
\* leaves the queue and the wakeup line; its status bit stays.
PickKeepsTimer(q) ==
    /\ waitQ' = [waitQ EXCEPT ![q] = Tail(@)]
    /\ picked' = Head(waitQ[q])
    /\ UNCHANGED <<delayed, sem, timedOut, deleted, signalled>>

Pick(q) ==
    /\ waitQ' = [waitQ EXCEPT ![q] = Tail(@)]
    /\ delayed' = delayed \ {Head(waitQ[q])}
    /\ picked' = Head(waitQ[q])
    /\ UNCHANGED <<sem, timedOut, deleted, signalled>>

\* _EventReadyHighLevel: a set timeout flag is cleared instead of the bit.
WakePicked ==
    /\ timedOut' = timedOut \ {picked}
    /\ sem' = IF picked \in timedOut THEN sem ELSE sem \ {picked}
    /\ picked' = NoThread

\* Both halves at once, in an interrupt.
WakeFirst(q) ==
    LET x == Head(waitQ[q]) IN
    /\ waitQ' = [waitQ EXCEPT ![q] = Tail(@)]
    /\ delayed' = delayed \ {x}
    /\ timedOut' = timedOut \ {x}
    /\ sem' = IF x \in timedOut THEN sem ELSE sem \ {x}

\* _EventUnQueue, and what its callers (tick, signal, API_ThreadWakeup) do.
Unpend(x) ==
    /\ delayed' = delayed \ {x}
    /\ sem' = sem \ {x}
    /\ timedOut' = IF x \in sem THEN timedOut \union {x} ELSE timedOut \ {x}
    /\ waitQ' = [q \in Queues |-> IF x \in sem /\ x \in ToSet(waitQ[q])
                                  THEN Deleted(waitQ[q], x) ELSE waitQ[q]]

-----------------------------------------------------------------------------
(* The tick, or API_ThreadWakeup from an ISR, ends a timed wait. *)
Expire(x) ==
    /\ x \in delayed
    /\ Unpend(x)
    /\ UNCHANGED <<deleted, signalled, klock, picked, call>>

(* __sigMakeReady, run by another thread in the kernel. *)
Signal(x) ==
    /\ klock = NoThread
    /\ x \in sem
    /\ Unpend(x)
    /\ signalled' = signalled \union {x}
    /\ UNCHANGED <<deleted, klock, picked, call>>

\* The wait of t has ended and __KERNEL_EXIT has returned to it.
WaitOver(t) == call[t].at = "waiting" /\ t \notin sem /\ t \notin delayed

(***************************************************************************)
(* iSchedRet # 0: a signal has ended the wait.  The call gives up with     *)
(* EINTR when the signal and the object say so (LW_OPTION_SIGNAL_INTER),   *)
(* with TIMEOUT when no time is left, and else starts again.               *)
(***************************************************************************)
Signalled(t) ==
    /\ WaitOver(t)
    /\ t \in signalled
    /\ signalled' = signalled \ {t}
    /\ Return(t) \/ At(t, "again", call[t].q)
    /\ UNCHANGED <<waitQ, sem, delayed, timedOut, deleted, klock, picked>>

\* What TCB_ucWaitTimeout and TCB_ucIsEventDelete say of a wait that is over.
WaitResult(t) ==
    IF t \in timedOut THEN "TIMEOUT"
    ELSE IF t \in deleted THEN "DELETED" ELSE "NONE"

-----------------------------------------------------------------------------
LibInit ==
    /\ waitQ = [q \in Queues |-> <<>>]
    /\ sem = {} /\ delayed = {} /\ timedOut = {} /\ deleted = {} /\ signalled = {}
    /\ klock = NoThread
    /\ picked = NoThread
    /\ call = [t \in Threads |-> Idle]

LibTypeOK(places) ==
    /\ waitQ \in [Queues -> Seq(Threads)]
    /\ sem \subseteq Threads
    /\ delayed \subseteq Threads
    /\ timedOut \subseteq Threads
    /\ deleted \subseteq Threads
    /\ signalled \subseteq Threads
    /\ klock \in Threads \union {NoThread}
    /\ picked \in Threads \union {NoThread}
    /\ call \in [Threads -> [at : places, q : Queues \union {NoQueue},
                             timeout : Timeouts]]
=============================================================================
