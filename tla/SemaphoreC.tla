------------------------------ MODULE SemaphoreC ------------------------------
(***************************************************************************)
(* The counting semaphore of the SylixOS kernel API_SemaphoreC..., with     *)
(* the wait queue and the wake-up machinery every blocking kernel object   *)
(* shares: _EventWait*, _EventReady*LowLevel, _EventReadyHighLevel,        *)
(* _EventUnQueue, the tick and the signal path.                            *)
(*                                                                         *)
(* Grain of atomicity.  A kernel call holds the kernel lock (klock), but   *)
(* it opens interrupts in the middle (KN_INT_ENABLE ... KN_INT_DISABLE).   *)
(* One action is one stretch with interrupts closed; between two of them   *)
(* the interrupt service routines of the lock owner's CPU may run: they    *)
(* take the (recursive) kernel lock again, and run with interrupts closed, *)
(* so each of them is a single action without a condition on klock.        *)
(* Threads, on this or another CPU, need klock = NoThread.                 *)
(***************************************************************************)
EXTENDS WaitQueue

CONSTANTS
    Threads,        \* the threads that use the semaphore
    NoThread,       \* a value that is not a thread (LW_NULL)
    MaxCounter,     \* EVENT_ulMaxCounter, given to API_SemaphoreCCreate
    MaxRelease,     \* bound: largest ulReleaseCounter a caller passes
    MaxTimeout,     \* bound: longest finite timeout, in ticks
    Prio,           \* TCB_ucPriority of each thread, 0 is the highest
    WaitPriority,   \* LW_OPTION_WAIT_PRIORITY set, else FIFO
    SignalInter     \* LW_OPTION_SIGNAL_INTER set: signals end the wait

ASSUME ThreadsAssumption == NoThread \notin Threads
ASSUME MaxCounterAssumption == MaxCounter \in Nat \ {0}
ASSUME BoundsAssumption == MaxRelease \in Nat \ {0} /\ MaxTimeout \in Nat \ {0}
ASSUME PrioAssumption == Prio \in [Threads -> Nat]
ASSUME OptionAssumption == WaitPriority \in BOOLEAN /\ SignalInter \in BOOLEAN

\* ULONG ulTimeout: 0 is LW_OPTION_NOT_WAIT, the largest value means forever.
NotWait  == 0
Infinite == MaxTimeout + 1

VARIABLES
    \* LW_CLASS_EVENT
    evtType,    \* EVENT_ucType: "SEMC" or "UNUSED"
    counter,    \* EVENT_ulCounter
    queue,      \* EVENT_wqWaitQ[EVENT_SEM_Q], next thread to wake first
    \* LW_CLASS_TCB, as the set of the threads whose field is set
    sem,        \* TCB_usStatus has LW_THREAD_STATUS_SEM
    delayed,    \* TCB_usStatus has LW_THREAD_STATUS_DELAY: on the wakeup line
    evtPtr,     \* TCB_peventPtr is not LW_NULL
    timedOut,   \* TCB_ucWaitTimeout = LW_WAIT_TIME_OUT
    deleted,    \* TCB_ucIsEventDelete = LW_EVENT_DELETE
    schedRet,   \* TCB_iSchedRet: what __KERNEL_EXIT returns to the thread
    left,       \* ticks left of the ulTimeout the thread waits with
    \* the calls under way
    klock,      \* the thread that owns the kernel lock with interrupts open
    pc,         \* where each thread is in its call
    picked,     \* the TCB between ...LowLevel and _EventReadyHighLevel
    todo,       \* ulReleaseCounter: units API_SemaphoreCRelease still owes
    unblockNum, \* *pulThreadUnblockNum of the last API_SemaphoreCFlush
    ret,        \* what the last call that returned returned
    \* history
    grant,      \* what the wait the thread is in was given
    flushed     \* threads the last API_SemaphoreCFlush really woke

evtVars  == <<evtType, counter, queue>>
tcbVars  == <<sem, delayed, evtPtr, timedOut, deleted, schedRet, left, grant>>
callVars == <<klock, pc, picked, todo, unblockNum, ret, flushed>>
vars     == <<evtVars, tcbVars, callVars>>

Pcs     == {"idle", "pendExit", "waiting", "again", "post", "flush", "delete",
            "release"}
Results == {"NONE", "EVENT_TYPE", "TIMEOUT", "EINTR", "DELETED", "FULL"}
Grants  == {"nothing", "unit", "flush", "delete"}

-----------------------------------------------------------------------------
Ready(t) == t \notin sem /\ t \notin delayed

-----------------------------------------------------------------------------
(* The steps of the event library, as conjuncts of the actions below. *)

\* _EventWaitFifo and _EventWaitPriority: t joins the queue and, unless it
\* waits for ever, the wakeup line.
EventWaitKeepsDeleted(t, timeout) ==
    /\ evtPtr' = evtPtr \union {t}
    /\ queue' = Added(queue, t, WaitPriority, Prio)
    /\ delayed' = IF timeout = Infinite THEN delayed ELSE delayed \union {t}
    /\ UNCHANGED deleted

EventWait(t, timeout) ==
    /\ evtPtr' = evtPtr \union {t}
    /\ queue' = Added(queue, t, WaitPriority, Prio)
    /\ delayed' = IF timeout = Infinite THEN delayed ELSE delayed \union {t}
    /\ deleted' = deleted \ {t}

\* _EventReadyFifoLowLevel and _EventReadyPriorityLowLevel: the first waiter
\* leaves the queue and the wakeup line; its SEM bit stays.
LowLevelKeepsTimer ==
    /\ queue' = Tail(queue)
    /\ UNCHANGED delayed

LowLevel ==
    /\ queue' = Tail(queue)
    /\ delayed' = delayed \ {Head(queue)}

\* _EventReadyHighLevel: a set timeout flag is cleared instead of the SEM bit.
HighLevel(x, g) ==
    /\ evtPtr' = evtPtr \ {x}
    /\ timedOut' = timedOut \ {x}
    /\ sem' = IF x \in timedOut THEN sem ELSE sem \ {x}
    /\ grant' = [grant EXCEPT ![x] = g]

\* What the tick, a signal and API_ThreadWakeup do to a thread that waits:
\* clear the status bits, flag the timeout, leave the queue (_EventUnQueue).
Unpend(x) ==
    /\ delayed' = delayed \ {x}
    /\ sem' = sem \ {x}
    /\ timedOut' = IF x \in sem THEN timedOut \union {x} ELSE timedOut \ {x}
    /\ IF x \in sem /\ x \in evtPtr
       THEN /\ queue' = Deleted(queue, x)
            /\ evtPtr' = evtPtr \ {x}
       ELSE UNCHANGED <<queue, evtPtr>>

\* EVENT_ulMaxCounter is not reached yet.
HasRoomOffByOne == counter <= MaxCounter

HasRoom == counter < MaxCounter

\* _EventWaitNum: the number of threads on the queue.
EventWaitNumButFirst == IF queue = <<>> THEN 0 ELSE Len(queue) - 1

EventWaitNum == Len(queue)

\* A thread that is not inside a kernel call, and may enter the kernel.
Caller(t) == pc[t] = "idle" /\ klock = NoThread

Return(t, r) ==
    /\ pc' = [pc EXCEPT ![t] = "idle"]
    /\ ret' = r

-----------------------------------------------------------------------------
(* API_SemaphoreCCreate; the control block may be one that was freed. *)
Create(t, n) ==
    /\ Caller(t)
    /\ evtType = "UNUSED"
    /\ evtType' = "SEMC"
    /\ counter' = n
    /\ queue' = <<>>
    /\ Return(t, "NONE")
    /\ UNCHANGED <<tcbVars, klock, picked, todo, unblockNum, flushed>>

(* API_SemaphoreCPend, from __wait_again to __KERNEL_EXIT. *)
PendInvalid(t) ==
    /\ evtType # "SEMC"
    /\ Return(t, "EVENT_TYPE")
    /\ left' = [left EXCEPT ![t] = 0]
    /\ UNCHANGED <<evtVars, sem, delayed, evtPtr, timedOut, deleted, schedRet,
                   grant, klock, picked, todo, unblockNum, flushed>>

PendTake(t) ==
    /\ evtType = "SEMC"
    /\ counter > 0
    /\ counter' = counter - 1
    /\ Return(t, "NONE")
    /\ left' = [left EXCEPT ![t] = 0]
    /\ UNCHANGED <<evtType, queue, sem, delayed, evtPtr, timedOut, deleted,
                   schedRet, grant, klock, picked, todo, unblockNum, flushed>>

PendNotWait(t, timeout) ==
    /\ evtType = "SEMC"
    /\ counter = 0
    /\ timeout = NotWait
    /\ Return(t, "TIMEOUT")
    /\ left' = [left EXCEPT ![t] = 0]
    /\ UNCHANGED <<evtVars, sem, delayed, evtPtr, timedOut, deleted, schedRet,
                   grant, klock, picked, todo, unblockNum, flushed>>

PendBlock(t, timeout) ==
    /\ evtType = "SEMC"
    /\ counter = 0
    /\ timeout # NotWait
    /\ sem' = sem \union {t}
    /\ timedOut' = timedOut \ {t}
    /\ EventWait(t, timeout)
    /\ left' = [left EXCEPT ![t] = timeout]
    /\ klock' = t
    /\ pc' = [pc EXCEPT ![t] = "pendExit"]
    /\ UNCHANGED <<evtType, counter, schedRet, grant, picked, todo, unblockNum,
                   ret, flushed>>

PendEnter(t, timeout) ==
    \/ PendInvalid(t)
    \/ PendTake(t)
    \/ PendNotWait(t, timeout)
    \/ PendBlock(t, timeout)

Pend(t, timeout) == Caller(t) /\ PendEnter(t, timeout)

\* goto __wait_again, with the timeout _sigTimeoutRecalc left.
PendAgain(t) == pc[t] = "again" /\ klock = NoThread /\ PendEnter(t, left[t])

\* __KERNEL_EXIT: the scheduler switches away and the kernel lock is released.
PendExit(t) ==
    /\ pc[t] = "pendExit"
    /\ klock = t
    /\ klock' = NoThread
    /\ pc' = [pc EXCEPT ![t] = "waiting"]
    /\ UNCHANGED <<evtVars, tcbVars, picked, todo, unblockNum, ret, flushed>>

(* API_SemaphoreCPend, after __KERNEL_EXIT has returned. *)
\* The wait starts over with the whole timeout.
PendSignalledForgetsTime(t) ==
    /\ pc[t] = "waiting"
    /\ Ready(t)
    /\ schedRet[t] # "NONE"
    /\ schedRet' = [schedRet EXCEPT ![t] = "NONE"]
    /\ left' = [left EXCEPT ![t] = IF @ = Infinite THEN @ ELSE MaxTimeout]
    /\ pc' = [pc EXCEPT ![t] = "again"]
    /\ UNCHANGED <<evtVars, sem, delayed, evtPtr, timedOut, deleted, grant, ret,
                   klock, picked, todo, unblockNum, flushed>>

\* A signal ended the wait: give up, or wait again for what is left.
PendSignalled(t) ==
    /\ pc[t] = "waiting"
    /\ Ready(t)
    /\ schedRet[t] # "NONE"
    /\ schedRet' = [schedRet EXCEPT ![t] = "NONE"]
    /\ \/ /\ schedRet[t] = "EINTR" /\ SignalInter
          /\ Return(t, "EINTR")
          /\ left' = [left EXCEPT ![t] = 0]
       \/ /\ ~(schedRet[t] = "EINTR" /\ SignalInter)
          /\ left[t] = 0
          /\ Return(t, "TIMEOUT")
          /\ UNCHANGED left
       \/ /\ ~(schedRet[t] = "EINTR" /\ SignalInter)
          /\ left[t] # 0
          /\ pc' = [pc EXCEPT ![t] = "again"]
          /\ UNCHANGED <<left, ret>>
    /\ UNCHANGED <<evtVars, sem, delayed, evtPtr, timedOut, deleted, grant,
                   klock, picked, todo, unblockNum, flushed>>

PendReturn(t) ==
    /\ pc[t] = "waiting"
    /\ Ready(t)
    /\ schedRet[t] = "NONE"
    /\ Return(t, CASE t \in timedOut -> "TIMEOUT"
                   [] t \notin timedOut /\ t \notin deleted -> "NONE"
                   [] t \notin timedOut /\ t \in deleted -> "DELETED")
    /\ left' = [left EXCEPT ![t] = 0]
    /\ grant' = [grant EXCEPT ![t] = "nothing"]
    /\ UNCHANGED <<evtVars, sem, delayed, evtPtr, timedOut, deleted, schedRet,
                   klock, picked, todo, unblockNum, flushed>>

-----------------------------------------------------------------------------
(* API_SemaphoreCPost, called by a thread: pick a waiter, or count. *)
Post(t) ==
    /\ Caller(t)
    /\ \/ /\ evtType # "SEMC"
          /\ Return(t, "EVENT_TYPE")
          /\ UNCHANGED <<evtVars, delayed, klock, picked>>
       \/ /\ evtType = "SEMC"
          /\ queue # <<>>
          /\ LowLevel
          /\ picked' = Head(queue)
          /\ klock' = t
          /\ pc' = [pc EXCEPT ![t] = "post"]
          /\ UNCHANGED <<evtType, counter, ret>>
       \/ /\ evtType = "SEMC"
          /\ queue = <<>>
          /\ HasRoom
          /\ counter' = counter + 1
          /\ Return(t, "NONE")
          /\ UNCHANGED <<evtType, queue, delayed, klock, picked>>
       \/ /\ evtType = "SEMC"
          /\ queue = <<>>
          /\ ~HasRoom
          /\ Return(t, "FULL")
          /\ UNCHANGED <<evtVars, delayed, klock, picked>>
    /\ UNCHANGED <<sem, evtPtr, timedOut, deleted, schedRet, left, grant, todo,
                   unblockNum, flushed>>

PostHigh(t) ==
    /\ pc[t] = "post"
    /\ HighLevel(picked, "unit")
    /\ picked' = NoThread
    /\ klock' = NoThread
    /\ Return(t, "NONE")
    /\ UNCHANGED <<evtVars, delayed, deleted, schedRet, left, todo, unblockNum,
                   flushed>>

(* The same call from an interrupt service routine: one closed stretch. *)
IsrPostCountsAlways ==
    /\ evtType = "SEMC"
    /\ HasRoom
    /\ counter' = counter + 1
    /\ UNCHANGED <<evtType, queue, tcbVars, callVars>>

IsrPost ==
    /\ evtType = "SEMC"
    /\ \/ /\ queue # <<>>
          /\ LowLevel
          /\ HighLevel(Head(queue), "unit")
          /\ UNCHANGED counter
       \/ /\ queue = <<>>
          /\ HasRoom
          /\ counter' = counter + 1
          /\ UNCHANGED <<queue, delayed, evtPtr, timedOut, sem, grant>>
    /\ UNCHANGED <<evtType, deleted, schedRet, left, callVars>>

(* API_SemaphoreCTryPend and API_SemaphoreCClear, from a thread or an ISR. *)
TryPend ==
    /\ evtType = "SEMC"
    /\ counter > 0
    /\ counter' = counter - 1
    /\ UNCHANGED <<evtType, queue, tcbVars, callVars>>

Clear ==
    /\ evtType = "SEMC"
    /\ counter' = 0
    /\ UNCHANGED <<evtType, queue, tcbVars, callVars>>

-----------------------------------------------------------------------------
(***************************************************************************)
(* API_SemaphoreCFlush and API_SemaphoreCDelete wake the waiters one after *)
(* the other.  Each round is two stretches, LowLevel and HighLevel, with   *)
(* interrupts open after both; the queue is read again in every round.     *)
(***************************************************************************)
PickOrFinish(t, call) ==
    \/ /\ queue # <<>>
       /\ LowLevel
       /\ picked' = Head(queue)
       /\ klock' = t
       /\ pc' = [pc EXCEPT ![t] = call]
       /\ UNCHANGED ret
    \/ /\ queue = <<>>
       /\ klock' = NoThread
       /\ Return(t, "NONE")
       /\ UNCHANGED <<queue, delayed, picked>>

CallInvalid(t) ==
    /\ Caller(t)
    /\ evtType # "SEMC"
    /\ Return(t, "EVENT_TYPE")
    /\ UNCHANGED <<evtVars, tcbVars, klock, picked, todo, unblockNum, flushed>>

Flush(t) ==
    /\ Caller(t)
    /\ evtType = "SEMC"
    /\ unblockNum' = EventWaitNum
    /\ flushed' = 0
    /\ PickOrFinish(t, "flush")
    /\ UNCHANGED <<evtType, counter, sem, evtPtr, timedOut, deleted, schedRet,
                   left, grant, todo>>

FlushHigh(t) ==
    /\ pc[t] = "flush"
    /\ picked # NoThread
    /\ HighLevel(picked, "flush")
    /\ picked' = NoThread
    /\ flushed' = flushed + 1
    /\ UNCHANGED <<evtVars, delayed, deleted, schedRet, left, klock, pc, todo,
                   unblockNum, ret>>

FlushNext(t) ==
    /\ pc[t] = "flush"
    /\ picked = NoThread
    /\ PickOrFinish(t, "flush")
    /\ UNCHANGED <<evtType, counter, sem, evtPtr, timedOut, deleted, schedRet,
                   left, grant, todo, unblockNum, flushed>>

\* The handle is closed and the type cleared before the first waiter is woken.
Delete(t) ==
    /\ Caller(t)
    /\ evtType = "SEMC"
    /\ evtType' = "UNUSED"
    /\ PickOrFinish(t, "delete")
    /\ UNCHANGED <<counter, sem, evtPtr, timedOut, deleted, schedRet, left,
                   grant, todo, unblockNum, flushed>>

DeleteHighWakesOne(t) ==
    /\ pc[t] = "delete"
    /\ picked # NoThread
    /\ deleted' = deleted \union {picked}
    /\ HighLevel(picked, "delete")
    /\ picked' = NoThread
    /\ klock' = NoThread
    /\ Return(t, "NONE")
    /\ UNCHANGED <<evtVars, delayed, schedRet, left, todo, unblockNum, flushed>>

DeleteHigh(t) ==
    /\ pc[t] = "delete"
    /\ picked # NoThread
    /\ deleted' = deleted \union {picked}
    /\ HighLevel(picked, "delete")
    /\ picked' = NoThread
    /\ UNCHANGED <<evtVars, delayed, schedRet, left, klock, pc, todo,
                   unblockNum, ret, flushed>>

DeleteNext(t) ==
    /\ pc[t] = "delete"
    /\ picked = NoThread
    /\ PickOrFinish(t, "delete")
    /\ UNCHANGED <<evtType, counter, sem, evtPtr, timedOut, deleted, schedRet,
                   left, grant, todo, unblockNum, flushed>>

-----------------------------------------------------------------------------
(* API_SemaphoreCRelease: n units, each to a waiter or to the counter. *)
ReleaseUnit(t, n) ==
    \/ /\ n > 0
       /\ queue # <<>>
       /\ LowLevel
       /\ picked' = Head(queue)
       /\ klock' = t
       /\ pc' = [pc EXCEPT ![t] = "release"]
       /\ todo' = n - 1
       /\ UNCHANGED <<counter, ret>>
    \/ /\ n > 0
       /\ queue = <<>>
       /\ HasRoom
       /\ counter' = counter + 1
       /\ klock' = t
       /\ pc' = [pc EXCEPT ![t] = "release"]
       /\ todo' = n - 1
       /\ UNCHANGED <<queue, delayed, picked, ret>>
    \/ /\ n > 0
       /\ queue = <<>>
       /\ ~HasRoom
       /\ klock' = NoThread
       /\ todo' = 0
       /\ Return(t, "FULL")
       /\ UNCHANGED <<counter, queue, delayed, picked>>
    \/ /\ n = 0
       /\ klock' = NoThread
       /\ todo' = 0
       /\ Return(t, "NONE")
       /\ UNCHANGED <<counter, queue, delayed, picked>>

Release(t, n) ==
    /\ Caller(t)
    /\ evtType = "SEMC"
    /\ ReleaseUnit(t, n)
    /\ UNCHANGED <<evtType, sem, evtPtr, timedOut, deleted, schedRet, left,
                   grant, unblockNum, flushed>>

ReleaseHigh(t) ==
    /\ pc[t] = "release"
    /\ picked # NoThread
    /\ HighLevel(picked, "unit")
    /\ picked' = NoThread
    /\ UNCHANGED <<evtVars, delayed, deleted, schedRet, left, klock, pc, todo,
                   unblockNum, ret, flushed>>

ReleaseNext(t) ==
    /\ pc[t] = "release"
    /\ picked = NoThread
    /\ ReleaseUnit(t, todo)
    /\ UNCHANGED <<evtType, sem, evtPtr, timedOut, deleted, schedRet, left,
                   grant, unblockNum, flushed>>

-----------------------------------------------------------------------------
(***************************************************************************)
(* The tick interrupt.  Tick is the passage of a tick for every timed      *)
(* wait; Expire is one round of the loop of _ThreadTick, which opens       *)
(* interrupts between two rounds.  A thread between _sigTimeoutRecalc and  *)
(* its next wait ("again") has no clock running: that time is not counted. *)
(***************************************************************************)
Clocked == {x \in Threads : /\ pc[x] \in {"pendExit", "waiting"}
                            /\ left[x] \in 1 .. MaxTimeout}

Tick ==
    /\ \A x \in delayed : left[x] > 0
    /\ Clocked # {}
    /\ left' = [x \in Threads |-> IF x \in Clocked THEN left[x] - 1 ELSE left[x]]
    /\ UNCHANGED <<evtVars, sem, delayed, evtPtr, timedOut, deleted, schedRet,
                   grant, callVars>>

Expire(x) ==
    /\ x \in delayed
    /\ left[x] = 0
    /\ Unpend(x)
    /\ UNCHANGED <<evtType, counter, deleted, schedRet, left, grant, callVars>>

\* __sigMakeReady, run by another thread in the kernel: a thread that is ready
\* already keeps its result, a thread that waits is told to look at iSchedRet.
Signal(x, saType) ==
    /\ klock = NoThread
    /\ ~Ready(x)
    /\ Unpend(x)
    /\ schedRet' = [schedRet EXCEPT ![x] = saType]
    /\ UNCHANGED <<evtType, counter, deleted, left, grant, callVars>>

\* API_ThreadWakeup, from a thread or an ISR: only a timed wait is ended.
Wakeup(x) ==
    /\ x \in delayed
    /\ Unpend(x)
    /\ UNCHANGED <<evtType, counter, deleted, schedRet, left, grant, callVars>>

-----------------------------------------------------------------------------
Init ==
    /\ evtType = "UNUSED"
    /\ counter = 0
    /\ queue = <<>>
    /\ sem = {} /\ delayed = {} /\ evtPtr = {} /\ timedOut = {} /\ deleted = {}
    /\ schedRet = [t \in Threads |-> "NONE"]
    /\ left = [t \in Threads |-> 0]
    /\ klock = NoThread
    /\ pc = [t \in Threads |-> "idle"]
    /\ picked = NoThread
    /\ todo = 0
    /\ unblockNum = 0
    /\ ret = "NONE"
    /\ grant = [t \in Threads |-> "nothing"]
    /\ flushed = 0

\* The call of t goes on: what the code does without waiting for anyone.
Proceed(t) ==
    \/ PendAgain(t) \/ PendExit(t) \/ PendSignalled(t) \/ PendReturn(t)
    \/ PostHigh(t)
    \/ FlushHigh(t) \/ FlushNext(t)
    \/ DeleteHigh(t) \/ DeleteNext(t)
    \/ ReleaseHigh(t) \/ ReleaseNext(t)

Next ==
    \/ \E t \in Threads :
          \/ \E n \in 0 .. MaxCounter : Create(t, n)
          \/ \E timeout \in 0 .. Infinite : Pend(t, timeout)
          \/ Post(t)
          \/ \E n \in 1 .. MaxRelease : Release(t, n)
          \/ Flush(t)
          \/ Delete(t)
          \/ CallInvalid(t)
          \/ Proceed(t)
    \/ IsrPost \/ TryPend \/ Clear
    \/ Tick
    \/ \E x \in Threads :
          \/ Expire(x)
          \/ Wakeup(x)
          \/ \E saType \in {"EINTR", "RESTART"} : Signal(x, saType)

Spec == Init /\ [][Next]_vars

(***************************************************************************)
(* Fairness: a running call goes on, the clock ticks and its loop runs.    *)
(* The kernel lock is a ticket lock, so a thread that enters the kernel    *)
(* again gets its turn although others enter it over and over.             *)
(***************************************************************************)
Fairness ==
    /\ \A t \in Threads :
          WF_vars(Proceed(t)) /\ SF_vars(PendAgain(t)) /\ WF_vars(Expire(t))
    /\ WF_vars(Tick)

FairSpec == Spec /\ Fairness

-----------------------------------------------------------------------------
TypeOK ==
    /\ evtType \in {"SEMC", "UNUSED"}
    /\ counter \in 0 .. MaxCounter
    /\ queue \in Seq(Threads)
    /\ sem \subseteq Threads
    /\ delayed \subseteq Threads
    /\ evtPtr \subseteq Threads
    /\ timedOut \subseteq Threads
    /\ deleted \subseteq Threads
    /\ schedRet \in [Threads -> {"NONE", "EINTR", "RESTART"}]
    /\ left \in [Threads -> 0 .. Infinite]
    /\ klock \in Threads \union {NoThread}
    /\ pc \in [Threads -> Pcs]
    /\ picked \in Threads \union {NoThread}
    /\ todo \in 0 .. MaxRelease
    /\ unblockNum \in Nat
    /\ ret \in Results
    /\ grant \in [Threads -> Grants]
    /\ flushed \in Nat

Waiters == ToSet(queue) \union ({picked} \ {NoThread})

\* A thread whose SEM bit is set can be woken: it is on the queue exactly
\* once, or a post, release, flush or delete has it in hand.  And only such a
\* thread points at the event, so no timeout unqueues a thread twice
\* (_EventReadyHighLevel keeps the SEM bit of a thread that timed out).
NoStrandedWaiter ==
    /\ sem = Waiters
    /\ evtPtr = Waiters
    /\ delayed \subseteq ToSet(queue)
    /\ picked \notin ToSet(queue)
    /\ IsInjective(queue)

\* No thread waits while the semaphore has units to give, whatever mix of
\* posts, releases, timeouts and interrupts in their open stretches led here.
NoIdleUnits == counter > 0 => queue = <<>>

\* What a pend reports is what it was given: a unit (or a flush) handed to a
\* thread is not turned into a timeout or an EINTR by a race, no thread that
\* waited reports success without one, and a wait is not restarted after one.
ResultMatchesGrant ==
    [][\A t \in Threads :
         pc[t] = "waiting" /\ pc'[t] # "waiting" =>
            /\ grant[t] \in {"unit", "flush"} <=> pc'[t] = "idle" /\ ret' = "NONE"
            /\ grant[t] = "delete" <=> pc'[t] = "idle" /\ ret' = "DELETED"]_vars

\* The waiters stand in the order in which they will be woken: by priority
\* when the semaphore was created with LW_OPTION_WAIT_PRIORITY.
QueueOrdered == WaitPriority => Sorted(queue, Prio)

\* When API_SemaphoreCDelete gives the control block back no thread is left on
\* it, so a semaphore created on the same block drops nobody.
FreedIsEmpty ==
    evtType = "UNUSED" /\ (\A t \in Threads : pc[t] # "delete") =>
        queue = <<>> /\ sem = {} /\ evtPtr = {} /\ delayed = {}

\* *pulThreadUnblockNum is read before the first waiter is woken; interrupts
\* can only make it too large.
FlushCountBound == flushed <= unblockNum

\* A thread that waits with a timeout returns, whichever of timeout, post,
\* flush and delete race.  Signals may restart its wait without end, as long
\* as ticks keep falling into it: _sigTimeoutRecalc never gives back the time
\* already waited.
TimedWaitReturns ==
    \A t \in Threads :
        \/ <>[][\A saType \in {"EINTR", "RESTART"} : ~Signal(t, saType)]_vars
        \/ []<><<Tick /\ t \in Clocked>>_vars
        => ((pc[t] = "waiting" /\ left[t] <= MaxTimeout) ~> (pc[t] = "idle"))
=============================================================================
