-------------------------- MODULE SemaphoreCProofs --------------------------
(***************************************************************************)
(* The safety of the counting semaphore, for any number of threads, any    *)
(* priorities, options and bounds.  NoStrandedWaiter, NoIdleUnits and the  *)
(* other invariants of SemaphoreC are not inductive one by one: the proof  *)
(* needs who holds the kernel lock and where it stands (LockInv), and what *)
(* the flags of a waiting thread say about its wait (WaitInv).             *)
(***************************************************************************)
EXTENDS SemaphoreC, WaitQueueProofs

\* Where a thread holds the kernel lock with interrupts open and may have a
\* waiter in hand.
Calling == {"post", "flush", "delete", "release"}
InPend  == {"pendExit", "waiting"}

\* One thread is inside the kernel, and picked belongs to it.
LockInv ==
    /\ \A t \in Threads : pc[t] \in Calling \union {"pendExit"} <=> klock = t
    /\ picked # NoThread => klock \in Threads /\ pc[klock] \in Calling
    /\ \A t \in Threads : pc[t] = "post" => picked # NoThread
    /\ \A t \in Threads : pc[t] \in {"post", "flush", "release"} => evtType = "SEMC"
    /\ \A t \in Threads : pc[t] = "delete" => evtType = "UNUSED"

\* The flags of a thread that waits and of one that has been woken.
WaitInv ==
    \A t \in Threads :
        /\ t \in sem => /\ pc[t] \in InPend
                        /\ t \notin timedOut /\ t \notin deleted
                        /\ grant[t] = "nothing" /\ schedRet[t] = "NONE"
        /\ pc[t] \in InPend /\ t \notin sem =>
              /\ grant[t] = "nothing" <=> t \in timedOut
              /\ grant[t] = "delete" <=> t \in deleted
              /\ schedRet[t] # "NONE" => t \in timedOut
        /\ pc[t] \notin InPend => grant[t] = "nothing" /\ schedRet[t] = "NONE"

IInv ==
    /\ TypeOK
    /\ NoStrandedWaiter
    /\ NoIdleUnits
    /\ QueueOrdered
    /\ FreedIsEmpty
    /\ LockInv
    /\ WaitInv

-----------------------------------------------------------------------------
\* The initial state satisfies the invariant.
LEMMA InitIInv == Init => IInv
<1> SUFFICES ASSUME Init PROVE IInv
  OBVIOUS
<1> USE ThreadsAssumption, MaxCounterAssumption, BoundsAssumption, PrioAssumption,
        OptionAssumption
<1>1. TypeOK
  BY DEF Init, TypeOK, Pcs, Results, Grants, Infinite
<1>2. NoStrandedWaiter /\ QueueOrdered
  BY EmptyQueue DEF Init, NoStrandedWaiter, Waiters, QueueOrdered
<1>3. NoIdleUnits /\ FreedIsEmpty
  BY DEF Init, NoIdleUnits, FreedIsEmpty
<1>4. LockInv /\ WaitInv
  BY DEF Init, LockInv, WaitInv, Calling, InPend
<1>5. QED
  BY <1>1, <1>2, <1>3, <1>4 DEF IInv

(***************************************************************************)
(* What the steps of the event library do to the queue and to the set of   *)
(* the waiters.                                                            *)
(***************************************************************************)

\* Picking the first waiter moves it from the queue to picked.
LEMMA LowLevelEffect ==
    ASSUME TypeOK, NoStrandedWaiter, QueueOrdered, picked = NoThread,
           queue # <<>>, LowLevel, picked' = Head(queue),
           UNCHANGED <<sem, evtPtr>>
    PROVE  /\ Head(queue) \in Threads
           /\ queue' \in Seq(Threads)
           /\ delayed' \subseteq Threads
           /\ NoStrandedWaiter'
           /\ QueueOrdered'
<1> USE ThreadsAssumption, PrioAssumption
<1> DEFINE h == Head(queue)
<1>1. /\ h \in ToSet(queue) /\ h \in Threads
      /\ queue' \in Seq(Threads)
      /\ ToSet(queue') = ToSet(queue) \ {h}
      /\ IsInjective(queue')
      /\ Sorted(queue, Prio) => Sorted(queue', Prio)
  BY TailIsRest DEF TypeOK, NoStrandedWaiter, LowLevel
<1>2. delayed' = delayed \ {h} /\ picked' = h
  BY DEF LowLevel
<1> HIDE DEF h
<1>3. NoStrandedWaiter'
  BY <1>1, <1>2 DEF NoStrandedWaiter, Waiters
<1>4. QueueOrdered'
  BY <1>1 DEF QueueOrdered
<1>5. QED
  BY <1>1, <1>2, <1>3, <1>4 DEF TypeOK, h

\* Waking the waiter in hand takes it out of the waiters.
LEMMA HighLevelEffect ==
    ASSUME TypeOK, NoStrandedWaiter, WaitInv, picked # NoThread,
           NEW g \in Grants, HighLevel(picked, g), picked' = NoThread,
           UNCHANGED <<queue, delayed>>
    PROVE  /\ picked \in sem /\ picked \in Threads
           /\ sem' = sem \ {picked}
           /\ evtPtr' = evtPtr \ {picked}
           /\ timedOut' = timedOut
           /\ grant' = [grant EXCEPT ![picked] = g]
           /\ NoStrandedWaiter'
<1>1. picked \in sem /\ picked \in Threads /\ picked \notin timedOut
  BY DEF NoStrandedWaiter, Waiters, TypeOK, WaitInv
<1>2. /\ sem' = sem \ {picked} /\ evtPtr' = evtPtr \ {picked}
      /\ timedOut' = timedOut /\ grant' = [grant EXCEPT ![picked] = g]
  BY <1>1 DEF HighLevel
<1>3. NoThread \notin ToSet(queue)
  BY ThreadsAssumption, ByPosition DEF TypeOK
<1>4. NoStrandedWaiter'
  BY <1>1, <1>2, <1>3 DEF NoStrandedWaiter, Waiters
<1>5. QED
  BY <1>1, <1>2, <1>4

\* The tick, a signal or API_ThreadWakeup take a thread off the queue.
LEMMA UnpendEffect ==
    ASSUME TypeOK, NoStrandedWaiter, QueueOrdered, NoIdleUnits,
           NEW x \in ToSet(queue), Unpend(x), UNCHANGED <<picked, counter>>
    PROVE  /\ x \in sem /\ x \in Threads
           /\ sem' = sem \ {x}
           /\ delayed' = delayed \ {x}
           /\ evtPtr' = evtPtr \ {x}
           /\ timedOut' = timedOut \union {x}
           /\ queue' \in Seq(Threads)
           /\ queue # <<>>
           /\ NoStrandedWaiter' /\ QueueOrdered' /\ NoIdleUnits'
<1> USE ThreadsAssumption, PrioAssumption
<1>1. x \in sem /\ x \in evtPtr /\ x \in Threads /\ x # picked
  BY DEF NoStrandedWaiter, Waiters, TypeOK
<1>2. /\ sem' = sem \ {x} /\ delayed' = delayed \ {x} /\ evtPtr' = evtPtr \ {x}
      /\ timedOut' = timedOut \union {x} /\ queue' = Deleted(queue, x)
  BY <1>1 DEF Unpend
<1>3. /\ queue' \in Seq(Threads)
      /\ ToSet(queue') = ToSet(queue) \ {x}
      /\ IsInjective(queue')
      /\ Sorted(queue, Prio) => Sorted(queue', Prio)
  BY <1>1, <1>2, DeletedIsGone DEF TypeOK, NoStrandedWaiter
<1>4. queue # <<>>
  BY EmptyQueue
<1>5. NoStrandedWaiter'
  BY <1>1, <1>2, <1>3 DEF NoStrandedWaiter, Waiters
<1>6. QueueOrdered'
  BY <1>3 DEF QueueOrdered
<1>7. NoIdleUnits'
  BY <1>4 DEF NoIdleUnits
<1>8. QED
  BY <1>1, <1>2, <1>3, <1>4, <1>5, <1>6, <1>7

-----------------------------------------------------------------------------
(* Every action preserves the invariant, one lemma per action. *)

\* Create finds no waiter on the block it takes.
LEMMA CreatePreserves ==
    ASSUME IInv, NEW t \in Threads, NEW n \in 0 .. MaxCounter, Create(t, n)
    PROVE  IInv'
<1> USE ThreadsAssumption, MaxCounterAssumption, BoundsAssumption, PrioAssumption,
        OptionAssumption DEF IInv
<1>1. TypeOK'
  BY DEF Create, Caller, Return, evtVars, tcbVars, callVars, TypeOK, Pcs,
         Results, Grants, Infinite
<1>2. NoStrandedWaiter' /\ QueueOrdered'
  <2>1. queue = <<>> /\ queue' = <<>>
    BY DEF Create, Caller, FreedIsEmpty, LockInv, Calling, TypeOK
  <2>2. QED
    BY <2>1 DEF Create, NoStrandedWaiter, Waiters, QueueOrdered, tcbVars
<1>3. NoIdleUnits' /\ FreedIsEmpty'
  BY DEF Create, Caller, Return, evtVars, tcbVars, callVars, NoIdleUnits,
         FreedIsEmpty, Caller, LockInv, Calling
<1>4. LockInv'
  BY DEF Create, Caller, Return, evtVars, tcbVars, callVars, TypeOK, LockInv,
         Calling
<1>5. WaitInv'
  BY DEF Create, Caller, Return, evtVars, tcbVars, callVars, TypeOK, WaitInv,
         InPend
<1>6. QED
  BY <1>1, <1>2, <1>3, <1>4, <1>5

\* A pend on a semaphore that is gone, at once or after a signal.
LEMMA PendInvalidPreserves ==
    ASSUME IInv, NEW t \in Threads, pc[t] \in {"idle", "again"}, PendInvalid(t)
    PROVE  IInv'
<1> USE ThreadsAssumption, MaxCounterAssumption, BoundsAssumption, PrioAssumption,
        OptionAssumption DEF IInv
<1>1. TypeOK'
  BY DEF PendInvalid, Return, evtVars, tcbVars, callVars, TypeOK, Pcs, Results,
         Grants, Infinite
<1>2. NoStrandedWaiter' /\ QueueOrdered'
  BY DEF PendInvalid, Return, evtVars, tcbVars, callVars, NoStrandedWaiter,
         Waiters, QueueOrdered
<1>3. NoIdleUnits' /\ FreedIsEmpty'
  BY DEF PendInvalid, Return, evtVars, tcbVars, callVars, NoIdleUnits,
         FreedIsEmpty
<1>4. LockInv'
  BY DEF PendInvalid, Return, evtVars, tcbVars, callVars, TypeOK, LockInv,
         Calling
<1>5. WaitInv'
  BY DEF PendInvalid, Return, evtVars, tcbVars, callVars, TypeOK, WaitInv,
         InPend
<1>6. QED
  BY <1>1, <1>2, <1>3, <1>4, <1>5

\* A pend that takes a unit; the waiters, if any, had none to take.
LEMMA PendTakePreserves ==
    ASSUME IInv, NEW t \in Threads, pc[t] \in {"idle", "again"}, PendTake(t)
    PROVE  IInv'
<1> USE ThreadsAssumption, MaxCounterAssumption, BoundsAssumption, PrioAssumption,
        OptionAssumption DEF IInv
<1>1. TypeOK'
  BY DEF PendTake, Return, evtVars, tcbVars, callVars, TypeOK, Pcs, Results,
         Grants, Infinite
<1>2. NoStrandedWaiter' /\ QueueOrdered'
  BY DEF PendTake, Return, evtVars, tcbVars, callVars, NoStrandedWaiter,
         Waiters, QueueOrdered
<1>3. NoIdleUnits' /\ FreedIsEmpty'
  BY DEF PendTake, Return, evtVars, tcbVars, callVars, NoIdleUnits, FreedIsEmpty
<1>4. LockInv'
  BY DEF PendTake, Return, evtVars, tcbVars, callVars, TypeOK, LockInv, Calling
<1>5. WaitInv'
  BY DEF PendTake, Return, evtVars, tcbVars, callVars, TypeOK, WaitInv, InPend
<1>6. QED
  BY <1>1, <1>2, <1>3, <1>4, <1>5

\* A pend that may not wait.
LEMMA PendNotWaitPreserves ==
    ASSUME IInv, NEW t \in Threads, NEW timeout, pc[t] \in {"idle", "again"}, PendNotWait(t, timeout)
    PROVE  IInv'
<1> USE ThreadsAssumption, MaxCounterAssumption, BoundsAssumption, PrioAssumption,
        OptionAssumption DEF IInv
<1>1. TypeOK'
  BY DEF PendNotWait, Return, evtVars, tcbVars, callVars, TypeOK, Pcs, Results,
         Grants, Infinite
<1>2. NoStrandedWaiter' /\ QueueOrdered'
  BY DEF PendNotWait, Return, evtVars, tcbVars, callVars, NoStrandedWaiter,
         Waiters, QueueOrdered
<1>3. NoIdleUnits' /\ FreedIsEmpty'
  BY DEF PendNotWait, Return, evtVars, tcbVars, callVars, NoIdleUnits,
         FreedIsEmpty
<1>4. LockInv'
  BY DEF PendNotWait, Return, evtVars, tcbVars, callVars, TypeOK, LockInv,
         Calling
<1>5. WaitInv'
  BY DEF PendNotWait, Return, evtVars, tcbVars, callVars, TypeOK, WaitInv,
         InPend
<1>6. QED
  BY <1>1, <1>2, <1>3, <1>4, <1>5

\* A pend that waits: the thread joins the queue.
LEMMA PendBlockPreserves ==
    ASSUME IInv, NEW t \in Threads, NEW timeout \in 0 .. Infinite,
           pc[t] \in {"idle", "again"}, klock = NoThread, PendBlock(t, timeout)
    PROVE  IInv'
<1> USE ThreadsAssumption, MaxCounterAssumption, BoundsAssumption, PrioAssumption,
        OptionAssumption DEF IInv
<1>1. t \notin sem /\ t \notin ToSet(queue) /\ t \notin evtPtr /\ picked = NoThread
  BY DEF WaitInv, InPend, LockInv, NoStrandedWaiter, Waiters
<1>2. /\ queue' \in Seq(Threads)
      /\ queue' # <<>>
      /\ ToSet(queue') = ToSet(queue) \union {t}
      /\ IsInjective(queue')
      /\ WaitPriority /\ Sorted(queue, Prio) => Sorted(queue', Prio)
  <2>1. /\ queue \in Seq(Threads) /\ IsInjective(queue) /\ WaitPriority \in BOOLEAN
        /\ queue' = Added(queue, t, WaitPriority, Prio)
    BY DEF PendBlock, EventWait, TypeOK, NoStrandedWaiter
  <2>2. QED
    BY <1>1, <2>1, AddedIsWaiting
<1>3. TypeOK'
  BY <1>2 DEF PendBlock, EventWait, TypeOK, Pcs, Infinite
<1>4. NoStrandedWaiter'
  BY <1>1, <1>2 DEF PendBlock, EventWait, NoStrandedWaiter, Waiters
<1>5. QueueOrdered'
  BY <1>2 DEF QueueOrdered
<1>6. NoIdleUnits' /\ FreedIsEmpty'
  BY DEF PendBlock, EventWait, NoIdleUnits, FreedIsEmpty
<1>7. LockInv'
  BY <1>1 DEF PendBlock, EventWait, TypeOK, LockInv, Calling
<1>8. WaitInv'
  BY <1>1 DEF PendBlock, EventWait, TypeOK, WaitInv, InPend
<1>9. QED
  BY <1>3, <1>4, <1>5, <1>6, <1>7, <1>8

\* A pend from __wait_again on, first or repeated.
LEMMA PendEnterPreserves ==
    ASSUME IInv, NEW t \in Threads, NEW timeout \in 0 .. Infinite,
           pc[t] \in {"idle", "again"}, klock = NoThread, PendEnter(t, timeout)
    PROVE  IInv'
<1> USE ThreadsAssumption, MaxCounterAssumption, BoundsAssumption, PrioAssumption,
        OptionAssumption DEF IInv
<1>1. QED
  BY PendInvalidPreserves, PendTakePreserves, PendNotWaitPreserves,
     PendBlockPreserves DEF PendEnter

\* The scheduler switches away from the thread that waits.
LEMMA PendExitPreserves ==
    ASSUME IInv, NEW t \in Threads, PendExit(t)
    PROVE  IInv'
<1> USE ThreadsAssumption, MaxCounterAssumption, BoundsAssumption, PrioAssumption,
        OptionAssumption DEF IInv
<1>1. TypeOK'
  BY DEF PendExit, evtVars, tcbVars, callVars, TypeOK, Pcs, Results, Grants,
         Infinite
<1>2. NoStrandedWaiter' /\ QueueOrdered'
  BY DEF PendExit, evtVars, tcbVars, callVars, NoStrandedWaiter, Waiters,
         QueueOrdered
<1>3. NoIdleUnits' /\ FreedIsEmpty'
  BY DEF PendExit, evtVars, tcbVars, callVars, NoIdleUnits, FreedIsEmpty,
         LockInv, Calling
<1>4. LockInv'
  BY DEF PendExit, evtVars, tcbVars, callVars, TypeOK, LockInv, Calling
<1>5. WaitInv'
  BY DEF PendExit, evtVars, tcbVars, callVars, TypeOK, WaitInv, InPend
<1>6. QED
  BY <1>1, <1>2, <1>3, <1>4, <1>5

\* A signal ended the wait.
LEMMA PendSignalledPreserves ==
    ASSUME IInv, NEW t \in Threads, PendSignalled(t)
    PROVE  IInv'
<1> USE ThreadsAssumption, MaxCounterAssumption, BoundsAssumption, PrioAssumption,
        OptionAssumption DEF IInv
<1>1. /\ pc[t] = "waiting" /\ t \notin sem
      /\ schedRet' = [schedRet EXCEPT ![t] = "NONE"]
      /\ UNCHANGED <<evtVars, sem, delayed, evtPtr, timedOut, deleted, grant,
                     klock, picked, todo, unblockNum, flushed>>
  BY DEF PendSignalled, Ready
<1>2. /\ \/ pc' = [pc EXCEPT ![t] = "idle"]
         \/ pc' = [pc EXCEPT ![t] = "again"]
      /\ left' \in [Threads -> 0 .. Infinite]
      /\ ret' \in Results
  <2>1. 0 \in 0 .. Infinite
    BY BoundsAssumption DEF Infinite
  <2> DEFINE R == 0 .. Infinite
  <2>2. left \in [Threads -> R] /\ 0 \in R /\ ret \in Results
    BY <2>1 DEF TypeOK
  <2> HIDE DEF R
  <2>3. QED
    BY <2>2, OptionAssumption DEF PendSignalled, Return, Results, R
<1>3. t \in timedOut /\ grant[t] = "nothing"
  BY <1>1 DEF PendSignalled, WaitInv, InPend
<1>4. TypeOK'
  BY <1>1, <1>2 DEF TypeOK, Pcs, evtVars
<1>5. NoStrandedWaiter' /\ QueueOrdered'
  BY <1>1 DEF NoStrandedWaiter, Waiters, QueueOrdered, evtVars
<1>6. NoIdleUnits' /\ FreedIsEmpty'
  BY <1>1, <1>2 DEF TypeOK, NoIdleUnits, FreedIsEmpty, evtVars
<1>7. LockInv'
  BY <1>1, <1>2 DEF TypeOK, LockInv, Calling, evtVars
<1>8. WaitInv'
  BY <1>1, <1>2, <1>3 DEF TypeOK, WaitInv, InPend, evtVars
<1>9. QED
  BY <1>4, <1>5, <1>6, <1>7, <1>8

\* The wait is over and the call returns.
LEMMA PendReturnPreserves ==
    ASSUME IInv, NEW t \in Threads, PendReturn(t)
    PROVE  IInv'
<1> USE ThreadsAssumption, MaxCounterAssumption, BoundsAssumption, PrioAssumption,
        OptionAssumption DEF IInv
<1>1. TypeOK'
  <2>1. ret' \in Results
    <3>1. CASE t \in timedOut
      BY <3>1 DEF PendReturn, Return, Results
    <3>2. CASE t \notin timedOut /\ t \notin deleted
      BY <3>2 DEF PendReturn, Return, Results
    <3>3. CASE t \notin timedOut /\ t \in deleted
      BY <3>3 DEF PendReturn, Return, Results
    <3>4. QED
      BY <3>1, <3>2, <3>3
  <2>2. pc' = [pc EXCEPT ![t] = "idle"]
    BY DEF PendReturn, Return
  <2>3. left' = [left EXCEPT ![t] = 0] /\ grant' = [grant EXCEPT ![t] = "nothing"]
    BY DEF PendReturn
  <2>4. UNCHANGED <<evtType, counter, queue, sem, delayed, evtPtr, timedOut,
                    deleted, schedRet, klock, picked, todo, unblockNum, flushed>>
    BY DEF PendReturn, evtVars
  <2>5. QED
    BY <2>1, <2>2, <2>3, <2>4 DEF TypeOK, Pcs, Grants, Infinite
<1>2. NoStrandedWaiter' /\ QueueOrdered'
  BY DEF PendReturn, Return, Ready, evtVars, tcbVars, callVars,
         NoStrandedWaiter, Waiters, QueueOrdered
<1>3. NoIdleUnits' /\ FreedIsEmpty'
  BY DEF PendReturn, Return, Ready, evtVars, tcbVars, callVars, NoIdleUnits,
         FreedIsEmpty
<1>4. LockInv'
  BY DEF PendReturn, Return, Ready, evtVars, tcbVars, callVars, TypeOK,
         LockInv, Calling
<1>5. WaitInv'
  BY DEF PendReturn, Return, Ready, evtVars, tcbVars, callVars, TypeOK,
         WaitInv, InPend
<1>6. QED
  BY <1>1, <1>2, <1>3, <1>4, <1>5

(***************************************************************************)
(* A call of t that picks the first waiter, takes the kernel lock and goes *)
(* on at c: the step Post, Release, Flush and Delete share.                *)
(***************************************************************************)
LEMMA PickPreserves ==
    ASSUME IInv, NEW t \in Threads, NEW c \in Calling, picked = NoThread,
           klock = NoThread \/ klock = t,
           pc[t] = "idle" \/ pc[t] \in Calling,
           queue # <<>>, LowLevel, picked' = Head(queue), klock' = t,
           pc' = [pc EXCEPT ![t] = c],
           evtType' = IF c = "delete" THEN "UNUSED" ELSE "SEMC",
           todo' \in 0 .. MaxRelease, unblockNum' \in Nat, flushed' \in Nat,
           UNCHANGED <<counter, sem, evtPtr, timedOut, deleted, schedRet, left,
                       grant, ret>>
    PROVE  IInv'
<1> USE ThreadsAssumption, MaxCounterAssumption, BoundsAssumption, PrioAssumption,
        OptionAssumption DEF IInv
<1>1. /\ Head(queue) \in Threads /\ queue' \in Seq(Threads)
      /\ delayed' \subseteq Threads
      /\ NoStrandedWaiter' /\ QueueOrdered'
  BY LowLevelEffect
<1>2. TypeOK'
  BY <1>1 DEF TypeOK, Pcs, Calling
<1>3. counter = 0 /\ NoIdleUnits'
  BY DEF NoIdleUnits, TypeOK
<1>4. FreedIsEmpty'
  BY DEF FreedIsEmpty, TypeOK, Calling
<1>5. LockInv'
  BY <1>1 DEF TypeOK, LockInv, Calling
<1>6. WaitInv'
  BY DEF TypeOK, WaitInv, InPend, Calling
<1>7. QED
  BY <1>1, <1>2, <1>3, <1>4, <1>5, <1>6

\* A call of t that wakes the waiter it has in hand and stays in the kernel or
\* returns: what Post, Release, Flush and Delete do in the second stretch.
LEMMA WakePreserves ==
    ASSUME IInv, NEW t \in Threads, NEW g \in Grants \ {"nothing"},
           pc[t] \in Calling, picked # NoThread, HighLevel(picked, g),
           picked' = NoThread,
           \/ pc[t] # "post" /\ UNCHANGED <<pc, klock>>
           \/ /\ pc[t] # "delete" /\ pc' = [pc EXCEPT ![t] = "idle"]
              /\ klock' = NoThread,
           deleted' = IF g = "delete" THEN deleted \union {picked} ELSE deleted,
           flushed' \in Nat, ret' \in Results,
           UNCHANGED <<evtVars, delayed, schedRet, left, todo, unblockNum>>
    PROVE  IInv'
<1> USE ThreadsAssumption, MaxCounterAssumption, BoundsAssumption, PrioAssumption,
        OptionAssumption DEF IInv
<1>1. /\ picked \in sem /\ picked \in Threads
      /\ sem' = sem \ {picked}
      /\ evtPtr' = evtPtr \ {picked}
      /\ timedOut' = timedOut
      /\ grant' = [grant EXCEPT ![picked] = g]
      /\ NoStrandedWaiter'
  BY HighLevelEffect DEF evtVars
<1>2. TypeOK'
  BY <1>1 DEF TypeOK, Pcs, evtVars
<1>3. NoIdleUnits' /\ QueueOrdered'
  BY DEF NoIdleUnits, QueueOrdered, evtVars
<1>4. klock = t /\ \A u \in Threads : pc[u] \in Calling => u = t
  BY DEF LockInv
<1>5. FreedIsEmpty'
  BY <1>1, <1>4 DEF FreedIsEmpty, LockInv, TypeOK, Calling, evtVars
<1>6. LockInv'
  BY <1>1, <1>4 DEF TypeOK, LockInv, Calling, evtVars
<1>7. WaitInv'
  <2>1. /\ pc[picked] \in InPend /\ picked # t
        /\ picked \notin timedOut /\ picked \notin deleted
        /\ schedRet[picked] = "NONE"
    BY <1>1 DEF WaitInv, InPend, Calling
  <2>2. \A u \in Threads : pc'[u] \in InPend <=> pc[u] \in InPend
    BY DEF TypeOK, InPend, Calling
  <2>3. ASSUME NEW u \in Threads, u # picked
        PROVE  /\ u \in sem' <=> u \in sem
               /\ u \in deleted' <=> u \in deleted
               /\ grant'[u] = grant[u]
    BY <1>1, <2>3 DEF TypeOK
  <2>4. \A u \in Threads : u # t => pc'[u] = pc[u]
    BY DEF TypeOK
  <2>5. picked \notin sem' /\ grant'[picked] = g /\ (picked \in deleted' <=> g = "delete")
    BY <1>1, <2>1 DEF TypeOK
  <2>6. QED
    BY <1>1, <2>1, <2>2, <2>3, <2>4, <2>5 DEF WaitInv
<1>8. QED
  BY <1>1, <1>2, <1>3, <1>5, <1>6, <1>7

\* A call of t that returns without a change of the queue, the waiters or the
\* type; it may have added to the counter when nobody waits.
LEMMA LeavePreserves ==
    ASSUME IInv, NEW t \in Threads, picked = NoThread,
           \/ pc[t] = "idle" /\ klock = NoThread
           \/ pc[t] \in Calling,
           pc' = [pc EXCEPT ![t] = "idle"], klock' = NoThread,
           queue = <<>> \/ (pc[t] = "idle" /\ evtType' = evtType),
           evtType' \in {"SEMC", "UNUSED"},
           evtType' # evtType => queue = <<>>,
           counter' \in 0 .. MaxCounter, counter' = counter \/ queue = <<>>,
           todo' \in 0 .. MaxRelease, unblockNum' \in Nat, flushed' \in Nat,
           ret' \in Results, UNCHANGED <<queue, picked, tcbVars>>
    PROVE  IInv'
<1> USE ThreadsAssumption, MaxCounterAssumption, BoundsAssumption, PrioAssumption,
        OptionAssumption DEF IInv
<1>1. TypeOK'
  BY DEF TypeOK, Pcs, tcbVars
<1>2. NoStrandedWaiter' /\ QueueOrdered'
  BY DEF NoStrandedWaiter, Waiters, QueueOrdered, tcbVars
<1>3. NoIdleUnits'
  BY DEF NoIdleUnits
<1>4. FreedIsEmpty'
  <2>1. CASE queue = <<>>
    BY <2>1, <1>2, EmptyQueue DEF FreedIsEmpty, NoStrandedWaiter, Waiters
  <2>2. CASE queue # <<>>
    BY <2>2 DEF FreedIsEmpty, TypeOK, tcbVars
  <2>3. QED
    BY <2>1, <2>2
<1>5. LockInv'
  BY DEF TypeOK, LockInv, Calling
<1>6. WaitInv'
  BY DEF TypeOK, WaitInv, InPend, Calling, tcbVars
<1>7. QED
  BY <1>1, <1>2, <1>3, <1>4, <1>5, <1>6

\* A post: hand over, count, or fail.
LEMMA PostPreserves ==
    ASSUME IInv, NEW t \in Threads, Post(t)
    PROVE  IInv'
<1> USE ThreadsAssumption, MaxCounterAssumption, BoundsAssumption, PrioAssumption,
        OptionAssumption DEF IInv
<1>1. picked = NoThread /\ pc[t] = "idle" /\ klock = NoThread
  BY DEF Post, Caller, LockInv
<1>2. CASE evtType # "SEMC" \/ queue = <<>>
  <2>1. /\ pc' = [pc EXCEPT ![t] = "idle"] /\ ret' \in Results
        /\ counter' \in 0 .. MaxCounter /\ (counter' = counter \/ queue = <<>>)
        /\ UNCHANGED <<evtType, queue, tcbVars, klock, picked, todo, unblockNum,
                       flushed>>
    BY <1>2 DEF Post, HasRoom, Return, Results, TypeOK, evtVars, tcbVars,
         LowLevel
  <2>2. QED
    BY <1>1, <2>1, LeavePreserves DEF TypeOK
<1>3. CASE evtType = "SEMC" /\ queue # <<>>
  <2>1. /\ LowLevel /\ picked' = Head(queue) /\ klock' = t
        /\ pc' = [pc EXCEPT ![t] = "post"]
        /\ UNCHANGED <<evtType, counter, ret, sem, evtPtr, timedOut, deleted,
                       schedRet, left, grant, todo, unblockNum, flushed>>
    BY <1>3 DEF Post
  <2>2. QED
    BY <1>1, <1>3, <2>1, PickPreserves DEF Calling, TypeOK
<1>4. QED
  BY <1>2, <1>3

\* The second half of a post.
LEMMA PostHighPreserves ==
    ASSUME IInv, NEW t \in Threads, PostHigh(t)
    PROVE  IInv'
<1> USE ThreadsAssumption, MaxCounterAssumption, BoundsAssumption, PrioAssumption,
        OptionAssumption DEF IInv
<1>1. picked # NoThread
  BY DEF PostHigh, LockInv
<1>2. QED
  BY <1>1, WakePreserves DEF PostHigh, Return, Grants, Results, Calling, TypeOK

\* A round of API_SemaphoreCFlush or API_SemaphoreCDelete.
LEMMA PickOrFinishPreserves ==
    ASSUME IInv, NEW t \in Threads, NEW c \in {"flush", "delete"},
           picked = NoThread, (pc[t] = "idle" /\ klock = NoThread) \/ pc[t] = c,
           evtType' = IF c = "delete" THEN "UNUSED" ELSE "SEMC",
           PickOrFinish(t, c), unblockNum' \in Nat, flushed' \in Nat,
           UNCHANGED <<counter, sem, evtPtr, timedOut, deleted, schedRet, left,
                       grant, todo>>
    PROVE  IInv'
<1> USE ThreadsAssumption, MaxCounterAssumption, BoundsAssumption, PrioAssumption,
        OptionAssumption DEF IInv
<1>1. klock = NoThread \/ klock = t
  BY DEF LockInv, Calling
<1>2. CASE queue # <<>>
  <2>1. /\ LowLevel /\ picked' = Head(queue) /\ klock' = t
        /\ pc' = [pc EXCEPT ![t] = c] /\ UNCHANGED ret
    BY <1>2 DEF PickOrFinish
  <2>2. QED
    BY <1>1, <1>2, <2>1, PickPreserves DEF Calling, TypeOK
<1>3. CASE queue = <<>>
  <2>1. /\ pc' = [pc EXCEPT ![t] = "idle"] /\ klock' = NoThread /\ ret' \in Results
        /\ UNCHANGED <<queue, picked, tcbVars>>
    BY <1>3 DEF PickOrFinish, Return, Results, tcbVars
  <2>2. QED
    BY <1>3, <2>1, LeavePreserves DEF Calling, TypeOK
<1>4. QED
  BY <1>2, <1>3

\* API_SemaphoreCFlush is entered.
LEMMA FlushPreserves ==
    ASSUME IInv, NEW t \in Threads, Flush(t)
    PROVE  IInv'
<1> USE ThreadsAssumption, MaxCounterAssumption, BoundsAssumption, PrioAssumption,
        OptionAssumption DEF IInv
<1>1. picked = NoThread /\ pc[t] = "idle" /\ klock = NoThread
  BY DEF Flush, Caller, LockInv
<1>2. QED
  BY <1>1, PickOrFinishPreserves DEF Flush, EventWaitNum, TypeOK

\* API_SemaphoreCFlush wakes the waiter it picked.
LEMMA FlushHighPreserves ==
    ASSUME IInv, NEW t \in Threads, FlushHigh(t)
    PROVE  IInv'
<1> USE ThreadsAssumption, MaxCounterAssumption, BoundsAssumption, PrioAssumption,
        OptionAssumption DEF IInv
<1>1. QED
  BY WakePreserves DEF FlushHigh, Grants, Calling, TypeOK

\* API_SemaphoreCFlush looks for the next waiter.
LEMMA FlushNextPreserves ==
    ASSUME IInv, NEW t \in Threads, FlushNext(t)
    PROVE  IInv'
<1> USE ThreadsAssumption, MaxCounterAssumption, BoundsAssumption, PrioAssumption,
        OptionAssumption DEF IInv
<1>1. evtType = "SEMC"
  BY DEF FlushNext, LockInv
<1>2. QED
  BY <1>1, PickOrFinishPreserves DEF FlushNext, TypeOK

\* API_SemaphoreCDelete is entered.
LEMMA DeletePreserves ==
    ASSUME IInv, NEW t \in Threads, Delete(t)
    PROVE  IInv'
<1> USE ThreadsAssumption, MaxCounterAssumption, BoundsAssumption, PrioAssumption,
        OptionAssumption DEF IInv
<1>1. picked = NoThread /\ pc[t] = "idle" /\ klock = NoThread
  BY DEF Delete, Caller, LockInv
<1>2. QED
  BY <1>1, PickOrFinishPreserves DEF Delete, TypeOK

\* API_SemaphoreCDelete wakes the waiter it picked.
LEMMA DeleteHighPreserves ==
    ASSUME IInv, NEW t \in Threads, DeleteHigh(t)
    PROVE  IInv'
<1> USE ThreadsAssumption, MaxCounterAssumption, BoundsAssumption, PrioAssumption,
        OptionAssumption DEF IInv
<1>1. QED
  BY WakePreserves DEF DeleteHigh, Grants, Calling, TypeOK

\* API_SemaphoreCDelete looks for the next waiter.
LEMMA DeleteNextPreserves ==
    ASSUME IInv, NEW t \in Threads, DeleteNext(t)
    PROVE  IInv'
<1> USE ThreadsAssumption, MaxCounterAssumption, BoundsAssumption, PrioAssumption,
        OptionAssumption DEF IInv
<1>1. evtType = "UNUSED"
  BY DEF DeleteNext, LockInv
<1>2. QED
  BY <1>1, PickOrFinishPreserves DEF DeleteNext, TypeOK

\* A call on a semaphore that is gone.
LEMMA CallInvalidPreserves ==
    ASSUME IInv, NEW t \in Threads, CallInvalid(t)
    PROVE  IInv'
<1> USE ThreadsAssumption, MaxCounterAssumption, BoundsAssumption, PrioAssumption,
        OptionAssumption DEF IInv
<1>1. picked = NoThread /\ pc[t] = "idle" /\ klock = NoThread
  BY DEF CallInvalid, Caller, LockInv
<1>2. QED
  BY <1>1, LeavePreserves DEF CallInvalid, Return, Results, TypeOK, evtVars

\* One unit of API_SemaphoreCRelease, or its end.
LEMMA ReleaseUnitPreserves ==
    ASSUME IInv, NEW t \in Threads, NEW n \in 0 .. MaxRelease,
           picked = NoThread, evtType = "SEMC",
           (pc[t] = "idle" /\ klock = NoThread) \/ pc[t] = "release",
           pc[t] = "idle" => n # 0,
           ReleaseUnit(t, n),
           UNCHANGED <<evtType, sem, evtPtr, timedOut, deleted, schedRet, left,
                       grant, unblockNum, flushed>>
    PROVE  IInv'
<1> USE ThreadsAssumption, MaxCounterAssumption, BoundsAssumption, PrioAssumption,
        OptionAssumption DEF IInv
<1>1. klock = NoThread \/ klock = t
  BY DEF LockInv, Calling
<1>2. CASE n > 0 /\ queue # <<>>
  <2>1. /\ LowLevel /\ picked' = Head(queue) /\ klock' = t
        /\ pc' = [pc EXCEPT ![t] = "release"] /\ todo' \in 0 .. MaxRelease
        /\ UNCHANGED <<counter, ret>>
    BY <1>2 DEF ReleaseUnit
  <2>2. QED
    BY <1>1, <1>2, <2>1, PickPreserves DEF Calling, TypeOK
<1>3. CASE n > 0 /\ queue = <<>> /\ counter < MaxCounter
  <2>1. /\ counter' \in 0 .. MaxCounter /\ klock' = t
        /\ pc' = [pc EXCEPT ![t] = "release"] /\ todo' \in 0 .. MaxRelease
        /\ UNCHANGED <<queue, delayed, picked, ret>>
    BY <1>3 DEF ReleaseUnit, HasRoom, TypeOK
  <2>2. TypeOK'
    BY <2>1 DEF TypeOK, Pcs
  <2>3. NoStrandedWaiter' /\ QueueOrdered'
    BY <2>1 DEF NoStrandedWaiter, Waiters, QueueOrdered
  <2>4. NoIdleUnits' /\ FreedIsEmpty'
    BY <1>3, <2>1 DEF NoIdleUnits, FreedIsEmpty
  <2>5. LockInv'
    BY <1>1, <2>1 DEF TypeOK, LockInv, Calling
  <2>6. WaitInv'
    BY <2>1 DEF TypeOK, WaitInv, InPend
  <2>7. QED
    BY <2>2, <2>3, <2>4, <2>5, <2>6
<1>4. CASE n = 0 \/ (n > 0 /\ queue = <<>> /\ counter >= MaxCounter)
  <2>1. /\ pc' = [pc EXCEPT ![t] = "idle"] /\ klock' = NoThread
        /\ todo' = 0 /\ ret' \in Results
        /\ UNCHANGED <<counter, queue, delayed, picked>>
    BY <1>4 DEF ReleaseUnit, HasRoom, Return, Results, TypeOK
  <2>2. TypeOK'
    BY <2>1 DEF TypeOK, Pcs
  <2>3. NoStrandedWaiter' /\ QueueOrdered'
    BY <2>1 DEF NoStrandedWaiter, Waiters, QueueOrdered
  <2>4. NoIdleUnits' /\ FreedIsEmpty'
    BY <2>1 DEF NoIdleUnits, FreedIsEmpty
  <2>5. LockInv'
    BY <1>1, <2>1 DEF TypeOK, LockInv, Calling
  <2>6. WaitInv'
    BY <2>1 DEF TypeOK, WaitInv, InPend
  <2>7. QED
    BY <2>2, <2>3, <2>4, <2>5, <2>6
<1>5. QED
  BY <1>2, <1>3, <1>4 DEF TypeOK

\* API_SemaphoreCRelease is entered.
LEMMA ReleasePreserves ==
    ASSUME IInv, NEW t \in Threads, NEW n \in 1 .. MaxRelease, Release(t, n)
    PROVE  IInv'
<1> USE ThreadsAssumption, MaxCounterAssumption, BoundsAssumption, PrioAssumption,
        OptionAssumption DEF IInv
<1>1. picked = NoThread /\ pc[t] = "idle" /\ klock = NoThread
  BY DEF Release, Caller, LockInv
<1>2. QED
  BY <1>1, ReleaseUnitPreserves DEF Release

\* API_SemaphoreCRelease wakes the waiter it picked.
LEMMA ReleaseHighPreserves ==
    ASSUME IInv, NEW t \in Threads, ReleaseHigh(t)
    PROVE  IInv'
<1> USE ThreadsAssumption, MaxCounterAssumption, BoundsAssumption, PrioAssumption,
        OptionAssumption DEF IInv
<1>1. QED
  BY WakePreserves DEF ReleaseHigh, Grants, Calling, TypeOK

\* API_SemaphoreCRelease goes on with the next unit.
LEMMA ReleaseNextPreserves ==
    ASSUME IInv, NEW t \in Threads, ReleaseNext(t)
    PROVE  IInv'
<1> USE ThreadsAssumption, MaxCounterAssumption, BoundsAssumption, PrioAssumption,
        OptionAssumption DEF IInv
<1>1. evtType = "SEMC" /\ todo \in 0 .. MaxRelease
  BY DEF ReleaseNext, LockInv, TypeOK
<1>2. QED
  BY <1>1, ReleaseUnitPreserves DEF ReleaseNext

\* An ISR that only changes the counter: a post nobody waits for, TryPend, Clear.
LEMMA CountPreserves ==
    ASSUME IInv, evtType = "SEMC", counter' \in 0 .. MaxCounter,
           counter' <= counter \/ queue = <<>>,
           UNCHANGED <<evtType, queue, tcbVars, callVars>>
    PROVE  IInv'
<1> USE ThreadsAssumption, MaxCounterAssumption, BoundsAssumption, PrioAssumption,
        OptionAssumption DEF IInv
<1>1. TypeOK'
  BY DEF TypeOK, tcbVars, callVars
<1>2. NoStrandedWaiter' /\ QueueOrdered'
  BY DEF NoStrandedWaiter, Waiters, QueueOrdered, tcbVars, callVars
<1>3. NoIdleUnits' /\ FreedIsEmpty'
  BY DEF NoIdleUnits, FreedIsEmpty, TypeOK
<1>4. LockInv' /\ WaitInv'
  BY DEF LockInv, WaitInv, tcbVars, callVars
<1>5. QED
  BY <1>1, <1>2, <1>3, <1>4

\* A post by an ISR, also while a thread has a waiter in hand.
LEMMA IsrPostPreserves ==
    ASSUME IInv, IsrPost
    PROVE  IInv'
<1> USE ThreadsAssumption, MaxCounterAssumption, BoundsAssumption, PrioAssumption,
        OptionAssumption DEF IInv
<1>1. CASE queue = <<>>
  BY <1>1, CountPreserves DEF IsrPost, HasRoom, TypeOK, tcbVars
<1>2. CASE queue # <<>>
  <2> DEFINE h == Head(queue)
  <2>1. /\ queue' = Tail(queue) /\ delayed' = delayed \ {h} /\ evtPtr' = evtPtr \ {h}
        /\ timedOut' = timedOut \ {h} /\ grant' = [grant EXCEPT ![h] = "unit"]
        /\ sem' = IF h \in timedOut THEN sem ELSE sem \ {h}
        /\ UNCHANGED <<evtType, counter, deleted, schedRet, left, callVars>>
    BY <1>2 DEF IsrPost, LowLevel, HighLevel
  <2>2. /\ h \in ToSet(queue) /\ h \in Threads
        /\ queue' \in Seq(Threads)
        /\ ToSet(queue') = ToSet(queue) \ {h}
        /\ IsInjective(queue')
        /\ Sorted(queue, Prio) => Sorted(queue', Prio)
    BY <1>2, <2>1, TailIsRest DEF TypeOK, NoStrandedWaiter
  <2> HIDE DEF h
  <2>3. h \in sem /\ h # picked /\ h \notin timedOut
    BY <2>2 DEF NoStrandedWaiter, Waiters, WaitInv
  <2>4. sem' = sem \ {h} /\ timedOut' = timedOut
    BY <2>1, <2>3
  <2>5. TypeOK'
    BY <2>1, <2>2, <2>4 DEF TypeOK, Grants, callVars
  <2>6. NoStrandedWaiter'
    BY <2>1, <2>2, <2>3, <2>4 DEF NoStrandedWaiter, Waiters, callVars
  <2>7. QueueOrdered' /\ NoIdleUnits'
    BY <1>2, <2>1, <2>2 DEF QueueOrdered, NoIdleUnits
  <2>8. FreedIsEmpty' /\ LockInv'
    BY <2>1 DEF FreedIsEmpty, LockInv, IsrPost, callVars
  <2>9. WaitInv'
    <3>1. \A u \in Threads : u # h => /\ u \in sem' <=> u \in sem
                                      /\ grant'[u] = grant[u]
      BY <2>1, <2>4 DEF TypeOK
    <3>2. h \notin sem' /\ grant'[h] = "unit"
      BY <2>1, <2>2, <2>4 DEF TypeOK
    <3>3. /\ pc[h] \in InPend /\ h \notin deleted /\ schedRet[h] = "NONE"
      BY <2>2, <2>3 DEF WaitInv
    <3>4. QED
      BY <2>1, <2>3, <2>4, <3>1, <3>2, <3>3 DEF WaitInv, callVars
  <2>10. QED
    BY <2>5, <2>6, <2>7, <2>8, <2>9
<1>3. QED
  BY <1>1, <1>2

\* A thread whose wait is ended by the tick, by API_ThreadWakeup or by a signal.
LEMMA UnpendPreserves ==
    ASSUME IInv, NEW x \in ToSet(queue), Unpend(x),
           NEW s \in {"NONE", "EINTR", "RESTART"},
           schedRet' = [schedRet EXCEPT ![x] = s],
           UNCHANGED <<evtType, counter, deleted, left, grant, callVars>>
    PROVE  IInv'
<1> USE ThreadsAssumption, MaxCounterAssumption, BoundsAssumption, PrioAssumption,
        OptionAssumption DEF IInv
<1>1. UNCHANGED <<picked, counter>>
  BY DEF callVars
<1>2. /\ x \in sem /\ x \in Threads
      /\ sem' = sem \ {x}
      /\ delayed' = delayed \ {x}
      /\ evtPtr' = evtPtr \ {x}
      /\ timedOut' = timedOut \union {x}
      /\ queue' \in Seq(Threads)
      /\ queue # <<>>
      /\ NoStrandedWaiter' /\ QueueOrdered' /\ NoIdleUnits'
  BY <1>1, UnpendEffect
<1>3. TypeOK'
  BY <1>2 DEF TypeOK, callVars
<1>4. FreedIsEmpty' /\ LockInv'
  BY <1>2 DEF FreedIsEmpty, LockInv, callVars
<1>5. WaitInv'
  <2>1. \A u \in Threads : u # x => /\ u \in sem' <=> u \in sem
                                    /\ u \in timedOut' <=> u \in timedOut
                                    /\ schedRet'[u] = schedRet[u]
    BY <1>2 DEF TypeOK
  <2>2. x \notin sem' /\ x \in timedOut'
    BY <1>2
  <2>3. pc[x] \in InPend /\ x \notin deleted /\ grant[x] = "nothing"
    BY <1>2 DEF WaitInv
  <2>4. QED
    BY <1>2, <2>1, <2>2, <2>3 DEF WaitInv, callVars
<1>6. QED
  BY <1>2, <1>3, <1>4, <1>5

\* A tick passes.
LEMMA TickPreserves ==
    ASSUME IInv, Tick
    PROVE  IInv'
<1> USE ThreadsAssumption, MaxCounterAssumption, BoundsAssumption, PrioAssumption,
        OptionAssumption DEF IInv
<1>1. left' \in [Threads -> 0 .. Infinite]
  BY DEF Tick, Clocked, TypeOK, Infinite
<1>2. UNCHANGED <<evtVars, sem, delayed, evtPtr, timedOut, deleted, schedRet, grant,
                  callVars>>
  BY DEF Tick
<1>3. TypeOK'
  BY <1>1, <1>2 DEF TypeOK, evtVars, callVars
<1>4. NoStrandedWaiter' /\ QueueOrdered' /\ NoIdleUnits' /\ FreedIsEmpty'
  BY <1>2 DEF NoStrandedWaiter, Waiters, QueueOrdered, NoIdleUnits,
         FreedIsEmpty,
              evtVars, callVars
<1>5. LockInv' /\ WaitInv'
  BY <1>2 DEF LockInv, WaitInv, evtVars, callVars
<1>6. QED
  BY <1>3, <1>4, <1>5

\* The tick loop, API_ThreadWakeup and signals.
LEMMA EndWaitPreserves ==
    ASSUME IInv, NEW x \in Threads,
           \/ Expire(x) \/ Wakeup(x)
           \/ \E saType \in {"EINTR", "RESTART"} : Signal(x, saType)
    PROVE  IInv'
<1> USE ThreadsAssumption, MaxCounterAssumption, BoundsAssumption, PrioAssumption,
        OptionAssumption DEF IInv
<1>1. CASE Expire(x) \/ Wakeup(x)
  <2>1. /\ x \in ToSet(queue) /\ Unpend(x)
        /\ UNCHANGED <<evtType, counter, deleted, schedRet, left, grant, callVars>>
    BY <1>1 DEF Expire, Wakeup, NoStrandedWaiter
  <2>2. schedRet' = [schedRet EXCEPT ![x] = "NONE"]
    BY <2>1 DEF NoStrandedWaiter, Waiters, WaitInv, TypeOK
  <2>3. QED
    BY <2>1, <2>2, UnpendPreserves
<1>2. ASSUME NEW saType \in {"EINTR", "RESTART"}, Signal(x, saType)
      PROVE  IInv'
  <2>1. picked = NoThread
    BY <1>2 DEF Signal, LockInv
  <2>2. x \in ToSet(queue)
    BY <1>2, <2>1 DEF Signal, Ready, NoStrandedWaiter, Waiters
  <2>3. QED
    BY <1>2, <2>2, UnpendPreserves DEF Signal
<1>3. QED
  BY <1>1, <1>2

-----------------------------------------------------------------------------
\* Every step of the specification preserves the invariant.
LEMMA NextIInv ==
    ASSUME IInv, [Next]_vars
    PROVE  IInv'
<1>1. CASE Next
  <2>1. ASSUME NEW t \in Threads, NEW n \in 0 .. MaxCounter, Create(t, n)
        PROVE  IInv'
    BY <2>1, CreatePreserves
  <2>2. ASSUME NEW t \in Threads, NEW timeout \in 0 .. Infinite, Pend(t, timeout)
        PROVE  IInv'
    BY <2>2, PendEnterPreserves DEF Pend, Caller
  <2>3. ASSUME NEW t \in Threads, NEW n \in 1 .. MaxRelease, Release(t, n)
        PROVE  IInv'
    BY <2>3, ReleasePreserves
  <2>4. ASSUME NEW t \in Threads,
               Post(t) \/ Flush(t) \/ Delete(t) \/ CallInvalid(t)
        PROVE  IInv'
    BY <2>4, PostPreserves, FlushPreserves, DeletePreserves,
         CallInvalidPreserves
  <2>5. ASSUME NEW t \in Threads, Proceed(t)
        PROVE  IInv'
    <3>1. PendAgain(t) => IInv'
      BY PendEnterPreserves DEF PendAgain, IInv, TypeOK
    <3>2. QED
      BY <2>5, <3>1, PendExitPreserves, PendSignalledPreserves,
         PendReturnPreserves, PostHighPreserves, FlushHighPreserves,
         FlushNextPreserves, DeleteHighPreserves, DeleteNextPreserves,
         ReleaseHighPreserves, ReleaseNextPreserves DEF Proceed
  <2>6. CASE TryPend \/ Clear
    <3>1. /\ evtType = "SEMC" /\ counter' \in 0 .. MaxCounter /\ counter' <= counter
          /\ UNCHANGED <<evtType, queue, tcbVars, callVars>>
      BY <2>6, MaxCounterAssumption DEF TryPend, Clear, IInv, TypeOK
    <3>2. QED
      BY <3>1, CountPreserves
  <2>7. CASE IsrPost \/ Tick
    BY <2>7, IsrPostPreserves, TickPreserves
  <2>8. ASSUME NEW x \in Threads,
               \/ Expire(x) \/ Wakeup(x)
               \/ \E saType \in {"EINTR", "RESTART"} : Signal(x, saType)
        PROVE  IInv'
    BY <2>8, EndWaitPreserves
  <2>9. QED
    BY <1>1, <2>1, <2>2, <2>3, <2>4, <2>5, <2>6, <2>7, <2>8 DEF Next
<1>2. CASE UNCHANGED vars
  BY <1>2 DEF vars, evtVars, tcbVars, callVars, IInv, TypeOK, NoStrandedWaiter,
              Waiters, NoIdleUnits, QueueOrdered, FreedIsEmpty, LockInv, WaitInv
<1>3. QED
  BY <1>1, <1>2

\* The inductive invariant holds in every reachable state.
THEOREM Invariance == Spec => []IInv
<1>1. IInv /\ [Next]_vars => IInv'
  BY NextIInv
<1>2. QED
  BY InitIInv, <1>1, PTL DEF Spec

\* Every variable keeps its type; in particular the counter stays within
\* EVENT_ulMaxCounter, whatever Post, Release and ISRs add.
THEOREM TypeCorrect == Spec => []TypeOK
<1>1. IInv => TypeOK
  BY DEF IInv
<1>2. QED
  BY Invariance, <1>1, PTL

\* A thread with its SEM bit set is on the queue once or in the hand of the
\* call that wakes it, so no waiter is ever lost and none is unqueued twice.
THEOREM NoWaiterIsLost == Spec => []NoStrandedWaiter
<1>1. IInv => NoStrandedWaiter
  BY DEF IInv
<1>2. QED
  BY Invariance, <1>1, PTL

\* No thread waits for a semaphore that has units.
THEOREM NoUnitIsIdle == Spec => []NoIdleUnits
<1>1. IInv => NoIdleUnits
  BY DEF IInv
<1>2. QED
  BY Invariance, <1>1, PTL

\* A priority queue wakes the thread of the highest priority first.
THEOREM QueueStaysOrdered == Spec => []QueueOrdered
<1>1. IInv => QueueOrdered
  BY DEF IInv
<1>2. QED
  BY Invariance, <1>1, PTL

\* The control block API_SemaphoreCDelete frees has no waiter left on it.
THEOREM FreedBlockIsEmpty == Spec => []FreedIsEmpty
<1>1. IInv => FreedIsEmpty
  BY DEF IInv
<1>2. QED
  BY Invariance, <1>1, PTL

\* API_SemaphoreCPend reports what the thread was given: success for a unit or
\* a flush and for nothing else, and ERROR_KERNEL_PEND deletion for a delete.
THEOREM ResultsAreGrants == Spec => ResultMatchesGrant
<1> DEFINE Match ==
        \A t \in Threads :
           pc[t] = "waiting" /\ pc'[t] # "waiting" =>
              /\ grant[t] \in {"unit", "flush"} <=> pc'[t] = "idle" /\ ret' = "NONE"
              /\ grant[t] = "delete" <=> pc'[t] = "idle" /\ ret' = "DELETED"
<1>1. ASSUME IInv, [Next]_vars PROVE [Match]_vars
  <2> SUFFICES ASSUME Next, NEW t \in Threads, pc[t] = "waiting", pc'[t] # "waiting"
               PROVE  /\ grant[t] \in {"unit", "flush"} <=> pc'[t] = "idle" /\ ret' = "NONE"
                      /\ grant[t] = "delete" <=> pc'[t] = "idle" /\ ret' = "DELETED"
    BY <1>1
  <2> USE <1>1
  <2>1. PendSignalled(t) \/ PendReturn(t)
    BY DEF Next, Proceed, IInv, TypeOK, Create, Pend, PendAgain, PendEnter,
           PendInvalid, PendTake, PendNotWait, PendBlock, PendExit,
           PendSignalled, PendReturn, Post, PostHigh, IsrPost, TryPend, Clear,
           Flush, FlushHigh, FlushNext, Delete, DeleteHigh, DeleteNext,
           CallInvalid, Release, ReleaseUnit, ReleaseHigh, ReleaseNext, Tick,
           Expire, Signal, Wakeup, PickOrFinish, Caller, Return, callVars, tcbVars
  <2>2. CASE PendSignalled(t)
    <3>1. grant[t] = "nothing"
      BY <2>2 DEF PendSignalled, Ready, IInv, WaitInv, InPend
    <3>2. pc'[t] = "again" \/ ret' \in {"EINTR", "TIMEOUT"}
      BY <2>2 DEF PendSignalled, Return, IInv, TypeOK
    <3>3. QED
      BY <3>1, <3>2
  <2>3. CASE PendReturn(t)
    <3>1. /\ t \in Threads /\ t \notin sem /\ pc'[t] = "idle"
          /\ ret' = CASE t \in timedOut -> "TIMEOUT"
                      [] t \notin timedOut /\ t \notin deleted -> "NONE"
                      [] t \notin timedOut /\ t \in deleted -> "DELETED"
      BY <2>3 DEF PendReturn, Return, Ready, IInv, TypeOK
    <3>2. /\ grant[t] = "nothing" <=> t \in timedOut
          /\ grant[t] = "delete" <=> t \in deleted
          /\ grant[t] \in Grants
      BY <3>1 DEF IInv, WaitInv, InPend, TypeOK
    <3>3. QED
      BY <3>1, <3>2 DEF Grants
  <2>4. QED
    BY <2>1, <2>2, <2>3
<1>2. QED
  BY Invariance, <1>1, PTL DEF Spec, ResultMatchesGrant

-----------------------------------------------------------------------------
(***************************************************************************)
(* The count API_SemaphoreCFlush reports.  While it runs, the threads it   *)
(* has woken, the one in hand and those still queued are together no more  *)
(* than it counted: nobody can join the queue, interrupts only take        *)
(* threads away.                                                           *)
(***************************************************************************)
InHand == IF picked = NoThread THEN 0 ELSE 1

FlushInv ==
    /\ FlushCountBound
    /\ \A t \in Threads :
          pc[t] = "flush" => flushed + InHand + Len(queue) <= unblockNum

\* Steps that leave the count alone, when no flush is under way afterwards or
\* one that was goes on with no more waiters.
LEMMA FlushStays ==
    ASSUME FlushInv, TypeOK, TypeOK', UNCHANGED <<flushed, unblockNum>>,
           \/ \A u \in Threads : pc'[u] # "flush"
           \/ /\ \A u \in Threads : pc'[u] = "flush" => pc[u] = "flush"
              /\ Len(queue') <= Len(queue) /\ picked' = picked
    PROVE  FlushInv'
<1>1. FlushCountBound'
  BY DEF FlushInv, FlushCountBound
<1>2. CASE \A u \in Threads : pc'[u] # "flush"
  BY <1>1, <1>2 DEF FlushInv
<1>3. CASE /\ \A u \in Threads : pc'[u] = "flush" => pc[u] = "flush"
           /\ Len(queue') <= Len(queue) /\ picked' = picked
  <2>1. InHand' = InHand /\ InHand \in Nat /\ flushed \in Nat /\ unblockNum \in Nat
    BY <1>3 DEF InHand, TypeOK
  <2>2. Len(queue) \in Nat /\ Len(queue') \in Nat
    BY DEF TypeOK
  <2>3. ASSUME NEW u \in Threads, pc'[u] = "flush"
        PROVE  flushed + InHand + Len(queue') <= unblockNum
    <3>1. flushed + InHand + Len(queue) <= unblockNum
      BY <1>3, <2>3 DEF FlushInv
    <3>2. QED
      BY <1>3, <2>1, <2>2, <3>1
  <2>4. QED
    BY <1>1, <2>1, <2>3 DEF FlushInv
<1>4. QED
  BY <1>2, <1>3

\* Who is inside the kernel is not in a flush, unless it is the flush.
LEMMA OneFlush ==
    ASSUME IInv, NEW t \in Threads,
           klock = NoThread \/ pc[t] \in Calling \union {"pendExit"}
    PROVE  \A u \in Threads : u # t => pc[u] # "flush"
BY ThreadsAssumption DEF IInv, LockInv, Calling

\* A round of the flush finds the next waiter, or ends.
LEMMA FlushRound ==
    ASSUME TypeOK, NEW t \in Threads, picked = NoThread, FlushCountBound',
           TypeOK', PickOrFinish(t, "flush"),
           \A u \in Threads : u # t => pc[u] # "flush",
           flushed' + Len(queue) <= unblockNum'
    PROVE  FlushInv'
<1> USE ThreadsAssumption
<1>1. CASE queue # <<>>
  <2>1. Len(queue') = Len(queue) - 1
    <3>1. queue \in Seq(Threads) /\ queue' = Tail(queue)
      BY <1>1 DEF TypeOK, PickOrFinish, LowLevel
    <3>2. QED
      BY <1>1, <3>1
  <2>2. InHand' \in {0, 1}
    BY DEF InHand
  <2>3. Len(queue) \in Nat /\ flushed' \in Nat /\ unblockNum' \in Nat
    BY DEF TypeOK
  <2>4. flushed' + InHand' + Len(queue') <= unblockNum'
    BY <2>1, <2>2, <2>3
  <2>5. QED
    BY <2>4 DEF FlushInv
<1>2. CASE queue = <<>>
  <2>1. pc' = [pc EXCEPT ![t] = "idle"]
    BY <1>2 DEF PickOrFinish, Return
  <2>2. \A u \in Threads : pc'[u] # "flush"
    BY <2>1 DEF TypeOK
  <2>3. QED
    BY <2>2 DEF FlushInv
<1>3. QED
  BY <1>1, <1>2

\* Interrupts only shorten the queue.
LEMMA InterruptShortens ==
    ASSUME IInv, \/ IsrPost \/ TryPend \/ Clear \/ Tick
                 \/ \E x \in Threads : Expire(x) \/ Wakeup(x)
    PROVE  Len(queue') <= Len(queue) /\ UNCHANGED callVars
<1>1. queue \in Seq(Threads) /\ Len(queue) \in Nat
  BY DEF IInv, TypeOK
<1>2. queue # <<>> => Len(Tail(queue)) <= Len(queue)
  BY <1>1
<1>3. CASE IsrPost
  <2>1. (queue # <<>> /\ queue' = Tail(queue)) \/ queue' = queue
    BY <1>3 DEF IsrPost, LowLevel
  <2>2. QED
    BY <1>1, <1>2, <1>3, <2>1 DEF IsrPost
<1>4. CASE TryPend \/ Clear \/ Tick
  <2>1. queue' = queue /\ UNCHANGED callVars
    BY <1>4 DEF TryPend, Clear, Tick, evtVars
  <2>2. QED
    BY <1>1, <2>1
<1>5. ASSUME NEW x \in Threads, Expire(x) \/ Wakeup(x)
      PROVE  Len(queue') <= Len(queue) /\ UNCHANGED callVars
  <2>1. x \in ToSet(queue) /\ x \in sem /\ x \in evtPtr
    BY <1>5 DEF Expire, Wakeup, IInv, NoStrandedWaiter, Waiters
  <2>2. queue' = Deleted(queue, x) /\ UNCHANGED callVars
    BY <1>5, <2>1 DEF Expire, Wakeup, Unpend
  <2>3. \E i \in 1 .. Len(queue) : queue[i] = x
    BY <1>1, <2>1, ByPosition
  <2>4. PICK i \in 1 .. Len(queue) : Deleted(queue, x) = RemoveAt(queue, i)
    BY <2>3 DEF Deleted
  <2>5. Len(RemoveAt(queue, i)) = Len(queue) - 1
    BY <1>1, RemoveAtElements
  <2>6. QED
    BY <1>1, <2>2, <2>4, <2>5
<1>6. QED
  BY <1>3, <1>4, <1>5

\* Every step keeps the count of a flush.
LEMMA FlushStep ==
    ASSUME IInv, IInv', FlushInv, [Next]_vars
    PROVE  FlushInv'
<1> USE ThreadsAssumption
<1>1. TypeOK /\ TypeOK'
  BY DEF IInv
<1>2. ASSUME NEW t \in Threads, Flush(t) PROVE FlushInv'
  <2>1. picked = NoThread
    BY <1>2 DEF IInv, LockInv, Flush, Caller
  <2>2. \A u \in Threads : u # t => pc[u] # "flush"
    BY <1>2, OneFlush DEF Flush, Caller
  <2>3. Len(queue) \in Nat
    BY <1>1 DEF TypeOK
  <2>4. flushed' = 0 /\ unblockNum' = Len(queue) /\ PickOrFinish(t, "flush")
    BY <1>2 DEF Flush, EventWaitNum
  <2>5. flushed' + Len(queue) <= unblockNum' /\ FlushCountBound'
    BY <2>3, <2>4 DEF FlushCountBound
  <2>6. QED
    BY <1>1, <2>1, <2>2, <2>4, <2>5, FlushRound
<1>3. ASSUME NEW t \in Threads, FlushHigh(t) PROVE FlushInv'
  <2>1. /\ pc[t] = "flush" /\ picked # NoThread /\ picked' = NoThread
        /\ flushed' = flushed + 1 /\ UNCHANGED <<queue, pc, unblockNum>>
    BY <1>3 DEF FlushHigh, evtVars
  <2>2. InHand = 1 /\ InHand' = 0
    BY <2>1 DEF InHand
  <2>3. flushed + 1 + Len(queue) <= unblockNum
    BY <2>1, <2>2 DEF FlushInv
  <2>4. Len(queue) \in Nat /\ flushed \in Nat /\ unblockNum \in Nat
    BY <1>1 DEF TypeOK
  <2>5. flushed' + 0 + Len(queue) <= unblockNum /\ flushed' <= unblockNum
    BY <2>1, <2>3, <2>4
  <2>6. QED
    BY <2>1, <2>2, <2>5 DEF FlushInv, FlushCountBound
<1>4. ASSUME NEW t \in Threads, FlushNext(t) PROVE FlushInv'
  <2>1. /\ pc[t] = "flush" /\ picked = NoThread /\ PickOrFinish(t, "flush")
        /\ UNCHANGED <<flushed, unblockNum>>
    BY <1>4 DEF FlushNext
  <2>2. \A u \in Threads : u # t => pc[u] # "flush"
    BY <2>1, OneFlush DEF Calling
  <2>3. InHand = 0 /\ flushed \in Nat
    BY <1>1, <2>1 DEF InHand, TypeOK
  <2>4. flushed + Len(queue) <= unblockNum /\ FlushCountBound'
    BY <2>1, <2>3 DEF FlushInv, FlushCountBound
  <2>5. QED
    BY <1>1, <2>1, <2>2, <2>4, FlushRound
<1>5. ASSUME NEW t \in Threads, klock = NoThread \/ pc[t] \in Calling \union {"pendExit"},
             UNCHANGED <<flushed, unblockNum>>, pc'[t] # "flush",
             \A u \in Threads : u # t => pc'[u] = pc[u]
      PROVE  FlushInv'
  <2>1. \A u \in Threads : u # t => pc[u] # "flush"
    BY <1>5, OneFlush
  <2>2. \A u \in Threads : pc'[u] # "flush"
    BY <1>5, <2>1
  <2>3. QED
    BY <1>1, <1>5, <2>2, FlushStays
<1>6. ASSUME NEW t \in Threads,
             \/ \E n \in 0 .. MaxCounter : Create(t, n)
             \/ \E timeout \in 0 .. Infinite : Pend(t, timeout)
             \/ PendAgain(t)
      PROVE  FlushInv'
  <2>1. /\ klock = NoThread /\ UNCHANGED <<flushed, unblockNum>>
        /\ pc' = [pc EXCEPT ![t] = "idle"] \/ pc' = [pc EXCEPT ![t] = "pendExit"]
    BY <1>6 DEF Create, Caller, Return, Pend, PendAgain, PendEnter, PendInvalid,
                PendTake, PendNotWait, PendBlock
  <2>2. pc'[t] # "flush" /\ \A u \in Threads : u # t => pc'[u] = pc[u]
    BY <1>1, <2>1 DEF TypeOK
  <2>3. QED
    BY <1>5, <2>1, <2>2
<1>7. ASSUME NEW t \in Threads,
             \/ Post(t) \/ Delete(t) \/ CallInvalid(t) \/ PendExit(t) \/ PostHigh(t)
             \/ DeleteHigh(t) \/ DeleteNext(t) \/ ReleaseHigh(t) \/ ReleaseNext(t)
             \/ \E n \in 1 .. MaxRelease : Release(t, n)
      PROVE  FlushInv'
  <2>1. /\ klock = NoThread \/ pc[t] \in Calling \union {"pendExit"}
        /\ UNCHANGED <<flushed, unblockNum>>
    BY <1>7 DEF Post, Delete, CallInvalid, PendExit, PostHigh, DeleteHigh, DeleteNext,
                ReleaseHigh, ReleaseNext, Release, Caller, Calling
  <2>2. \/ \E c \in {"idle", "post", "delete", "release", "waiting"} :
              pc' = [pc EXCEPT ![t] = c]
        \/ pc' = pc /\ pc[t] # "flush"
    BY <1>7 DEF Post, Delete, CallInvalid, PendExit, PostHigh, DeleteHigh, DeleteNext,
                ReleaseHigh, ReleaseNext, Release, ReleaseUnit, PickOrFinish, Return
  <2>3. pc'[t] # "flush" /\ \A u \in Threads : u # t => pc'[u] = pc[u]
    BY <1>1, <2>2 DEF TypeOK
  <2>4. QED
    BY <1>5, <2>1, <2>3
<1>8. ASSUME NEW t \in Threads, PendSignalled(t) \/ PendReturn(t) PROVE FlushInv'
  <2>1. /\ UNCHANGED <<queue, picked, flushed, unblockNum>>
        /\ pc' = [pc EXCEPT ![t] = "idle"] \/ pc' = [pc EXCEPT ![t] = "again"]
    BY <1>8 DEF PendSignalled, PendReturn, Return, evtVars
  <2>2. \A u \in Threads : pc'[u] = "flush" => pc[u] = "flush"
    BY <1>1, <2>1 DEF TypeOK
  <2>3. Len(queue') <= Len(queue)
    BY <1>1, <2>1 DEF TypeOK
  <2>4. QED
    BY <1>1, <2>1, <2>2, <2>3, FlushStays
<1>9. ASSUME \/ IsrPost \/ TryPend \/ Clear \/ Tick
             \/ \E x \in Threads : Expire(x) \/ Wakeup(x)
      PROVE  FlushInv'
  <2>1. Len(queue') <= Len(queue) /\ UNCHANGED <<pc, picked, flushed, unblockNum>>
    BY <1>9, InterruptShortens DEF callVars
  <2>2. QED
    BY <1>1, <2>1, FlushStays
<1>10. ASSUME NEW x \in Threads, NEW saType \in {"EINTR", "RESTART"}, Signal(x, saType)
       PROVE  FlushInv'
  <2>1. klock = NoThread /\ UNCHANGED <<pc, flushed, unblockNum>>
    BY <1>10 DEF Signal, callVars
  <2>2. \A u \in Threads : pc[u] # "flush"
    BY <2>1 DEF IInv, LockInv, Calling
  <2>3. QED
    BY <1>1, <2>1, <2>2, FlushStays
<1>11. CASE UNCHANGED vars
  <2>1. UNCHANGED <<queue, pc, picked, flushed, unblockNum>>
    BY <1>11 DEF vars, evtVars, callVars
  <2>2. Len(queue') <= Len(queue)
    BY <1>1, <2>1 DEF TypeOK
  <2>3. QED
    BY <1>1, <2>1, <2>2, FlushStays
<1>12. QED
  BY <1>2, <1>3, <1>4, <1>6, <1>7, <1>8, <1>9, <1>10, <1>11 DEF Next, Proceed

\* The count API_SemaphoreCFlush stores in *pulThreadUnblockNum is never too
\* small: it has woken, and will wake, no more threads than it reports.
THEOREM FlushCountSuffices == Spec => []FlushCountBound
<1>1. Init => FlushInv
  BY DEF Init, FlushInv, FlushCountBound
<1>2. IInv /\ IInv' /\ FlushInv /\ [Next]_vars => FlushInv'
  BY FlushStep
<1>3. FlushInv => FlushCountBound
  BY DEF FlushInv
<1>4. QED
  BY Invariance, <1>1, <1>2, <1>3, PTL DEF Spec
=============================================================================
