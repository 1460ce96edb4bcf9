----------------------------- MODULE SemaphoreRW -----------------------------
(***************************************************************************)
(* API_SemaphoreRW...: one reader-writer semaphore with a queue of readers *)
(* and a queue of writers, created without LW_OPTION_DELETE_SAFE.  It is   *)
(* never called from interrupts.                                           *)
(*                                                                         *)
(* The callers are taken to pair their calls: they post what they hold,    *)
(* and only a writer asks again, to write, before it has posted.           *)
(***************************************************************************)
EXTENDS EventLib

CONSTANTS
    Prio,           \* TCB_ucPriority of each thread, 0 is the highest
    PreferWriter,   \* LW_OPTION_RW_PREFER_WRITER, else ..._PREFER_READER
    MaxDepth        \* bound: how often a writer asks again

ASSUME TwoQueues == Queues = {"R", "W"}
ASSUME PrioAssumption == Prio \in [Threads -> 0 .. 255]
ASSUME PreferAssumption == PreferWriter \in BOOLEAN
ASSUME MaxDepthAssumption == MaxDepth \in Nat

VARIABLES
    used,       \* EVENT_ucType = LW_TYPE_EVENT_SEMRW
    counter,    \* EVENT_ulCounter: readers, or 1 for the writer
    status,     \* EVENT_iStatus: EVENT_RW_STATUS_R or _W
    owner,      \* EVENT_pvTcbOwn: the writer
    depth,      \* EVENT_pvPtr: how often the writer has asked again
    \* history, by the results the callers got
    reading,    \* the threads that may read
    writing,    \* how deep each thread may write
    voided      \* threads granted a semaphore that was deleted before they ran

evtVars  == <<used, counter, status, owner, depth>>
histVars == <<reading, writing, voided>>
vars     == <<libVars, evtVars, histVars>>

Places == {"idle", "waiting", "again", "release", "releaseIgnoringWriters",
           "toWriter", "toReaders", "delete"}

Holder(t) == t \in reading \/ writing[t] > 0

\* A pend on queue q returns r to t.
Returned(t, q, r) ==
    /\ Return(t)
    /\ reading' = IF r = "NONE" /\ q = "R" THEN reading \union {t} ELSE reading
    /\ writing' = [writing EXCEPT ![t] = IF r = "NONE" /\ q = "W" THEN @ + 1 ELSE @]

\* t calls post, and no longer relies on what it holds.
Given(t) ==
    /\ reading' = reading \ {t}
    /\ writing' = [writing EXCEPT ![t] = IF @ > 0 THEN @ - 1 ELSE @]

-----------------------------------------------------------------------------
(* API_SemaphoreRWCreate; the control block may be one that was freed. *)
Create(t) ==
    /\ Caller(t)
    /\ ~used
    /\ used' = TRUE
    /\ counter' = 0
    /\ status' = "R"
    /\ owner' = NoThread
    /\ depth' = 0
    /\ waitQ' = [q \in Queues |-> <<>>]
    /\ Return(t)
    /\ UNCHANGED <<sem, delayed, timedOut, deleted, signalled, klock, picked,
                   histVars>>

-----------------------------------------------------------------------------
(* API_SemaphoreRWPendR and API_SemaphoreRWPendW, to __KERNEL_EXIT. *)
PendInvalid(t, q) ==
    /\ ~used
    /\ Returned(t, q, "EVENT_TYPE")
    /\ UNCHANGED <<waitVars, klock, picked, evtVars, voided>>

\* Nobody writes and nobody waits to write.
CanReadPastWriters == status = "R"

CanRead == status = "R" /\ waitQ["W"] = <<>>

PendR(t, timeout) ==
    /\ used
    /\ \/ /\ CanRead
          /\ counter' = counter + 1
          /\ Returned(t, "R", "NONE")
          /\ UNCHANGED waitVars
       \/ /\ ~CanRead
          /\ timeout = "NotWait"
          /\ Returned(t, "R", "TIMEOUT")
          /\ UNCHANGED <<waitVars, counter>>
       \/ /\ ~CanRead
          /\ timeout # "NotWait"
          /\ Join(t, "R", timeout, Prio)
          /\ UNCHANGED <<counter, reading, writing>>
    /\ UNCHANGED <<klock, picked, used, status, owner, depth, voided>>

PendW(t, timeout) ==
    /\ used
    /\ \/ /\ counter = 0
          /\ counter' = counter + 1
          /\ status' = "W"
          /\ owner' = t
          /\ Returned(t, "W", "NONE")
          /\ UNCHANGED <<waitVars, depth>>
       \/ /\ counter # 0
          /\ owner = t
          /\ depth' = depth + 1
          /\ Returned(t, "W", "NONE")
          /\ UNCHANGED <<waitVars, counter, status, owner>>
       \/ /\ counter # 0
          /\ owner # t
          /\ timeout = "NotWait"
          /\ Returned(t, "W", "TIMEOUT")
          /\ UNCHANGED <<waitVars, counter, status, owner, depth>>
       \/ /\ counter # 0
          /\ owner # t
          /\ timeout # "NotWait"
          /\ Join(t, "W", timeout, Prio)
          /\ UNCHANGED <<counter, status, owner, depth, reading, writing>>
    /\ UNCHANGED <<klock, picked, used, voided>>

PendEnter(t, q, timeout) ==
    \/ PendInvalid(t, q)
    \/ q = "R" /\ PendR(t, timeout)
    \/ q = "W" /\ PendW(t, timeout)

Pend(t, q, timeout) ==
    /\ Caller(t)
    /\ Holder(t) => q = "W" /\ writing[t] \in 1 .. MaxDepth
    /\ PendEnter(t, q, timeout)

\* goto __wait_again.
PendAgain(t) ==
    /\ call[t].at = "again"
    /\ klock = NoThread
    /\ PendEnter(t, call[t].q, call[t].timeout)

(* The same calls, after __KERNEL_EXIT has returned. *)
PendSignalled(t) ==
    /\ Signalled(t)
    /\ UNCHANGED <<evtVars, histVars>>

\* The success of a voided thread is one with a semaphore that is no more.
PendReturn(t) ==
    /\ WaitOver(t)
    /\ t \notin signalled
    /\ Returned(t, call[t].q, IF t \in voided THEN "VOID" ELSE WaitResult(t))
    /\ voided' = voided \ {t}
    /\ UNCHANGED <<waitVars, klock, picked, evtVars>>

-----------------------------------------------------------------------------
(* API_SemaphoreRWPost. *)

\* ERROR_EVENT_TYPE, or ERROR_EVENT_NOT_OWN.
PostRefused(t) ==
    /\ Caller(t)
    /\ ~used \/ counter = 0 \/ (status = "W" /\ owner # t)
    /\ Return(t)
    /\ UNCHANGED <<waitVars, klock, picked, evtVars, histVars>>

PostOneByCounter(t) ==
    /\ Caller(t)
    /\ used
    /\ Holder(t)
    /\ \/ status = "R" /\ counter > 1
       \/ status = "W" /\ owner = t /\ depth > 0
    /\ counter' = counter - 1
    /\ Given(t)
    /\ Return(t)
    /\ UNCHANGED <<waitVars, klock, picked, used, status, owner, depth, voided>>

\* Others read on, or the writer has asked more than once.
PostOne(t) ==
    /\ Caller(t)
    /\ used
    /\ Holder(t)
    /\ \/ /\ status = "R" /\ counter > 1
          /\ counter' = counter - 1
          /\ UNCHANGED depth
       \/ /\ status = "W" /\ owner = t /\ depth > 0
          /\ depth' = depth - 1
          /\ UNCHANGED counter
    /\ Given(t)
    /\ Return(t)
    /\ UNCHANGED <<waitVars, klock, picked, used, status, owner, voided>>

PostLastForReaders(t) ==
    /\ Caller(t)
    /\ used
    /\ Holder(t)
    /\ status = "R" => counter = 1
    /\ status = "W" => owner = t /\ depth = 0
    /\ klock' = t
    /\ At(t, IF status = "R" /\ waitQ["R"] # <<>>
             THEN "releaseIgnoringWriters" ELSE "release", NoQueue)
    /\ Given(t)
    /\ UNCHANGED <<waitVars, picked, evtVars, voided>>

\* The last one leaves.  Whether waiting writers are passed over is decided
\* with interrupts open, before __release_pend closes them.
PostLast(t) ==
    /\ Caller(t)
    /\ used
    /\ Holder(t)
    /\ status = "R" => counter = 1
    /\ status = "W" => owner = t /\ depth = 0
    /\ klock' = t
    /\ At(t, IF status = "R" /\ ~PreferWriter /\ waitQ["R"] # <<>>
             THEN "releaseIgnoringWriters" ELSE "release", NoQueue)
    /\ Given(t)
    /\ UNCHANGED <<waitVars, picked, evtVars, voided>>

\* __release_pend: the semaphore goes to a writer, to all readers, or is free.
ToWriter(t) ==
    /\ call[t].at = "release"
    /\ waitQ["W"] # <<>>
    /\ Pick("W")
    /\ At(t, "toWriter", NoQueue)
    /\ UNCHANGED <<klock, evtVars, histVars>>

ToReaders(t) ==
    /\ \/ call[t].at = "release" /\ waitQ["W"] = <<>>
       \/ call[t].at = "releaseIgnoringWriters"
    /\ waitQ["R"] # <<>>
    /\ Pick("R")
    /\ counter' = (counter - 1) + 1
    /\ At(t, "toReaders", NoQueue)
    /\ UNCHANGED <<klock, used, status, owner, depth, histVars>>

ToNobody(t) ==
    /\ \/ call[t].at = "release" /\ waitQ["W"] = <<>>
       \/ call[t].at = "releaseIgnoringWriters"
    /\ waitQ["R"] = <<>>
    /\ counter' = counter - 1
    /\ owner' = NoThread
    /\ status' = "R"
    /\ klock' = NoThread
    /\ Return(t)
    /\ UNCHANGED <<waitVars, picked, used, depth, histVars>>

WriterHighKeepsStatus(t) ==
    /\ call[t].at = "toWriter"
    /\ WakePicked
    /\ owner' = picked
    /\ klock' = NoThread
    /\ Return(t)
    /\ UNCHANGED <<waitQ, delayed, deleted, signalled, used, counter, status,
                   depth, histVars>>

WriterHigh(t) ==
    /\ call[t].at = "toWriter"
    /\ WakePicked
    /\ owner' = picked
    /\ status' = "W"
    /\ klock' = NoThread
    /\ Return(t)
    /\ UNCHANGED <<waitQ, delayed, deleted, signalled, used, counter, depth,
                   histVars>>

ReadersHigh(t) ==
    /\ call[t].at = "toReaders"
    /\ picked # NoThread
    /\ WakePicked
    /\ UNCHANGED <<waitQ, delayed, deleted, signalled, klock, call, evtVars,
                   histVars>>

\* Interrupts have been open: the queue of readers is read again.
ReadersNextUncounted(t) ==
    /\ call[t].at = "toReaders"
    /\ picked = NoThread
    /\ \/ /\ waitQ["R"] # <<>>
          /\ Pick("R")
          /\ UNCHANGED <<klock, call, counter, status, owner>>
       \/ /\ waitQ["R"] = <<>>
          /\ owner' = NoThread
          /\ status' = "R"
          /\ klock' = NoThread
          /\ Return(t)
          /\ UNCHANGED <<waitVars, picked, counter>>
    /\ UNCHANGED <<used, depth, histVars>>

ReadersNext(t) ==
    /\ call[t].at = "toReaders"
    /\ picked = NoThread
    /\ \/ /\ waitQ["R"] # <<>>
          /\ Pick("R")
          /\ counter' = counter + 1
          /\ UNCHANGED <<klock, call, status, owner>>
       \/ /\ waitQ["R"] = <<>>
          /\ owner' = NoThread
          /\ status' = "R"
          /\ klock' = NoThread
          /\ Return(t)
          /\ UNCHANGED <<waitVars, picked, counter>>
    /\ UNCHANGED <<used, depth, histVars>>

-----------------------------------------------------------------------------
(* API_SemaphoreRWDelete: readers are woken first, then writers. *)
DeletePickOrFinish(t) ==
    \/ /\ \E q \in Queues : waitQ[q] # <<>>
       /\ Pick(IF waitQ["R"] # <<>> THEN "R" ELSE "W")
       /\ klock' = t
       /\ At(t, "delete", NoQueue)
       /\ UNCHANGED owner
    \/ /\ \A q \in Queues : waitQ[q] = <<>>
       /\ owner' = NoThread
       /\ klock' = NoThread
       /\ Return(t)
       /\ UNCHANGED <<waitVars, picked>>

\* t was granted the semaphore in its wait, and is about to return success.
Arriving(t, q) ==
    /\ call[t].at = "waiting" /\ call[t].q = q
    /\ t \notin sem \union timedOut \union deleted \union signalled \union voided

Delete(t) ==
    /\ Caller(t)
    /\ used
    /\ used' = FALSE
    /\ DeletePickOrFinish(t)
    /\ reading' = {}
    /\ writing' = [u \in Threads |-> 0]
    /\ voided' = voided \union {u \in Threads : \E q \in Queues : Arriving(u, q)}
    /\ UNCHANGED <<counter, status, depth>>

DeleteHigh(t) ==
    /\ call[t].at = "delete"
    /\ picked # NoThread
    /\ deleted' = deleted \union {picked}
    /\ WakePicked
    /\ UNCHANGED <<waitQ, delayed, signalled, klock, call, evtVars, histVars>>

\* Nobody joins a queue of a deleted semaphore, so the loop over the readers
\* is not entered again once it has been left.
DeleteNext(t) ==
    /\ call[t].at = "delete"
    /\ picked = NoThread
    /\ DeletePickOrFinish(t)
    /\ UNCHANGED <<used, counter, status, depth, histVars>>

-----------------------------------------------------------------------------
Init ==
    /\ LibInit
    /\ used = FALSE
    /\ counter = 0
    /\ status = "R"
    /\ owner = NoThread
    /\ depth = 0
    /\ reading = {}
    /\ writing = [t \in Threads |-> 0]
    /\ voided = {}

\* The call of t goes on.
Proceed(t) ==
    \/ PendAgain(t) \/ PendSignalled(t) \/ PendReturn(t)
    \/ ToWriter(t) \/ ToReaders(t) \/ ToNobody(t)
    \/ WriterHigh(t) \/ ReadersHigh(t) \/ ReadersNext(t)
    \/ DeleteHigh(t) \/ DeleteNext(t)

Next ==
    \E t \in Threads :
        \/ Create(t) \/ Delete(t)
        \/ \E q \in Queues, timeout \in Timeouts : Pend(t, q, timeout)
        \/ PostRefused(t) \/ PostOne(t) \/ PostLast(t)
        \/ Proceed(t)
        \/ (Expire(t) \/ Signal(t)) /\ UNCHANGED <<evtVars, histVars>>

Spec == Init /\ [][Next]_vars

\* A post after which the caller holds nothing any more.
Leave(t) == (PostOne(t) \/ PostLast(t)) /\ ~Holder(t)'

(***************************************************************************)
(* Fairness: a running call goes on, and gets its turn when it enters the  *)
(* kernel again (the kernel lock is a ticket lock); a thread that holds    *)
(* the semaphore leaves in the end, as the pairing of the calls asks.  A   *)
(* thread gets from a PostOne to its next PostOne by way of other calls of *)
(* its own, so that one condition serves Proceed and PostOne.              *)
(***************************************************************************)
Fairness ==
    \A t \in Threads : SF_vars(Proceed(t) \/ PostOne(t)) /\ SF_vars(Leave(t))

FairSpec == Spec /\ Fairness

-----------------------------------------------------------------------------
TypeOK ==
    /\ LibTypeOK(Places)
    /\ used \in BOOLEAN
    /\ counter \in 0 .. Cardinality(Threads)
    /\ status \in {"R", "W"}
    /\ owner \in Threads \union {NoThread}
    /\ depth \in 0 .. MaxDepth
    /\ reading \subseteq Threads
    /\ writing \in [Threads -> 0 .. MaxDepth + 1]
    /\ voided \subseteq Threads

\* By the results they got, nobody reads or writes beside a writer, however
\* timeouts, signals, hand-overs and deletions race.
Abstract == INSTANCE ReadersWriters WITH Users <- Threads, alive <- used

ImplementsReadersWriters == Abstract!Spec

\* Nobody is inside the kernel.
Quiet == klock = NoThread

\* EVENT_ulCounter counts the threads that were told, or will be, that they
\* hold the semaphore, and EVENT_pvTcbOwn is the one of them that writes: no
\* reader the tick took out of the loop that wakes them is counted.
CounterAgrees ==
    used /\ Quiet =>
        /\ counter = Cardinality({t \in Threads : Holder(t) \/
                        \E q \in Queues : Arriving(t, q)})
        /\ \A t \in Threads :
              owner = t <=> writing[t] > 0 \/ Arriving(t, "W")
        /\ status = "W" <=> owner # NoThread

\* Nobody waits for a semaphore that nobody holds: a post that finds waiters
\* hands it over, whichever of them the tick removes while it does.
NobodyWaitsOnFree ==
    used /\ Quiet /\ counter = 0 => \A q \in Queues : waitQ[q] = <<>>

\* With LW_OPTION_RW_PREFER_WRITER and FIFO queues a writer gets out of the
\* queue: readers that keep coming do not pass it, nor do later writers.
WriterGetsIn ==
    LET t == CHOOSE x \in Threads : TRUE       \* one of them: all are alike
    IN  (t \in ToSet(waitQ["W"])) ~> (t \notin ToSet(waitQ["W"]))
=============================================================================
