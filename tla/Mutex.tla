-------------------------------- MODULE Mutex --------------------------------
(***************************************************************************)
(* API_SemaphoreM...: mutexes with an owner, recursion, priority           *)
(* inheritance or ceiling, and protection of the owner against deletion.   *)
(* They are never called from interrupts.  Each mutex has one wait queue,  *)
(* so Queues is the set of the mutexes.                                    *)
(***************************************************************************)
EXTENDS EventLib

CONSTANTS
    BasePrio,   \* the priority each thread was created with, 0 is the highest
    Options,    \* the ulOption values mutexes are created with: kind and inherit
    Ceiling,    \* EVENT_ucCeilingPriority
    MaxDepth    \* bound: how often the owner locks its mutex again

ASSUME BasePrioAssumption == BasePrio \in [Threads -> 0 .. 255]
ASSUME OptionsAssumption ==
    Options \subseteq [kind : {"NORMAL", "ERRORCHECK", "RECURSIVE"}, inherit : BOOLEAN]
ASSUME CeilingAssumption == Ceiling \in 0 .. 255
ASSUME MaxDepthAssumption == MaxDepth \in Nat

VARIABLES
    \* LW_CLASS_EVENT of each mutex
    used,       \* EVENT_ucType = LW_TYPE_EVENT_MUTEX
    option,     \* EVENT_ulOption
    free,       \* EVENT_ulCounter = LW_TRUE
    saved,      \* EVENT_ulMaxCounter: the owner's priority when it got it
    depth,      \* EVENT_pvPtr: how often the owner has locked it again
    owner,      \* EVENT_pvTcbOwn
    \* LW_CLASS_TCB of each thread
    prio,       \* TCB_ucPriority
    safe,       \* TCB_ulThreadSafeCounter (LW_OPTION_DELETE_SAFE is set)
    \* the calls under way
    unsafe,     \* the thread each caller is about to LW_THREAD_UNSAFE
    \* history
    holds,      \* how deep each thread holds each mutex by the results it got
    voided,     \* threads whose mutex was deleted before their pend returned
    leaked      \* threads that freed a mutex at a priority that is not theirs

Mutexes == Queues
Lowest  == 255

evtVars  == <<used, option, free, saved, depth, owner>>
histVars == <<holds, voided, leaked>>
vars     == <<libVars, evtVars, prio, safe, unsafe, histVars>>

Places  == {"idle", "waiting", "again", "post", "delete", "unsafe"}

\* A pend of m returns r to t, which from then on relies on it.
Returned(t, m, r) ==
    /\ Return(t)
    /\ holds' = [holds EXCEPT ![m][t] = IF r = "NONE" THEN @ + 1 ELSE @]

\* t calls post for a mutex it owns, and no longer relies on it.
Given(t, m) == holds' = [holds EXCEPT ![m][t] = @ - 1]

-----------------------------------------------------------------------------
(* API_SemaphoreMCreate; the control block may be one that was freed. *)
Create(t, m, opt) ==
    /\ Caller(t)
    /\ m \notin used
    /\ used' = used \union {m}
    /\ option' = [option EXCEPT ![m] = opt]
    /\ free' = free \union {m}
    /\ saved' = [saved EXCEPT ![m] = Lowest]
    /\ depth' = [depth EXCEPT ![m] = 0]
    /\ owner' = [owner EXCEPT ![m] = NoThread]
    /\ waitQ' = [waitQ EXCEPT ![m] = <<>>]
    /\ Return(t)
    /\ UNCHANGED <<sem, delayed, timedOut, deleted, signalled, klock, picked,
                   prio, safe, unsafe, histVars>>

-----------------------------------------------------------------------------
(* API_SemaphoreMPend, from __wait_again to __KERNEL_EXIT. *)

BoostedOnce(m, t) ==
    IF prio[t] < prio[owner[m]] /\ prio[owner[m]] = saved[m]
    THEN [prio EXCEPT ![owner[m]] = IF option[m].inherit THEN prio[t] ELSE Ceiling]
    ELSE prio

\* _EventPrioTryBoost: the owner takes over the priority of the caller, or the
\* ceiling; its place in a queue it waits in itself is not corrected.
Boosted(m, t) ==
    IF prio[t] >= prio[owner[m]] THEN prio
    ELSE [prio EXCEPT ![owner[m]] =
            IF option[m].inherit THEN prio[t] ELSE IF Ceiling < @ THEN Ceiling ELSE @]

PendInvalid(t, m) ==
    /\ m \notin used
    /\ Returned(t, m, "EVENT_TYPE")
    /\ UNCHANGED <<waitVars, klock, picked, evtVars, prio, safe, unsafe, voided,
                   leaked>>

PendTakeLeavesFree(t, m) ==
    /\ m \in used
    /\ m \in free
    /\ saved' = [saved EXCEPT ![m] = prio[t]]
    /\ owner' = [owner EXCEPT ![m] = t]
    /\ safe' = [safe EXCEPT ![t] = @ + 1]
    /\ Returned(t, m, "NONE")
    /\ UNCHANGED <<waitVars, klock, picked, used, option, free, depth, prio,
                   unsafe, voided, leaked>>

PendTake(t, m) ==
    /\ m \in used
    /\ m \in free
    /\ free' = free \ {m}
    /\ saved' = [saved EXCEPT ![m] = prio[t]]
    /\ owner' = [owner EXCEPT ![m] = t]
    /\ safe' = [safe EXCEPT ![t] = @ + 1]
    /\ Returned(t, m, "NONE")
    /\ UNCHANGED <<waitVars, klock, picked, used, option, depth, prio, unsafe,
                   voided, leaked>>

\* The owner locks its mutex again: counted, or refused.
PendOwn(t, m) ==
    /\ m \in used
    /\ m \notin free
    /\ owner[m] = t
    /\ \/ /\ option[m].kind = "ERRORCHECK"
          /\ Returned(t, m, "EDEADLK")
          /\ UNCHANGED depth
       \/ /\ option[m].kind = "RECURSIVE"
          /\ depth' = [depth EXCEPT ![m] = @ + 1]
          /\ Returned(t, m, "NONE")
    /\ UNCHANGED <<waitVars, klock, picked, used, option, free, saved, owner, prio,
                   safe, unsafe, voided, leaked>>

\* The owner is somebody else, or the caller itself and nothing is checked.
Busy(t, m) ==
    /\ m \in used
    /\ m \notin free
    /\ option[m].kind = "NORMAL" \/ owner[m] # t

PendNotWait(t, m, timeout) ==
    /\ Busy(t, m)
    /\ timeout = "NotWait"
    /\ Returned(t, m, "TIMEOUT")
    /\ UNCHANGED <<waitVars, klock, picked, evtVars, prio, safe, unsafe, voided,
                   leaked>>

PendBlock(t, m, timeout) ==
    /\ Busy(t, m)
    /\ timeout # "NotWait"
    /\ prio' = Boosted(m, t)
    /\ Join(t, m, timeout, prio)
    /\ UNCHANGED <<klock, picked, evtVars, safe, unsafe, histVars>>

PendEnter(t, m, timeout) ==
    \/ PendInvalid(t, m)
    \/ PendTake(t, m)
    \/ PendOwn(t, m)
    \/ PendNotWait(t, m, timeout)
    \/ PendBlock(t, m, timeout)

\* The bound on the depth limits what callers do.
Pend(t, m, timeout) ==
    /\ Caller(t)
    /\ owner[m] = t => depth[m] < MaxDepth
    /\ PendEnter(t, m, timeout)

\* goto __wait_again.
PendAgain(t) ==
    /\ call[t].at = "again"
    /\ klock = NoThread
    /\ PendEnter(t, call[t].q, call[t].timeout)

(* API_SemaphoreMPend, after __KERNEL_EXIT has returned. *)
PendSignalled(t) ==
    /\ Signalled(t)
    /\ UNCHANGED <<evtVars, prio, safe, unsafe, histVars>>

\* The success of a voided thread is one with a mutex that is no more.
PendReturn(t) ==
    /\ WaitOver(t)
    /\ t \notin signalled
    /\ Returned(t, call[t].q, IF t \in voided THEN "VOID" ELSE WaitResult(t))
    /\ voided' = voided \ {t}
    /\ UNCHANGED <<waitVars, klock, picked, evtVars, prio, safe, unsafe, leaked>>

-----------------------------------------------------------------------------
(* API_SemaphoreMPost. *)

\* ERROR_EVENT_TYPE, or ERROR_EVENT_NOT_OWN.
PostRefused(t, m) ==
    /\ Caller(t)
    /\ m \notin used \/ owner[m] # t
    /\ Return(t)
    /\ UNCHANGED <<waitVars, klock, picked, evtVars, prio, safe, unsafe, histVars>>

PostAgain(t, m) ==
    /\ Caller(t)
    /\ m \in used
    /\ owner[m] = t
    /\ depth[m] > 0
    /\ depth' = [depth EXCEPT ![m] = @ - 1]
    /\ Given(t, m)
    /\ Return(t)
    /\ UNCHANGED <<waitVars, klock, picked, used, option, free, saved, owner, prio,
                   safe, unsafe, voided, leaked>>

\* Somebody waits: the first waiter leaves the queue.
PostPick(t, m) ==
    /\ Caller(t)
    /\ m \in used
    /\ owner[m] = t
    /\ depth[m] = 0
    /\ waitQ[m] # <<>>
    /\ Pick(m)
    /\ klock' = t
    /\ At(t, "post", m)
    /\ Given(t, m)
    /\ UNCHANGED <<evtVars, prio, safe, unsafe, voided, leaked>>

PostHighUnprotected(t) ==
    LET m == call[t].q IN
    /\ call[t].at = "post"
    /\ prio' = [prio EXCEPT ![t] = saved[m]]
    /\ saved' = [saved EXCEPT ![m] = prio[picked]]
    /\ owner' = [owner EXCEPT ![m] = picked]
    /\ WakePicked
    /\ klock' = NoThread
    /\ At(t, "unsafe", m)
    /\ unsafe' = [unsafe EXCEPT ![t] = t]
    /\ UNCHANGED <<waitQ, delayed, deleted, signalled, used, option, free, depth,
                   safe, histVars>>

PostHighKeepsBoost(t) ==
    LET m == call[t].q IN
    /\ call[t].at = "post"
    /\ saved' = [saved EXCEPT ![m] = prio[picked]]
    /\ owner' = [owner EXCEPT ![m] = picked]
    /\ WakePicked
    /\ safe' = [safe EXCEPT ![picked] = @ + 1]
    /\ klock' = NoThread
    /\ At(t, "unsafe", m)
    /\ unsafe' = [unsafe EXCEPT ![t] = t]
    /\ UNCHANGED <<waitQ, delayed, deleted, signalled, used, option, free, depth,
                   prio, histVars>>

\* It becomes the owner.  _EventPrioTryResume: the caller goes back to the
\* priority it had when it got the mutex.
PostHigh(t) ==
    LET m == call[t].q IN
    /\ call[t].at = "post"
    /\ prio' = [prio EXCEPT ![t] = saved[m]]
    /\ saved' = [saved EXCEPT ![m] = prio[picked]]
    /\ owner' = [owner EXCEPT ![m] = picked]
    /\ WakePicked
    /\ safe' = [safe EXCEPT ![picked] = @ + 1]
    /\ klock' = NoThread
    /\ At(t, "unsafe", m)
    /\ unsafe' = [unsafe EXCEPT ![t] = t]
    /\ UNCHANGED <<waitQ, delayed, deleted, signalled, used, option, free, depth,
                   histVars>>

PostFreeAnyCaller(t, m) ==
    /\ Caller(t)
    /\ m \in used
    /\ depth[m] = 0
    /\ waitQ[m] = <<>>
    /\ free' = free \union {m}
    /\ saved' = [saved EXCEPT ![m] = Lowest]
    /\ owner' = [owner EXCEPT ![m] = NoThread]
    /\ At(t, "unsafe", m)
    /\ unsafe' = [unsafe EXCEPT ![t] = t]
    /\ Given(t, m)
    /\ leaked' = IF prio[t] # saved[m] THEN leaked \union {t} ELSE leaked
    /\ UNCHANGED <<waitVars, klock, picked, used, option, depth, prio, safe,
                   voided>>

\* Nobody waits any more: the mutex is free, and a priority the caller owes to
\* a waiter that has given up stays as it is.
PostFree(t, m) ==
    /\ Caller(t)
    /\ m \in used
    /\ owner[m] = t
    /\ depth[m] = 0
    /\ waitQ[m] = <<>>
    /\ free' = free \union {m}
    /\ saved' = [saved EXCEPT ![m] = Lowest]
    /\ owner' = [owner EXCEPT ![m] = NoThread]
    /\ At(t, "unsafe", m)
    /\ unsafe' = [unsafe EXCEPT ![t] = t]
    /\ Given(t, m)
    /\ leaked' = IF prio[t] # saved[m] THEN leaked \union {t} ELSE leaked
    /\ UNCHANGED <<waitVars, klock, picked, used, option, depth, prio, safe,
                   voided>>

\* LW_THREAD_UNSAFE and LW_THREAD_UNSAFE_EX, outside of the kernel.
Unsafe(t) ==
    /\ call[t].at = "unsafe"
    /\ klock = NoThread
    /\ safe' = [safe EXCEPT ![unsafe[t]] = IF @ > 0 THEN @ - 1 ELSE @]
    /\ unsafe' = [unsafe EXCEPT ![t] = NoThread]
    /\ Return(t)
    /\ UNCHANGED <<waitVars, klock, picked, evtVars, prio, histVars>>

-----------------------------------------------------------------------------
(***************************************************************************)
(* API_SemaphoreMDelete: the waiters are woken one after the other, with   *)
(* interrupts open in between; then the owner loses mutex and boost.       *)
(***************************************************************************)
DeletePick(t, m) ==
    /\ waitQ[m] # <<>>
    /\ Pick(m)
    /\ klock' = t
    /\ At(t, "delete", m)
    /\ UNCHANGED <<owner, prio, unsafe>>

DeleteFinish(t, m) ==
    /\ waitQ[m] = <<>>
    /\ klock' = NoThread
    /\ owner' = [owner EXCEPT ![m] = NoThread]
    /\ IF owner[m] = NoThread
       THEN Return(t) /\ UNCHANGED <<prio, unsafe>>
       ELSE /\ prio' = [prio EXCEPT ![owner[m]] = saved[m]]
            /\ unsafe' = [unsafe EXCEPT ![t] = owner[m]]
            /\ At(t, "unsafe", m)
    /\ UNCHANGED <<waitVars, picked>>

\* t has been made owner while it waited, and is about to return success.
Arriving(t, m) ==
    /\ call[t].at = "waiting" /\ call[t].q = m
    /\ t \notin sem \union timedOut \union deleted \union signalled \union voided

Delete(t, m) ==
    /\ Caller(t)
    /\ m \in used
    /\ used' = used \ {m}
    /\ DeletePick(t, m) \/ DeleteFinish(t, m)
    /\ holds' = [holds EXCEPT ![m] = [u \in Threads |-> 0]]
    /\ voided' = voided \union {u \in Threads : Arriving(u, m)}
    /\ UNCHANGED <<option, free, saved, depth, safe, leaked>>

DeleteHigh(t) ==
    /\ call[t].at = "delete"
    /\ picked # NoThread
    /\ deleted' = deleted \union {picked}
    /\ WakePicked
    /\ UNCHANGED <<waitQ, delayed, signalled, klock, call, evtVars, prio,
                   safe, unsafe, histVars>>

DeleteNext(t) ==
    /\ call[t].at = "delete"
    /\ picked = NoThread
    /\ DeletePick(t, call[t].q) \/ DeleteFinish(t, call[t].q)
    /\ UNCHANGED <<used, option, free, saved, depth, safe, histVars>>

-----------------------------------------------------------------------------
Init ==
    /\ LibInit
    /\ used = {}
    /\ option \in [Mutexes -> Options]
    /\ free = {}
    /\ saved = [m \in Mutexes |-> Lowest]
    /\ depth = [m \in Mutexes |-> 0]
    /\ owner = [m \in Mutexes |-> NoThread]
    /\ prio = BasePrio
    /\ safe = [t \in Threads |-> 0]
    /\ unsafe = [t \in Threads |-> NoThread]
    /\ holds = [m \in Mutexes |-> [t \in Threads |-> 0]]
    /\ voided = {} /\ leaked = {}

\* The call of t goes on.
Proceed(t) ==
    \/ PendAgain(t) \/ PendSignalled(t) \/ PendReturn(t)
    \/ PostHigh(t) \/ Unsafe(t)
    \/ DeleteHigh(t) \/ DeleteNext(t)

Next ==
    \E t \in Threads :
        \/ \E m \in Mutexes :
              \/ \E opt \in Options : Create(t, m, opt)
              \/ \E timeout \in Timeouts : Pend(t, m, timeout)
              \/ PostRefused(t, m) \/ PostAgain(t, m)
              \/ PostPick(t, m) \/ PostFree(t, m)
              \/ Delete(t, m)
        \/ Proceed(t)
        \/ (Expire(t) \/ Signal(t))
              /\ UNCHANGED <<evtVars, prio, safe, unsafe, histVars>>

Spec == Init /\ [][Next]_vars

-----------------------------------------------------------------------------
TypeOK ==
    /\ LibTypeOK(Places)
    /\ used \subseteq Mutexes
    /\ option \in [Mutexes -> Options]
    /\ free \subseteq Mutexes
    /\ saved \in [Mutexes -> 0 .. Lowest]
    /\ depth \in [Mutexes -> 0 .. MaxDepth]
    /\ owner \in [Mutexes -> Threads \union {NoThread}]
    /\ prio \in [Threads -> 0 .. Lowest]
    /\ safe \in [Threads -> Nat]
    /\ unsafe \in [Threads -> Threads \union {NoThread}]
    /\ holds \in [Mutexes -> [Threads -> Nat]]
    /\ voided \subseteq Threads
    /\ leaked \subseteq Threads

\* By the results they got from pend and post, callers of the mutexes share
\* none: however timeouts, signals, hand-overs and deletions race, the calls
\* implement locks that are taken only when nobody else has them.
Lock == INSTANCE AbstractLock WITH
            Locks <- Mutexes, Users <- Threads, alive <- used, holds <- holds

ImplementsLock == Lock!Spec

\* EVENT_pvTcbOwn and EVENT_pvPtr agree with what the threads were told: no
\* mutex belongs to a thread whose pend reports, or will report, a failure,
\* and none is free while a thread waits for it.
OwnerKnows ==
    \A m \in used :
        /\ m \in free <=> owner[m] = NoThread
        /\ m \in free => waitQ[m] = <<>>
        /\ \A t \in Threads :
              ~(call[t].at = "post" /\ call[t].q = m) =>
                 holds[m][t] = IF owner[m] # t \/ Arriving(t, m)
                               THEN 0 ELSE depth[m] + 1

\* No priority inversion: with inheritance, or a ceiling that is one, and a
\* queue by priority, an owner is not below a thread that waits for its mutex,
\* whichever waiters came, gave up or were served before.
NoInversion ==
    WaitPriority =>
        \A m \in used : \A w \in ToSet(waitQ[m]) :
            option[m].inherit \/ Ceiling <= BasePrio[w] =>
                prio[owner[m]] <= prio[w]

\* A thread that owns nothing runs at the priority it was created with, but
\* for one that freed a mutex when the waiter that had raised it was gone.
PriorityComesBack ==
    \A t \in Threads :
        (\A m \in Mutexes : owner[m] # t) =>
            prio[t] = BasePrio[t] \/ t \in leaked

Pending(t) == Cardinality({u \in Threads : unsafe[u] = t})

\* LW_OPTION_DELETE_SAFE: a thread is protected against deletion from the step
\* that makes it the owner until after it has given the mutex back, and not
\* longer, also when the mutex is deleted under it.
SafeWhileOwner ==
    \A t \in Threads :
        safe[t] = Cardinality({m \in Mutexes : owner[m] = t}) + Pending(t)
=============================================================================
