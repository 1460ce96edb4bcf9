---------------------------- MODULE EventLibProofs ----------------------------
(***************************************************************************)
(* What the mutex, the reader-writer semaphore and the message queue can   *)
(* rely on in the event library, whatever they do with it: LibInv, and one *)
(* lemma for each step of EventLib that says what the step does to it.     *)
(***************************************************************************)
EXTENDS EventLib, WaitQueueProofs, FiniteSetTheorems

\* A queue holds, once each, the threads that wait for it and that nobody has
\* in hand.
QueueInv ==
    \A q \in Queues :
        /\ IsInjective(waitQ[q])
        /\ \A t \in Threads :
              t \in ToSet(waitQ[q]) <=> t \in sem /\ t # picked /\ call[t].q = q

\* What the flags say of a thread that waits, and of one a signal has woken.
FlagInv ==
    /\ \A t \in sem : /\ call[t].at = "waiting"
                      /\ t \notin timedOut /\ t \notin deleted
    /\ \A t \in signalled : call[t].at = "waiting" /\ t \in timedOut
    /\ delayed \subseteq sem \ {picked}
    /\ picked # NoThread => picked \in sem /\ klock # NoThread
    /\ \A t \in Threads : call[t].at \in {"waiting", "again"} => call[t].q \in Queues

LibInv(places) == LibTypeOK(places) /\ QueueInv /\ FlagInv

Calls(places) == [at : places, q : Queues \union {NoQueue}, timeout : Timeouts]

\* The call of t, which does not wait, goes on as c; the others stay.
Moves(places, t, c) ==
    /\ c \in Calls(places)
    /\ c.at # "waiting"
    /\ c.at = "again" => c.q \in Queues
    /\ call' = [call EXCEPT ![t] = c]

-----------------------------------------------------------------------------
\* Before the first call nobody waits.
LEMMA LibInitInv ==
    ASSUME NEW places, "idle" \in places, LibInit
    PROVE  LibInv(places)
<1> USE ThreadsAssumption, QueuesAssumption
<1>1. LibTypeOK(places)
  BY EmptyQueue DEF LibInit, LibTypeOK, Idle, Timeouts
<1>2. QueueInv
  BY EmptyQueue DEF LibInit, QueueInv
<1>3. FlagInv
  BY DEF LibInit, FlagInv, Idle
<1>4. QED
  BY <1>1, <1>2, <1>3 DEF LibInv

\* A call that returns, or goes on at another place, has moved.
LEMMA ReturnMoves ==
    ASSUME NEW places, "idle" \in places, NEW t \in Threads, Return(t)
    PROVE  Moves(places, t, Idle)
BY DEF Return, Moves, Calls, Idle, Timeouts

\* A call goes to another place outside the queues.
LEMMA AtMoves ==
    ASSUME NEW places, LibTypeOK(places), NEW t \in Threads,
           NEW place \in places, NEW q \in Queues \union {NoQueue}, At(t, place, q),
           place # "waiting", place = "again" => q \in Queues
    PROVE  Moves(places, t, [at |-> place, q |-> q, timeout |-> call[t].timeout])
<1> DEFINE c == [at |-> place, q |-> q, timeout |-> call[t].timeout]
<1>1. call[t] \in Calls(places)
  BY DEF LibTypeOK, Calls
<1>2. c \in Calls(places)
  BY <1>1 DEF Calls
<1>3. call' = [call EXCEPT ![t] = c]
  BY <1>1 DEF At, Calls, LibTypeOK
<1>4. QED
  BY <1>2, <1>3 DEF Moves

\* What a move is, thread by thread.
LEMMA MoveEffect ==
    ASSUME NEW places, LibTypeOK(places), NEW t \in Threads, NEW c,
           Moves(places, t, c)
    PROVE  /\ call' \in [Threads -> Calls(places)]
           /\ call'[t] = c
           /\ c.at # "waiting"
           /\ c.at = "again" => c.q \in Queues
           /\ \A x \in Threads : x # t => call'[x] = call[x]
BY DEF Moves, LibTypeOK, Calls

\* A thread whose wait is over, or that does not wait, moves on.
LEMMA MoveKeeps ==
    ASSUME NEW places, LibInv(places), NEW t \in Threads, NEW c,
           Moves(places, t, c), t \notin sem, t \notin signalled',
           signalled' \subseteq signalled, klock' \in Threads \union {NoThread},
           klock' = NoThread => picked = NoThread,
           UNCHANGED <<waitQ, sem, delayed, timedOut, deleted, picked>>
    PROVE  LibInv(places)'
<1> USE DEF LibInv
<1>1. /\ call' \in [Threads -> Calls(places)]
      /\ call'[t] = c /\ c.at # "waiting"
      /\ c.at = "again" => c.q \in Queues
      /\ \A x \in Threads : x # t => call'[x] = call[x]
  BY MoveEffect
<1>2. LibTypeOK(places)'
  BY <1>1 DEF LibTypeOK, Calls
<1>3. QueueInv'
  BY <1>1 DEF QueueInv, LibTypeOK
<1>4. FlagInv'
  <2>1. \A x \in sem' : call'[x].at = "waiting" /\ x \notin timedOut' /\ x \notin deleted'
    BY <1>1 DEF FlagInv, LibTypeOK
  <2>2. \A x \in signalled' : call'[x].at = "waiting" /\ x \in timedOut'
    BY <1>1 DEF FlagInv, LibTypeOK
  <2>3. \A x \in Threads : call'[x].at \in {"waiting", "again"} => call'[x].q \in Queues
    BY <1>1 DEF FlagInv
  <2>4. QED
    BY <2>1, <2>2, <2>3 DEF FlagInv
<1>5. QED
  BY <1>2, <1>3, <1>4

-----------------------------------------------------------------------------
\* _EventWait...: the thread joins one queue, and no other.
LEMMA JoinEffect ==
    ASSUME NEW places, "waiting" \in places, LibInv(places), NEW t \in Threads,
           NEW q \in Queues, NEW timeout \in Timeouts, NEW prio \in [Threads -> Nat],
           call[t].at # "waiting", Join(t, q, timeout, prio),
           UNCHANGED <<klock, picked>>
    PROVE  /\ LibInv(places)'
           /\ t \in sem' /\ t \notin sem /\ t \notin signalled
           /\ ToSet(waitQ'[q]) = ToSet(waitQ[q]) \union {t}
           /\ waitQ'[q] # <<>>
           /\ \A r \in Queues : r # q => waitQ'[r] = waitQ[r]
           /\ call'[t] = [at |-> "waiting", q |-> q, timeout |-> timeout]
           /\ \A x \in Threads : x # t => call'[x] = call[x]
<1> USE ThreadsAssumption, WaitPriorityAssumption DEF LibInv
<1>1. /\ waitQ \in [Queues -> Seq(Threads)] /\ waitQ[q] \in Seq(Threads)
      /\ call \in [Threads -> Calls(places)]
  BY DEF LibTypeOK, Calls
<1>2. t \notin sem /\ t \notin signalled /\ t # picked
  BY DEF FlagInv, LibTypeOK
<1>3. IsInjective(waitQ[q]) /\ t \notin ToSet(waitQ[q])
  BY <1>2 DEF QueueInv
<1> DEFINE w == Added(waitQ[q], t, WaitPriority, prio)
<1>4. /\ w \in Seq(Threads) /\ w # <<>>
      /\ ToSet(w) = ToSet(waitQ[q]) \union {t}
      /\ IsInjective(w)
  BY <1>1, <1>3, AddedIsWaiting
<1>5. /\ waitQ' = [waitQ EXCEPT ![q] = w] /\ sem' = sem \union {t}
      /\ timedOut' = timedOut \ {t} /\ deleted' = deleted \ {t}
      /\ delayed' \subseteq delayed \union {t}
      /\ call' = [call EXCEPT ![t] = [at |-> "waiting", q |-> q, timeout |-> timeout]]
      /\ signalled' = signalled
  BY DEF Join
<1> HIDE DEF w
<1>6. /\ waitQ'[q] = w /\ waitQ' \in [Queues -> Seq(Threads)]
      /\ \A r \in Queues : r # q => waitQ'[r] = waitQ[r]
  BY <1>1, <1>4, <1>5
<1>7. /\ call' \in [Threads -> Calls(places)]
      /\ call'[t] = [at |-> "waiting", q |-> q, timeout |-> timeout]
      /\ \A x \in Threads : x # t => call'[x] = call[x]
  BY <1>1, <1>5 DEF Calls
<1>8. LibTypeOK(places)'
  BY <1>5, <1>6, <1>7 DEF LibTypeOK, Calls
<1>9. QueueInv'
  <2>1. ASSUME NEW r \in Queues, NEW x \in Threads
        PROVE  /\ IsInjective(waitQ'[r])
               /\ x \in ToSet(waitQ'[r]) <=> x \in sem' /\ x # picked' /\ call'[x].q = r
    <3>1. CASE r = q
      BY <3>1, <1>2, <1>4, <1>5, <1>6, <1>7 DEF QueueInv
    <3>2. CASE r # q
      BY <3>2, <1>2, <1>5, <1>6, <1>7 DEF QueueInv
    <3>3. QED
      BY <3>1, <3>2
  <2>2. \A r \in Queues : IsInjective(waitQ'[r])
    BY <1>4, <1>6 DEF QueueInv
  <2>3. QED
    BY <2>1, <2>2 DEF QueueInv
<1>10. FlagInv'
  BY <1>2, <1>5, <1>7 DEF FlagInv, LibTypeOK
<1>11. QED
  BY <1>2, <1>4, <1>5, <1>6, <1>7, <1>8, <1>9, <1>10

\* _EventReady...LowLevel: the first waiter is in hand, and on no queue.
LEMMA PickEffect ==
    ASSUME NEW places, LibInv(places), NEW q \in Queues, waitQ[q] # <<>>,
           picked = NoThread, Pick(q), klock' \in Threads,
           NEW t \in Threads, NEW c, Moves(places, t, c), call[t].at # "waiting"
    PROVE  /\ LibInv(places)'
           /\ picked' = Head(waitQ[q]) /\ picked' \in ToSet(waitQ[q])
           /\ picked' \in sem /\ picked' \in Threads /\ picked' # t
           /\ call[picked'].q = q /\ call'[picked'] = call[picked']
<1> USE ThreadsAssumption DEF LibInv
<1> DEFINE h == Head(waitQ[q])
<1>0. waitQ \in [Queues -> Seq(Threads)] /\ waitQ[q] \in Seq(Threads)
  BY DEF LibTypeOK
<1>1. \E prio : prio \in [Threads -> Nat]
  <2>1. [x \in Threads |-> 0] \in [Threads -> Nat]
    OBVIOUS
  <2>2. QED
    BY <2>1
<1>2. /\ h \in ToSet(waitQ[q]) /\ h \in Threads
      /\ Tail(waitQ[q]) \in Seq(Threads)
      /\ ToSet(Tail(waitQ[q])) = ToSet(waitQ[q]) \ {h}
      /\ IsInjective(Tail(waitQ[q]))
  BY <1>0, <1>1, TailIsRest DEF QueueInv
<1>3. /\ waitQ' = [waitQ EXCEPT ![q] = Tail(waitQ[q])] /\ delayed' = delayed \ {h}
      /\ picked' = h /\ UNCHANGED <<sem, timedOut, deleted, signalled>>
  BY DEF Pick
<1> HIDE DEF h
<1>4. /\ call' \in [Threads -> Calls(places)]
      /\ call'[t] = c /\ c.at # "waiting"
      /\ c.at = "again" => c.q \in Queues
      /\ \A x \in Threads : x # t => call'[x] = call[x]
  BY MoveEffect
<1>5. h \in sem /\ call[h].q = q /\ h # t /\ call'[h] = call[h] /\ t \notin sem
  BY <1>2, <1>4 DEF QueueInv, FlagInv
<1>6. /\ waitQ'[q] = Tail(waitQ[q]) /\ waitQ' \in [Queues -> Seq(Threads)]
      /\ \A r \in Queues : r # q => waitQ'[r] = waitQ[r]
  BY <1>0, <1>2, <1>3
<1>7. LibTypeOK(places)'
  BY <1>2, <1>3, <1>4, <1>6 DEF LibTypeOK, Calls
<1>8. QueueInv'
  <2>1. ASSUME NEW r \in Queues, NEW x \in Threads
        PROVE  x \in ToSet(waitQ'[r]) <=> x \in sem' /\ x # picked' /\ call'[x].q = r
    <3>1. x \in ToSet(waitQ[r]) <=> x \in sem /\ call[x].q = r
      BY DEF QueueInv
    <3>2. x \in sem => call'[x] = call[x]
      BY <1>4, <1>5
    <3>3. x \in ToSet(waitQ'[r]) <=> x \in ToSet(waitQ[r]) /\ x # h
      <4>1. CASE r = q
        BY <4>1, <1>2, <1>6
      <4>2. CASE r # q
        BY <4>2, <3>1, <1>5, <1>6
      <4>3. QED
        BY <4>1, <4>2
    <3>4. QED
      BY <3>1, <3>2, <3>3, <1>3
  <2>2. \A r \in Queues : IsInjective(waitQ'[r])
    BY <1>2, <1>6 DEF QueueInv
  <2>3. QED
    BY <2>1, <2>2 DEF QueueInv
<1>9. FlagInv'
  <2>1. \A x \in sem' : call'[x].at = "waiting" /\ x \notin timedOut' /\ x \notin deleted'
    BY <1>3, <1>4, <1>5 DEF FlagInv, LibTypeOK
  <2>2. \A x \in signalled' : call'[x].at = "waiting" /\ x \in timedOut'
    BY <1>3, <1>4 DEF FlagInv, LibTypeOK
  <2>3. \A x \in Threads : call'[x].at \in {"waiting", "again"} => call'[x].q \in Queues
    BY <1>4 DEF FlagInv
  <2>4. QED
    BY <1>2, <1>3, <1>5, <2>1, <2>2, <2>3 DEF FlagInv
<1>10. QED
  BY <1>2, <1>3, <1>5, <1>7, <1>8, <1>9 DEF h

\* _EventReadyHighLevel: the thread in hand, which nothing can have woken in
\* between, waits no longer.
LEMMA WakeEffect ==
    ASSUME NEW places, LibInv(places), picked # NoThread, WakePicked,
           deleted' \in {deleted, deleted \union {picked}},
           klock' \in Threads \union {NoThread},
           UNCHANGED <<waitQ, delayed, signalled>>,
           NEW t \in Threads, NEW c, Moves(places, t, c), call[t].at # "waiting"
    PROVE  /\ LibInv(places)'
           /\ picked \in sem /\ picked \in Threads /\ picked # t
           /\ call[picked].at = "waiting" /\ call'[picked] = call[picked]
           /\ call[picked].q \in Queues
           /\ picked \notin timedOut /\ picked \notin deleted
           /\ picked \notin signalled
           /\ picked' = NoThread /\ sem' = sem \ {picked} /\ timedOut' = timedOut
<1> USE ThreadsAssumption DEF LibInv
<1>1. /\ picked \in sem /\ picked \in Threads /\ call[picked].at = "waiting"
      /\ picked \notin timedOut /\ picked \notin deleted /\ picked # t
      /\ picked \notin signalled /\ call[picked].q \in Queues
  BY DEF FlagInv, LibTypeOK
<1>2. picked' = NoThread /\ sem' = sem \ {picked} /\ timedOut' = timedOut
  BY <1>1 DEF WakePicked
<1>3. /\ call' \in [Threads -> Calls(places)]
      /\ call'[t] = c /\ c.at # "waiting"
      /\ c.at = "again" => c.q \in Queues
      /\ \A x \in Threads : x # t => call'[x] = call[x]
  BY MoveEffect DEF LibInv
<1>4. t \notin sem /\ t \notin signalled
  BY DEF FlagInv
<1>5. LibTypeOK(places)'
  BY <1>1, <1>2, <1>3 DEF LibTypeOK, Calls
<1>6. QueueInv'
  <2>1. ASSUME NEW r \in Queues, NEW x \in Threads
        PROVE  x \in ToSet(waitQ'[r]) <=> x \in sem' /\ x # picked' /\ call'[x].q = r
    <3>1. x \in ToSet(waitQ[r]) <=> x \in sem /\ x # picked /\ call[x].q = r
      BY DEF QueueInv
    <3>2. x \in sem => call'[x] = call[x]
      BY <1>3, <1>4
    <3>3. QED
      BY <3>1, <3>2, <1>2
  <2>2. \A r \in Queues : IsInjective(waitQ'[r])
    BY DEF QueueInv
  <2>3. QED
    BY <2>1, <2>2 DEF QueueInv
<1>7. FlagInv'
  <2>1. \A x \in sem' : call'[x].at = "waiting" /\ x \notin timedOut' /\ x \notin deleted'
    BY <1>1, <1>2, <1>3, <1>4 DEF FlagInv, LibTypeOK
  <2>2. \A x \in signalled' : call'[x].at = "waiting" /\ x \in timedOut'
    BY <1>2, <1>3, <1>4 DEF FlagInv, LibTypeOK
  <2>3. \A x \in Threads : call'[x].at \in {"waiting", "again"} => call'[x].q \in Queues
    BY <1>3 DEF FlagInv
  <2>4. delayed' \subseteq sem' \ {picked'}
    BY <1>2 DEF FlagInv, LibTypeOK
  <2>5. QED
    BY <1>2, <2>1, <2>2, <2>3, <2>4 DEF FlagInv
<1>8. QED
  BY <1>1, <1>2, <1>3, <1>5, <1>6, <1>7

\* A waiting thread leaves its queue by the tick or by a signal.
LEMMA UnpendEffect ==
    ASSUME NEW places, LibInv(places), NEW x \in sem, x # picked, Unpend(x),
           signalled' \in {signalled, signalled \union {x}},
           UNCHANGED <<deleted, klock, picked, call>>
    PROVE  /\ LibInv(places)'
           /\ x \in Threads /\ call[x].at = "waiting" /\ call[x].q \in Queues
           /\ sem' = sem \ {x} /\ timedOut' = timedOut \union {x}
           /\ \A q \in Queues : ToSet(waitQ'[q]) = ToSet(waitQ[q]) \ {x}
           /\ \A q \in Queues : waitQ[q] = <<>> => waitQ'[q] = <<>>
<1> USE ThreadsAssumption DEF LibInv
<1>1. x \in Threads /\ call[x].at = "waiting" /\ call[x].q \in Queues
  BY DEF FlagInv, LibTypeOK
<1>2. /\ sem' = sem \ {x} /\ timedOut' = timedOut \union {x}
      /\ delayed' = delayed \ {x}
      /\ waitQ' = [q \in Queues |-> IF x \in ToSet(waitQ[q])
                                    THEN Deleted(waitQ[q], x) ELSE waitQ[q]]
  BY DEF Unpend
<1>3. \E prio : prio \in [Threads -> Nat]
  <2>1. [u \in Threads |-> 0] \in [Threads -> Nat]
    OBVIOUS
  <2>2. QED
    BY <2>1
<1>4. ASSUME NEW q \in Queues
      PROVE  /\ waitQ'[q] \in Seq(Threads) /\ IsInjective(waitQ'[q])
             /\ ToSet(waitQ'[q]) = ToSet(waitQ[q]) \ {x}
             /\ waitQ[q] = <<>> => waitQ'[q] = <<>>
  <2>1. waitQ[q] \in Seq(Threads) /\ IsInjective(waitQ[q])
    BY DEF LibTypeOK, QueueInv
  <2>2. CASE x \in ToSet(waitQ[q])
    <3>1. /\ Deleted(waitQ[q], x) \in Seq(Threads)
          /\ IsInjective(Deleted(waitQ[q], x))
          /\ ToSet(Deleted(waitQ[q], x)) = ToSet(waitQ[q]) \ {x}
      BY <1>1, <1>3, <2>1, <2>2, DeletedIsGone
    <3>2. waitQ[q] # <<>>
      BY <2>2, EmptyQueue
    <3>3. QED
      BY <2>2, <3>1, <3>2, <1>2
  <2>3. CASE x \notin ToSet(waitQ[q])
    BY <2>3, <2>1, <1>2
  <2>4. QED
    BY <2>2, <2>3
<1>5. waitQ' \in [Queues -> Seq(Threads)]
  BY <1>2, <1>4
<1>6. LibTypeOK(places)'
  BY <1>1, <1>2, <1>5 DEF LibTypeOK
<1>7. QueueInv'
  <2>1. ASSUME NEW r \in Queues, NEW y \in Threads
        PROVE  y \in ToSet(waitQ'[r]) <=> y \in sem' /\ y # picked' /\ call'[y].q = r
    <3>1. y \in ToSet(waitQ[r]) <=> y \in sem /\ y # picked /\ call[y].q = r
      BY DEF QueueInv
    <3>2. ToSet(waitQ'[r]) = ToSet(waitQ[r]) \ {x}
      BY <1>4
    <3>3. QED
      BY <3>1, <3>2, <1>2
  <2>2. QED
    BY <2>1, <1>4 DEF QueueInv
<1>8. FlagInv'
  BY <1>1, <1>2 DEF FlagInv
<1>9. QED
  BY <1>1, <1>2, <1>4, <1>6, <1>7, <1>8

\* The tick: the thread in hand is no longer on the wakeup line.
LEMMA ExpireEffect ==
    ASSUME NEW places, LibInv(places), NEW x \in Threads, Expire(x)
    PROVE  /\ LibInv(places)' /\ x \in sem /\ x # picked
           /\ call[x].at = "waiting" /\ call[x].q \in Queues
           /\ sem' = sem \ {x} /\ timedOut' = timedOut \union {x}
           /\ UNCHANGED <<deleted, signalled, klock, picked, call>>
           /\ \A q \in Queues : ToSet(waitQ'[q]) = ToSet(waitQ[q]) \ {x}
           /\ \A q \in Queues : waitQ[q] = <<>> => waitQ'[q] = <<>>
<1>1. x \in sem /\ x # picked
  BY DEF Expire, LibInv, FlagInv
<1>2. QED
  BY <1>1, UnpendEffect DEF Expire

\* A signal: nobody has a thread in hand outside of the kernel.
LEMMA SignalEffect ==
    ASSUME NEW places, LibInv(places), NEW x \in Threads, Signal(x)
    PROVE  /\ LibInv(places)' /\ x \in sem /\ x # picked
           /\ call[x].at = "waiting" /\ call[x].q \in Queues
           /\ sem' = sem \ {x} /\ timedOut' = timedOut \union {x}
           /\ signalled' = signalled \union {x}
           /\ UNCHANGED <<deleted, klock, picked, call>>
           /\ \A q \in Queues : ToSet(waitQ'[q]) = ToSet(waitQ[q]) \ {x}
           /\ \A q \in Queues : waitQ[q] = <<>> => waitQ'[q] = <<>>
<1>1. x \in sem /\ x # picked
  BY ThreadsAssumption DEF Signal, LibInv, FlagInv
<1>2. QED
  BY <1>1, UnpendEffect DEF Signal

\* A call that a signal has woken gives up or starts again.
LEMMA SignalledEffect ==
    ASSUME NEW places, {"idle", "again"} \subseteq places, LibInv(places),
           NEW t \in Threads, Signalled(t)
    PROVE  /\ LibInv(places)'
           /\ t \in signalled /\ t \in timedOut /\ t \notin sem
           /\ call[t].at = "waiting" /\ call[t].q \in Queues
           /\ signalled' = signalled \ {t}
           /\ call'[t] = Idle \/
                (call'[t].at = "again" /\ call'[t].q = call[t].q
                                      /\ call'[t].timeout = call[t].timeout)
           /\ \A x \in Threads : x # t => call'[x] = call[x]
           /\ UNCHANGED <<waitQ, sem, delayed, timedOut, deleted, klock, picked>>
<1> USE DEF LibInv
<1>1. /\ t \in signalled /\ t \in timedOut /\ t \notin sem
      /\ call[t].at = "waiting" /\ call[t].q \in Queues
      /\ signalled' = signalled \ {t}
      /\ UNCHANGED <<waitQ, sem, delayed, timedOut, deleted, klock, picked>>
  BY DEF Signalled, WaitOver, FlagInv
<1>2. klock' \in Threads \union {NoThread} /\ (klock' = NoThread => picked = NoThread)
  BY <1>1 DEF LibTypeOK, FlagInv
<1>3. CASE Return(t)
  <2>1. Moves(places, t, Idle)
    BY <1>3, ReturnMoves
  <2>2. LibInv(places)'
    BY <1>1, <1>2, <2>1, MoveKeeps
  <2>3. QED
    BY <1>1, <2>1, <2>2, MoveEffect
<1>4. CASE At(t, "again", call[t].q)
  <2> DEFINE c == [at |-> "again", q |-> call[t].q, timeout |-> call[t].timeout]
  <2>1. Moves(places, t, c)
    BY <1>1, <1>4, AtMoves
  <2> HIDE DEF c
  <2>2. LibInv(places)'
    BY <1>1, <1>2, <2>1, MoveKeeps
  <2>3. call'[t] = c /\ \A x \in Threads : x # t => call'[x] = call[x]
    BY <2>1, MoveEffect
  <2>4. QED
    BY <1>1, <2>2, <2>3 DEF c
<1>5. QED
  BY <1>3, <1>4 DEF Signalled

\* Both halves at once, in an interrupt, which may find another thread in hand.
LEMMA WakeFirstEffect ==
    ASSUME NEW places, LibInv(places), NEW q \in Queues, waitQ[q] # <<>>,
           WakeFirst(q), UNCHANGED <<deleted, signalled, klock, picked, call>>
    PROVE  /\ LibInv(places)'
           /\ Head(waitQ[q]) \in sem /\ Head(waitQ[q]) \in Threads
           /\ Head(waitQ[q]) # picked
           /\ call[Head(waitQ[q])].at = "waiting" /\ call[Head(waitQ[q])].q = q
           /\ Head(waitQ[q]) \notin timedOut /\ Head(waitQ[q]) \notin deleted
           /\ Head(waitQ[q]) \notin signalled
           /\ waitQ' = [waitQ EXCEPT ![q] = Tail(waitQ[q])]
           /\ sem' = sem \ {Head(waitQ[q])} /\ timedOut' = timedOut
           /\ delayed' = delayed \ {Head(waitQ[q])}
<1> USE ThreadsAssumption DEF LibInv
<1> DEFINE h == Head(waitQ[q])
<1>0. waitQ \in [Queues -> Seq(Threads)] /\ waitQ[q] \in Seq(Threads)
  BY DEF LibTypeOK
<1>1. \E prio : prio \in [Threads -> Nat]
  <2>1. [x \in Threads |-> 0] \in [Threads -> Nat]
    OBVIOUS
  <2>2. QED
    BY <2>1
<1>2. /\ h \in ToSet(waitQ[q]) /\ h \in Threads
      /\ Tail(waitQ[q]) \in Seq(Threads)
      /\ ToSet(Tail(waitQ[q])) = ToSet(waitQ[q]) \ {h}
      /\ IsInjective(Tail(waitQ[q]))
  BY <1>0, <1>1, TailIsRest DEF QueueInv
<1>3. waitQ' = [waitQ EXCEPT ![q] = Tail(waitQ[q])] /\ delayed' = delayed \ {h}
  BY DEF WakeFirst
<1>4. /\ h \in sem /\ h # picked /\ call[h].at = "waiting" /\ call[h].q = q
      /\ h \notin timedOut /\ h \notin deleted /\ h \notin signalled
  BY <1>2 DEF QueueInv, FlagInv
<1>5. sem' = sem \ {h} /\ timedOut' = timedOut
  BY <1>4 DEF WakeFirst, LibTypeOK
<1> HIDE DEF h
<1>6. /\ waitQ'[q] = Tail(waitQ[q]) /\ waitQ' \in [Queues -> Seq(Threads)]
      /\ \A r \in Queues : r # q => waitQ'[r] = waitQ[r]
  BY <1>0, <1>2, <1>3
<1>7. LibTypeOK(places)'
  BY <1>3, <1>5, <1>6 DEF LibTypeOK
<1>8. QueueInv'
  <2>1. ASSUME NEW r \in Queues, NEW x \in Threads
        PROVE  x \in ToSet(waitQ'[r]) <=> x \in sem' /\ x # picked' /\ call'[x].q = r
    <3>1. x \in ToSet(waitQ[r]) <=> x \in sem /\ x # picked /\ call[x].q = r
      BY DEF QueueInv
    <3>2. CASE r = q
      BY <3>1, <3>2, <1>2, <1>5, <1>6
    <3>3. CASE r # q
      BY <3>1, <3>3, <1>4, <1>5, <1>6
    <3>4. QED
      BY <3>2, <3>3
  <2>2. \A r \in Queues : IsInjective(waitQ'[r])
    BY <1>2, <1>6 DEF QueueInv
  <2>3. QED
    BY <2>1, <2>2 DEF QueueInv
<1>9. FlagInv'
  BY <1>3, <1>4, <1>5 DEF FlagInv
<1>10. QED
  BY <1>2, <1>3, <1>4, <1>5, <1>7, <1>8, <1>9 DEF h

-----------------------------------------------------------------------------
(* Counting: how many members of a finite set a function maps to a value. *)

\* 1 for the value that is counted, and 0 for others.
One(a, b) == IF a = b THEN 1 ELSE 0

\* How many members of S the function f maps to b.
Count(S, f, b) == Cardinality({x \in S : f[x] = b})

\* One entry of a function changes, and with it the count.
LEMMA CountAfterChange ==
    ASSUME NEW S, IsFiniteSet(S), NEW s \in S, NEW f, NEW g, NEW b,
           \A x \in S : x # s => g[x] = f[x]
    PROVE  /\ Count(S, f, b) \in Nat
           /\ Count(S, g, b) = (Count(S, f, b) - One(f[s], b)) + One(g[s], b)
           /\ Count(S, f, b) >= One(f[s], b)
<1> DEFINE F == {x \in S : f[x] = b}
           G == {x \in S : g[x] = b}
           R == {x \in S : x # s /\ f[x] = b}
<1>1. IsFiniteSet(F) /\ IsFiniteSet(R)
  BY FS_Subset
<1>2. Cardinality(F) \in Nat /\ Cardinality(R) \in Nat
  BY <1>1, FS_CardinalityType
<1>3. s \notin R
  OBVIOUS
<1>4. IsFiniteSet(R \union {s}) /\ Cardinality(R \union {s}) = Cardinality(R) + 1
  BY <1>1, <1>3, FS_AddElement
<1>5. Cardinality(F) = Cardinality(R) + One(f[s], b)
  <2>1. CASE f[s] = b
    <3>1. F = R \union {s}
      BY <2>1
    <3>2. QED
      BY <2>1, <3>1, <1>4 DEF One
  <2>2. CASE f[s] # b
    <3>1. F = R
      BY <2>2
    <3>2. QED
      BY <2>2, <3>1, <1>2 DEF One
  <2>3. QED
    BY <2>1, <2>2
<1>6. Cardinality(G) = Cardinality(R) + One(g[s], b)
  <2>1. CASE g[s] = b
    <3>1. G = R \union {s}
      BY <2>1
    <3>2. QED
      BY <2>1, <3>1, <1>4 DEF One
  <2>2. CASE g[s] # b
    <3>1. G = R
      BY <2>2
    <3>2. QED
      BY <2>2, <3>1, <1>2 DEF One
  <2>3. QED
    BY <2>1, <2>2
<1>7. One(f[s], b) \in Nat /\ One(g[s], b) \in Nat
  BY DEF One
<1> HIDE DEF F, G, R
<1>8. /\ Cardinality(G) = (Cardinality(F) - One(f[s], b)) + One(g[s], b)
      /\ Cardinality(F) >= One(f[s], b)
  BY <1>2, <1>5, <1>6, <1>7
<1>9. QED
  BY <1>2, <1>8 DEF F, G, Count
=============================================================================
