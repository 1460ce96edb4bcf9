-------------------------- MODULE SemaphoreRWProofs --------------------------
(***************************************************************************)
(* The safety of the reader-writer semaphore, for any number of threads,   *)
(* any priorities and both preferences.  EVENT_ulCounter counts holders    *)
(* only outside of the kernel; the invariant says what it counts at each   *)
(* place of a post, too, where ticks may fall and waiters may return.      *)
(***************************************************************************)
EXTENDS SemaphoreRW, EventLibProofs

\* The threads that read or write, by what they were told or will be.
Readers == {t \in Threads : t \in reading \/ Arriving(t, "R")}
Writers == {t \in Threads : writing[t] > 0 \/ Arriving(t, "W")}

Inside == {"release", "releaseIgnoringWriters", "toWriter", "toReaders", "delete"}

\* Who is inside the kernel, and whom it has in hand.
KernelInv ==
    /\ \A t \in Threads : klock = t <=> call[t].at \in Inside
    /\ \A t \in Threads : call[t].at \in Inside => (call[t].at = "delete" <=> ~used)
    /\ \A t \in Threads : call[t].at \in {"release", "releaseIgnoringWriters"} =>
          picked = NoThread
    /\ \A t \in Threads : call[t].at = "toWriter" =>
          picked # NoThread /\ call[picked].q = "W"
    /\ \A t \in Threads : call[t].at = "toReaders" /\ picked # NoThread =>
          call[picked].q = "R"
    /\ ~used /\ klock = NoThread => \A q \in Queues : waitQ[q] = <<>>

\* A thread waits for nothing it holds.
WaitersInv == \A t \in Threads : call[t].at \in {"waiting", "again"} => ~Holder(t)

\* A thread whose semaphore was deleted before it could return success.
VoidedInv ==
    \A t \in voided :
        /\ call[t].at = "waiting"
        /\ t \notin sem /\ t \notin timedOut /\ t \notin deleted /\ t \notin signalled

\* Outside of the kernel it is free, or some read, or one writes.
FreeOrRead ==
    /\ status = "R" /\ owner = NoThread /\ depth = 0
    /\ Writers = {} /\ counter = Cardinality(Readers)

Written ==
    /\ status = "W" /\ owner \in Threads /\ counter = 1
    /\ Readers = {} /\ Writers = {owner}
    /\ writing[owner] = IF Arriving(owner, "W") THEN 0 ELSE depth + 1
    /\ Arriving(owner, "W") => depth = 0

\* The last holder has left, and the semaphore is still counted.
Released == Readers = {} /\ Writers = {} /\ counter = 1 /\ depth = 0

\* Readers are woken one by one, each counted when it is picked.
Waking ==
    /\ Writers = {} /\ depth = 0 /\ counter > 0
    /\ counter = Cardinality(Readers) + (IF picked = NoThread THEN 0 ELSE 1)

HoldInv ==
    /\ ~used => Readers = {} /\ Writers = {}
    /\ used /\ klock = NoThread => FreeOrRead \/ Written
    /\ \A t \in Threads :
          call[t].at \in {"release", "releaseIgnoringWriters", "toWriter"} => Released
    /\ \A t \in Threads : call[t].at = "toReaders" => Waking

IInv ==
    /\ TypeOK
    /\ QueueInv
    /\ FlagInv
    /\ KernelInv
    /\ WaitersInv
    /\ VoidedInv
    /\ HoldInv

-----------------------------------------------------------------------------
\* What the proofs use of the constants.
LEMMA Constants ==
    /\ NoThread \notin Threads /\ NoQueue \notin Queues /\ IsFiniteSet(Threads)
    /\ Queues = {"R", "W"} /\ MaxDepth \in Nat
    /\ Prio \in [Threads -> Nat] /\ PreferWriter \in BOOLEAN
<1>1. Prio \in [Threads -> 0 .. 255]
  BY PrioAssumption
<1>2. QED
  BY <1>1, ThreadsAssumption, QueuesAssumption, TwoQueues, PreferAssumption,
     MaxDepthAssumption

\* The invariant contains what the lemmas on the event library need.
LEMMA LibPart == IInv => /\ LibInv(Places) /\ TypeOK /\ KernelInv /\ WaitersInv
                         /\ VoidedInv /\ HoldInv
BY DEF IInv, LibInv, TypeOK

\* Sets of threads are finite, and what is counted stays below their number.
LEMMA Counting ==
    ASSUME NEW S \in SUBSET Threads
    PROVE  /\ Cardinality(S) \in 0 .. Cardinality(Threads)
           /\ Cardinality({}) = 0
           /\ Cardinality(S) = 0 => S = {}
           /\ \A t \in Threads : /\ t \notin S => Cardinality(S \union {t}) = Cardinality(S) + 1
                                 /\ t \in S => Cardinality(S \ {t}) = Cardinality(S) - 1
           /\ \A t \in S : Cardinality(S) = 1 => S = {t}
           /\ \A t \in Threads : 1 \in 0 .. Cardinality(Threads)
<1>1. IsFiniteSet(S) /\ IsFiniteSet(Threads) /\ Cardinality(S) <= Cardinality(Threads)
  BY Constants, FS_Subset
<1>2. Cardinality(S) \in Nat /\ Cardinality(Threads) \in Nat
  BY <1>1, FS_CardinalityType
<1>3. Cardinality({}) = 0 /\ (Cardinality(S) = 0 => S = {})
  BY <1>1, FS_EmptySet
<1>4. ASSUME NEW t \in Threads
      PROVE  /\ t \notin S => Cardinality(S \union {t}) = Cardinality(S) + 1
             /\ t \in S => Cardinality(S \ {t}) = Cardinality(S) - 1
  BY <1>1, FS_AddElement, FS_RemoveElement
<1>5. ASSUME NEW t \in S, Cardinality(S) = 1 PROVE S = {t}
  <2>1. \E x : S = {x}
    BY <1>1, <1>5, FS_Singleton
  <2>2. QED
    BY <2>1
<1>6. ASSUME NEW t \in Threads PROVE 1 <= Cardinality(Threads)
  <2>1. Cardinality(Threads) # 0
    BY <1>1, FS_EmptySet
  <2>2. QED
    BY <1>2, <2>1
<1>7. QED
  BY <1>1, <1>2, <1>3, <1>4, <1>5, <1>6

\* The initial state satisfies the invariant.
LEMMA InitIInv == Init => IInv
<1> SUFFICES ASSUME Init PROVE IInv
  OBVIOUS
<1> USE Constants
<1>1. LibInv(Places)
  BY LibInitInv DEF Init, Places
<1>2. TypeOK
  <2>1. Cardinality({}) \in 0 .. Cardinality(Threads) /\ Cardinality({}) = 0
    BY Counting
  <2>2. writing \in [Threads -> 0 .. MaxDepth + 1] /\ depth \in 0 .. MaxDepth
    BY DEF Init
  <2>3. counter \in 0 .. Cardinality(Threads)
    BY <2>1 DEF Init
  <2>4. QED
    BY <1>1, <2>2, <2>3 DEF Init, TypeOK, LibInv
<1>3. \A t \in Threads : call[t].at = "idle"
  BY DEF Init, LibInit, Idle
<1>4. KernelInv
  BY <1>3 DEF Init, LibInit, KernelInv, Inside
<1>5. WaitersInv /\ VoidedInv
  BY <1>3 DEF Init, WaitersInv, VoidedInv
<1>6. HoldInv
  BY <1>3 DEF Init, HoldInv, Readers, Writers, Arriving
<1>7. QED
  BY <1>1, <1>2, <1>4, <1>5, <1>6 DEF IInv, LibInv

\* The readers and the writers stay when nobody's answer changes.
LEMMA SetsStay ==
    ASSUME UNCHANGED <<reading, writing>>,
           \A u \in Threads : \A q \in Queues : Arriving(u, q)' <=> Arriving(u, q)
    PROVE  Readers' = Readers /\ Writers' = Writers
BY Constants DEF Readers, Writers

\* What the counter says stays true with it.
LEMMA HoldFrame ==
    ASSUME HoldInv, KernelInv,
           UNCHANGED <<evtVars, klock, Readers, Writers, writing>>,
           picked' = NoThread <=> picked = NoThread,
           \A u \in Threads : Arriving(u, "W")' <=> Arriving(u, "W"),
           \A u \in Threads : call'[u].at \in Inside => call'[u].at = call[u].at
    PROVE  HoldInv'
<1>1. \A u \in Threads :
        /\ call'[u].at \in {"release", "releaseIgnoringWriters", "toWriter"} => Released
        /\ call'[u].at = "toReaders" => Waking
  BY DEF HoldInv, Inside
<1>2. Released => Released'
  BY DEF Released, evtVars
<1>3. Waking => Waking'
  BY DEF Waking, evtVars
<1>4. FreeOrRead => FreeOrRead'
  BY DEF FreeOrRead, evtVars
<1>5. Written => Written'
  BY DEF Written, evtVars
<1>6. QED
  BY <1>1, <1>2, <1>3, <1>4, <1>5 DEF HoldInv, evtVars

\* A call of t that does not end in success ends, or starts again.
LEMMA StepAsidePreserves ==
    ASSUME IInv, NEW t \in Threads, NEW c, Moves(Places, t, c),
           call[t].at \in {"idle", "again", "waiting"}, t \notin sem,
           \A q \in Queues : ~Arriving(t, q),
           c.at = "idle" \/ (call[t].at = "waiting" /\ c.at = "again"),
           signalled' \subseteq signalled, t \notin signalled',
           \A u \in Threads : u # t => (u \in signalled' <=> u \in signalled),
           voided' = voided \ {t},
           UNCHANGED <<waitQ, sem, delayed, timedOut, deleted, klock, picked, evtVars,
                       reading, writing>>
    PROVE  IInv'
<1> USE Constants
<1>1. LibInv(Places) /\ TypeOK /\ KernelInv /\ WaitersInv /\ VoidedInv /\ HoldInv
  BY LibPart
<1>2. /\ call' \in [Threads -> Calls(Places)]
      /\ call'[t] = c
      /\ \A x \in Threads : x # t => call'[x] = call[x]
  BY <1>1, MoveEffect DEF LibInv
<1>3. LibInv(Places)'
  BY <1>1, MoveKeeps DEF LibInv, LibTypeOK, FlagInv
<1>4. TypeOK'
  BY <1>1, <1>3 DEF TypeOK, LibInv, evtVars
<1>5. \A u \in Threads : \A q \in Queues : Arriving(u, q)' <=> Arriving(u, q)
  BY <1>2 DEF Arriving
<1>6. \A u \in Threads : /\ call'[u].at \in Inside <=> call[u].at \in Inside
                         /\ call[u].at \in Inside => call'[u] = call[u]
  BY <1>2 DEF Inside
<1>7. KernelInv'
  <2>1. picked # NoThread => call'[picked] = call[picked]
    BY <1>1, <1>2 DEF LibInv, FlagInv, LibTypeOK
  <2>2. QED
    BY <1>1, <1>2, <1>6, <2>1 DEF KernelInv, evtVars, Inside
<1>8. WaitersInv'
  BY <1>1, <1>2 DEF WaitersInv, Holder
<1>9. VoidedInv'
  BY <1>1, <1>2 DEF VoidedInv, TypeOK
<1>10. HoldInv'
  <2>1. Readers' = Readers /\ Writers' = Writers
    BY <1>5, SetsStay
  <2>2. QED
    BY <1>1, <1>5, <1>6, <2>1, HoldFrame
<1>11. QED
  BY <1>3, <1>4, <1>7, <1>8, <1>9, <1>10 DEF IInv, LibInv

\* A thread that does not wait returns: what that says of the others.
LEMMA ReturnEffect ==
    ASSUME IInv, NEW t \in Threads, call[t].at # "waiting", Return(t),
           klock = NoThread, UNCHANGED <<klock, picked, waitVars, voided>>
    PROVE  /\ LibInv(Places)'
           /\ call'[t] = Idle /\ t \notin sem
           /\ \A x \in Threads : x # t => call'[x] = call[x]
           /\ \A x \in Threads : \A q \in Queues : Arriving(x, q)' <=> Arriving(x, q)
           /\ \A q \in Queues : ~Arriving(t, q)
<1>1. LibInv(Places)
  BY LibPart
<1>2. Moves(Places, t, Idle)
  BY ReturnMoves DEF Places
<1>3. t \notin sem /\ t \notin signalled
  BY <1>1 DEF LibInv, FlagInv
<1>4. klock' \in Threads \union {NoThread} /\ (klock' = NoThread => picked = NoThread)
  BY <1>1 DEF LibInv, LibTypeOK, FlagInv
<1>5. LibInv(Places)'
  BY <1>1, <1>2, <1>3, <1>4, MoveKeeps DEF waitVars
<1>6. call'[t] = Idle /\ \A x \in Threads : x # t => call'[x] = call[x]
  BY <1>1, <1>2, MoveEffect DEF LibInv
<1>7. QED
  BY <1>3, <1>5, <1>6 DEF Arriving, waitVars, Idle

-----------------------------------------------------------------------------
(* Every action preserves the invariant. *)

\* Outside of the kernel nobody hands over or deletes.
LEMMA Outside ==
    ASSUME IInv, klock = NoThread
    PROVE  /\ picked = NoThread
           /\ \A u \in Threads : call[u].at \notin Inside
           /\ used => FreeOrRead \/ Written
           /\ ~used => \A q \in Queues : waitQ[q] = <<>>
BY Constants DEF IInv, FlagInv, KernelInv, HoldInv

\* A step that starts and ends outside of the kernel: what is left to show.
LEMMA QuietStep ==
    ASSUME IInv, klock' = NoThread, LibInv(Places)', TypeOK',
           \A u \in Threads : call'[u].at \notin Inside,
           WaitersInv', VoidedInv', used', FreeOrRead' \/ Written'
    PROVE  IInv'
<1>1. KernelInv'
  BY Constants DEF KernelInv, Inside
<1>2. HoldInv'
  BY DEF HoldInv, Inside
<1>3. QED
  BY <1>1, <1>2 DEF IInv, LibInv

\* Create takes a block on whose queues nobody is left.
LEMMA CreatePreserves ==
    ASSUME IInv, NEW t \in Threads, Create(t)
    PROVE  IInv'
<1> USE Constants
<1>1. LibInv(Places) /\ TypeOK /\ KernelInv /\ WaitersInv /\ VoidedInv /\ HoldInv
  BY LibPart
<1>2. /\ call[t].at = "idle" /\ klock = NoThread /\ ~used /\ used' = TRUE
      /\ counter' = 0 /\ status' = "R" /\ owner' = NoThread /\ depth' = 0
      /\ Return(t)
      /\ UNCHANGED <<sem, delayed, timedOut, deleted, signalled, klock, picked,
                     reading, writing, voided>>
  BY DEF Create, Caller, histVars
<1>3. waitQ' = waitQ
  <2>1. waitQ \in [Queues -> Seq(Threads)] /\ \A q \in Queues : waitQ[q] = <<>>
    BY <1>1, <1>2, Outside DEF LibInv, LibTypeOK
  <2>2. waitQ' = [q \in Queues |-> <<>>]
    BY DEF Create
  <2>3. QED
    BY <2>1, <2>2
<1>4. /\ LibInv(Places)' /\ call'[t] = Idle
      /\ \A x \in Threads : x # t => call'[x] = call[x]
      /\ \A x \in Threads : \A q \in Queues : Arriving(x, q)' <=> Arriving(x, q)
  BY <1>2, <1>3, ReturnEffect DEF waitVars
<1>5. TypeOK'
  <2>1. Cardinality({}) \in 0 .. Cardinality(Threads) /\ Cardinality({}) = 0
    BY Counting
  <2>2. counter' \in 0 .. Cardinality(Threads) /\ depth' \in 0 .. MaxDepth
    BY <1>2, <2>1
  <2>3. QED
    BY <1>1, <1>2, <1>4, <2>2 DEF TypeOK, LibInv
<1>6. \A u \in Threads : call'[u].at \notin Inside
  BY <1>2, <1>4, Outside DEF Idle, Inside
<1>7. WaitersInv'
  BY <1>1, <1>2, <1>4 DEF WaitersInv, Holder, Idle
<1>8. VoidedInv'
  BY <1>1, <1>2, <1>4 DEF VoidedInv, TypeOK
<1>9. FreeOrRead'
  <2>1. Readers' = Readers /\ Writers' = Writers
    BY <1>2, <1>4, SetsStay
  <2>2. Readers = {} /\ Writers = {} /\ Cardinality({}) = 0
    BY <1>1, <1>2, Counting DEF HoldInv
  <2>3. QED
    BY <1>2, <2>1, <2>2 DEF FreeOrRead
<1>10. QED
  BY <1>2, <1>4, <1>5, <1>6, <1>7, <1>8, <1>9, QuietStep

\* A call that changes nothing but ends.
LEMMA RefusedPreserves ==
    ASSUME IInv, NEW t \in Threads, call[t].at \in {"idle", "again"}, Return(t),
           UNCHANGED <<waitVars, klock, picked, evtVars, reading, writing, voided>>
    PROVE  IInv'
<1>1. LibInv(Places) /\ VoidedInv
  BY LibPart
<1>2. Moves(Places, t, Idle)
  BY ReturnMoves DEF Places
<1>3. t \notin sem /\ t \notin signalled /\ t \notin voided
  BY <1>1 DEF LibInv, FlagInv, VoidedInv
<1>4. \A q \in Queues : ~Arriving(t, q)
  BY DEF Arriving
<1>5. voided' = voided \ {t} /\ signalled' = signalled
  BY <1>3 DEF waitVars
<1>6. QED
  BY <1>2, <1>3, <1>4, <1>5, StepAsidePreserves DEF waitVars, Idle

\* Where a call ends without success, nothing its callers rely on changes.
LEMMA FailedReturn ==
    ASSUME TypeOK, NEW t \in Threads, NEW q, NEW r, r # "NONE", Returned(t, q, r)
    PROVE  reading' = reading /\ writing' = writing /\ Return(t)
<1>1. writing \in [Threads -> 0 .. MaxDepth + 1]
  BY DEF TypeOK
<1>2. writing' = [writing EXCEPT ![t] = @] /\ reading' = reading /\ Return(t)
  BY DEF Returned
<1>3. QED
  BY <1>1, <1>2

\* What a success changes.
LEMMA TakenReturn ==
    ASSUME TypeOK, NEW t \in Threads, NEW q, Returned(t, q, "NONE")
    PROVE  /\ Return(t)
           /\ q = "R" => reading' = reading \union {t} /\ writing' = writing
           /\ q = "W" => /\ reading' = reading /\ writing'[t] = writing[t] + 1
                         /\ writing' = [writing EXCEPT ![t] = writing[t] + 1]
                         /\ \A u \in Threads : u # t => writing'[u] = writing[u]
<1>1. writing \in [Threads -> 0 .. MaxDepth + 1]
  BY DEF TypeOK
<1>2. Return(t)
  BY DEF Returned
<1>3. CASE q = "R"
  <2>1. writing' = [writing EXCEPT ![t] = @] /\ reading' = reading \union {t}
    BY <1>3 DEF Returned
  <2>2. QED
    BY <1>1, <1>2, <1>3, <2>1
<1>4. CASE q # "R"
  BY <1>1, <1>2, <1>4 DEF Returned
<1>5. QED
  BY <1>3, <1>4

\* A thread that may ask for q: one that holds nothing, or the writer again.
Enters(t, q) ==
    /\ call[t].at \in {"idle", "again"} /\ klock = NoThread
    /\ Holder(t) => q = "W" /\ writing[t] \in 1 .. MaxDepth

\* A reader is counted.
LEMMA ReadPreserves ==
    ASSUME IInv, NEW t \in Threads, Enters(t, "R"), used, CanRead,
           counter' = counter + 1, Returned(t, "R", "NONE"),
           UNCHANGED <<waitVars, klock, picked, used, status, owner, depth, voided>>
    PROVE  IInv'
<1> USE Constants
<1>1. LibInv(Places) /\ TypeOK /\ KernelInv /\ WaitersInv /\ VoidedInv /\ HoldInv
  BY LibPart
<1>2. /\ Return(t) /\ reading' = reading \union {t} /\ writing' = writing
  BY <1>1, TakenReturn
<1>3. call[t].at \in {"idle", "again"} /\ klock = NoThread /\ ~Holder(t)
  BY DEF Enters
<1>4. /\ LibInv(Places)' /\ call'[t] = Idle
      /\ \A x \in Threads : x # t => call'[x] = call[x]
      /\ \A x \in Threads : \A q \in Queues : Arriving(x, q)' <=> Arriving(x, q)
      /\ \A q \in Queues : ~Arriving(t, q)
  BY <1>2, <1>3, ReturnEffect
<1>5. FreeOrRead
  BY <1>3, Outside DEF CanRead, Written
<1>6. t \notin Readers /\ Readers' = Readers \union {t} /\ Writers' = Writers
  BY <1>2, <1>3, <1>4 DEF Readers, Writers, Holder
<1>7. counter' = Cardinality(Readers') /\ counter' \in 0 .. Cardinality(Threads)
  <2>1. Readers \in SUBSET Threads /\ Readers' \in SUBSET Threads
    BY DEF Readers
  <2>2. Cardinality(Readers \union {t}) = Cardinality(Readers) + 1
    BY <1>6, <2>1, Counting
  <2>3. counter = Cardinality(Readers)
    BY <1>5 DEF FreeOrRead
  <2>4. counter' = Cardinality(Readers')
    BY <1>6, <2>2, <2>3
  <2>5. QED
    BY <2>1, <2>4, Counting
<1>8. FreeOrRead'
  BY <1>5, <1>6, <1>7 DEF FreeOrRead
<1>9. TypeOK'
  BY <1>1, <1>2, <1>4, <1>7 DEF TypeOK, LibInv
<1>10. \A u \in Threads : call'[u].at \notin Inside
  BY <1>3, <1>4, Outside DEF Idle, Inside
<1>11. WaitersInv'
  BY <1>1, <1>2, <1>4 DEF WaitersInv, Holder, Idle
<1>12. VoidedInv'
  <2>1. t \notin voided
    BY <1>1, <1>3 DEF VoidedInv
  <2>2. QED
    BY <1>1, <1>4, <2>1 DEF VoidedInv, TypeOK, waitVars
<1>13. QED
  BY <1>3, <1>4, <1>8, <1>9, <1>10, <1>11, <1>12, QuietStep

\* A writer finds the semaphore free, or is the writer already.
LEMMA WritePreserves ==
    ASSUME IInv, NEW t \in Threads, Enters(t, "W"), used,
           Returned(t, "W", "NONE"),
           \/ /\ counter = 0 /\ counter' = counter + 1 /\ status' = "W" /\ owner' = t
              /\ depth' = depth
           \/ /\ counter # 0 /\ owner = t /\ depth' = depth + 1
              /\ UNCHANGED <<counter, status, owner>>,
           UNCHANGED <<waitVars, klock, picked, used, voided>>
    PROVE  IInv'
<1> USE Constants
<1>1. LibInv(Places) /\ TypeOK /\ KernelInv /\ WaitersInv /\ VoidedInv /\ HoldInv
  BY LibPart
<1>2. /\ Return(t) /\ reading' = reading /\ writing'[t] = writing[t] + 1
      /\ writing' = [writing EXCEPT ![t] = writing[t] + 1]
      /\ \A u \in Threads : u # t => writing'[u] = writing[u]
  BY <1>1, TakenReturn
<1>3. /\ call[t].at \in {"idle", "again"} /\ klock = NoThread
      /\ Holder(t) => writing[t] \in 1 .. MaxDepth
      /\ writing[t] \in 0 .. MaxDepth + 1
  BY <1>1 DEF Enters, TypeOK
<1>4. /\ LibInv(Places)' /\ call'[t] = Idle
      /\ \A x \in Threads : x # t => call'[x] = call[x]
      /\ \A x \in Threads : \A q \in Queues : Arriving(x, q)' <=> Arriving(x, q)
      /\ \A q \in Queues : ~Arriving(t, q)
  BY <1>2, <1>3, ReturnEffect
<1>5. \A u \in Threads : call'[u].at \notin Inside
  BY <1>3, <1>4, Outside DEF Idle, Inside
<1>6. WaitersInv'
  BY <1>1, <1>2, <1>4 DEF WaitersInv, Holder, Idle
<1>7. VoidedInv'
  <2>1. t \notin voided
    BY <1>1, <1>3 DEF VoidedInv
  <2>2. QED
    BY <1>1, <1>4, <2>1 DEF VoidedInv, TypeOK, waitVars
<1>8. Readers' = Readers /\ Writers' = Writers \union {t}
  BY <1>2, <1>3, <1>4 DEF Readers, Writers
<1>9. /\ Written'
      /\ counter' \in 0 .. Cardinality(Threads) /\ status' \in {"R", "W"}
      /\ owner' \in Threads \union {NoThread} /\ depth' \in 0 .. MaxDepth
      /\ writing[t] + 1 \in 0 .. MaxDepth + 1
  <2>1. CASE counter = 0
    <3>1. FreeOrRead
      BY <1>3, <2>1, Outside DEF Written
    <3>2. Readers = {} /\ Writers = {}
      <4>1. Readers \in SUBSET Threads
        BY DEF Readers
      <4>2. QED
        BY <2>1, <3>1, <4>1, Counting DEF FreeOrRead
    <3>3. writing[t] = 0
      BY <1>3, <3>2 DEF Writers
    <3>4. 1 \in 0 .. Cardinality(Threads)
      BY Counting
    <3>5. Written'
      BY <1>2, <1>4, <1>8, <2>1, <3>1, <3>2, <3>3 DEF Written, FreeOrRead
    <3>6. QED
      BY <1>1, <2>1, <3>1, <3>3, <3>4, <3>5 DEF FreeOrRead, TypeOK
  <2>2. CASE counter # 0
    <3>1. Written /\ owner = t
      BY <1>3, <2>2, Outside DEF FreeOrRead
    <3>2. writing[t] = depth + 1 /\ depth \in Nat
      BY <1>1, <1>4, <3>1 DEF Written, TypeOK
    <3>3. writing[t] \in 1 .. MaxDepth
      BY <1>3, <3>2 DEF Holder
    <3>4. Written'
      BY <1>2, <1>4, <1>8, <2>2, <3>1, <3>2 DEF Written
    <3>5. depth + 1 \in 0 .. MaxDepth /\ writing[t] + 1 \in 0 .. MaxDepth + 1
      BY <3>2, <3>3
    <3>6. QED
      BY <1>1, <2>2, <3>4, <3>5 DEF TypeOK
  <2>3. QED
    BY <2>1, <2>2
<1>10. TypeOK'
  <2>1. writing' \in [Threads -> 0 .. MaxDepth + 1]
    BY <1>1, <1>2, <1>9 DEF TypeOK
  <2>2. QED
    BY <1>1, <1>2, <1>4, <1>9, <2>1 DEF TypeOK, LibInv
<1>11. QED
  BY <1>3, <1>4, <1>5, <1>6, <1>7, <1>9, <1>10, QuietStep

\* A thread that has to wait joins the queue it asks for, and holds nothing.
LEMMA BlockPreserves ==
    ASSUME IInv, NEW t \in Threads, NEW q \in Queues, NEW timeout \in Timeouts,
           Enters(t, q), used, q = "W" => counter # 0 /\ owner # t,
           Join(t, q, timeout, Prio),
           UNCHANGED <<klock, picked, evtVars, reading, writing, voided>>
    PROVE  IInv'
<1>1. LibInv(Places) /\ TypeOK /\ KernelInv /\ WaitersInv /\ VoidedInv /\ HoldInv
  BY LibPart
<1>2. call[t].at \in {"idle", "again"} /\ klock = NoThread
  BY DEF Enters
<1>3. /\ LibInv(Places)' /\ t \in sem' /\ t \notin sem
      /\ call'[t].at = "waiting"
      /\ \A x \in Threads : x # t => call'[x] = call[x]
  <2>1. "waiting" \in Places /\ call[t].at # "waiting" /\ Prio \in [Threads -> Nat]
    BY <1>2, Constants DEF Places
  <2>2. /\ LibInv(Places)' /\ t \in sem' /\ t \notin sem
        /\ call'[t] = [at |-> "waiting", q |-> q, timeout |-> timeout]
        /\ \A x \in Threads : x # t => call'[x] = call[x]
    BY <1>1, <2>1, JoinEffect
  <2>3. QED
    BY <2>2
<1> USE Constants
<1>4. /\ sem' = sem \union {t} /\ timedOut' = timedOut \ {t}
      /\ deleted' = deleted \ {t} /\ signalled' = signalled
  BY DEF Join
<1>5. ~Holder(t)
  <2>1. CASE q = "R"
    BY <2>1 DEF Enters
  <2>2. CASE q = "W"
    <3>1. FreeOrRead \/ Written
      BY <1>2, Outside
    <3>2. writing[t] > 0 => t \in Writers
      BY DEF Writers
    <3>3. ~(writing[t] > 0)
      BY <2>2, <3>1, <3>2 DEF FreeOrRead, Written
    <3>4. writing[t] \in 1 .. MaxDepth => writing[t] > 0
      OBVIOUS
    <3>5. QED
      BY <3>3, <3>4 DEF Enters
  <2>3. QED
    BY <2>1, <2>2
<1>6. \A u \in Threads : \A r \in Queues : Arriving(u, r)' <=> Arriving(u, r)
  BY <1>2, <1>3, <1>4 DEF Arriving
<1>7. TypeOK'
  BY <1>1, <1>3 DEF TypeOK, LibInv, evtVars
<1>8. \A u \in Threads : call'[u].at \notin Inside
  BY <1>2, <1>3, Outside DEF Inside
<1>9. WaitersInv'
  BY <1>1, <1>3, <1>5 DEF WaitersInv, Holder
<1>10. VoidedInv'
  <2>1. t \notin voided
    BY <1>1, <1>2 DEF VoidedInv
  <2>2. QED
    BY <1>1, <1>3, <1>4, <2>1 DEF VoidedInv, TypeOK
<1>11. FreeOrRead' \/ Written'
  <2>1. Readers' = Readers /\ Writers' = Writers
    BY <1>6, SetsStay
  <2>2. FreeOrRead \/ Written
    BY <1>2, Outside
  <2>3. FreeOrRead => FreeOrRead'
    BY <2>1 DEF FreeOrRead, evtVars
  <2>4. Written => Written'
    BY <1>6, <2>1 DEF Written, evtVars
  <2>5. QED
    BY <2>2, <2>3, <2>4
<1>12. QED
  BY <1>2, <1>3, <1>7, <1>8, <1>9, <1>10, <1>11, QuietStep DEF evtVars

\* API_SemaphoreRWPendR and ...PendW, to __KERNEL_EXIT.
LEMMA EnterPreserves ==
    ASSUME IInv, NEW t \in Threads, NEW q \in Queues, NEW timeout \in Timeouts,
           Enters(t, q), PendEnter(t, q, timeout)
    PROVE  IInv'
<1> USE Constants
<1>1. TypeOK
  BY LibPart
<1>2. call[t].at \in {"idle", "again"}
  BY DEF Enters
<1>3. CASE PendInvalid(t, q)
  <2>1. Return(t) /\ UNCHANGED <<reading, writing>>
    BY <1>1, <1>3, FailedReturn DEF PendInvalid
  <2>2. QED
    BY <1>2, <1>3, <2>1, RefusedPreserves DEF PendInvalid
<1>4. CASE q = "R" /\ PendR(t, timeout)
  <2>1. used /\ UNCHANGED <<klock, picked, used, status, owner, depth, voided>>
    BY <1>4 DEF PendR
  <2>2. CASE CanRead /\ counter' = counter + 1 /\ Returned(t, "R", "NONE") /\ UNCHANGED waitVars
    BY <1>4, <2>1, <2>2, ReadPreserves
  <2>3. CASE Returned(t, "R", "TIMEOUT") /\ UNCHANGED <<waitVars, counter>>
    <3>1. Return(t) /\ UNCHANGED <<reading, writing>>
      BY <1>1, <2>3, FailedReturn
    <3>2. QED
      BY <1>2, <2>1, <2>3, <3>1, RefusedPreserves DEF evtVars
  <2>4. CASE Join(t, "R", timeout, Prio) /\ UNCHANGED <<counter, reading, writing>>
    BY <1>4, <2>1, <2>4, BlockPreserves DEF evtVars
  <2>5. QED
    BY <1>4, <2>2, <2>3, <2>4 DEF PendR
<1>5. CASE q = "W" /\ PendW(t, timeout)
  <2>1. used /\ UNCHANGED <<klock, picked, used, voided>>
    BY <1>5 DEF PendW
  <2>2. CASE /\ Returned(t, "W", "NONE") /\ UNCHANGED waitVars
             /\ \/ /\ counter = 0 /\ counter' = counter + 1 /\ status' = "W" /\ owner' = t
                   /\ depth' = depth
                \/ /\ counter # 0 /\ owner = t /\ depth' = depth + 1
                   /\ UNCHANGED <<counter, status, owner>>
    BY <1>5, <2>1, <2>2, WritePreserves
  <2>3. CASE Returned(t, "W", "TIMEOUT") /\ UNCHANGED <<waitVars, counter, status, owner, depth>>
    <3>1. Return(t) /\ UNCHANGED <<reading, writing>>
      BY <1>1, <2>3, FailedReturn
    <3>2. QED
      BY <1>2, <2>1, <2>3, <3>1, RefusedPreserves DEF evtVars
  <2>4. CASE /\ counter # 0 /\ owner # t /\ Join(t, "W", timeout, Prio)
             /\ UNCHANGED <<counter, status, owner, depth, reading, writing>>
    BY <1>5, <2>1, <2>4, BlockPreserves DEF evtVars
  <2>5. QED
    BY <1>5, <2>2, <2>3, <2>4 DEF PendW
<1>6. QED
  BY <1>3, <1>4, <1>5 DEF PendEnter

\* A thread asks, or asks again after a signal.
LEMMA PendPreserves ==
    ASSUME IInv, NEW t \in Threads,
           PendAgain(t) \/ \E q \in Queues, timeout \in Timeouts : Pend(t, q, timeout)
    PROVE  IInv'
<1>1. LibInv(Places) /\ WaitersInv
  BY LibPart
<1>2. CASE PendAgain(t)
  <2>1. call[t].q \in Queues /\ call[t].timeout \in Timeouts
    BY <1>1, <1>2 DEF PendAgain, LibInv, FlagInv, LibTypeOK
  <2>2. Enters(t, call[t].q)
    BY <1>1, <1>2 DEF PendAgain, Enters, WaitersInv
  <2>3. QED
    BY <1>2, <2>1, <2>2, EnterPreserves DEF PendAgain
<1>3. ASSUME NEW q \in Queues, NEW timeout \in Timeouts, Pend(t, q, timeout) PROVE IInv'
  <2>1. Enters(t, q)
    BY <1>3 DEF Pend, Enters, Caller
  <2>2. QED
    BY <1>3, <2>1, EnterPreserves DEF Pend
<1>4. QED
  BY <1>2, <1>3

\* A signal has ended the wait.
LEMMA PendSignalledPreserves ==
    ASSUME IInv, NEW t \in Threads, PendSignalled(t)
    PROVE  IInv'
<1> USE Constants
<1>1. LibInv(Places) /\ VoidedInv
  BY LibPart
<1>2. /\ t \in signalled /\ t \notin sem
      /\ call[t].at = "waiting" /\ call[t].q \in Queues
      /\ signalled' = signalled \ {t}
      /\ UNCHANGED <<waitQ, sem, delayed, timedOut, deleted, klock, picked>>
  <2>1. {"idle", "again"} \subseteq Places
    BY DEF Places
  <2>2. QED
    BY <1>1, <2>1, SignalledEffect DEF PendSignalled
<1>3. \A q \in Queues : ~Arriving(t, q)
  BY <1>2 DEF Arriving
<1>4. voided' = voided \ {t}
  BY <1>1, <1>2 DEF PendSignalled, histVars, VoidedInv
<1>5. UNCHANGED <<evtVars, reading, writing>>
  BY DEF PendSignalled, histVars
<1>6. CASE Return(t)
  <2>1. Moves(Places, t, Idle)
    BY <1>6, ReturnMoves DEF Places
  <2>2. QED
    BY <1>2, <1>3, <1>4, <1>5, <2>1, StepAsidePreserves DEF Idle
<1>7. CASE At(t, "again", call[t].q)
  <2>1. Moves(Places, t, [at |-> "again", q |-> call[t].q, timeout |-> call[t].timeout])
    BY <1>1, <1>2, <1>7, AtMoves DEF Places, LibInv
  <2>2. QED
    BY <1>2, <1>3, <1>4, <1>5, <2>1, StepAsidePreserves
<1>8. QED
  BY <1>6, <1>7 DEF PendSignalled, Signalled

\* Where there is a writer, the semaphore exists and nobody is in the kernel.
LEMMA WriterAlone ==
    ASSUME IInv, NEW t \in Writers
    PROVE  used /\ klock = NoThread /\ Written /\ owner = t
<1>1. LibInv(Places) /\ TypeOK /\ KernelInv /\ HoldInv
  BY LibPart
<1>2. used
  BY <1>1 DEF HoldInv
<1>3. klock = NoThread
  <2>1. SUFFICES ASSUME klock # NoThread PROVE FALSE
    OBVIOUS
  <2>2. klock \in Threads
    BY <1>1, <2>1 DEF LibInv, LibTypeOK
  <2>3. call[klock].at \in Inside /\ call[klock].at # "delete"
    BY <1>1, <1>2, <2>2 DEF KernelInv
  <2>4. Released \/ Waking
    BY <1>1, <2>2, <2>3 DEF HoldInv, Inside
  <2>5. QED
    BY <2>4 DEF Released, Waking
<1>4. FreeOrRead \/ Written
  BY <1>2, <1>3, Outside
<1>5. QED
  BY <1>2, <1>3, <1>4 DEF FreeOrRead, Written

\* The wait is over.
LEMMA PendReturnPreserves ==
    ASSUME IInv, NEW t \in Threads, PendReturn(t)
    PROVE  IInv'
<1> USE Constants
<1>1. LibInv(Places) /\ TypeOK /\ KernelInv /\ WaitersInv /\ VoidedInv /\ HoldInv
  BY LibPart
<1>2. /\ call[t].at = "waiting" /\ t \notin sem /\ t \notin signalled
      /\ voided' = voided \ {t} /\ UNCHANGED <<waitVars, klock, picked, evtVars>>
      /\ call[t].q \in Queues
  BY <1>1 DEF PendReturn, WaitOver, LibInv, FlagInv
<1>3. Return(t)
  BY DEF PendReturn, Returned
<1>4. Moves(Places, t, Idle)
  BY <1>3, ReturnMoves DEF Places
<1>5. CASE t \in voided \/ t \in timedOut \/ t \in deleted
  <2>1. (IF t \in voided THEN "VOID" ELSE WaitResult(t)) # "NONE"
    BY <1>5 DEF WaitResult
  <2>2. reading' = reading /\ writing' = writing
    BY <1>1, <2>1, FailedReturn DEF PendReturn
  <2>3. \A q \in Queues : ~Arriving(t, q)
    BY <1>5 DEF Arriving
  <2>4. QED
    BY <1>2, <1>4, <2>2, <2>3, StepAsidePreserves DEF waitVars, Idle
<1>6. CASE t \notin voided /\ t \notin timedOut /\ t \notin deleted
  <2>1. Arriving(t, call[t].q)
    BY <1>2, <1>6 DEF Arriving
  <2>2. Returned(t, call[t].q, "NONE")
    BY <1>6 DEF PendReturn, WaitResult
  <2>3. LibInv(Places)'
    <3>1. signalled' = signalled /\ (klock' = NoThread => picked = NoThread)
      BY <1>1, <1>2 DEF waitVars, LibInv, FlagInv
    <3>2. klock' \in Threads \union {NoThread}
      BY <1>1, <1>2 DEF LibInv, LibTypeOK
    <3>3. QED
      BY <1>1, <1>2, <1>4, <3>1, <3>2, MoveKeeps DEF waitVars
  <2>4. call'[t] = Idle /\ \A x \in Threads : x # t => call'[x] = call[x]
    BY <1>1, <1>4, MoveEffect DEF LibInv
  <2>5. /\ \A x \in Threads : x # t => \A q \in Queues : Arriving(x, q)' <=> Arriving(x, q)
        /\ \A q \in Queues : ~Arriving(t, q)'
        /\ \A q \in Queues : q # call[t].q => ~Arriving(t, q)
        /\ voided' = voided
    BY <1>2, <1>6, <2>4 DEF Arriving, waitVars, Idle
  <2>6. VoidedInv'
    BY <1>1, <1>2, <1>6, <2>4, <2>5 DEF VoidedInv, TypeOK, waitVars
  <2>7. \A u \in Threads : /\ call'[u].at \in Inside <=> call[u].at \in Inside
                           /\ call[u].at \in Inside => call'[u] = call[u]
    BY <1>2, <2>4 DEF Inside, Idle
  <2>8. CASE call[t].q = "R"
    <3>1. reading' = reading \union {t} /\ writing' = writing
      BY <1>1, <2>2, <2>8, TakenReturn
    <3>2. Readers' = Readers /\ Writers' = Writers
      BY <2>1, <2>5, <2>8, <3>1 DEF Readers, Writers
    <3>3. TypeOK'
      BY <1>1, <1>2, <2>3, <2>5, <3>1 DEF TypeOK, LibInv, evtVars
    <3>4. WaitersInv'
      BY <1>1, <2>4, <3>1 DEF WaitersInv, Holder, Idle
    <3>5. KernelInv'
      <4>1. picked # NoThread => call'[picked] = call[picked]
        BY <1>1, <1>2, <2>4 DEF LibInv, FlagInv, LibTypeOK
      <4>2. QED
        BY <1>1, <1>2, <2>4, <2>7, <4>1 DEF KernelInv, evtVars, Inside, waitVars
    <3>6. HoldInv'
      <4>1. \A u \in Threads : Arriving(u, "W")' <=> Arriving(u, "W")
        BY <2>5, <2>8
      <4>2. QED
        BY <1>1, <1>2, <2>7, <3>1, <3>2, <4>1, HoldFrame
    <3>7. QED
      BY <2>3, <2>6, <3>3, <3>4, <3>5, <3>6 DEF IInv, LibInv
  <2>9. CASE call[t].q = "W"
    <3>1. /\ reading' = reading /\ writing'[t] = writing[t] + 1
          /\ writing' = [writing EXCEPT ![t] = writing[t] + 1]
          /\ \A u \in Threads : u # t => writing'[u] = writing[u]
      BY <1>1, <2>2, <2>9, TakenReturn
    <3>2. t \in Writers
      BY <2>1, <2>9 DEF Writers
    <3>3. used /\ klock = NoThread /\ Written /\ owner = t
      BY <3>2, WriterAlone
    <3>4. writing[t] = 0 /\ depth = 0
      BY <2>1, <2>9, <3>3 DEF Written
    <3>5. Readers' = Readers /\ Writers' = Writers
      BY <2>1, <2>5, <2>9, <3>1, <3>2, <3>4 DEF Readers, Writers
    <3>6. Written'
      BY <1>2, <2>5, <3>1, <3>3, <3>4, <3>5 DEF Written, evtVars
    <3>7. TypeOK'
      <4>1. writing' \in [Threads -> 0 .. MaxDepth + 1]
        <5>1. writing[t] + 1 \in 0 .. MaxDepth + 1
          BY <3>4
        <5>2. QED
          BY <1>1, <3>1, <5>1 DEF TypeOK
      <4>2. QED
        BY <1>1, <1>2, <2>3, <2>5, <3>1, <4>1 DEF TypeOK, LibInv, evtVars
    <3>8. WaitersInv'
      BY <1>1, <2>4, <3>1 DEF WaitersInv, Holder, Idle
    <3>9. \A u \in Threads : call'[u].at \notin Inside
      BY <2>7, <3>3, Outside
    <3>10. QED
      BY <1>2, <2>3, <2>6, <3>3, <3>6, <3>7, <3>8, <3>9, QuietStep DEF evtVars
  <2>10. QED
    BY <1>2, <2>8, <2>9
<1>7. QED
  BY <1>5, <1>6

\* Who posts reads, or is the one that writes.
LEMMA GivenEffect ==
    ASSUME IInv, NEW t \in Threads, Caller(t), used, Holder(t), Given(t)
    PROVE  /\ FreeOrRead \/ Written
           /\ FreeOrRead => /\ t \in reading /\ t \in Readers
                            /\ reading' = reading \ {t} /\ writing' = writing
           /\ Written => /\ owner = t /\ writing[t] = depth + 1 /\ reading' = reading
                         /\ reading = {} /\ writing'[t] = depth
                         /\ writing' = [writing EXCEPT ![t] = depth]
                         /\ \A u \in Threads : u # t => writing'[u] = writing[u]
<1>1. LibInv(Places) /\ TypeOK
  BY LibPart
<1>2. klock = NoThread /\ ~Arriving(t, "W") /\ ~Arriving(t, "R")
  BY DEF Caller, Arriving
<1>3. FreeOrRead \/ Written
  BY <1>2, Outside
<1>4. writing \in [Threads -> 0 .. MaxDepth + 1] /\ writing[t] \in Nat /\ reading \subseteq Threads
  BY <1>1, Constants DEF TypeOK
<1>5. ASSUME FreeOrRead
      PROVE  t \in reading /\ t \in Readers /\ reading' = reading \ {t} /\ writing' = writing
  <2>1. ~(writing[t] > 0)
    BY <1>5 DEF FreeOrRead, Writers
  <2>2. t \in reading
    BY <2>1 DEF Holder
  <2>3. writing' = [writing EXCEPT ![t] = IF writing[t] > 0 THEN writing[t] - 1 ELSE writing[t]]
    BY DEF Given
  <2>4. writing' = writing
    BY <1>4, <2>1, <2>3
  <2>5. QED
    BY <2>2, <2>4 DEF Given, Readers
<1>6. ASSUME Written
      PROVE  /\ owner = t /\ writing[t] = depth + 1 /\ reading' = reading
             /\ reading = {} /\ writing'[t] = depth
             /\ writing' = [writing EXCEPT ![t] = depth]
             /\ \A u \in Threads : u # t => writing'[u] = writing[u]
  <2>1. reading = {}
    BY <1>4, <1>6 DEF Written, Readers
  <2>2. writing[t] > 0 /\ t \in Writers
    BY <2>1 DEF Holder, Writers
  <2>3. owner = t /\ writing[t] = depth + 1
    BY <1>2, <1>6, <2>2 DEF Written
  <2>4. writing' = [writing EXCEPT ![t] = depth]
    <3>1. writing' = [writing EXCEPT ![t] = IF writing[t] > 0 THEN writing[t] - 1 ELSE writing[t]]
      BY DEF Given
    <3>2. depth \in Nat
      BY <1>1, Constants DEF TypeOK
    <3>3. QED
      BY <2>2, <2>3, <3>1, <3>2
  <2>5. reading' = reading
    BY <2>1 DEF Given
  <2>6. QED
    BY <1>4, <2>1, <2>3, <2>4, <2>5
<1>7. QED
  BY <1>3, <1>5, <1>6

\* Somebody stays: other readers, or the writer with what it asked for before.
LEMMA PostOnePreserves ==
    ASSUME IInv, NEW t \in Threads, PostOne(t)
    PROVE  IInv'
<1> USE Constants
<1>1. LibInv(Places) /\ TypeOK /\ KernelInv /\ WaitersInv /\ VoidedInv /\ HoldInv
  BY LibPart
<1>2. /\ Caller(t) /\ used /\ Holder(t) /\ Given(t) /\ Return(t)
      /\ call[t].at = "idle" /\ klock = NoThread
      /\ UNCHANGED <<waitVars, klock, picked, used, status, owner, voided>>
  BY DEF PostOne, Caller
<1>3. /\ FreeOrRead \/ Written
      /\ FreeOrRead => /\ t \in reading /\ t \in Readers
                       /\ reading' = reading \ {t} /\ writing' = writing
      /\ Written => /\ owner = t /\ writing[t] = depth + 1 /\ reading' = reading
                    /\ reading = {} /\ writing'[t] = depth
                    /\ writing' = [writing EXCEPT ![t] = depth]
                    /\ \A u \in Threads : u # t => writing'[u] = writing[u]
  BY <1>2, GivenEffect
<1>4. /\ LibInv(Places)' /\ call'[t] = Idle
      /\ \A x \in Threads : x # t => call'[x] = call[x]
      /\ \A x \in Threads : \A q \in Queues : Arriving(x, q)' <=> Arriving(x, q)
      /\ \A q \in Queues : ~Arriving(t, q)
  BY <1>2, ReturnEffect
<1>5. \A u \in Threads : call'[u].at \notin Inside
  BY <1>2, <1>4, Outside DEF Idle, Inside
<1>6. WaitersInv'
  BY <1>1, <1>3, <1>4 DEF WaitersInv, Holder, Idle
<1>7. VoidedInv'
  <2>1. t \notin voided
    BY <1>1, <1>2 DEF VoidedInv
  <2>2. QED
    BY <1>1, <1>2, <1>4, <2>1 DEF VoidedInv, TypeOK, waitVars
<1>8. CASE FreeOrRead
  <2>1. counter' = counter - 1 /\ depth' = depth
    BY <1>8 DEF PostOne, FreeOrRead
  <2>2. Readers' = Readers \ {t} /\ Writers' = Writers
    BY <1>3, <1>4, <1>8 DEF Readers, Writers
  <2>3. counter' = Cardinality(Readers') /\ counter' \in 0 .. Cardinality(Threads)
    <3>1. Readers \in SUBSET Threads /\ Readers' \in SUBSET Threads
      BY DEF Readers
    <3>2. QED
      BY <1>3, <1>8, <2>1, <2>2, <3>1, Counting DEF FreeOrRead
  <2>4. FreeOrRead'
    BY <1>2, <1>8, <2>1, <2>2, <2>3 DEF FreeOrRead
  <2>5. TypeOK'
    BY <1>1, <1>2, <1>3, <1>4, <1>8, <2>1, <2>3 DEF TypeOK, LibInv
  <2>6. QED
    BY <1>2, <1>4, <1>5, <1>6, <1>7, <2>4, <2>5, QuietStep
<1>9. CASE Written
  <2>1. counter' = counter /\ depth > 0 /\ depth' = depth - 1
    BY <1>9 DEF PostOne, Written
  <2>2. depth \in 0 .. MaxDepth /\ depth' \in 0 .. MaxDepth /\ depth \in Nat
    BY <1>1, <2>1 DEF TypeOK
  <2>3. Readers' = Readers /\ Writers' = Writers
    BY <1>3, <1>4, <1>9, <2>1, <2>2 DEF Readers, Writers
  <2>4. Written'
    BY <1>2, <1>3, <1>4, <1>9, <2>1, <2>2, <2>3 DEF Written
  <2>5. writing' \in [Threads -> 0 .. MaxDepth + 1]
    <3>1. depth \in 0 .. MaxDepth + 1
      BY <2>2
    <3>2. QED
      BY <1>1, <1>3, <1>9, <3>1 DEF TypeOK
  <2>6. TypeOK'
    BY <1>1, <1>2, <1>3, <1>4, <1>9, <2>1, <2>2, <2>5 DEF TypeOK, LibInv
  <2>7. QED
    BY <1>2, <1>4, <1>5, <1>6, <1>7, <2>4, <2>6, QuietStep
<1>10. QED
  BY <1>3, <1>8, <1>9

\* The last one leaves, and is inside the kernel to hand over.
LEMMA PostLastPreserves ==
    ASSUME IInv, NEW t \in Threads, PostLast(t)
    PROVE  IInv'
<1> USE Constants
<1>1. LibInv(Places) /\ TypeOK /\ KernelInv /\ WaitersInv /\ VoidedInv /\ HoldInv
  BY LibPart
<1>2. /\ Caller(t) /\ used /\ Holder(t) /\ Given(t)
      /\ call[t].at = "idle" /\ klock = NoThread /\ klock' = t
      /\ UNCHANGED <<waitVars, picked, evtVars, voided>>
  BY DEF PostLast, Caller
<1>3. /\ FreeOrRead \/ Written
      /\ FreeOrRead => /\ t \in reading /\ t \in Readers
                       /\ reading' = reading \ {t} /\ writing' = writing
      /\ Written => /\ owner = t /\ writing[t] = depth + 1 /\ reading' = reading
                    /\ reading = {} /\ writing'[t] = depth
                    /\ writing' = [writing EXCEPT ![t] = depth]
                    /\ \A u \in Threads : u # t => writing'[u] = writing[u]
  BY <1>2, GivenEffect
<1>4. PICK p \in {"release", "releaseIgnoringWriters"} : At(t, p, NoQueue)
  BY DEF PostLast
<1>5. Moves(Places, t, [at |-> p, q |-> NoQueue, timeout |-> call[t].timeout])
  BY <1>1, <1>4, AtMoves DEF Places, LibInv
<1>6. t \notin sem /\ t \notin signalled /\ picked = NoThread
  BY <1>1, <1>2 DEF LibInv, FlagInv
<1>7. LibInv(Places)'
  BY <1>1, <1>2, <1>5, <1>6, MoveKeeps DEF waitVars
<1>8. call'[t].at = p /\ \A x \in Threads : x # t => call'[x] = call[x]
  BY <1>1, <1>5, MoveEffect DEF LibInv
<1>9. /\ \A x \in Threads : \A q \in Queues : Arriving(x, q)' <=> Arriving(x, q)
      /\ \A q \in Queues : ~Arriving(t, q)
  BY <1>2, <1>4, <1>8 DEF Arriving, waitVars
<1>10. KernelInv'
  BY <1>2, <1>4, <1>6, <1>8, Outside DEF KernelInv, Inside, evtVars
<1>11. WaitersInv'
  BY <1>1, <1>3, <1>4, <1>8 DEF WaitersInv, Holder
<1>12. VoidedInv'
  <2>1. t \notin voided
    BY <1>1, <1>2 DEF VoidedInv
  <2>2. QED
    BY <1>1, <1>2, <1>8, <2>1 DEF VoidedInv, TypeOK, waitVars
<1>13. Released' /\ TypeOK'
  <2>1. CASE FreeOrRead
    <3>1. counter = 1
      BY <2>1 DEF PostLast, FreeOrRead
    <3>2. Readers' = Readers \ {t} /\ Writers' = Writers
      BY <1>3, <1>9, <2>1 DEF Readers, Writers
    <3>3. Readers = {t}
      <4>1. Readers \in SUBSET Threads
        BY DEF Readers
      <4>2. t \in Readers /\ Cardinality(Readers) = 1
        BY <1>3, <2>1, <3>1 DEF FreeOrRead
      <4>3. \A u \in Readers : Cardinality(Readers) = 1 => Readers = {u}
        BY <4>1, Counting
      <4>4. QED
        BY <4>2, <4>3
    <3>4. Released'
      BY <1>2, <2>1, <3>1, <3>2, <3>3 DEF Released, FreeOrRead, evtVars
    <3>5. /\ reading' \subseteq Threads /\ writing' \in [Threads -> 0 .. MaxDepth + 1]
          /\ LibTypeOK(Places)'
      BY <1>1, <1>3, <1>7, <2>1 DEF TypeOK, LibInv
    <3>6. QED
      BY <1>1, <1>2, <3>4, <3>5 DEF TypeOK, evtVars
  <2>2. CASE Written
    <3>1. depth = 0
      BY <2>2 DEF PostLast, Written
    <3>2. Readers' = Readers /\ Writers' = Writers \ {t}
      BY <1>3, <1>9, <2>2, <3>1 DEF Readers, Writers
    <3>3. Released'
      BY <1>2, <1>3, <2>2, <3>1, <3>2 DEF Released, Written, evtVars
    <3>4. writing' \in [Threads -> 0 .. MaxDepth + 1]
      <4>1. depth \in 0 .. MaxDepth + 1
        BY <3>1
      <4>2. QED
        BY <1>1, <1>3, <2>2, <4>1 DEF TypeOK
    <3>5. QED
      BY <1>1, <1>2, <1>3, <1>7, <2>2, <3>3, <3>4 DEF TypeOK, LibInv, evtVars
  <2>3. QED
    BY <1>3, <2>1, <2>2
<1>14. HoldInv'
  <2>1. \A u \in Threads : call'[u].at # "toReaders"
    BY <1>2, <1>4, <1>8, Outside DEF Inside
  <2>2. QED
    BY <1>2, <1>13, <2>1 DEF HoldInv, evtVars
<1>15. QED
  BY <1>7, <1>10, <1>11, <1>12, <1>13, <1>14 DEF IInv, LibInv

-----------------------------------------------------------------------------
(* The steps inside the kernel: a waiter is picked, is woken, or the call  *)
(* of the thread inside ends.                                              *)

\* One thread is inside.
LEMMA InsideAlone ==
    ASSUME IInv, NEW t \in Threads, call[t].at \in Inside
    PROVE  /\ klock = t /\ t \notin sem /\ t \notin signalled /\ t \notin voided
           /\ \A u \in Threads : u # t => call[u].at \notin Inside
           /\ used <=> call[t].at # "delete"
<1>1. LibInv(Places) /\ KernelInv /\ VoidedInv /\ TypeOK
  BY LibPart
<1>2. klock = t
  BY <1>1 DEF KernelInv
<1>3. call[t].at # "waiting"
  BY DEF Inside
<1>4. QED
  BY <1>1, <1>2, <1>3 DEF KernelInv, LibInv, FlagInv, VoidedInv, TypeOK

\* A waiter is taken from its queue.
LEMMA PickFrame ==
    ASSUME IInv, NEW t \in Threads, call[t].at \in Inside, NEW q \in Queues,
           waitQ[q] # <<>>, picked = NoThread, Pick(q), klock' = t,
           NEW c, Moves(Places, t, c), UNCHANGED <<reading, writing, voided>>,
           c.at \in Inside
    PROVE  /\ LibInv(Places)' /\ WaitersInv' /\ VoidedInv'
           /\ picked' \in Threads /\ picked' # NoThread /\ call'[picked'].q = q
           /\ picked' \notin Readers
           /\ call'[t] = c
           /\ \A u \in Threads : u # t => call'[u] = call[u] /\ call'[u].at \notin Inside
           /\ \A u \in Threads : \A r \in Queues : Arriving(u, r)' <=> Arriving(u, r)
           /\ Readers' = Readers /\ Writers' = Writers
<1> USE Constants
<1>1. LibInv(Places) /\ TypeOK /\ KernelInv /\ WaitersInv /\ VoidedInv /\ HoldInv
  BY LibPart
<1>2. call[t].at # "waiting" /\ call[t].at # "again" /\ c.at # "waiting" /\ c.at # "again"
  BY DEF Inside
<1>3. klock' \in Threads
  OBVIOUS
<1>4. /\ LibInv(Places)' /\ picked' \in sem /\ picked' \in Threads /\ picked' # t
      /\ call[picked'].q = q /\ call'[picked'] = call[picked']
  BY <1>1, <1>2, <1>3, PickEffect
<1>5. call'[t] = c /\ \A x \in Threads : x # t => call'[x] = call[x]
  BY <1>1, MoveEffect DEF LibInv
<1>6. \A u \in Threads : u # t => call'[u].at \notin Inside
  BY <1>5, InsideAlone
<1>7. UNCHANGED <<sem, timedOut, deleted, signalled>>
  BY DEF Pick
<1>8. \A u \in Threads : \A r \in Queues : Arriving(u, r)' <=> Arriving(u, r)
  BY <1>2, <1>5, <1>7 DEF Arriving
<1>9. Readers' = Readers /\ Writers' = Writers
  BY <1>8, SetsStay
<1>10. WaitersInv'
  BY <1>1, <1>2, <1>5 DEF WaitersInv, Holder
<1>11. VoidedInv'
  BY <1>1, <1>5, <1>7, InsideAlone DEF VoidedInv, TypeOK
<1>12. picked' \notin Readers
  <2>1. call[picked'].at = "waiting"
    BY <1>1, <1>4 DEF LibInv, FlagInv
  <2>2. QED
    BY <1>1, <1>4, <2>1 DEF Readers, Arriving, WaitersInv, Holder
<1>13. QED
  BY <1>4, <1>5, <1>6, <1>8, <1>9, <1>10, <1>11, <1>12

\* The waiter picked before is woken.
LEMMA WakeFrame ==
    ASSUME IInv, NEW t \in Threads, call[t].at \in Inside, picked # NoThread,
           WakePicked, klock' \in {t, NoThread},
           deleted' \in {deleted, deleted \union {picked}},
           NEW c, Moves(Places, t, c),
           UNCHANGED <<waitQ, delayed, signalled, reading, writing, voided>>,
           c.at # "again"
    PROVE  /\ LibInv(Places)' /\ WaitersInv' /\ VoidedInv'
           /\ picked' = NoThread /\ picked \in Threads /\ picked \notin Readers
           /\ picked \notin Writers /\ writing[picked] = 0
           /\ call'[t] = c
           /\ \A u \in Threads : u # t => call'[u] = call[u] /\ call'[u].at \notin Inside
           /\ \A u \in Threads : u # picked =>
                 \A r \in Queues : Arriving(u, r)' <=> Arriving(u, r)
           /\ \A r \in Queues : ~Arriving(picked, r)
           /\ \A u \in Threads : u = picked => \A r \in Queues :
                 Arriving(u, r)' <=> u \notin deleted' /\ call[u].q = r
<1> USE Constants
<1>1. LibInv(Places) /\ TypeOK /\ KernelInv /\ WaitersInv /\ VoidedInv /\ HoldInv
  BY LibPart
<1>2. call[t].at # "waiting" /\ call[t].at # "again" /\ c.at # "waiting"
  BY DEF Inside, Moves
<1>3. klock' \in Threads \union {NoThread}
  OBVIOUS
<1>4. /\ LibInv(Places)'
      /\ picked \in sem /\ picked \in Threads /\ picked # t
      /\ call[picked].at = "waiting" /\ call'[picked] = call[picked]
      /\ picked \notin timedOut /\ picked \notin deleted
      /\ picked \notin signalled
      /\ picked' = NoThread /\ sem' = sem \ {picked} /\ timedOut' = timedOut
  BY <1>1, <1>2, <1>3, WakeEffect
<1>5. call'[t] = c /\ \A x \in Threads : x # t => call'[x] = call[x]
  BY <1>1, MoveEffect DEF LibInv
<1>6. \A u \in Threads : u # t => call'[u].at \notin Inside
  BY <1>5, InsideAlone
<1>7. picked \notin voided /\ picked \notin reading /\ ~(writing[picked] > 0)
  BY <1>1, <1>4 DEF VoidedInv, WaitersInv, Holder
<1>8. /\ \A u \in Threads : u # picked =>
             \A r \in Queues : Arriving(u, r)' <=> Arriving(u, r)
      /\ \A r \in Queues : ~Arriving(picked, r)
      /\ \A u \in Threads : u = picked => \A r \in Queues :
            Arriving(u, r)' <=> u \notin deleted' /\ call[u].q = r
  BY <1>2, <1>4, <1>5, <1>7 DEF Arriving
<1>9. WaitersInv'
  BY <1>1, <1>2, <1>5 DEF WaitersInv, Holder
<1>10. VoidedInv'
  BY <1>1, <1>4, <1>5, <1>7, InsideAlone DEF VoidedInv, TypeOK
<1>11. writing[picked] = 0
  <2>1. writing[picked] \in 0 .. MaxDepth + 1
    BY <1>1, <1>4 DEF TypeOK
  <2>2. QED
    BY <1>7, <2>1
<1>12. picked \notin Readers /\ picked \notin Writers
  BY <1>7, <1>8 DEF Readers, Writers
<1>13. QED
  BY <1>4, <1>5, <1>6, <1>8, <1>9, <1>10, <1>11, <1>12

\* The thread inside leaves.
LEMMA LeaveFrame ==
    ASSUME IInv, NEW t \in Threads, call[t].at \in Inside, picked = NoThread,
           Return(t), klock' = NoThread,
           UNCHANGED <<waitVars, picked, reading, writing, voided>>
    PROVE  /\ LibInv(Places)' /\ WaitersInv' /\ VoidedInv'
           /\ \A u \in Threads : call'[u].at \notin Inside
           /\ \A u \in Threads : \A r \in Queues : Arriving(u, r)' <=> Arriving(u, r)
           /\ Readers' = Readers /\ Writers' = Writers
<1> USE Constants
<1>1. LibInv(Places) /\ TypeOK /\ KernelInv /\ WaitersInv /\ VoidedInv /\ HoldInv
  BY LibPart
<1>2. Moves(Places, t, Idle)
  BY ReturnMoves DEF Places
<1>3. t \notin sem /\ t \notin signalled /\ t \notin voided /\ signalled' \subseteq signalled
  BY InsideAlone DEF waitVars
<1>4. LibInv(Places)'
  BY <1>1, <1>2, <1>3, MoveKeeps DEF waitVars
<1>5. call'[t] = Idle /\ \A x \in Threads : x # t => call'[x] = call[x]
  BY <1>1, <1>2, MoveEffect DEF LibInv
<1>6. \A u \in Threads : call'[u].at \notin Inside
  BY <1>5, InsideAlone DEF Idle, Inside
<1>7. call[t].at # "waiting"
  BY DEF Inside
<1>8. \A u \in Threads : \A r \in Queues : Arriving(u, r)' <=> Arriving(u, r)
  BY <1>5, <1>7 DEF Arriving, waitVars, Idle
<1>9. Readers' = Readers /\ Writers' = Writers
  BY <1>8, SetsStay
<1>10. WaitersInv'
  BY <1>1, <1>5 DEF WaitersInv, Holder, Idle
<1>11. VoidedInv'
  BY <1>1, <1>3, <1>5 DEF VoidedInv, TypeOK, waitVars
<1>12. QED
  BY <1>4, <1>6, <1>8, <1>9, <1>10, <1>11

\* A call that stays where it is has moved.
LEMMA StayMoves ==
    ASSUME IInv, NEW t \in Threads, call[t].at \in Inside, call' = call
    PROVE  Moves(Places, t, call[t])
<1>1. LibTypeOK(Places)
  BY LibPart DEF LibInv
<1>2. call[t] \in Calls(Places) /\ call' = [call EXCEPT ![t] = call[t]]
  BY <1>1 DEF LibTypeOK, Calls
<1>3. QED
  BY <1>2 DEF Moves, Inside

\* __release_pend takes a writer.
LEMMA ToWriterPreserves ==
    ASSUME IInv, NEW t \in Threads, ToWriter(t)
    PROVE  IInv'
<1> USE Constants
<1>1. LibInv(Places) /\ TypeOK /\ KernelInv /\ HoldInv
  BY LibPart
<1>2. /\ call[t].at = "release" /\ call[t].at \in Inside /\ waitQ["W"] # <<>> /\ Pick("W")
      /\ At(t, "toWriter", NoQueue)
      /\ UNCHANGED <<klock, evtVars, reading, writing, voided>>
  BY DEF ToWriter, Inside, histVars
<1>3. Moves(Places, t, [at |-> "toWriter", q |-> NoQueue, timeout |-> call[t].timeout])
  BY <1>1, <1>2, AtMoves DEF Places, LibInv
<1>4. picked = NoThread /\ Released /\ klock' = t /\ used
  BY <1>1, <1>2, InsideAlone DEF KernelInv, HoldInv
<1>5. /\ LibInv(Places)' /\ WaitersInv' /\ VoidedInv'
      /\ picked' # NoThread /\ call'[picked'].q = "W"
      /\ call'[t].at = "toWriter"
      /\ \A u \in Threads : u # t => call'[u].at \notin Inside
      /\ Readers' = Readers /\ Writers' = Writers
  <2>1. "W" \in Queues /\ "toWriter" \in Inside
    BY DEF Inside
  <2>2. QED
    BY <1>2, <1>3, <1>4, <2>1, PickFrame
<1>6. KernelInv'
  BY <1>1, <1>2, <1>4, <1>5 DEF KernelInv, Inside, evtVars
<1>7. HoldInv'
  <2>1. Released'
    BY <1>2, <1>4, <1>5 DEF Released, evtVars
  <2>2. QED
    BY <1>2, <1>4, <1>5, <2>1 DEF HoldInv, Inside, evtVars
<1>8. TypeOK'
  BY <1>1, <1>2, <1>5 DEF TypeOK, LibInv, evtVars
<1>9. QED
  BY <1>5, <1>6, <1>7, <1>8 DEF IInv, LibInv

\* __release_pend takes the first reader.
LEMMA ToReadersPreserves ==
    ASSUME IInv, NEW t \in Threads, ToReaders(t)
    PROVE  IInv'
<1> USE Constants
<1>1. LibInv(Places) /\ TypeOK /\ KernelInv /\ HoldInv
  BY LibPart
<1>2. /\ call[t].at \in {"release", "releaseIgnoringWriters"} /\ call[t].at \in Inside
      /\ waitQ["R"] # <<>> /\ Pick("R") /\ At(t, "toReaders", NoQueue)
      /\ counter' = (counter - 1) + 1
      /\ UNCHANGED <<klock, used, status, owner, depth, reading, writing, voided>>
  BY DEF ToReaders, Inside, histVars
<1>3. Moves(Places, t, [at |-> "toReaders", q |-> NoQueue, timeout |-> call[t].timeout])
  BY <1>1, <1>2, AtMoves DEF Places, LibInv
<1>4. picked = NoThread /\ Released /\ klock' = t /\ used
  BY <1>1, <1>2, InsideAlone DEF KernelInv, HoldInv
<1>5. /\ LibInv(Places)' /\ WaitersInv' /\ VoidedInv'
      /\ picked' # NoThread /\ call'[picked'].q = "R"
      /\ call'[t].at = "toReaders"
      /\ \A u \in Threads : u # t => call'[u].at \notin Inside
      /\ Readers' = Readers /\ Writers' = Writers
  <2>1. "R" \in Queues /\ "toReaders" \in Inside
    BY DEF Inside
  <2>2. QED
    BY <1>2, <1>3, <1>4, <2>1, PickFrame
<1>6. KernelInv'
  BY <1>1, <1>2, <1>4, <1>5 DEF KernelInv, Inside
<1>7. counter' = counter
  BY <1>2, <1>4 DEF Released
<1>8. HoldInv'
  <2>1. Cardinality({}) = 0
    BY Counting
  <2>2. Waking'
    BY <1>2, <1>4, <1>5, <1>7, <2>1 DEF Released, Waking
  <2>3. QED
    BY <1>2, <1>4, <1>5, <2>2 DEF HoldInv, Inside
<1>9. TypeOK'
  BY <1>1, <1>2, <1>5, <1>7 DEF TypeOK, LibInv
<1>10. QED
  BY <1>5, <1>6, <1>8, <1>9 DEF IInv, LibInv

\* __release_pend finds nobody: the semaphore is free.
LEMMA ToNobodyPreserves ==
    ASSUME IInv, NEW t \in Threads, ToNobody(t)
    PROVE  IInv'
<1> USE Constants
<1>1. LibInv(Places) /\ TypeOK /\ KernelInv /\ HoldInv
  BY LibPart
<1>2. /\ call[t].at \in {"release", "releaseIgnoringWriters"} /\ call[t].at \in Inside
      /\ counter' = counter - 1 /\ owner' = NoThread /\ status' = "R"
      /\ klock' = NoThread /\ Return(t)
      /\ UNCHANGED <<waitVars, picked, used, depth, reading, writing, voided>>
  BY DEF ToNobody, Inside, histVars
<1>3. picked = NoThread /\ Released /\ used
  BY <1>1, <1>2, InsideAlone DEF KernelInv, HoldInv
<1>4. /\ LibInv(Places)' /\ WaitersInv' /\ VoidedInv'
      /\ \A u \in Threads : call'[u].at \notin Inside
      /\ Readers' = Readers /\ Writers' = Writers
  BY <1>2, <1>3, LeaveFrame
<1>5. Cardinality({}) = 0 /\ Cardinality({}) \in 0 .. Cardinality(Threads)
  BY Counting
<1>6. counter' = 0
  BY <1>2, <1>3 DEF Released
<1>7. FreeOrRead'
  BY <1>2, <1>3, <1>4, <1>5, <1>6 DEF FreeOrRead, Released
<1>8. TypeOK'
  BY <1>1, <1>2, <1>4, <1>5, <1>6 DEF TypeOK, LibInv
<1>9. QED
  BY <1>2, <1>3, <1>4, <1>7, <1>8, QuietStep

\* The writer picked before is woken, and owns the semaphore.
LEMMA WriterHighPreserves ==
    ASSUME IInv, NEW t \in Threads, WriterHigh(t)
    PROVE  IInv'
<1> USE Constants
<1>1. LibInv(Places) /\ TypeOK /\ KernelInv /\ HoldInv
  BY LibPart
<1>2. /\ call[t].at = "toWriter" /\ call[t].at \in Inside /\ WakePicked
      /\ owner' = picked /\ status' = "W" /\ klock' = NoThread /\ Return(t)
      /\ UNCHANGED <<waitQ, delayed, deleted, signalled, used, counter, depth,
                     reading, writing, voided>>
  BY DEF WriterHigh, Inside, histVars
<1>3. picked # NoThread /\ call[picked].q = "W" /\ Released /\ used
  BY <1>1, <1>2, InsideAlone DEF KernelInv, HoldInv
<1>4. Moves(Places, t, Idle) /\ Idle.at # "again" /\ Idle.at \notin Inside
  BY <1>2, ReturnMoves DEF Places, Idle, Inside
<1>5. /\ LibInv(Places)' /\ WaitersInv' /\ VoidedInv'
      /\ picked \in Threads /\ writing[picked] = 0
      /\ call'[t] = Idle
      /\ \A u \in Threads : u # t => call'[u].at \notin Inside
      /\ \A u \in Threads : u # picked =>
            \A r \in Queues : Arriving(u, r)' <=> Arriving(u, r)
      /\ \A r \in Queues : ~Arriving(picked, r)
      /\ \A u \in Threads : u = picked => \A r \in Queues :
            Arriving(u, r)' <=> u \notin deleted' /\ call[u].q = r
  BY <1>2, <1>3, <1>4, WakeFrame
<1>6. picked \notin deleted'
  BY <1>1, <1>2, <1>3 DEF LibInv, FlagInv
<1>7. PICK w \in Threads : w = picked
  BY <1>5
<1>8. Arriving(w, "W")' /\ ~Arriving(w, "R")'
  BY <1>3, <1>5, <1>6, <1>7
<1>9. Readers' = Readers /\ Writers' = Writers \union {w}
  BY <1>2, <1>5, <1>7, <1>8 DEF Readers, Writers
<1>10. Written'
  BY <1>2, <1>3, <1>5, <1>7, <1>8, <1>9 DEF Written, Released
<1>11. TypeOK'
  BY <1>1, <1>2, <1>5 DEF TypeOK, LibInv
<1>12. \A u \in Threads : call'[u].at \notin Inside
  BY <1>4, <1>5
<1>13. QED
  BY <1>2, <1>3, <1>5, <1>10, <1>11, <1>12, QuietStep

\* A reader picked before is woken.
LEMMA ReadersHighPreserves ==
    ASSUME IInv, NEW t \in Threads, ReadersHigh(t)
    PROVE  IInv'
<1> USE Constants
<1>1. LibInv(Places) /\ TypeOK /\ KernelInv /\ HoldInv
  BY LibPart
<1>2. /\ call[t].at = "toReaders" /\ call[t].at \in Inside /\ picked # NoThread /\ WakePicked
      /\ UNCHANGED <<waitQ, delayed, deleted, signalled, klock, call, evtVars,
                     reading, writing, voided>>
  BY DEF ReadersHigh, Inside, histVars
<1>3. call[picked].q = "R" /\ Waking /\ used /\ klock' = t
  BY <1>1, <1>2, InsideAlone DEF KernelInv, HoldInv
<1>4. Moves(Places, t, call[t]) /\ call[t].at # "again"
  BY <1>2, StayMoves
<1>5. /\ LibInv(Places)' /\ WaitersInv' /\ VoidedInv'
      /\ picked' = NoThread /\ picked \in Threads /\ picked \notin Readers
      /\ \A u \in Threads : u # t => call'[u].at \notin Inside
      /\ \A u \in Threads : u # picked =>
            \A r \in Queues : Arriving(u, r)' <=> Arriving(u, r)
      /\ \A r \in Queues : ~Arriving(picked, r)
      /\ \A u \in Threads : u = picked => \A r \in Queues :
            Arriving(u, r)' <=> u \notin deleted' /\ call[u].q = r
  BY <1>2, <1>3, <1>4, WakeFrame
<1>6. picked \notin deleted'
  BY <1>1, <1>2, <1>3 DEF LibInv, FlagInv
<1>7. PICK w \in Threads : w = picked
  BY <1>5
<1>8. Arriving(w, "R")' /\ ~Arriving(w, "W")'
  BY <1>3, <1>5, <1>6, <1>7
<1>9. Readers' = Readers \union {w} /\ Writers' = Writers /\ w \notin Readers
  BY <1>2, <1>5, <1>7, <1>8 DEF Readers, Writers
<1>10. Waking'
  <2>1. Cardinality(Readers') = Cardinality(Readers) + 1
    <3>1. Readers \in SUBSET Threads
      BY DEF Readers
    <3>2. QED
      BY <1>9, <3>1, Counting
  <2>2. Cardinality(Readers) \in Nat
    <3>1. Readers \in SUBSET Threads
      BY DEF Readers
    <3>2. Cardinality(Readers) \in 0 .. Cardinality(Threads)
      BY <3>1, Counting
    <3>3. QED
      BY <3>2
  <2>3. QED
    BY <1>2, <1>3, <1>5, <1>9, <2>1, <2>2 DEF Waking, evtVars
<1>11. HoldInv'
  BY <1>2, <1>3, <1>5, <1>10 DEF HoldInv, Inside, evtVars
<1>12. KernelInv'
  BY <1>1, <1>2, <1>3, <1>5 DEF KernelInv, Inside, evtVars
<1>13. TypeOK'
  BY <1>1, <1>2, <1>5 DEF TypeOK, LibInv, evtVars
<1>14. QED
  BY <1>5, <1>11, <1>12, <1>13 DEF IInv, LibInv

\* The next reader, or the end of the loop.
LEMMA ReadersNextPreserves ==
    ASSUME IInv, NEW t \in Threads, ReadersNext(t)
    PROVE  IInv'
<1> USE Constants
<1>1. LibInv(Places) /\ TypeOK /\ KernelInv /\ HoldInv
  BY LibPart
<1>2. /\ call[t].at = "toReaders" /\ call[t].at \in Inside /\ picked = NoThread
      /\ UNCHANGED <<used, depth, reading, writing, voided>>
  BY DEF ReadersNext, Inside, histVars
<1>3. Waking /\ used /\ klock = t
  BY <1>1, <1>2, InsideAlone DEF HoldInv
<1>4. counter = Cardinality(Readers) /\ counter \in Nat
  <2>1. counter = Cardinality(Readers) + 0 /\ Readers \in SUBSET Threads
    BY <1>2, <1>3 DEF Waking, Readers
  <2>2. Cardinality(Readers) \in 0 .. Cardinality(Threads)
    BY <2>1, Counting
  <2>3. QED
    BY <2>1, <2>2
<1>5. CASE /\ waitQ["R"] # <<>> /\ Pick("R") /\ counter' = counter + 1
           /\ UNCHANGED <<klock, call, status, owner>>
  <2>1. Moves(Places, t, call[t]) /\ "R" \in Queues /\ klock' = t
    BY <1>2, <1>3, <1>5, StayMoves
  <2>2. /\ LibInv(Places)' /\ WaitersInv' /\ VoidedInv'
        /\ picked' \in Threads /\ picked' # NoThread /\ call'[picked'].q = "R"
        /\ picked' \notin Readers
        /\ \A u \in Threads : u # t => call'[u].at \notin Inside
        /\ Readers' = Readers /\ Writers' = Writers
    BY <1>2, <1>5, <2>1, PickFrame
  <2>3. counter' \in 0 .. Cardinality(Threads)
    <3>1. PICK w \in Threads : w = picked'
      BY <2>2
    <3>2. Readers \in SUBSET Threads /\ Readers \union {w} \in SUBSET Threads
      BY DEF Readers
    <3>3. Cardinality(Readers \union {w}) = Cardinality(Readers) + 1
      BY <2>2, <3>1, <3>2, Counting
    <3>4. Cardinality(Readers \union {w}) \in 0 .. Cardinality(Threads)
      BY <3>2, Counting
    <3>5. QED
      BY <1>4, <1>5, <3>3, <3>4
  <2>4. HoldInv'
    <3>1. Waking'
      BY <1>2, <1>3, <1>4, <1>5, <2>2 DEF Waking
    <3>2. QED
      BY <1>2, <1>3, <1>5, <2>1, <2>2, <3>1 DEF HoldInv, Inside
  <2>5. KernelInv'
    BY <1>1, <1>2, <1>3, <1>5, <2>1, <2>2 DEF KernelInv, Inside
  <2>6. TypeOK'
    BY <1>1, <1>2, <1>5, <2>2, <2>3 DEF TypeOK, LibInv
  <2>7. QED
    BY <2>2, <2>4, <2>5, <2>6 DEF IInv, LibInv
<1>6. CASE /\ owner' = NoThread /\ status' = "R" /\ klock' = NoThread /\ Return(t)
           /\ UNCHANGED <<waitVars, picked, counter>>
  <2>1. /\ LibInv(Places)' /\ WaitersInv' /\ VoidedInv'
        /\ \A u \in Threads : call'[u].at \notin Inside
        /\ Readers' = Readers /\ Writers' = Writers
    BY <1>2, <1>6, LeaveFrame
  <2>2. FreeOrRead'
    BY <1>2, <1>3, <1>4, <1>6, <2>1 DEF FreeOrRead, Waking
  <2>3. TypeOK'
    BY <1>1, <1>2, <1>6, <2>1 DEF TypeOK, LibInv
  <2>4. QED
    BY <1>2, <1>3, <1>6, <2>1, <2>2, <2>3, QuietStep
<1>7. QED
  BY <1>5, <1>6 DEF ReadersNext

-----------------------------------------------------------------------------
(* API_SemaphoreRWDelete. *)

\* After a step of a deletion: what is left to show.
LEMMA DeletedStep ==
    ASSUME LibInv(Places)', TypeOK', WaitersInv', VoidedInv', ~used',
           Readers' = {}, Writers' = {},
           NEW t \in Threads, \A u \in Threads : u # t => call'[u].at \notin Inside,
           \/ call'[t].at = "delete" /\ klock' = t
           \/ /\ call'[t].at = "idle" /\ klock' = NoThread
              /\ \A q \in Queues : waitQ'[q] = <<>>
    PROVE  IInv'
<1>1. call'[t].at = "delete" \/ call'[t].at = "idle"
  OBVIOUS
<1>2. \A u \in Threads : call'[u].at \notin {"release", "releaseIgnoringWriters",
                                             "toWriter", "toReaders"}
  BY <1>1 DEF Inside
<1>3. KernelInv'
  BY <1>2, Constants DEF KernelInv, Inside
<1>4. HoldInv'
  BY <1>2 DEF HoldInv
<1>5. QED
  BY <1>3, <1>4 DEF IInv, LibInv

\* The semaphore is gone for those that hold it and those about to return.
LEMMA DeletePreserves ==
    ASSUME IInv, NEW t \in Threads, Delete(t)
    PROVE  IInv'
<1> USE Constants
<1>1. LibInv(Places) /\ TypeOK /\ KernelInv /\ WaitersInv /\ VoidedInv /\ HoldInv
  BY LibPart
<1>2. /\ call[t].at = "idle" /\ klock = NoThread /\ picked = NoThread
      /\ ~used' /\ reading' = {} /\ writing' = [u \in Threads |-> 0]
      /\ voided' = voided \union {u \in Threads : \E q \in Queues : Arriving(u, q)}
      /\ UNCHANGED <<counter, status, depth>>
      /\ t \notin sem /\ t \notin signalled /\ t \notin voided
  BY <1>1, Outside DEF Delete, Caller, LibInv, FlagInv, VoidedInv
<1>3. \/ \E q \in Queues : /\ waitQ[q] # <<>> /\ Pick(q) /\ klock' = t
                           /\ At(t, "delete", NoQueue) /\ owner' = owner
      \/ /\ \A q \in Queues : waitQ[q] = <<>>
         /\ owner' = NoThread /\ klock' = NoThread /\ Return(t)
         /\ UNCHANGED <<waitVars, picked>>
  <2>1. DeletePickOrFinish(t)
    BY DEF Delete
  <2>2. QED
    BY <2>1 DEF DeletePickOrFinish
<1>4. /\ LibInv(Places)' /\ owner' \in Threads \union {NoThread}
      /\ \A x \in Threads : x # t => call'[x] = call[x]
      /\ UNCHANGED <<sem, timedOut, deleted, signalled>>
      /\ \/ call'[t].at = "delete" /\ klock' = t
         \/ /\ call'[t].at = "idle" /\ klock' = NoThread
            /\ \A q \in Queues : waitQ'[q] = <<>>
  <2>1. ASSUME NEW q \in Queues, waitQ[q] # <<>>, Pick(q), klock' = t,
               At(t, "delete", NoQueue), owner' = owner
        PROVE  /\ LibInv(Places)' /\ owner' \in Threads \union {NoThread}
               /\ \A x \in Threads : x # t => call'[x] = call[x]
               /\ UNCHANGED <<sem, timedOut, deleted, signalled>>
               /\ call'[t].at = "delete" /\ klock' = t
    <3>1. Moves(Places, t, [at |-> "delete", q |-> NoQueue, timeout |-> call[t].timeout])
      BY <1>1, <2>1, AtMoves DEF Places, LibInv
    <3>2. klock' \in Threads /\ call[t].at # "waiting"
      BY <1>2, <2>1
    <3>3. LibInv(Places)'
      BY <1>1, <1>2, <2>1, <3>1, <3>2, PickEffect
    <3>4. call'[t].at = "delete" /\ \A x \in Threads : x # t => call'[x] = call[x]
      BY <1>1, <3>1, MoveEffect DEF LibInv
    <3>5. UNCHANGED <<sem, timedOut, deleted, signalled>>
      BY <2>1 DEF Pick
    <3>6. QED
      BY <1>1, <2>1, <3>3, <3>4, <3>5 DEF TypeOK
  <2>2. CASE /\ \A q \in Queues : waitQ[q] = <<>>
             /\ owner' = NoThread /\ klock' = NoThread /\ Return(t)
             /\ UNCHANGED <<waitVars, picked>>
    <3>1. Moves(Places, t, Idle)
      BY <2>2, ReturnMoves DEF Places
    <3>2. LibInv(Places)'
      BY <1>1, <1>2, <2>2, <3>1, MoveKeeps DEF waitVars
    <3>3. call'[t] = Idle /\ \A x \in Threads : x # t => call'[x] = call[x]
      BY <1>1, <3>1, MoveEffect DEF LibInv
    <3>4. QED
      BY <2>2, <3>2, <3>3 DEF waitVars, Idle
  <2>3. QED
    BY <1>3, <2>1, <2>2
<1>5. \A u \in Threads : \A q \in Queues : ~Arriving(u, q)'
  <2>1. ASSUME NEW u \in Threads, NEW q \in Queues, Arriving(u, q)' PROVE FALSE
    <3>1. call'[u].at = "waiting" /\ call'[u].q = q /\ u \notin voided'
          /\ u \notin sem' /\ u \notin timedOut' /\ u \notin deleted' /\ u \notin signalled'
      BY <2>1 DEF Arriving
    <3>2. u # t
      BY <1>4, <3>1
    <3>3. Arriving(u, q)
      BY <1>2, <1>4, <3>1, <3>2 DEF Arriving
    <3>4. QED
      BY <1>2, <3>1, <3>3
  <2>2. QED
    BY <2>1
<1>6. Readers' = {} /\ Writers' = {}
  BY <1>2, <1>5 DEF Readers, Writers
<1>7. WaitersInv'
  BY <1>2 DEF WaitersInv, Holder
<1>8. VoidedInv'
  <2>1. ASSUME NEW u \in voided'
        PROVE  /\ u \in Threads /\ u # t /\ call[u].at = "waiting"
               /\ u \notin sem /\ u \notin timedOut /\ u \notin deleted /\ u \notin signalled
    BY <1>1, <1>2, <2>1 DEF VoidedInv, TypeOK, Arriving
  <2>2. QED
    BY <1>4, <2>1 DEF VoidedInv
<1>9. TypeOK'
  <2>1. writing' \in [Threads -> 0 .. MaxDepth + 1]
    BY <1>2
  <2>2. voided' \subseteq Threads /\ reading' \subseteq Threads
    BY <1>1, <1>2 DEF TypeOK
  <2>3. used' \in BOOLEAN
    BY DEF Delete
  <2>4. QED
    BY <1>1, <1>2, <1>4, <2>1, <2>2, <2>3 DEF TypeOK, LibInv
<1>10. \A u \in Threads : u # t => call'[u].at \notin Inside
  BY <1>2, <1>4, Outside
<1>11. QED
  BY <1>2, <1>4, <1>6, <1>7, <1>8, <1>9, <1>10, DeletedStep

\* The next waiter is picked, or the deletion is over.
LEMMA DeleteNextPreserves ==
    ASSUME IInv, NEW t \in Threads, DeleteNext(t)
    PROVE  IInv'
<1> USE Constants
<1>1. LibInv(Places) /\ TypeOK /\ HoldInv
  BY LibPart
<1>2. /\ call[t].at = "delete" /\ call[t].at \in Inside /\ picked = NoThread
      /\ UNCHANGED <<used, counter, status, depth, reading, writing, voided>>
  BY DEF DeleteNext, Inside, histVars
<1>3. ~used /\ Readers = {} /\ Writers = {}
  BY <1>1, <1>2, InsideAlone DEF HoldInv
<1>4. \/ \E q \in Queues : /\ waitQ[q] # <<>> /\ Pick(q) /\ klock' = t
                           /\ At(t, "delete", NoQueue) /\ owner' = owner
      \/ /\ \A q \in Queues : waitQ[q] = <<>>
         /\ owner' = NoThread /\ klock' = NoThread /\ Return(t)
         /\ UNCHANGED <<waitVars, picked>>
  <2>1. DeletePickOrFinish(t)
    BY DEF DeleteNext
  <2>2. QED
    BY <2>1 DEF DeletePickOrFinish
<1>5. ASSUME NEW q \in Queues, waitQ[q] # <<>>, Pick(q), klock' = t,
             At(t, "delete", NoQueue), owner' = owner
      PROVE  IInv'
  <2>1. Moves(Places, t, [at |-> "delete", q |-> NoQueue, timeout |-> call[t].timeout])
    BY <1>1, <1>5, AtMoves DEF Places, LibInv
  <2>2. "delete" \in Inside
    BY DEF Inside
  <2>3. /\ LibInv(Places)' /\ WaitersInv' /\ VoidedInv' /\ call'[t].at = "delete"
        /\ \A u \in Threads : u # t => call'[u].at \notin Inside
        /\ Readers' = Readers /\ Writers' = Writers
    BY <1>2, <1>5, <2>1, <2>2, PickFrame
  <2>4. TypeOK'
    BY <1>1, <1>2, <1>5, <2>3 DEF TypeOK, LibInv
  <2>5. QED
    BY <1>2, <1>3, <1>5, <2>3, <2>4, DeletedStep
<1>6. CASE /\ \A q \in Queues : waitQ[q] = <<>>
           /\ owner' = NoThread /\ klock' = NoThread /\ Return(t)
           /\ UNCHANGED <<waitVars, picked>>
  <2>1. /\ LibInv(Places)' /\ WaitersInv' /\ VoidedInv'
        /\ \A u \in Threads : call'[u].at \notin Inside
        /\ Readers' = Readers /\ Writers' = Writers
    BY <1>2, <1>6, LeaveFrame
  <2>2. call'[t].at = "idle"
    BY <1>1, <1>6 DEF Return, Idle, LibInv, LibTypeOK
  <2>3. TypeOK'
    BY <1>1, <1>2, <1>6, <2>1 DEF TypeOK, LibInv
  <2>4. \A q \in Queues : waitQ'[q] = <<>>
    BY <1>6 DEF waitVars
  <2>5. QED
    BY <1>2, <1>3, <1>6, <2>1, <2>2, <2>3, <2>4, DeletedStep
<1>7. QED
  BY <1>4, <1>5, <1>6

\* The waiter picked before is told of the deletion.
LEMMA DeleteHighPreserves ==
    ASSUME IInv, NEW t \in Threads, DeleteHigh(t)
    PROVE  IInv'
<1> USE Constants
<1>1. LibInv(Places) /\ TypeOK /\ HoldInv
  BY LibPart
<1>2. /\ call[t].at = "delete" /\ call[t].at \in Inside /\ picked # NoThread /\ WakePicked
      /\ deleted' = deleted \union {picked}
      /\ UNCHANGED <<waitQ, delayed, signalled, klock, call, evtVars, reading, writing, voided>>
  BY DEF DeleteHigh, Inside, histVars
<1>3. ~used /\ Readers = {} /\ Writers = {} /\ klock' = t
  BY <1>1, <1>2, InsideAlone DEF HoldInv
<1>4. Moves(Places, t, call[t]) /\ call[t].at # "again"
  BY <1>2, StayMoves
<1>5. /\ LibInv(Places)' /\ WaitersInv' /\ VoidedInv'
      /\ \A u \in Threads : u # t => call'[u].at \notin Inside
      /\ \A u \in Threads : u # picked =>
            \A r \in Queues : Arriving(u, r)' <=> Arriving(u, r)
      /\ \A u \in Threads : u = picked => \A r \in Queues :
            Arriving(u, r)' <=> u \notin deleted' /\ call[u].q = r
  BY <1>2, <1>3, <1>4, WakeFrame
<1>6. Readers' = {} /\ Writers' = {}
  <2>1. \A u \in Threads : \A r \in Queues : Arriving(u, r)' => Arriving(u, r)
    BY <1>2, <1>5
  <2>2. QED
    BY <1>2, <1>3, <2>1 DEF Readers, Writers
<1>7. TypeOK'
  BY <1>1, <1>2, <1>5 DEF TypeOK, LibInv, evtVars
<1>8. QED
  BY <1>2, <1>3, <1>5, <1>6, <1>7, DeletedStep DEF evtVars

-----------------------------------------------------------------------------
\* The tick or a signal ends a wait: whoever is in hand is not in its reach.
LEMMA WokenPreserves ==
    ASSUME IInv, NEW x \in Threads, Expire(x) \/ Signal(x),
           UNCHANGED <<evtVars, histVars>>
    PROVE  IInv'
<1> USE Constants
<1>1. LibInv(Places) /\ TypeOK /\ KernelInv /\ WaitersInv /\ VoidedInv /\ HoldInv
  BY LibPart
<1>2. /\ LibInv(Places)' /\ x \in sem
      /\ sem' = sem \ {x} /\ timedOut' = timedOut \union {x}
      /\ signalled' \in {signalled, signalled \union {x}}
      /\ UNCHANGED <<deleted, klock, picked, call>>
      /\ \A q \in Queues : waitQ[q] = <<>> => waitQ'[q] = <<>>
  <2>1. CASE Expire(x)
    BY <1>1, <2>1, ExpireEffect
  <2>2. CASE Signal(x)
    BY <1>1, <2>2, SignalEffect
  <2>3. QED
    BY <2>1, <2>2
<1>3. \A u \in Threads : \A q \in Queues : Arriving(u, q)' <=> Arriving(u, q)
  BY <1>2 DEF Arriving, histVars
<1>4. Readers' = Readers /\ Writers' = Writers
  BY <1>3, SetsStay DEF histVars
<1>5. HoldInv'
  BY <1>1, <1>2, <1>3, <1>4, HoldFrame DEF histVars
<1>6. KernelInv'
  BY <1>1, <1>2 DEF KernelInv, evtVars
<1>7. WaitersInv' /\ VoidedInv'
  BY <1>1, <1>2 DEF WaitersInv, VoidedInv, Holder, histVars
<1>8. TypeOK'
  BY <1>1, <1>2 DEF TypeOK, LibInv, evtVars, histVars
<1>9. QED
  BY <1>2, <1>5, <1>6, <1>7, <1>8 DEF IInv, LibInv

\* A step that changes nothing.
LEMMA StutterPreserves == IInv /\ UNCHANGED vars => IInv'
<1> SUFFICES ASSUME IInv, UNCHANGED vars PROVE IInv'
  OBVIOUS
<1>1. UNCHANGED <<waitQ, sem, delayed, timedOut, deleted, signalled, klock, picked, call,
                  used, counter, status, owner, depth, reading, writing, voided>>
  BY DEF vars, libVars, waitVars, evtVars, histVars
<1>2. LibInv(Places) /\ TypeOK /\ KernelInv /\ WaitersInv /\ VoidedInv /\ HoldInv
  BY LibPart
<1>3. QueueInv' /\ FlagInv' /\ LibTypeOK(Places)'
  BY <1>1, <1>2 DEF LibInv, QueueInv, FlagInv, LibTypeOK
<1>4. TypeOK' /\ KernelInv' /\ WaitersInv' /\ VoidedInv'
  BY <1>1, <1>2, <1>3 DEF TypeOK, KernelInv, WaitersInv, VoidedInv, Holder
<1>5. \A u \in Threads : \A q \in Queues : Arriving(u, q)' <=> Arriving(u, q)
  BY <1>1 DEF Arriving
<1>6. Readers' = Readers /\ Writers' = Writers
  BY <1>1, <1>5, SetsStay
<1>7. HoldInv'
  BY <1>1, <1>2, <1>5, <1>6, Constants, HoldFrame DEF evtVars
<1>8. QED
  BY <1>3, <1>4, <1>7 DEF IInv

\* Every step preserves IInv.
LEMMA NextPreserves == IInv /\ [Next]_vars => IInv'
<1> SUFFICES ASSUME IInv, [Next]_vars PROVE IInv'
  OBVIOUS
<1>1. CASE UNCHANGED vars
  BY <1>1, StutterPreserves
<1>2. ASSUME NEW t \in Threads, Create(t) PROVE IInv'
  BY <1>2, CreatePreserves
<1>3. ASSUME NEW t \in Threads, Delete(t) PROVE IInv'
  BY <1>3, DeletePreserves
<1>4. ASSUME NEW t \in Threads, \E q \in Queues, timeout \in Timeouts : Pend(t, q, timeout)
      PROVE  IInv'
  BY <1>4, PendPreserves
<1>5. ASSUME NEW t \in Threads, PostRefused(t) PROVE IInv'
  BY <1>5, RefusedPreserves DEF PostRefused, Caller, histVars
<1>6. ASSUME NEW t \in Threads, PostOne(t) PROVE IInv'
  BY <1>6, PostOnePreserves
<1>7. ASSUME NEW t \in Threads, PostLast(t) PROVE IInv'
  BY <1>7, PostLastPreserves
<1>8. ASSUME NEW t \in Threads, Proceed(t) PROVE IInv'
  BY <1>8, PendPreserves, PendSignalledPreserves, PendReturnPreserves,
     ToWriterPreserves, ToReadersPreserves, ToNobodyPreserves, WriterHighPreserves,
     ReadersHighPreserves, ReadersNextPreserves, DeleteHighPreserves,
     DeleteNextPreserves DEF Proceed
<1>9. ASSUME NEW t \in Threads, Expire(t) \/ Signal(t), UNCHANGED <<evtVars, histVars>>
      PROVE  IInv'
  BY <1>9, WokenPreserves
<1>10. QED
  BY <1>1, <1>2, <1>3, <1>4, <1>5, <1>6, <1>7, <1>8, <1>9 DEF Next

-----------------------------------------------------------------------------
\* The invariant holds in every reachable state, for any number of threads.
THEOREM Invariance == Spec => []IInv
BY InitIInv, NextPreserves, PTL DEF Spec

\* API_SemaphoreRW... keeps its control block well typed: the counter never
\* runs below zero or past the number of threads.
THEOREM TypeCorrect == Spec => []TypeOK
<1>1. IInv => TypeOK
  BY DEF IInv
<1>2. QED
  BY <1>1, Invariance, PTL

\* EVENT_ulCounter, EVENT_iStatus and EVENT_pvTcbOwn agree with what the
\* callers of API_SemaphoreRWPendR and ...PendW were told, or will be.
THEOREM CountersAgree == Spec => []CounterAgrees
<1>1. IInv => CounterAgrees
  <2> SUFFICES ASSUME IInv, used, Quiet PROVE
        /\ counter = Cardinality({t \in Threads : Holder(t) \/ \E q \in Queues : Arriving(t, q)})
        /\ \A t \in Threads : owner = t <=> writing[t] > 0 \/ Arriving(t, "W")
        /\ status = "W" <=> owner # NoThread
    BY DEF CounterAgrees
  <2>1. FreeOrRead \/ Written
    BY Outside DEF Quiet
  <2>2. {t \in Threads : Holder(t) \/ \E q \in Queues : Arriving(t, q)} = Readers \union Writers
    BY Constants DEF Readers, Writers, Holder
  <2>3. CASE FreeOrRead
    <3>1. Readers \union Writers = Readers
      BY <2>3 DEF FreeOrRead
    <3>2. counter = Cardinality(Readers)
      BY <2>3 DEF FreeOrRead
    <3>3. QED
      BY <2>2, <2>3, <3>1, <3>2, Constants DEF FreeOrRead, Writers
  <2>4. CASE Written
    <3>1. Readers \union Writers = {owner} /\ owner \in Threads /\ counter = 1
      BY <2>4 DEF Written
    <3>2. Cardinality({owner}) = 1
      BY FS_Singleton
    <3>3. QED
      BY <2>2, <2>4, <3>1, <3>2, Constants DEF Written, Writers
  <2>5. QED
    BY <2>1, <2>3, <2>4
<1>2. QED
  BY <1>1, Invariance, PTL

-----------------------------------------------------------------------------
(* The semaphore implements ReadersWriters. *)

\* Beside a reader nobody writes, in the middle of a hand-over too.
LEMMA ReaderAlone ==
    ASSUME IInv, Readers # {}
    PROVE  used /\ Writers = {}
<1>1. LibInv(Places) /\ KernelInv /\ HoldInv
  BY LibPart
<1>2. used
  BY <1>1 DEF HoldInv
<1>3. CASE klock = NoThread
  BY <1>2, <1>3, Outside DEF FreeOrRead, Written
<1>4. CASE klock # NoThread
  <2>1. klock \in Threads
    BY <1>1, <1>4 DEF LibInv, LibTypeOK
  <2>2. call[klock].at \in Inside /\ call[klock].at # "delete"
    BY <1>1, <1>2, <2>1 DEF KernelInv
  <2>3. Released \/ Waking
    BY <1>1, <2>1, <2>2 DEF HoldInv, Inside
  <2>4. QED
    BY <1>2, <2>3 DEF Released, Waking
<1>5. QED
  BY <1>3, <1>4

\* Where there are no writers, or no others, nobody (else) writes.
LEMMA NoWriting ==
    ASSUME TypeOK, NEW u \in Threads, u \notin Writers
    PROVE  writing[u] = 0
<1>1. writing[u] \in 0 .. MaxDepth + 1
  BY DEF TypeOK
<1>2. QED
  BY <1>1, Constants DEF Writers

\* A thread that is told that it may read, or write, may.
LEMMA GrantStep ==
    ASSUME IInv, NEW t \in Threads, NEW q \in Queues, Returned(t, q, "NONE"), used, used',
           q = "R" => Writers = {} /\ t \notin reading,
           q = "W" => Readers = {} /\ Writers \subseteq {t}
    PROVE  Abstract!StartRead(t) \/ Abstract!StartWrite(t)
<1>1. TypeOK
  BY LibPart
<1>2. CASE q = "R"
  <2>1. reading' = reading \union {t} /\ writing' = writing
    BY <1>1, <1>2, TakenReturn
  <2>2. \A u \in Threads : writing[u] = 0
    BY <1>1, <1>2, NoWriting
  <2>3. used' = used
    BY <1>1 DEF TypeOK
  <2>4. QED
    BY <1>2, <2>1, <2>2, <2>3 DEF Abstract!StartRead, Abstract!NobodyWrites
<1>3. CASE q = "W"
  <2>1. reading' = reading /\ writing' = [writing EXCEPT ![t] = @ + 1]
    BY <1>3 DEF Returned
  <2>2. \A u \in Threads \ {t} : writing[u] = 0
    BY <1>1, <1>3, NoWriting
  <2>3. reading = {}
    BY <1>1, <1>3 DEF Readers, TypeOK
  <2>4. used' = used
    BY <1>1 DEF TypeOK
  <2>5. QED
    BY <2>1, <2>2, <2>3, <2>4 DEF Abstract!StartWrite
<1>4. QED
  BY <1>2, <1>3, Constants

\* A pend grants the semaphore to its caller, or changes nothing for anybody.
LEMMA PendGrants ==
    ASSUME IInv, NEW t \in Threads, NEW q \in Queues, NEW timeout,
           Enters(t, q), PendEnter(t, q, timeout)
    PROVE  \/ Abstract!StartRead(t) \/ Abstract!StartWrite(t)
           \/ UNCHANGED <<used, reading, writing>>
<1> USE Constants
<1>1. TypeOK /\ klock = NoThread
  BY LibPart DEF Enters
<1>2. CASE PendInvalid(t, q)
  BY <1>1, <1>2, FailedReturn DEF PendInvalid, evtVars
<1>3. CASE q = "R" /\ PendR(t, timeout)
  <2>1. used /\ used' = used
    BY <1>3 DEF PendR
  <2>2. CASE CanRead /\ Returned(t, "R", "NONE")
    <3>1. Writers = {}
      BY <1>1, <2>1, <2>2, Outside DEF CanRead, FreeOrRead, Written
    <3>2. t \notin reading
      BY <1>3 DEF Enters, Holder
    <3>3. QED
      BY <1>3, <2>1, <2>2, <3>1, <3>2, GrantStep
  <2>3. CASE Returned(t, "R", "TIMEOUT")
    BY <1>1, <2>1, <2>3, FailedReturn
  <2>4. QED
    BY <1>3, <2>1, <2>2, <2>3 DEF PendR
<1>4. CASE q = "W" /\ PendW(t, timeout)
  <2>1. used /\ used' = used
    BY <1>4 DEF PendW
  <2>2. CASE (counter = 0 \/ (counter # 0 /\ owner = t)) /\ Returned(t, "W", "NONE")
    <3>1. Readers = {} /\ Writers \subseteq {t}
      <4>1. CASE counter = 0
        <5>1. FreeOrRead /\ Readers \in SUBSET Threads
          BY <1>1, <2>1, <4>1, Outside DEF Written, Readers
        <5>2. QED
          BY <4>1, <5>1, Counting DEF FreeOrRead
      <4>2. CASE counter # 0 /\ owner = t
        BY <1>1, <2>1, <4>2, Outside DEF FreeOrRead, Written
      <4>3. QED
        BY <2>2, <4>1, <4>2
    <3>2. QED
      BY <1>4, <2>1, <2>2, <3>1, GrantStep
  <2>3. CASE Returned(t, "W", "TIMEOUT")
    BY <1>1, <2>1, <2>3, FailedReturn
  <2>4. QED
    BY <1>4, <2>1, <2>2, <2>3 DEF PendW
<1>5. QED
  BY <1>2, <1>3, <1>4 DEF PendEnter

\* So does the end of a wait.
LEMMA ReturnGrants ==
    ASSUME IInv, NEW t \in Threads, PendReturn(t)
    PROVE  \/ Abstract!StartRead(t) \/ Abstract!StartWrite(t)
           \/ UNCHANGED <<used, reading, writing>>
<1> USE Constants
<1> DEFINE r == IF t \in voided THEN "VOID" ELSE WaitResult(t)
<1>1. TypeOK /\ WaitersInv
  BY LibPart
<1>2. /\ call[t].at = "waiting" /\ t \notin sem /\ t \notin signalled
      /\ Returned(t, call[t].q, r) /\ used' = used /\ call[t].q \in Queues
  BY DEF PendReturn, WaitOver, IInv, FlagInv, evtVars
<1>3. CASE r # "NONE"
  <2> HIDE DEF r
  <2>1. QED
    BY <1>1, <1>2, <1>3, FailedReturn
<1>4. CASE r = "NONE"
  <2>1. Arriving(t, call[t].q)
    BY <1>2, <1>4 DEF Arriving, WaitResult
  <2>2. CASE call[t].q = "R"
    <3>1. t \in Readers /\ t \notin reading
      BY <1>1, <1>2, <2>1, <2>2 DEF Readers, WaitersInv, Holder
    <3>2. used /\ Writers = {}
      BY <3>1, ReaderAlone
    <3>3. QED
      BY <1>2, <1>4, <2>2, <3>1, <3>2, GrantStep
  <2>3. CASE call[t].q = "W"
    <3>1. t \in Writers
      BY <2>1, <2>3 DEF Writers
    <3>2. used /\ Written /\ owner = t
      BY <3>1, WriterAlone
    <3>3. Readers = {} /\ Writers \subseteq {t}
      BY <3>2 DEF Written
    <3>4. QED
      BY <1>2, <1>4, <2>3, <3>2, <3>3, GrantStep
  <2>4. QED
    BY <1>2, <2>2, <2>3
<1>5. QED
  BY <1>3, <1>4

\* Every step of the semaphore is a step of ReadersWriters, or none.
LEMMA AbstractStep == IInv /\ [Next]_vars => [Abstract!Next]_(Abstract!vars)
<1> SUFFICES ASSUME IInv, [Next]_vars
             PROVE  Abstract!Next \/ UNCHANGED <<used, reading, writing>>
  BY DEF Abstract!vars
<1>1. ASSUME NEW t \in Threads, Create(t) PROVE Abstract!Create
  BY <1>1 DEF Create, histVars, Abstract!Create
<1>2. ASSUME NEW t \in Threads, Delete(t) PROVE Abstract!Delete
  BY <1>2 DEF Delete, Abstract!Delete
<1>3. ASSUME NEW t \in Threads, NEW q \in Queues, NEW timeout \in Timeouts,
             Pend(t, q, timeout)
      PROVE  \/ Abstract!StartRead(t) \/ Abstract!StartWrite(t)
             \/ UNCHANGED <<used, reading, writing>>
  <2>1. Enters(t, q)
    BY <1>3 DEF Pend, Enters, Caller
  <2>2. QED
    BY <1>3, <2>1, PendGrants DEF Pend
<1>4. ASSUME NEW t \in Threads, PostOne(t) \/ PostLast(t) PROVE Abstract!Stop(t)
  <2>1. Caller(t) /\ used /\ used' = used /\ Holder(t) /\ Given(t)
    BY <1>4 DEF PostOne, PostLast, evtVars
  <2>2. TypeOK
    BY LibPart
  <2>3. /\ FreeOrRead \/ Written
        /\ FreeOrRead => t \in reading /\ reading' = reading \ {t} /\ writing' = writing
        /\ Written => /\ writing[t] = depth + 1 /\ reading' = reading
                      /\ writing' = [writing EXCEPT ![t] = depth]
    BY <2>1, GivenEffect
  <2>4. ASSUME Written PROVE writing[t] > 0 /\ writing[t] - 1 = depth
    BY <2>2, <2>3, <2>4, Constants DEF TypeOK
  <2>5. QED
    BY <2>1, <2>3, <2>4 DEF Abstract!Stop
<1>5. ASSUME NEW t \in Threads, Proceed(t)
      PROVE  \/ Abstract!StartRead(t) \/ Abstract!StartWrite(t)
             \/ UNCHANGED <<used, reading, writing>>
  <2>1. CASE PendAgain(t)
    <3>1. call[t].q \in Queues /\ Enters(t, call[t].q)
      BY <2>1 DEF PendAgain, Enters, IInv, WaitersInv, FlagInv
    <3>2. QED
      BY <2>1, <3>1, PendGrants DEF PendAgain
  <2>2. CASE PendReturn(t)
    BY <2>2, ReturnGrants
  <2>3. CASE ToWriter(t) \/ ToReaders(t) \/ ToNobody(t) \/ WriterHigh(t) \/ ReadersHigh(t)
    BY <2>3 DEF ToWriter, ToReaders, ToNobody, WriterHigh, ReadersHigh, evtVars, histVars
  <2>4. CASE PendSignalled(t) \/ ReadersNext(t) \/ DeleteHigh(t) \/ DeleteNext(t)
    BY <2>4 DEF PendSignalled, ReadersNext, DeleteHigh, DeleteNext, evtVars, histVars
  <2>5. QED
    BY <1>5, <2>1, <2>2, <2>3, <2>4 DEF Proceed
<1>6. ASSUME NEW t \in Threads, PostRefused(t) PROVE UNCHANGED <<used, reading, writing>>
  BY <1>6 DEF PostRefused, evtVars, histVars
<1>7. ASSUME UNCHANGED <<evtVars, histVars>> \/ UNCHANGED vars
      PROVE  UNCHANGED <<used, reading, writing>>
  BY <1>7 DEF vars, evtVars, histVars
<1>8. QED
  BY <1>1, <1>2, <1>3, <1>4, <1>5, <1>6, <1>7 DEF Next, Abstract!Next

\* By the results its callers got from pend and post, nobody reads or writes
\* beside a writer: API_SemaphoreRW... implements ReadersWriters.
THEOREM ReadersOrOneWriter == Spec => ImplementsReadersWriters
<1>1. Init => Abstract!Init
  BY DEF Init, Abstract!Init
<1>2. IInv /\ [Next]_vars => [Abstract!Next]_(Abstract!vars)
  BY AbstractStep
<1>3. QED
  BY <1>1, <1>2, Invariance, PTL DEF Spec, ImplementsReadersWriters, Abstract!Spec

-----------------------------------------------------------------------------
(* With writers preferred nobody waits for a semaphore that is free. *)

\* No post passes writers over.
Passes == \A t \in Threads : call[t].at # "releaseIgnoringWriters"

\* Only a post of a semaphore that prefers readers passes writers over.
LEMMA PassesStep ==
    ASSUME IInv, PreferWriter, Passes, [Next]_vars
    PROVE  Passes'
<1>1. call \in [Threads -> Calls(Places)]
  BY LibPart DEF LibInv, LibTypeOK, Calls
<1>2. ASSUME NEW t \in Threads, call'[t].at # "releaseIgnoringWriters",
             \A u \in Threads : u # t => call'[u] = call[u]
      PROVE  Passes'
  BY <1>2 DEF Passes
<1>3. ASSUME NEW t \in Threads, Return(t) PROVE Passes'
  <2>1. call'[t] = Idle /\ \A u \in Threads : u # t => call'[u] = call[u]
    BY <1>1, <1>3 DEF Return
  <2>2. QED
    BY <1>2, <2>1 DEF Idle
<1>4. ASSUME NEW t \in Threads, NEW p, NEW q, At(t, p, q), p # "releaseIgnoringWriters"
      PROVE  Passes'
  <2>1. /\ call'[t] = [at |-> p, q |-> q, timeout |-> call[t].timeout]
        /\ \A u \in Threads : u # t => call'[u] = call[u]
    BY <1>1, <1>4 DEF At
  <2>2. QED
    BY <1>2, <1>4, <2>1
<1>5. ASSUME NEW t \in Threads, NEW q, NEW timeout, Join(t, q, timeout, Prio) PROVE Passes'
  <2>1. /\ call'[t] = [at |-> "waiting", q |-> q, timeout |-> timeout]
        /\ \A u \in Threads : u # t => call'[u] = call[u]
    BY <1>1, <1>5 DEF Join
  <2>2. QED
    BY <1>2, <2>1
<1>6. ASSUME UNCHANGED call PROVE Passes'
  BY <1>6 DEF Passes
<1>7. ASSUME NEW t \in Threads, NEW q, NEW timeout, PendEnter(t, q, timeout) PROVE Passes'
  BY <1>3, <1>5, <1>7 DEF PendEnter, PendInvalid, PendR, PendW, Returned
<1>8. ASSUME NEW t \in Threads, Proceed(t) PROVE Passes'
  <2>1. CASE PendAgain(t) \/ PendSignalled(t) \/ PendReturn(t)
    BY <1>3, <1>4, <1>7, <2>1 DEF PendAgain, PendSignalled, Signalled, PendReturn, Returned
  <2>2. CASE ToWriter(t) \/ ToReaders(t) \/ ToNobody(t)
    BY <1>3, <1>4, <2>2 DEF ToWriter, ToReaders, ToNobody
  <2>3. CASE WriterHigh(t) \/ ReadersHigh(t) \/ ReadersNext(t)
    BY <1>3, <1>6, <2>3 DEF WriterHigh, ReadersHigh, ReadersNext
  <2>4. CASE DeleteHigh(t) \/ DeleteNext(t)
    BY <1>3, <1>4, <1>6, <2>4 DEF DeleteHigh, DeleteNext, DeletePickOrFinish
  <2>5. QED
    BY <1>8, <2>1, <2>2, <2>3, <2>4 DEF Proceed
<1>9. ASSUME NEW t \in Threads, Create(t) \/ Delete(t) PROVE Passes'
  BY <1>3, <1>4, <1>9 DEF Create, Delete, DeletePickOrFinish
<1>10. ASSUME NEW t \in Threads, PostRefused(t) \/ PostOne(t) \/ PostLast(t) PROVE Passes'
  BY <1>3, <1>4, <1>10 DEF PostRefused, PostOne, PostLast
<1>11. ASSUME NEW t \in Threads, NEW q, NEW timeout, Pend(t, q, timeout) PROVE Passes'
  BY <1>7, <1>11 DEF Pend
<1>12. ASSUME NEW t \in Threads, Expire(t) \/ Signal(t) PROVE Passes'
  BY <1>6, <1>12 DEF Expire, Signal
<1>13. CASE UNCHANGED vars
  BY <1>6, <1>13 DEF vars, libVars
<1>14. QED
  BY <1>8, <1>9, <1>10, <1>11, <1>12, <1>13 DEF Next

\* Nobody starts to wait for a free semaphore.
LEMMA PendFree ==
    ASSUME IInv, NobodyWaitsOnFree, NEW t \in Threads, NEW q \in Queues,
           NEW timeout, Enters(t, q), PendEnter(t, q, timeout)
    PROVE  NobodyWaitsOnFree'
<1> USE Constants
<1>1. TypeOK /\ klock = NoThread
  BY LibPart DEF Enters
<1>2. CASE counter' = counter /\ UNCHANGED <<waitVars, klock, used>>
  BY <1>2 DEF NobodyWaitsOnFree, Quiet, waitVars
<1>3. CASE PendInvalid(t, q)
  BY <1>2, <1>3 DEF PendInvalid, evtVars
<1>4. counter \in Nat
  BY <1>1 DEF TypeOK
<1>5. CASE q = "R" /\ PendR(t, timeout)
  <2>1. CASE CanRead /\ counter' = counter + 1
    BY <1>4, <2>1 DEF NobodyWaitsOnFree
  <2>2. CASE ~CanRead /\ UNCHANGED <<waitVars, counter>>
    BY <1>2, <1>5, <2>2 DEF PendR
  <2>3. CASE ~CanRead /\ UNCHANGED counter
    <3>1. used
      BY <1>5 DEF PendR
    <3>2. FreeOrRead \/ Written
      BY <1>1, <3>1, Outside
    <3>3. counter # 0
      BY <1>1, <2>3, <3>1, <3>2 DEF NobodyWaitsOnFree, Quiet, CanRead, FreeOrRead, Written
    <3>4. QED
      BY <2>3, <3>3 DEF NobodyWaitsOnFree
  <2>4. QED
    BY <1>5, <2>1, <2>2, <2>3 DEF PendR
<1>6. CASE q = "W" /\ PendW(t, timeout)
  <2>1. counter' # 0
    BY <1>4, <1>6 DEF PendW
  <2>2. QED
    BY <2>1 DEF NobodyWaitsOnFree
<1>7. QED
  BY <1>3, <1>5, <1>6 DEF PendEnter

\* A step that passes no writer over preserves NobodyWaitsOnFree.
LEMMA FreeStep ==
    ASSUME IInv, Passes, NobodyWaitsOnFree, [Next]_vars
    PROVE  NobodyWaitsOnFree'
<1> USE Constants
<1>1. LibInv(Places) /\ TypeOK /\ KernelInv /\ HoldInv /\ WaitersInv
  BY LibPart
<1>2. ASSUME counter' = counter, UNCHANGED <<waitQ, klock, used>> PROVE NobodyWaitsOnFree'
  BY <1>2 DEF NobodyWaitsOnFree, Quiet
<1>3. ASSUME NEW t \in Threads, klock' = t PROVE NobodyWaitsOnFree'
  BY <1>3 DEF NobodyWaitsOnFree, Quiet
<1>4. ASSUME counter' # 0 \/ ~used' PROVE NobodyWaitsOnFree'
  BY <1>4 DEF NobodyWaitsOnFree
<1>5. ASSUME \A q \in Queues : waitQ'[q] = <<>> PROVE NobodyWaitsOnFree'
  BY <1>5 DEF NobodyWaitsOnFree
<1>6. ASSUME NEW t \in Threads, Create(t) PROVE NobodyWaitsOnFree'
  BY <1>5, <1>6 DEF Create
<1>7. ASSUME NEW t \in Threads, Delete(t) PROVE NobodyWaitsOnFree'
  BY <1>4, <1>7 DEF Delete
<1>8. ASSUME NEW t \in Threads, NEW q \in Queues, NEW timeout \in Timeouts,
             Pend(t, q, timeout)
      PROVE  NobodyWaitsOnFree'
  BY <1>8, PendFree DEF Pend, Enters, Caller
<1>9. ASSUME NEW t \in Threads, PostRefused(t) PROVE NobodyWaitsOnFree'
  BY <1>2, <1>9 DEF PostRefused, waitVars, evtVars
<1>10. ASSUME NEW t \in Threads, PostOne(t) PROVE NobodyWaitsOnFree'
  <2>1. counter \in Nat /\ klock = NoThread /\ used
    BY <1>1, <1>10 DEF TypeOK, PostOne, Caller
  <2>2. FreeOrRead \/ Written
    BY <2>1, Outside
  <2>3. counter' # 0
    BY <1>10, <2>1, <2>2 DEF PostOne, FreeOrRead, Written
  <2>4. QED
    BY <1>4, <2>3
<1>11. ASSUME NEW t \in Threads, PostLast(t) PROVE NobodyWaitsOnFree'
  BY <1>3, <1>11 DEF PostLast
<1>12. ASSUME NEW t \in Threads, Proceed(t) PROVE NobodyWaitsOnFree'
  <2>1. CASE PendAgain(t)
    <3>1. call[t].q \in Queues /\ Enters(t, call[t].q)
      BY <1>1, <2>1 DEF PendAgain, Enters, LibInv, WaitersInv, FlagInv
    <3>2. QED
      BY <2>1, <3>1, PendFree DEF PendAgain
  <2>2. CASE PendSignalled(t) \/ PendReturn(t)
    BY <1>2, <2>2 DEF PendSignalled, Signalled, PendReturn, waitVars, evtVars
  <2>3. CASE call[t].at \in Inside /\ klock' = klock
    BY <1>3, <2>3, InsideAlone
  <2>4. CASE ToWriter(t) \/ ToReaders(t) \/ ReadersHigh(t) \/ DeleteHigh(t)
    BY <2>3, <2>4 DEF ToWriter, ToReaders, ReadersHigh, DeleteHigh, Inside
  <2>5. CASE ToNobody(t)
    BY <1>5, <2>5 DEF ToNobody, Passes, waitVars
  <2>6. CASE WriterHigh(t)
    BY <1>1, <1>4, <2>6 DEF WriterHigh, HoldInv, Released
  <2>7. CASE ReadersNext(t)
    <3>1. call[t].at \in Inside /\ Waking
      BY <1>1, <2>7 DEF ReadersNext, Inside, HoldInv
    <3>2. counter # 0
      BY <3>1 DEF Waking
    <3>3. QED
      BY <1>4, <2>3, <2>7, <3>1, <3>2 DEF ReadersNext
  <2>8. CASE DeleteNext(t)
    BY <1>1, <1>4, <2>8 DEF DeleteNext, KernelInv, Inside
  <2>9. QED
    BY <1>12, <2>1, <2>2, <2>4, <2>5, <2>6, <2>7, <2>8 DEF Proceed
<1>13. ASSUME NEW t \in Threads, Expire(t) \/ Signal(t), UNCHANGED evtVars
       PROVE  NobodyWaitsOnFree'
  <2>1. /\ klock' = klock
        /\ \A q \in Queues : waitQ[q] = <<>> => waitQ'[q] = <<>>
    BY <1>1, <1>13, ExpireEffect, SignalEffect
  <2>2. QED
    BY <1>13, <2>1 DEF NobodyWaitsOnFree, Quiet, evtVars
<1>14. CASE UNCHANGED vars
  BY <1>2, <1>14 DEF vars, libVars, waitVars, evtVars
<1>15. QED
  BY <1>6, <1>7, <1>8, <1>9, <1>10, <1>11, <1>12, <1>13, <1>14 DEF Next

\* Where API_SemaphoreRWPost prefers writers, nobody waits for a semaphore
\* that nobody holds.  The hypothesis cannot go: a post that prefers readers
\* decides to pass the writers over with interrupts open, and the tick may
\* take the last reader before it looks for one.
THEOREM NobodyIsForgotten == PreferWriter => (Spec => []NobodyWaitsOnFree)
<1> SUFFICES ASSUME PreferWriter PROVE Spec => []NobodyWaitsOnFree
  OBVIOUS
<1>1. Init => Passes /\ NobodyWaitsOnFree
  BY Constants DEF Init, LibInit, Passes, Idle, NobodyWaitsOnFree
<1>2. IInv /\ Passes /\ NobodyWaitsOnFree /\ [Next]_vars => Passes' /\ NobodyWaitsOnFree'
  BY PassesStep, FreeStep
<1>3. QED
  BY <1>1, <1>2, Invariance, PTL DEF Spec
=============================================================================
