---------------------------- MODULE MsgQueueProofs ----------------------------
(***************************************************************************)
(* The safety of the message queue, for any number of threads, messages    *)
(* and urgencies: no message that was given to a waiting receiver is lost, *)
(* nobody waits beside a message, and the counter, the map and the lists   *)
(* agree.  A message may be given at six places, with interrupts open      *)
(* after it is written and before its receiver is woken.                   *)
(*                                                                         *)
(* From this follows that the queue implements the bounded channel of      *)
(* MsgChannel: the eight lists laid end to end are what the channel holds. *)
(***************************************************************************)
EXTENDS MsgQueue, EventLibProofs

Inside == {"give", "take", "wakeSenders", "broadcast", "flushReceive", "delete"}

\* Who is inside the kernel, and whom it has in hand: a post gives a message
\* to a receiver and wakes a sender, never the other way round, and a deletion
\* never has a receiver in hand that was given a message.
KernelInv ==
    /\ \A t \in Threads : klock = t <=> call[t].at \in Inside
    /\ \A t \in Threads : call[t].at \in Inside => (call[t].at = "delete" <=> ~used)
    /\ \A t \in Threads : call[t].at \in {"give", "take"} => picked # NoThread
    /\ \A t \in Threads : call[t].at = "delete" /\ picked # NoThread =>
          buffer[picked] = Nothing
    /\ ~used /\ klock = NoThread => \A q \in Queues : waitQ[q] = <<>>

\* The threads whose calls still need their message.
NeedsMessage(t) ==
    \/ call[t].at \in {"waiting", "again"} /\ call[t].q = "S"
    \/ call[t].at \in {"give", "broadcast"}

SendingInv == \A t \in Threads : NeedsMessage(t) => sending[t] \in Msgs

ArgTypes ==
    /\ used \in BOOLEAN
    /\ sending \in [Threads -> Msgs \union {Nothing}]
    /\ strict \subseteq Threads
    /\ buffer \in [Threads -> Msgs \union Notices \union {Nothing}]

\* What concerns the threads.
CoreInv == LibInv(Places) /\ ArgTypes /\ KernelInv /\ SendingInv /\ NothingLost

\* The lists, the map and the counter; the lists of a queue that was deleted
\* are empty, and its counter is not looked at.
ListInv ==
    /\ counter \in 0 .. MaxMsgs
    /\ map \subseteq Urgencies
    /\ lists \in [Urgencies -> Seq(Msgs)]
    /\ IsFiniteSet(Kept)
    /\ CounterAndMapAgree

IInv == CoreInv /\ ListInv /\ NoWaitBesideMessage

-----------------------------------------------------------------------------
\* What the proofs use of the constants.
LEMMA Constants ==
    /\ NoThread \notin Threads /\ NoQueue \notin Queues
    /\ Queues = {"R", "S"} /\ MaxMsgs \in Nat \ {0} /\ Nothing \notin Msgs
    /\ Prio \in [Threads -> Nat]
    /\ Urgencies \in SUBSET Nat /\ \A m \in Msgs : Urgency[m] \in Urgencies
<1>1. Prio \in [Threads -> 0 .. 255] /\ Urgency \in [Msgs -> 0 .. 7]
  BY PrioAssumption, UrgencyAssumption
<1>2. QED
  BY <1>1, ThreadsAssumption, QueuesAssumption, TwoQueues, MaxMsgsAssumption,
     NothingAssumption DEF Urgencies

-----------------------------------------------------------------------------
(* _MsgQueueLib.c: the lists, the map and the counter. *)

\* The places of the lists.
LEMMA KeptPlaces ==
    ASSUME lists \in [Urgencies -> Seq(Msgs)]
    PROVE  \A x : x \in Kept <=>
              \E u \in Urgencies : \E i \in 1 .. Len(lists[u]) : x = <<u, i>>
<1>1. \A u \in Urgencies : DOMAIN lists[u] = 1 .. Len(lists[u])
  OBVIOUS
<1>2. QED
  BY <1>1 DEF Kept

\* _MsgQueueClear empties them.
LEMMA ClearLists ==
    ASSUME MsgQueueClear, counter' \in 0 .. MaxMsgs, used' => counter' = 0
    PROVE  ListInv'
<1>1. lists' = [u \in Urgencies |-> <<>>] /\ map' = {}
  BY DEF MsgQueueClear
<1>2. \A u \in Urgencies : DOMAIN lists'[u] = {} /\ lists'[u] = <<>>
  BY <1>1
<1>3. Kept' = {}
  BY <1>2 DEF Kept
<1>4. IsFiniteSet({}) /\ Cardinality({}) = 0
  BY FS_EmptySet
<1>5. CounterAndMapAgree'
  BY <1>1, <1>2, <1>3, <1>4 DEF CounterAndMapAgree
<1>6. lists' \in [Urgencies -> Seq(Msgs)]
  BY <1>1, EmptyQueue
<1>7. QED
  BY <1>1, <1>3, <1>4, <1>5, <1>6 DEF ListInv

\* _MsgQueuePut adds one place, and marks its list.
LEMMA PutLists ==
    ASSUME ListInv, used, used', HasRoom, NEW m \in Msgs, MsgQueuePut(m),
           counter' = counter + 1
    PROVE  ListInv'
<1> DEFINE v == Urgency[m]
<1>1. /\ v \in Urgencies /\ Urgencies \in SUBSET Nat /\ MaxMsgs \in Nat
      /\ lists \in [Urgencies -> Seq(Msgs)] /\ map \subseteq Urgencies
      /\ counter = Cardinality(Kept) /\ IsFiniteSet(Kept) /\ counter \in 0 .. MaxMsgs
      /\ map = {u \in Urgencies : lists[u] # <<>>}
  BY Constants DEF ListInv, CounterAndMapAgree
<1>2. lists' = [lists EXCEPT ![v] = Append(lists[v], m)] /\ map' = map \union {v}
  BY DEF MsgQueuePut
<1> HIDE DEF v
<1>3. /\ lists' \in [Urgencies -> Seq(Msgs)]
      /\ Len(lists'[v]) = Len(lists[v]) + 1 /\ lists'[v] # <<>>
      /\ \A u \in Urgencies : u # v => lists'[u] = lists[u]
  BY <1>1, <1>2
<1> DEFINE p == <<v, Len(lists[v]) + 1>>
<1>4. p \notin Kept /\ Kept' = Kept \union {p}
  <2>1. \A x : x \in Kept <=>
            \E u \in Urgencies : \E i \in 1 .. Len(lists[u]) : x = <<u, i>>
    BY <1>1, KeptPlaces
  <2>2. \A x : x \in Kept' <=>
            \E u \in Urgencies : \E i \in 1 .. Len(lists'[u]) : x = <<u, i>>
    <3>1. \A u \in Urgencies : DOMAIN lists'[u] = 1 .. Len(lists'[u])
      BY <1>3
    <3>2. QED
      BY <3>1 DEF Kept
  <2>3. Len(lists[v]) \in Nat
    BY <1>1
  <2>4. p \notin Kept
    BY <2>1, <2>3
  <2>5. ASSUME NEW u \in Urgencies, NEW i
        PROVE  i \in 1 .. Len(lists'[u]) <=> i \in 1 .. Len(lists[u]) \/ <<u, i>> = p
    <3>1. CASE u = v
      BY <1>3, <2>3, <3>1
    <3>2. CASE u # v
      BY <1>3, <3>2
    <3>3. QED
      BY <3>1, <3>2
  <2>6. \A x : x \in Kept' <=> x \in Kept \/ x = p
    <3>1. ASSUME NEW x \in Kept' PROVE x \in Kept \/ x = p
      <4>1. PICK u \in Urgencies, i \in Nat : i \in 1 .. Len(lists'[u]) /\ x = <<u, i>>
        BY <2>2, <3>1
      <4>2. QED
        BY <2>1, <2>5, <4>1
    <3>2. ASSUME NEW x \in Kept PROVE x \in Kept'
      <4>1. PICK u \in Urgencies, i \in Nat : i \in 1 .. Len(lists[u]) /\ x = <<u, i>>
        BY <2>1, <3>2
      <4>2. QED
        BY <2>2, <2>5, <4>1
    <3>3. p \in Kept'
      <4>1. Len(lists[v]) + 1 \in 1 .. Len(lists'[v])
        BY <1>3, <2>3
      <4>2. QED
        BY <1>1, <2>2, <4>1
    <3>4. QED
      BY <3>1, <3>2, <3>3
  <2>7. QED
    BY <2>4, <2>6
<1> HIDE DEF p
<1>5. IsFiniteSet(Kept') /\ Cardinality(Kept') = Cardinality(Kept) + 1
  BY <1>1, <1>4, FS_AddElement
<1>6. map' = {u \in Urgencies : lists'[u] # <<>>}
  BY <1>1, <1>2, <1>3
<1>7. counter' \in 0 .. MaxMsgs
  BY <1>1 DEF HasRoom
<1>8. QED
  BY <1>1, <1>3, <1>5, <1>6, <1>7 DEF ListInv, CounterAndMapAgree

\* Where the counter says that there is a message, the first bit of the map
\* finds a list with one.
LEMMA FirstBitFinds ==
    ASSUME ListInv, used, counter > 0
    PROVE  /\ FirstBit \in map /\ FirstBit \in Urgencies /\ lists[FirstBit] # <<>>
           /\ lists[FirstBit] \in Seq(Msgs) /\ \A j \in map : FirstBit <= j
<1>1. /\ Urgencies \in SUBSET Nat /\ lists \in [Urgencies -> Seq(Msgs)]
      /\ counter = Cardinality(Kept) /\ IsFiniteSet(Kept)
      /\ map = {u \in Urgencies : lists[u] # <<>>}
  BY Constants DEF ListInv, CounterAndMapAgree
<1>2. Kept # {}
  BY <1>1, FS_EmptySet
<1>3. map # {}
  <2>1. PICK u \in Urgencies : DOMAIN lists[u] # {}
    BY <1>2 DEF Kept
  <2>2. lists[u] # <<>>
    BY <2>1
  <2>3. QED
    BY <1>1, <2>2
<1>4. PICK i \in map : \A j \in map : i <= j
  <2>1. map \in SUBSET Nat
    BY <1>1
  <2>2. QED
    BY <1>3, <2>1, LeastMember
<1>5. FirstBit \in map /\ \A j \in map : FirstBit <= j
  BY <1>4 DEF FirstBit
<1>6. QED
  BY <1>1, <1>5

\* What is left of a list.
LEMMA TailLength ==
    ASSUME NEW q \in Seq(Msgs), q # <<>>
    PROVE  /\ Tail(q) \in Seq(Msgs) /\ Len(Tail(q)) = Len(q) - 1
           /\ Tail(q) = <<>> <=> Len(q) = 1
<1>1. Tail(q) \in Seq(Msgs) /\ Len(Tail(q)) = Len(q) - 1 /\ Len(q) \in Nat
  OBVIOUS
<1>2. PICK r \in Seq(Msgs) : r = Tail(q) /\ Len(r) = Len(q) - 1
  BY <1>1
<1>3. r = <<>> <=> Len(r) = 0
  OBVIOUS
<1>4. QED
  BY <1>1, <1>2, <1>3

\* _MsgQueueGet takes one place, and unmarks a list that it empties.
LEMMA GetLists ==
    ASSUME ListInv, used, used', counter > 0, MsgQueueGet, counter' = counter - 1
    PROVE  ListInv'
<1> DEFINE v == FirstBit
<1>1. /\ v \in Urgencies /\ v \in map /\ lists[v] # <<>> /\ lists[v] \in Seq(Msgs)
      /\ lists \in [Urgencies -> Seq(Msgs)] /\ MaxMsgs \in Nat
      /\ counter = Cardinality(Kept) /\ IsFiniteSet(Kept) /\ counter \in 0 .. MaxMsgs
      /\ map = {u \in Urgencies : lists[u] # <<>>}
  BY FirstBitFinds, Constants DEF ListInv, CounterAndMapAgree
<1>2. /\ lists' = [lists EXCEPT ![v] = Tail(lists[v])]
      /\ map' = IF Len(lists[v]) = 1 THEN map \ {v} ELSE map
  BY DEF MsgQueueGet
<1> HIDE DEF v
<1>3. Len(lists[v]) \in Nat /\ Len(lists[v]) > 0
  BY <1>1
<1>4. /\ Tail(lists[v]) \in Seq(Msgs) /\ Len(Tail(lists[v])) = Len(lists[v]) - 1
      /\ Tail(lists[v]) = <<>> <=> Len(lists[v]) = 1
  BY <1>1, TailLength
<1>5. /\ lists' \in [Urgencies -> Seq(Msgs)] /\ lists'[v] = Tail(lists[v])
      /\ \A u \in Urgencies : u # v => lists'[u] = lists[u]
  BY <1>1, <1>2, <1>4
<1> DEFINE p == <<v, Len(lists[v])>>
<1>6. p \in Kept /\ Kept' = Kept \ {p}
  <2>1. \A x : x \in Kept <=>
            \E u \in Urgencies : \E i \in 1 .. Len(lists[u]) : x = <<u, i>>
    BY <1>1, KeptPlaces
  <2>2. \A x : x \in Kept' <=>
            \E u \in Urgencies : \E i \in 1 .. Len(lists'[u]) : x = <<u, i>>
    <3>1. \A u \in Urgencies : DOMAIN lists'[u] = 1 .. Len(lists'[u])
      BY <1>5
    <3>2. QED
      BY <3>1 DEF Kept
  <2>3. p \in Kept
    <3>1. Len(lists[v]) \in 1 .. Len(lists[v])
      BY <1>3
    <3>2. QED
      BY <1>1, <2>1, <3>1
  <2>4. ASSUME NEW u \in Urgencies, NEW i
        PROVE  i \in 1 .. Len(lists'[u]) <=> i \in 1 .. Len(lists[u]) /\ <<u, i>> # p
    <3>1. CASE u = v
      BY <1>3, <1>4, <1>5, <3>1
    <3>2. CASE u # v
      BY <1>5, <3>2
    <3>3. QED
      BY <3>1, <3>2
  <2>5. ASSUME NEW x \in Kept' PROVE x \in Kept /\ x # p
    <3>1. PICK u \in Urgencies, i \in Nat : i \in 1 .. Len(lists'[u]) /\ x = <<u, i>>
      BY <2>2, <2>5
    <3>2. QED
      BY <2>1, <2>4, <3>1
  <2>6. ASSUME NEW x \in Kept, x # p PROVE x \in Kept'
    <3>1. PICK u \in Urgencies, i \in Nat : i \in 1 .. Len(lists[u]) /\ x = <<u, i>>
      BY <2>1, <2>6
    <3>2. QED
      BY <2>2, <2>4, <2>6, <3>1
  <2>7. QED
    BY <2>3, <2>5, <2>6
<1> HIDE DEF p
<1>7. IsFiniteSet(Kept') /\ Cardinality(Kept') = Cardinality(Kept) - 1
  BY <1>1, <1>6, FS_RemoveElement
<1>8. map' = {u \in Urgencies : lists'[u] # <<>>}
  BY <1>1, <1>2, <1>4, <1>5
<1>9. counter' \in 0 .. MaxMsgs
  BY <1>1
<1>10. QED
  BY <1>1, <1>5, <1>7, <1>8, <1>9 DEF ListInv, CounterAndMapAgree

\* Whoever does not touch the lists keeps them.
LEMMA KeepLists ==
    ASSUME ListInv, UNCHANGED evtVars
    PROVE  ListInv'
<1>1. UNCHANGED <<used, counter, map, lists>>
  BY DEF evtVars
<1>2. Kept' = Kept
  BY <1>1 DEF Kept
<1>3. QED
  BY <1>1, <1>2 DEF ListInv, CounterAndMapAgree

-----------------------------------------------------------------------------
(* The threads, step by step of the event library. *)

\* The initial state satisfies the invariant.
LEMMA InitIInv == Init => IInv
<1> SUFFICES ASSUME Init PROVE IInv
  OBVIOUS
<1> USE Constants
<1>1. LibInv(Places)
  BY LibInitInv DEF Init, Places
<1>2. \A t \in Threads : call[t].at = "idle"
  BY DEF Init, LibInit, Idle
<1>3. ArgTypes
  BY DEF Init, ArgTypes
<1>4. KernelInv
  BY <1>2 DEF Init, LibInit, KernelInv, Inside
<1>5. SendingInv /\ NothingLost
  BY <1>2 DEF Init, SendingInv, NeedsMessage, NothingLost
<1>6. ListInv
  <2>1. \A u \in Urgencies : DOMAIN lists[u] = {} /\ lists[u] = <<>>
    BY DEF Init
  <2>2. Kept = {} /\ IsFiniteSet({})
    BY <2>1, FS_EmptySet DEF Kept
  <2>3. lists \in [Urgencies -> Seq(Msgs)]
    BY EmptyQueue DEF Init
  <2>4. QED
    BY <2>2, <2>3 DEF Init, ListInv, CounterAndMapAgree
<1>7. NoWaitBesideMessage
  BY DEF Init, NoWaitBesideMessage
<1>8. QED
  BY <1>1, <1>3, <1>4, <1>5, <1>6, <1>7 DEF IInv, CoreInv

\* Outside of the kernel nobody has anybody in hand.
LEMMA Outside ==
    ASSUME CoreInv, klock = NoThread
    PROVE  /\ picked = NoThread
           /\ \A u \in Threads : call[u].at \notin Inside
           /\ ~used => \A q \in Queues : waitQ[q] = <<>>
BY Constants DEF CoreInv, LibInv, FlagInv, KernelInv

\* One thread is inside.
LEMMA InsideAlone ==
    ASSUME CoreInv, NEW t \in Threads, call[t].at \in Inside
    PROVE  /\ klock = t /\ t \notin sem /\ t \notin signalled
           /\ \A u \in Threads : u # t => call[u].at \notin Inside
           /\ used <=> call[t].at # "delete"
<1>1. klock = t
  BY DEF CoreInv, KernelInv
<1>2. call[t].at # "waiting"
  BY DEF Inside
<1>3. QED
  BY <1>1, <1>2, Constants DEF CoreInv, KernelInv, LibInv, FlagInv, ArgTypes

\* Who waits, and is in nobody's hands, was given nothing; nor was one that
\* does not wait.
LEMMA WaitersHaveNothing ==
    ASSUME CoreInv
    PROVE  /\ \A u \in Threads : u \in sem /\ u # picked => buffer[u] = Nothing
           /\ \A u \in Threads : call[u].at # "waiting" => buffer[u] = Nothing
           /\ \A u \in Threads : call[u].q # "R" => buffer[u] = Nothing
BY DEF CoreInv, NothingLost

\* What a step leaves of the arguments of the calls other than t's.
OthersKeep(t) ==
    /\ sending' \in [Threads -> Msgs \union {Nothing}]
    /\ \A u \in Threads : u # t => sending'[u] = sending[u]
    /\ strict' \subseteq Threads

\* A thread outside of the kernel ends its call, or starts it again.
LEMMA AsideStep ==
    ASSUME CoreInv, NEW t \in Threads, NEW c, Moves(Places, t, c),
           call[t].at \in {"idle", "again", "waiting"}, t \notin sem,
           c.at \in {"idle", "again"},
           signalled' \subseteq signalled, t \notin signalled',
           \A u \in Threads : u # t => (u \in signalled' <=> u \in signalled),
           UNCHANGED <<waitQ, sem, delayed, timedOut, deleted, klock, picked>>,
           OthersKeep(t), c.at = "again" /\ c.q = "S" => sending'[t] \in Msgs,
           buffer' \in [Threads -> Msgs \union Notices \union {Nothing}],
           \A u \in Threads : u # t => buffer'[u] = buffer[u],
           buffer'[t] = Nothing,
           used' \in BOOLEAN, used' = used \/ (klock = NoThread /\ used')
    PROVE  CoreInv'
<1> USE Constants
<1>1. LibInv(Places) /\ ArgTypes /\ KernelInv /\ SendingInv /\ NothingLost
  BY DEF CoreInv
<1>2. /\ call'[t] = c
      /\ \A x \in Threads : x # t => call'[x] = call[x]
  BY <1>1, MoveEffect DEF LibInv
<1>3. LibInv(Places)'
  BY <1>1, MoveKeeps DEF LibInv, LibTypeOK, FlagInv
<1>4. ArgTypes'
  BY DEF ArgTypes, OthersKeep
<1>5. \A u \in Threads : /\ call'[u].at \in Inside <=> call[u].at \in Inside
                         /\ call[u].at \in Inside => call'[u] = call[u]
  BY <1>2 DEF Inside
<1>6. picked # NoThread => picked # t /\ picked \in Threads
  BY <1>1 DEF LibInv, FlagInv, LibTypeOK
<1>7. KernelInv'
  <2>1. \A u \in Threads : call'[u].at \in Inside => (call'[u].at = "delete" <=> ~used')
    <3>1. CASE used' = used
      BY <1>1, <1>5, <3>1 DEF KernelInv
    <3>2. CASE klock = NoThread
      BY <1>5, <3>2, Outside
    <3>3. QED
      BY <3>1, <3>2
  <2>2. ~used' /\ klock = NoThread => \A q \in Queues : waitQ[q] = <<>>
    BY <1>1 DEF KernelInv
  <2>3. \A u \in Threads : call'[u].at \in {"give", "take"} => picked # NoThread
    BY <1>1, <1>5 DEF KernelInv, Inside
  <2>4. \A u \in Threads : call'[u].at = "delete" /\ picked # NoThread => buffer'[picked] = Nothing
    BY <1>1, <1>5, <1>6 DEF KernelInv, Inside
  <2>5. QED
    BY <1>1, <1>5, <2>1, <2>2, <2>3, <2>4 DEF KernelInv
<1>8. SendingInv'
  BY <1>1, <1>2 DEF SendingInv, NeedsMessage, OthersKeep
<1>9. NothingLost'
  BY <1>1, <1>2 DEF NothingLost
<1>10. QED
  BY <1>3, <1>4, <1>7, <1>8, <1>9 DEF CoreInv

\* A thread that has to wait joins a queue.
LEMMA JoinStep ==
    ASSUME CoreInv, NEW t \in Threads, NEW q \in Queues, NEW timeout \in Timeouts,
           call[t].at \in {"idle", "again"}, klock = NoThread, used,
           Join(t, q, timeout, Prio),
           UNCHANGED <<klock, picked, used, buffer>>,
           OthersKeep(t), q = "S" => sending'[t] \in Msgs
    PROVE  CoreInv' /\ \A r \in Queues : r # q => waitQ'[r] = waitQ[r]
<1>1. LibInv(Places) /\ ArgTypes /\ KernelInv /\ SendingInv /\ NothingLost
  BY DEF CoreInv
<1>2. /\ LibInv(Places)' /\ t \notin sem
      /\ call'[t] = [at |-> "waiting", q |-> q, timeout |-> timeout]
      /\ \A x \in Threads : x # t => call'[x] = call[x]
      /\ \A r \in Queues : r # q => waitQ'[r] = waitQ[r]
  <2>1. "waiting" \in Places /\ call[t].at # "waiting" /\ Prio \in [Threads -> Nat]
    BY Constants DEF Places
  <2>2. QED
    BY <1>1, <2>1, JoinEffect
<1> USE Constants
<1>3. /\ sem' = sem \union {t} /\ timedOut' = timedOut \ {t}
      /\ deleted' = deleted \ {t} /\ signalled' = signalled
      /\ delayed' \in {delayed, delayed \union {t}}
  BY DEF Join
<1>4. ArgTypes'
  BY <1>1 DEF ArgTypes, OthersKeep
<1>5. KernelInv'
  <2>1. \A u \in Threads : call'[u].at \notin Inside
    BY <1>2, Outside DEF Inside
  <2>2. QED
    BY <2>1 DEF KernelInv, Inside
<1>6. SendingInv'
  BY <1>1, <1>2 DEF SendingInv, NeedsMessage, OthersKeep
<1>7. NothingLost'
  <2>1. buffer[t] = Nothing
    BY WaitersHaveNothing
  <2>2. QED
    BY <1>1, <1>2, <1>3, <2>1 DEF NothingLost
<1>8. QED
  BY <1>2, <1>4, <1>5, <1>6, <1>7 DEF CoreInv

\* A waiter is taken from its queue, with a message or without.
LEMMA PickStep ==
    ASSUME CoreInv, NEW t \in Threads, NEW q \in Queues, waitQ[q] # <<>>,
           \/ klock = NoThread /\ call[t].at \in {"idle", "again"}
           \/ call[t].at \in Inside /\ picked = NoThread /\ used' = used,
           Pick(q), klock' = t, NEW c, Moves(Places, t, c), c.at \in Inside,
           used' \in BOOLEAN, c.at = "delete" <=> ~used',
           OthersKeep(t), c.at \in {"give", "broadcast"} => sending'[t] \in Msgs,
           buffer' \in [Threads -> Msgs \union Notices \union {Nothing}],
           \A u \in Threads : u # picked' => buffer'[u] = buffer[u],
           q = "S" \/ c.at = "delete" => buffer' = buffer
    PROVE  /\ CoreInv'
           /\ \A r \in Queues : waitQ[r] = <<>> => waitQ'[r] = <<>>
<1> USE Constants
<1>1. LibInv(Places) /\ ArgTypes /\ KernelInv /\ SendingInv /\ NothingLost
  BY DEF CoreInv
<1>2. /\ picked = NoThread /\ call[t].at # "waiting"
      /\ \A u \in Threads : u # t => call[u].at \notin Inside
  BY Outside, InsideAlone DEF Inside
<1>3. klock' \in Threads
  OBVIOUS
<1>4. /\ LibInv(Places)' /\ picked' \in sem /\ picked' \in Threads /\ picked' # t
      /\ call[picked'].q = q /\ call'[picked'] = call[picked']
  BY <1>1, <1>2, <1>3, PickEffect
<1>5. call'[t] = c /\ \A x \in Threads : x # t => call'[x] = call[x]
  BY <1>1, MoveEffect DEF LibInv
<1>6. /\ UNCHANGED <<sem, timedOut, deleted, signalled>> /\ delayed' \subseteq delayed
      /\ waitQ' = [waitQ EXCEPT ![q] = Tail(waitQ[q])]
  BY DEF Pick
<1>7. ArgTypes'
  BY DEF ArgTypes, OthersKeep
<1>8. buffer[picked'] = Nothing /\ call[picked'].at = "waiting"
  BY <1>1, <1>2, <1>4, WaitersHaveNothing DEF LibInv, FlagInv
<1>9. KernelInv'
  <2>1. picked' # NoThread
    BY <1>4
  <2>2. \A u \in Threads : call'[u].at \in Inside <=> u = t
    BY <1>2, <1>5
  <2>3. \A u \in Threads : klock' = u <=> call'[u].at \in Inside
    BY <2>2
  <2>4. \A u \in Threads : call'[u].at \in Inside => (call'[u].at = "delete" <=> ~used')
    BY <1>5, <2>2
  <2>5. \A u \in Threads : call'[u].at = "delete" => buffer'[picked'] = Nothing
    BY <1>5, <1>8, <2>2 DEF Inside
  <2>6. klock' # NoThread
    OBVIOUS
  <2>7. QED
    BY <2>1, <2>3, <2>4, <2>5, <2>6 DEF KernelInv
<1>10. SendingInv'
  BY <1>1, <1>5 DEF SendingInv, NeedsMessage, OthersKeep, Inside
<1>11. NothingLost'
  <2>1. ASSUME NEW u \in Threads, buffer'[u] # Nothing, u # picked'
        PROVE  /\ call'[u].at = "waiting" /\ call'[u].q = "R"
               /\ u \notin sem' \union delayed' \union timedOut' \union deleted' \union signalled'
    <3>1. buffer[u] # Nothing /\ u # picked
      BY <1>2, <2>1
    <3>2. u # t
      BY <1>2, <3>1, WaitersHaveNothing
    <3>3. QED
      BY <1>1, <1>5, <1>6, <3>1, <3>2 DEF NothingLost
  <2>2. ASSUME NEW u \in Threads, buffer'[u] # Nothing, u = picked'
        PROVE  call'[u].at = "waiting" /\ call'[u].q = "R"
    BY <1>4, <1>8, <2>2
  <2>3. QED
    BY <2>1, <2>2 DEF NothingLost
<1>12. \A r \in Queues : waitQ[r] = <<>> => waitQ'[r] = <<>>
  BY <1>1, <1>6 DEF LibInv, LibTypeOK
<1>13. QED
  BY <1>4, <1>7, <1>9, <1>10, <1>11, <1>12 DEF CoreInv

\* The waiter picked before is woken.
LEMMA WakeStep ==
    ASSUME CoreInv, NEW t \in Threads, call[t].at \in Inside, picked # NoThread,
           WakePicked, klock' \in {t, NoThread},
           \/ deleted' = deleted
           \/ deleted' = deleted \union {picked} /\ call[t].at = "delete",
           NEW c, Moves(Places, t, c),
           \/ klock' = t /\ c.at = call[t].at /\ c.at \notin {"give", "take"}
           \/ klock' = NoThread /\ c.at \in {"idle", "again"} /\ used,
           UNCHANGED <<waitQ, delayed, signalled, used, strict, buffer>>,
           OthersKeep(t),
           (c.at = "again" /\ c.q = "S") \/ c.at = "broadcast" => sending'[t] \in Msgs
    PROVE  CoreInv'
<1> USE Constants
<1>1. LibInv(Places) /\ ArgTypes /\ KernelInv /\ SendingInv /\ NothingLost
  BY DEF CoreInv
<1>2. /\ call[t].at # "waiting" /\ klock' \in Threads \union {NoThread}
      /\ \A u \in Threads : u # t => call[u].at \notin Inside
  BY InsideAlone DEF Inside
<1>3. deleted' \in {deleted, deleted \union {picked}}
  OBVIOUS
<1>4. /\ LibInv(Places)'
      /\ picked \in sem /\ picked \in Threads /\ picked # t
      /\ picked \notin timedOut /\ picked \notin deleted /\ picked \notin signalled
      /\ picked' = NoThread /\ sem' = sem \ {picked} /\ timedOut' = timedOut
  BY <1>1, <1>2, <1>3, WakeEffect
<1>5. call'[t] = c /\ c.at # "waiting" /\ \A x \in Threads : x # t => call'[x] = call[x]
  BY <1>1, MoveEffect DEF LibInv
<1>6. ArgTypes'
  BY <1>1 DEF ArgTypes, OthersKeep
<1>7. KernelInv'
  <2>1. \A u \in Threads : u # t => call'[u].at \notin Inside
    BY <1>2, <1>5
  <2>2. CASE klock' = t /\ c.at = call[t].at /\ c.at \notin {"give", "take"}
    BY <1>1, <1>4, <1>5, <2>1, <2>2 DEF KernelInv, Inside
  <2>3. CASE klock' = NoThread /\ c.at \in {"idle", "again"} /\ used
    <3>1. \A u \in Threads : call'[u].at \notin Inside
      BY <1>5, <2>1, <2>3 DEF Inside
    <3>2. QED
      BY <2>3, <3>1 DEF KernelInv, Inside
  <2>4. QED
    BY <1>2, <2>2, <2>3
<1>8. SendingInv'
  <2>1. ASSUME NEW u \in Threads, NeedsMessage(u)', u # t PROVE sending'[u] \in Msgs
    BY <1>1, <1>5, <2>1 DEF SendingInv, NeedsMessage, OthersKeep
  <2>2. ASSUME NeedsMessage(t)' PROVE sending'[t] \in Msgs
    BY <1>1, <1>5, <2>2 DEF SendingInv, NeedsMessage, OthersKeep
  <2>3. QED
    BY <2>1, <2>2 DEF SendingInv
<1>9. NothingLost'
  <2>1. ASSUME NEW u \in Threads, buffer[u] # Nothing, u # picked
        PROVE  /\ call'[u].at = "waiting" /\ call'[u].q = "R"
               /\ u \notin sem' \union delayed' \union timedOut' \union deleted' \union signalled'
    <3>1. u # t
      BY <1>2, <2>1, WaitersHaveNothing
    <3>2. QED
      BY <1>1, <1>3, <1>4, <1>5, <2>1, <3>1 DEF NothingLost
  <2>2. ASSUME NEW u \in Threads, buffer[u] # Nothing, u = picked
        PROVE  /\ call'[u].at = "waiting" /\ call'[u].q = "R"
               /\ u \notin sem' \union delayed' \union timedOut' \union deleted' \union signalled'
    <3>1. deleted' = deleted
      BY <1>1, <2>2 DEF KernelInv
    <3>2. u \notin delayed
      BY <1>1, <2>2 DEF LibInv, FlagInv
    <3>3. QED
      BY <1>1, <1>4, <1>5, <2>2, <3>1, <3>2 DEF NothingLost
  <2>3. QED
    BY <2>1, <2>2 DEF NothingLost
<1>10. QED
  BY <1>4, <1>6, <1>7, <1>8, <1>9 DEF CoreInv

\* The thread inside leaves.
LEMMA LeaveStep ==
    ASSUME CoreInv, NEW t \in Threads, call[t].at \in Inside, picked = NoThread,
           Return(t), klock' = NoThread,
           UNCHANGED <<waitVars, picked, used, strict, buffer>>, OthersKeep(t),
           ~used => \A q \in Queues : waitQ[q] = <<>>
    PROVE  CoreInv'
<1> USE Constants
<1>1. LibInv(Places) /\ ArgTypes /\ KernelInv /\ SendingInv /\ NothingLost
  BY DEF CoreInv
<1>2. Moves(Places, t, Idle)
  BY ReturnMoves DEF Places
<1>3. t \notin sem /\ t \notin signalled /\ signalled' \subseteq signalled
  BY InsideAlone DEF waitVars
<1>4. LibInv(Places)'
  BY <1>1, <1>2, <1>3, MoveKeeps DEF waitVars
<1>5. call'[t] = Idle /\ \A x \in Threads : x # t => call'[x] = call[x]
  BY <1>1, <1>2, MoveEffect DEF LibInv
<1>6. \A u \in Threads : call'[u].at \notin Inside
  BY <1>5, InsideAlone DEF Idle, Inside
<1>7. KernelInv'
  BY <1>6 DEF KernelInv, Inside, waitVars
<1>8. ArgTypes'
  BY <1>1 DEF ArgTypes, OthersKeep
<1>9. SendingInv'
  BY <1>1, <1>5 DEF SendingInv, NeedsMessage, OthersKeep, Idle
<1>10. NothingLost'
  <2>1. buffer[t] = Nothing
    BY WaitersHaveNothing DEF Inside
  <2>2. QED
    BY <1>1, <1>5, <2>1 DEF NothingLost, waitVars
<1>11. QED
  BY <1>4, <1>7, <1>8, <1>9, <1>10 DEF CoreInv

\* An interrupt wakes a waiter at once.
LEMMA IsrStep ==
    ASSUME CoreInv, NEW q \in Queues, waitQ[q] # <<>>, WakeFirst(q),
           UNCHANGED <<deleted, signalled, klock, picked, call, used, sending, strict>>,
           buffer' \in [Threads -> Msgs \union Notices \union {Nothing}],
           \A u \in Threads : u # Head(waitQ[q]) => buffer'[u] = buffer[u],
           q = "S" => buffer' = buffer
    PROVE  /\ CoreInv'
           /\ \A r \in Queues : waitQ[r] = <<>> => waitQ'[r] = <<>>
<1> USE Constants
<1>1. LibInv(Places) /\ ArgTypes /\ KernelInv /\ SendingInv /\ NothingLost
  BY DEF CoreInv
<1>2. PICK h : h = Head(waitQ[q])
  OBVIOUS
<1>3. /\ LibInv(Places)' /\ h \in sem /\ h \in Threads /\ h # picked
      /\ call[h].at = "waiting" /\ call[h].q = q
      /\ h \notin timedOut /\ h \notin deleted /\ h \notin signalled
      /\ waitQ' = [waitQ EXCEPT ![q] = Tail(waitQ[q])]
      /\ sem' = sem \ {h} /\ timedOut' = timedOut /\ delayed' = delayed \ {h}
  BY <1>1, <1>2, WakeFirstEffect
<1>4. buffer[h] = Nothing /\ \A u \in Threads : u # h => buffer'[u] = buffer[u]
  BY <1>2, <1>3, WaitersHaveNothing
<1>5. ArgTypes'
  BY <1>1 DEF ArgTypes
<1>6. \A r \in Queues : waitQ[r] = <<>> => waitQ'[r] = <<>>
  BY <1>1, <1>3 DEF LibInv, LibTypeOK
<1>7. KernelInv'
  <2>1. picked # NoThread => picked \in Threads /\ buffer'[picked] = buffer[picked]
    BY <1>1, <1>3, <1>4 DEF LibInv, LibTypeOK
  <2>2. QED
    BY <1>1, <1>6, <2>1 DEF KernelInv
<1>8. SendingInv'
  BY <1>1 DEF SendingInv, NeedsMessage
<1>9. NothingLost'
  <2>1. ASSUME NEW u \in Threads, buffer'[u] # Nothing, u # h
        PROVE  /\ call'[u].at = "waiting" /\ call'[u].q = "R"
               /\ u = picked' \/ u \notin sem' \union delayed' \union timedOut'
                                        \union deleted' \union signalled'
    BY <1>1, <1>3, <1>4, <2>1 DEF NothingLost
  <2>2. ASSUME buffer'[h] # Nothing
        PROVE  /\ call'[h].at = "waiting" /\ call'[h].q = "R"
               /\ h \notin sem' \union delayed' \union timedOut'
                          \union deleted' \union signalled'
    BY <1>3, <1>4, <2>2
  <2>3. QED
    BY <2>1, <2>2 DEF NothingLost
<1>10. QED
  BY <1>3, <1>5, <1>6, <1>7, <1>8, <1>9 DEF CoreInv

\* The tick or a signal ends a wait.
LEMMA WokenStep ==
    ASSUME CoreInv, NEW x \in Threads, Expire(x) \/ Signal(x), UNCHANGED <<used, argVars>>
    PROVE  /\ CoreInv'
           /\ \A r \in Queues : waitQ[r] = <<>> => waitQ'[r] = <<>>
<1> USE Constants
<1>1. LibInv(Places) /\ ArgTypes /\ KernelInv /\ SendingInv /\ NothingLost
  BY DEF CoreInv
<1>2. /\ LibInv(Places)' /\ x \in sem /\ x # picked
      /\ sem' = sem \ {x} /\ timedOut' = timedOut \union {x}
      /\ signalled' \in {signalled, signalled \union {x}} /\ delayed' = delayed \ {x}
      /\ UNCHANGED <<deleted, klock, picked, call>>
      /\ \A r \in Queues : waitQ[r] = <<>> => waitQ'[r] = <<>>
  <2>1. CASE Expire(x)
    BY <1>1, <2>1, ExpireEffect DEF Expire, Unpend
  <2>2. CASE Signal(x)
    BY <1>1, <2>2, SignalEffect DEF Signal, Unpend
  <2>3. QED
    BY <2>1, <2>2
<1>3. UNCHANGED <<sending, strict, buffer>>
  BY DEF argVars
<1>4. ArgTypes' /\ KernelInv' /\ SendingInv'
  BY <1>1, <1>2, <1>3 DEF ArgTypes, KernelInv, SendingInv, NeedsMessage
<1>5. NothingLost'
  <2>1. buffer[x] = Nothing
    BY <1>2, WaitersHaveNothing
  <2>2. QED
    BY <1>1, <1>2, <1>3, <2>1 DEF NothingLost
<1>6. QED
  BY <1>2, <1>4, <1>5 DEF CoreInv

\* A step that leaves the threads alone.
LEMMA ThreadsStay ==
    ASSUME CoreInv, UNCHANGED <<waitVars, klock, picked, call, used, argVars>>
    PROVE  CoreInv'
<1>1. UNCHANGED <<waitQ, sem, delayed, timedOut, deleted, signalled, sending, strict, buffer>>
  BY DEF waitVars, argVars
<1>2. LibInv(Places)'
  BY <1>1 DEF CoreInv, LibInv, QueueInv, FlagInv, LibTypeOK
<1>3. ArgTypes' /\ KernelInv' /\ SendingInv' /\ NothingLost'
  BY <1>1 DEF CoreInv, ArgTypes, KernelInv, SendingInv, NeedsMessage, NothingLost
<1>4. QED
  BY <1>2, <1>3 DEF CoreInv

-----------------------------------------------------------------------------
(* Every action preserves the invariant. *)

\* The message of a call is noted, or forgotten.
LEMMA SendingSet ==
    ASSUME ArgTypes, NEW t \in Threads, NEW m \in Msgs \union {Nothing},
           sending' = [sending EXCEPT ![t] = m], strict' = strict
    PROVE  OthersKeep(t) /\ sending'[t] = m
BY DEF ArgTypes, OthersKeep

\* The arguments of the other calls stay.
LEMMA SendingStays ==
    ASSUME ArgTypes, NEW t \in Threads, UNCHANGED sending, strict' \subseteq Threads
    PROVE  OthersKeep(t)
BY DEF ArgTypes, OthersKeep

\* A call that does not wait ends.
LEMMA ReturnStep ==
    ASSUME CoreInv, NEW t \in Threads, call[t].at \in {"idle", "again"}, Return(t),
           UNCHANGED <<waitVars, klock, picked, used, buffer>>, OthersKeep(t)
    PROVE  CoreInv'
<1>1. LibInv(Places) /\ ArgTypes
  BY DEF CoreInv
<1>2. Moves(Places, t, Idle)
  BY ReturnMoves DEF Places
<1>3. t \notin sem /\ t \notin signalled
  BY <1>1 DEF LibInv, FlagInv
<1>4. buffer'[t] = Nothing
  BY WaitersHaveNothing
<1>5. UNCHANGED <<waitQ, sem, delayed, timedOut, deleted, signalled>>
  BY DEF waitVars
<1>6. buffer' \in [Threads -> Msgs \union Notices \union {Nothing}] /\ used' \in BOOLEAN
  BY <1>1 DEF ArgTypes
<1>7. QED
  BY <1>2, <1>3, <1>4, <1>5, <1>6, AsideStep DEF Idle

\* Who finds that nothing is changed but the threads.
LEMMA WaitStays ==
    ASSUME NoWaitBesideMessage, UNCHANGED <<used, counter>>,
           waitQ["R"] = <<>> => waitQ'["R"] = <<>>
    PROVE  NoWaitBesideMessage'
BY DEF NoWaitBesideMessage

\* API_MsgQueueCreate takes a block on whose queues nobody is left.
LEMMA CreatePreserves ==
    ASSUME IInv, NEW t \in Threads, Create(t)
    PROVE  IInv'
<1> USE Constants
<1>1. CoreInv /\ LibInv(Places) /\ ArgTypes
  BY DEF IInv, CoreInv
<1>2. /\ call[t].at = "idle" /\ klock = NoThread /\ ~used /\ used' = TRUE /\ counter' = 0
      /\ MsgQueueClear /\ Return(t) /\ waitQ' = [q \in Queues |-> <<>>]
      /\ UNCHANGED <<sem, delayed, timedOut, deleted, signalled, klock, picked,
                     sending, strict, buffer>>
  BY DEF Create, Caller, argVars
<1>3. waitQ' = waitQ
  <2>1. waitQ \in [Queues -> Seq(Threads)] /\ \A q \in Queues : waitQ[q] = <<>>
    BY <1>1, <1>2, Outside DEF LibInv, LibTypeOK
  <2>2. QED
    BY <1>2, <2>1
<1>4. Moves(Places, t, Idle)
  BY <1>2, ReturnMoves DEF Places
<1>5. t \notin sem /\ t \notin signalled /\ buffer'[t] = Nothing
  BY <1>1, <1>2, WaitersHaveNothing DEF LibInv, FlagInv
<1>6. OthersKeep(t) /\ buffer' \in [Threads -> Msgs \union Notices \union {Nothing}]
  BY <1>1, <1>2 DEF OthersKeep, ArgTypes
<1>7. CoreInv'
  BY <1>1, <1>2, <1>3, <1>4, <1>5, <1>6, AsideStep DEF Idle
<1>8. ListInv'
  BY <1>2, ClearLists
<1>9. NoWaitBesideMessage'
  BY <1>2 DEF NoWaitBesideMessage
<1>10. QED
  BY <1>7, <1>8, <1>9 DEF IInv

\* API_MsgQueueSend2, to __KERNEL_EXIT.
LEMMA SendPreserves ==
    ASSUME IInv, NEW t \in Threads, NEW m \in Msgs, NEW timeout \in Timeouts,
           call[t].at \in {"idle", "again"}, klock = NoThread, SendEnter(t, m, timeout)
    PROVE  IInv'
<1> USE Constants
<1>1. CoreInv /\ ListInv /\ NoWaitBesideMessage /\ LibInv(Places) /\ ArgTypes
  BY DEF IInv, CoreInv
<1>2. CASE SendInvalid(t)
  <2>1. /\ Return(t) /\ sending' = [sending EXCEPT ![t] = Nothing]
        /\ UNCHANGED <<waitVars, klock, picked, evtVars, strict, buffer>>
    BY <1>2 DEF SendInvalid
  <2>2. OthersKeep(t)
    BY <1>1, <2>1, SendingSet
  <2>3. CoreInv'
    BY <1>1, <2>1, <2>2, ReturnStep DEF evtVars
  <2>4. QED
    BY <1>1, <2>1, <2>3, KeepLists, WaitStays DEF IInv, evtVars, waitVars
<1>3. CASE SendGive(t, m, timeout)
  <2>1. /\ used /\ waitQ["R"] # <<>> /\ Pick("R") /\ klock' = t
        /\ buffer' = [buffer EXCEPT ![Head(waitQ["R"])] = Written(Head(waitQ["R"]), m)]
        /\ sending' = [sending EXCEPT ![t] = m]
        /\ call' = [call EXCEPT ![t] = [at |-> "give", q |-> "S", timeout |-> timeout]]
        /\ UNCHANGED <<evtVars, strict>>
    BY <1>3 DEF SendGive
  <2>2. Moves(Places, t, [at |-> "give", q |-> "S", timeout |-> timeout])
    BY <2>1 DEF Moves, Calls, Places
  <2>3. OthersKeep(t) /\ sending'[t] = m
    BY <1>1, <2>1, SendingSet
  <2>4. picked' = Head(waitQ["R"])
    BY <2>1 DEF Pick
  <2>5. Written(Head(waitQ["R"]), m) \in Msgs \union Notices \union {Nothing}
    BY DEF Written, Notices
  <2>6. /\ buffer' \in [Threads -> Msgs \union Notices \union {Nothing}]
        /\ \A u \in Threads : u # picked' => buffer'[u] = buffer[u]
    BY <1>1, <2>1, <2>4, <2>5 DEF ArgTypes
  <2>7. used' = used /\ used' \in BOOLEAN /\ "give" \in Inside /\ "R" \in Queues
    BY <1>1, <2>1 DEF ArgTypes, evtVars, Inside
  <2>8. CoreInv' /\ \A r \in Queues : waitQ[r] = <<>> => waitQ'[r] = <<>>
    BY <1>1, <2>1, <2>2, <2>3, <2>6, <2>7, PickStep
  <2>9. QED
    BY <1>1, <2>1, <2>8, KeepLists, WaitStays DEF IInv, evtVars
<1>4. CASE SendStore(t, m)
  <2>1. /\ used /\ HasRoom /\ counter' = counter + 1 /\ MsgQueuePut(m)
        /\ waitQ["R"] = <<>> /\ Return(t) /\ sending' = [sending EXCEPT ![t] = Nothing]
        /\ UNCHANGED <<waitVars, klock, picked, used, strict, buffer>>
    BY <1>4 DEF SendStore
  <2>2. OthersKeep(t)
    BY <1>1, <2>1, SendingSet
  <2>3. CoreInv'
    BY <1>1, <2>1, <2>2, ReturnStep
  <2>4. ListInv'
    BY <1>1, <2>1, PutLists
  <2>5. NoWaitBesideMessage'
    BY <2>1 DEF NoWaitBesideMessage, waitVars
  <2>6. QED
    BY <2>3, <2>4, <2>5 DEF IInv
<1>5. CASE SendFull(t, m, timeout)
  <2>1. used /\ waitQ["R"] = <<>> /\ UNCHANGED <<klock, picked, evtVars, strict, buffer>>
    BY <1>5 DEF SendFull
  <2>2. ListInv'
    BY <1>1, <2>1, KeepLists
  <2>3. CASE Return(t) /\ sending' = [sending EXCEPT ![t] = Nothing] /\ UNCHANGED waitVars
    <3>1. OthersKeep(t)
      BY <1>1, <2>1, <2>3, SendingSet
    <3>2. CoreInv'
      BY <1>1, <2>1, <2>3, <3>1, ReturnStep DEF evtVars
    <3>3. QED
      BY <1>1, <2>1, <2>2, <2>3, <3>2, WaitStays DEF IInv, evtVars, waitVars
  <2>4. CASE Join(t, "S", timeout, Prio) /\ sending' = [sending EXCEPT ![t] = m]
    <3>1. OthersKeep(t) /\ sending'[t] = m
      BY <1>1, <2>1, <2>4, SendingSet
    <3>2. "S" \in Queues /\ "R" \in Queues /\ UNCHANGED <<klock, picked, used, buffer>>
      BY <2>1 DEF evtVars
    <3>3. CoreInv' /\ \A r \in Queues : r # "S" => waitQ'[r] = waitQ[r]
      BY <1>1, <2>1, <2>4, <3>1, <3>2, JoinStep
    <3>4. waitQ'["R"] = waitQ["R"]
      BY <3>2, <3>3
    <3>5. QED
      BY <1>1, <2>1, <2>2, <3>3, <3>4, WaitStays DEF IInv, evtVars
  <2>5. QED
    BY <1>5, <2>3, <2>4 DEF SendFull
<1>6. QED
  BY <1>2, <1>3, <1>4, <1>5 DEF SendEnter

\* API_MsgQueueReceive, to __KERNEL_EXIT.
LEMMA ReceivePreserves ==
    ASSUME IInv, NEW t \in Threads, NEW isStrict \in BOOLEAN, NEW timeout \in Timeouts,
           call[t].at \in {"idle", "again"}, klock = NoThread,
           ReceiveEnter(t, isStrict, timeout)
    PROVE  IInv'
<1> USE Constants
<1>1. CoreInv /\ ListInv /\ NoWaitBesideMessage /\ LibInv(Places) /\ ArgTypes
  BY DEF IInv, CoreInv
<1>2. ASSUME Return(t), UNCHANGED <<waitVars, klock, picked, evtVars, argVars>> PROVE IInv'
  <2>1. OthersKeep(t)
    BY <1>1, <1>2, SendingStays DEF argVars, ArgTypes
  <2>2. CoreInv'
    BY <1>1, <1>2, <2>1, ReturnStep DEF evtVars, argVars
  <2>3. QED
    BY <1>1, <1>2, <2>2, KeepLists, WaitStays DEF IInv, evtVars, waitVars
<1>3. CASE ReceiveInvalid(t) \/ ReceiveTooBig(t, isStrict)
  BY <1>2, <1>3 DEF ReceiveInvalid, ReceiveTooBig
<1>4. CASE ReceiveTake(t, isStrict)
  <2>1. /\ used /\ counter > 0 /\ counter' = counter - 1 /\ MsgQueueGet
        /\ used' = used /\ UNCHANGED <<sending, strict, buffer>>
    BY <1>4 DEF ReceiveTake, argVars
  <2>2. ListInv'
    BY <1>1, <2>1, GetLists
  <2>3. OthersKeep(t)
    BY <1>1, <2>1, SendingStays DEF ArgTypes
  <2>4. waitQ["R"] = <<>>
    BY <1>1, <2>1 DEF NoWaitBesideMessage
  <2>5. CASE Return(t) /\ UNCHANGED <<waitVars, klock, picked>>
    <3>1. CoreInv'
      BY <1>1, <2>1, <2>3, <2>5, ReturnStep
    <3>2. QED
      BY <2>2, <2>4, <2>5, <3>1 DEF IInv, NoWaitBesideMessage, waitVars
  <2>6. CASE waitQ["S"] # <<>> /\ Pick("S") /\ klock' = t /\ At(t, "take", "R")
    <3>1. Moves(Places, t, [at |-> "take", q |-> "R", timeout |-> call[t].timeout])
      BY <1>1, <2>6, AtMoves DEF Places, LibInv
    <3>2. /\ "S" \in Queues /\ "take" \in Inside /\ used' \in BOOLEAN /\ buffer' = buffer
          /\ buffer' \in [Threads -> Msgs \union Notices \union {Nothing}]
      BY <1>1, <2>1 DEF Inside, ArgTypes
    <3>3. CoreInv' /\ \A r \in Queues : waitQ[r] = <<>> => waitQ'[r] = <<>>
      BY <1>1, <2>1, <2>3, <2>6, <3>1, <3>2, PickStep
    <3>4. waitQ'["R"] = <<>>
      BY <2>4, <3>3
    <3>5. QED
      BY <2>2, <3>3, <3>4 DEF IInv, NoWaitBesideMessage
  <2>7. QED
    BY <1>4, <2>5, <2>6 DEF ReceiveTake
<1>5. CASE ReceiveNone(t, isStrict, timeout)
  <2>1. used /\ counter = 0 /\ UNCHANGED <<klock, picked, evtVars, sending, buffer>>
    BY <1>5 DEF ReceiveNone
  <2>2. CASE Return(t) /\ UNCHANGED <<waitVars, strict>>
    BY <1>2, <2>1, <2>2 DEF argVars
  <2>3. CASE /\ Join(t, "R", timeout, Prio)
             /\ strict' = IF isStrict THEN strict \union {t} ELSE strict \ {t}
    <3>1. strict' \subseteq Threads
      BY <1>1, <2>3 DEF ArgTypes
    <3>2. OthersKeep(t)
      BY <1>1, <2>1, <3>1, SendingStays
    <3>3. "R" \in Queues /\ UNCHANGED <<klock, picked, used, buffer>>
      BY <2>1 DEF evtVars
    <3>4. CoreInv'
      BY <1>1, <2>1, <2>3, <3>2, <3>3, JoinStep
    <3>5. NoWaitBesideMessage'
      BY <2>1 DEF NoWaitBesideMessage, evtVars
    <3>6. QED
      BY <1>1, <2>1, <3>4, <3>5, KeepLists DEF IInv
  <2>4. QED
    BY <1>5, <2>2, <2>3 DEF ReceiveNone
<1>6. QED
  BY <1>3, <1>4, <1>5 DEF ReceiveEnter

\* A call that stays where it is has moved.
LEMMA StayMoves ==
    ASSUME CoreInv, NEW t \in Threads, call[t].at \in Inside, call' = call
    PROVE  Moves(Places, t, call[t])
<1>1. call \in [Threads -> Calls(Places)]
  BY DEF CoreInv, LibInv, LibTypeOK, Calls
<1>2. call[t] \in Calls(Places) /\ call' = [call EXCEPT ![t] = call[t]]
  BY <1>1
<1>3. QED
  BY <1>2 DEF Moves, Inside

\* The receiver that was given a message, or none for want of room, is woken.
LEMMA SendHighPreserves ==
    ASSUME IInv, NEW t \in Threads, SendHigh(t)
    PROVE  IInv'
<1> USE Constants
<1>1. CoreInv /\ ListInv /\ NoWaitBesideMessage /\ LibInv(Places) /\ ArgTypes
  BY DEF IInv, CoreInv
<1>2. /\ call[t].at = "give" /\ call[t].at \in Inside /\ WakePicked /\ klock' = NoThread
      /\ UNCHANGED <<waitQ, delayed, deleted, signalled, evtVars, strict, buffer>>
  BY DEF SendHigh, Inside
<1>3. picked # NoThread /\ used /\ sending[t] \in Msgs
  BY <1>1, <1>2, InsideAlone DEF CoreInv, KernelInv, SendingInv, NeedsMessage
<1>4. CASE At(t, "again", "S") /\ UNCHANGED sending
  <2>1. Moves(Places, t, [at |-> "again", q |-> "S", timeout |-> call[t].timeout])
    BY <1>1, <1>4, AtMoves DEF Places, LibInv
  <2>2. OthersKeep(t)
    BY <1>1, <1>2, <1>4, SendingStays DEF ArgTypes
  <2>3. CoreInv'
    BY <1>1, <1>2, <1>3, <1>4, <2>1, <2>2, WakeStep DEF evtVars
  <2>4. QED
    BY <1>1, <1>2, <2>3, KeepLists, WaitStays DEF IInv, evtVars
<1>5. CASE Return(t) /\ sending' = [sending EXCEPT ![t] = Nothing]
  <2>1. Moves(Places, t, Idle)
    BY <1>5, ReturnMoves DEF Places
  <2>2. OthersKeep(t)
    BY <1>1, <1>2, <1>5, SendingSet
  <2>3. CoreInv'
    BY <1>1, <1>2, <1>3, <2>1, <2>2, WakeStep DEF evtVars, Idle
  <2>4. QED
    BY <1>1, <1>2, <2>3, KeepLists, WaitStays DEF IInv, evtVars
<1>6. QED
  BY <1>4, <1>5 DEF SendHigh

\* The sender that waited for room is woken.
LEMMA ReceiveHighPreserves ==
    ASSUME IInv, NEW t \in Threads, ReceiveHigh(t)
    PROVE  IInv'
<1> USE Constants
<1>1. CoreInv /\ ListInv /\ NoWaitBesideMessage /\ LibInv(Places) /\ ArgTypes
  BY DEF IInv, CoreInv
<1>2. /\ call[t].at = "take" /\ call[t].at \in Inside /\ WakePicked /\ klock' = NoThread
      /\ Return(t)
      /\ UNCHANGED <<waitQ, delayed, deleted, signalled, evtVars, sending, strict, buffer>>
  BY DEF ReceiveHigh, Inside, argVars
<1>3. picked # NoThread /\ used
  BY <1>1, <1>2, InsideAlone DEF CoreInv, KernelInv
<1>4. Moves(Places, t, Idle)
  BY <1>2, ReturnMoves DEF Places
<1>5. OthersKeep(t)
  BY <1>1, <1>2, SendingStays DEF ArgTypes
<1>6. CoreInv'
  BY <1>1, <1>2, <1>3, <1>4, <1>5, WakeStep DEF evtVars, Idle
<1>7. QED
  BY <1>1, <1>2, <1>6, KeepLists, WaitStays DEF IInv, evtVars

\* The wait of a sender or of a receiver is over.
LEMMA WaitOverPreserves ==
    ASSUME IInv, NEW t \in Threads, SendWoken(t) \/ ReceiveWoken(t)
    PROVE  IInv'
<1> USE Constants
<1>1. CoreInv /\ ListInv /\ NoWaitBesideMessage /\ LibInv(Places) /\ ArgTypes
  BY DEF IInv, CoreInv
<1>2. /\ call[t].at = "waiting" /\ t \notin sem /\ t \notin signalled
      /\ UNCHANGED <<waitVars, klock, picked, evtVars>>
  BY DEF SendWoken, ReceiveWoken, WaitOver
<1>3. /\ UNCHANGED <<waitQ, sem, delayed, timedOut, deleted, signalled, klock, picked>>
      /\ used' = used /\ used' \in BOOLEAN
  BY <1>1, <1>2 DEF waitVars, evtVars, ArgTypes
<1>4. CASE SendWoken(t)
  <2>1. /\ buffer' = buffer /\ buffer'[t] = Nothing /\ strict' = strict
        /\ buffer' \in [Threads -> Msgs \union Notices \union {Nothing}]
        /\ sending[t] \in Msgs
    BY <1>1, <1>2, <1>4, WaitersHaveNothing
       DEF SendWoken, ArgTypes, CoreInv, SendingInv, NeedsMessage
  <2>2. CASE At(t, "again", "S") /\ UNCHANGED sending
    <3>1. Moves(Places, t, [at |-> "again", q |-> "S", timeout |-> call[t].timeout])
      BY <1>1, <2>2, AtMoves DEF Places, LibInv
    <3>2. OthersKeep(t)
      BY <1>1, <2>1, <2>2, SendingStays DEF ArgTypes
    <3>3. CoreInv'
      BY <1>1, <1>2, <1>3, <2>1, <2>2, <3>1, <3>2, AsideStep
    <3>4. QED
      BY <1>1, <1>2, <1>3, <3>3, KeepLists, WaitStays DEF IInv, evtVars
  <2>3. CASE Return(t) /\ sending' = [sending EXCEPT ![t] = Nothing]
    <3>1. Moves(Places, t, Idle)
      BY <2>3, ReturnMoves DEF Places
    <3>2. OthersKeep(t)
      BY <1>1, <2>1, <2>3, SendingSet
    <3>3. CoreInv'
      BY <1>1, <1>2, <1>3, <2>1, <3>1, <3>2, AsideStep DEF Idle
    <3>4. QED
      BY <1>1, <1>2, <1>3, <3>3, KeepLists, WaitStays DEF IInv, evtVars
  <2>4. QED
    BY <1>4, <2>2, <2>3 DEF SendWoken
<1>5. CASE ReceiveWoken(t)
  <2>1. /\ Return(t) /\ buffer' = [buffer EXCEPT ![t] = Nothing] /\ strict' = strict \ {t}
        /\ sending' = sending
    BY <1>5 DEF ReceiveWoken
  <2>2. /\ buffer' \in [Threads -> Msgs \union Notices \union {Nothing}]
        /\ buffer'[t] = Nothing /\ \A u \in Threads : u # t => buffer'[u] = buffer[u]
    BY <1>1, <2>1 DEF ArgTypes
  <2>3. Moves(Places, t, Idle)
    BY <2>1, ReturnMoves DEF Places
  <2>4. OthersKeep(t)
    BY <1>1, <2>1, SendingStays DEF ArgTypes
  <2>5. CoreInv'
    BY <1>1, <1>2, <1>3, <2>2, <2>3, <2>4, AsideStep DEF Idle
  <2>6. QED
    BY <1>1, <1>2, <1>3, <2>5, KeepLists, WaitStays DEF IInv, evtVars
<1>6. QED
  BY <1>4, <1>5

\* A signal has ended the wait.
LEMMA SignalledPreserves ==
    ASSUME IInv, NEW t \in Threads, CallSignalled(t)
    PROVE  IInv'
<1> USE Constants
<1>1. CoreInv /\ ListInv /\ NoWaitBesideMessage /\ LibInv(Places) /\ ArgTypes
  BY DEF IInv, CoreInv
<1>2. /\ t \in signalled /\ t \notin sem
      /\ call[t].at = "waiting" /\ call[t].q \in Queues
      /\ signalled' = signalled \ {t}
      /\ UNCHANGED <<waitQ, sem, delayed, timedOut, deleted, klock, picked>>
  <2>1. {"idle", "again"} \subseteq Places
    BY DEF Places
  <2>2. QED
    BY <1>1, <2>1, SignalledEffect DEF CallSignalled
<1>3. /\ buffer' = buffer /\ used' = used /\ counter' = counter /\ UNCHANGED evtVars
      /\ used' \in BOOLEAN
      /\ buffer' \in [Threads -> Msgs \union Notices \union {Nothing}]
      /\ sending' = [sending EXCEPT ![t] = IF call'[t] = Idle THEN Nothing ELSE sending[t]]
      /\ strict' = IF call'[t] = Idle THEN strict \ {t} ELSE strict
  BY <1>1 DEF CallSignalled, evtVars, ArgTypes
<1>4. buffer'[t] = Nothing
  <2>1. t # picked
    BY <1>1, <1>2 DEF LibInv, FlagInv
  <2>2. QED
    BY <1>1, <1>2, <1>3, <2>1 DEF CoreInv, NothingLost
<1>5. /\ OthersKeep(t)
      /\ call'[t] # Idle => sending'[t] = sending[t]
  <2>1. (IF call'[t] = Idle THEN Nothing ELSE sending[t]) \in Msgs \union {Nothing}
    BY <1>1 DEF ArgTypes
  <2>2. strict' \subseteq Threads
    BY <1>1, <1>3 DEF ArgTypes
  <2>3. QED
    BY <1>1, <1>3, <2>1, <2>2 DEF ArgTypes, OthersKeep
<1>6. CASE Return(t)
  <2>1. Moves(Places, t, Idle)
    BY <1>6, ReturnMoves DEF Places
  <2>2. CoreInv'
    BY <1>1, <1>2, <1>3, <1>4, <1>5, <2>1, AsideStep DEF Idle
  <2>3. QED
    BY <1>1, <1>2, <1>3, <2>2, KeepLists, WaitStays DEF IInv
<1>7. CASE At(t, "again", call[t].q)
  <2>1. Moves(Places, t, [at |-> "again", q |-> call[t].q, timeout |-> call[t].timeout])
    BY <1>1, <1>2, <1>7, AtMoves DEF Places, LibInv
  <2>2. call'[t] = [at |-> "again", q |-> call[t].q, timeout |-> call[t].timeout]
    BY <1>1, <2>1, MoveEffect DEF LibInv
  <2>3. call'[t] # Idle
    BY <2>2 DEF Idle
  <2>4. call[t].q = "S" => sending'[t] \in Msgs
    BY <1>1, <1>2, <1>5, <2>3 DEF CoreInv, SendingInv, NeedsMessage
  <2>5. CoreInv'
    BY <1>1, <1>2, <1>3, <1>4, <1>5, <2>1, <2>4, AsideStep
  <2>6. QED
    BY <1>1, <1>2, <1>3, <2>5, KeepLists, WaitStays DEF IInv
<1>8. QED
  BY <1>6, <1>7 DEF CallSignalled, Signalled

\* goto __re_send and __wait_again.
LEMMA AgainPreserves ==
    ASSUME IInv, NEW t \in Threads, Again(t)
    PROVE  IInv'
<1>1. call[t].at = "again" /\ klock = NoThread
  BY DEF Again
<1>2. call[t].timeout \in Timeouts
  BY DEF IInv, CoreInv, LibInv, LibTypeOK
<1>3. CASE call[t].q = "S" /\ SendEnter(t, sending[t], call[t].timeout)
  <2>1. sending[t] \in Msgs
    BY <1>1, <1>3 DEF IInv, CoreInv, SendingInv, NeedsMessage
  <2>2. QED
    BY <1>1, <1>2, <1>3, <2>1, SendPreserves
<1>4. CASE call[t].q = "R" /\ ReceiveEnter(t, t \in strict, call[t].timeout)
  <2>1. (t \in strict) \in BOOLEAN
    OBVIOUS
  <2>2. QED
    BY <1>1, <1>2, <1>4, <2>1, ReceivePreserves
<1>5. QED
  BY <1>3, <1>4 DEF Again

\* A send in an interrupt, at whatever step of the calls it falls.
LEMMA IsrSendPreserves ==
    ASSUME IInv, NEW m \in Msgs, IsrSend(m)
    PROVE  IInv'
<1> USE Constants
<1>1. CoreInv /\ ListInv /\ NoWaitBesideMessage /\ LibInv(Places) /\ ArgTypes
  BY DEF IInv, CoreInv
<1>2. used /\ UNCHANGED <<deleted, signalled, klock, picked, call, used, sending, strict>>
  BY DEF IsrSend
<1>3. CASE /\ waitQ["R"] # <<>> /\ WakeFirst("R")
           /\ buffer' = [buffer EXCEPT ![Head(waitQ["R"])] = m]
           /\ UNCHANGED <<counter, map, lists>>
  <2>1. /\ buffer' \in [Threads -> Msgs \union Notices \union {Nothing}]
        /\ \A u \in Threads : u # Head(waitQ["R"]) => buffer'[u] = buffer[u]
    BY <1>1, <1>3 DEF ArgTypes
  <2>2. CoreInv' /\ \A r \in Queues : waitQ[r] = <<>> => waitQ'[r] = <<>>
    BY <1>1, <1>2, <1>3, <2>1, IsrStep
  <2>3. waitQ["R"] = <<>> => waitQ'["R"] = <<>>
    BY <2>2
  <2>4. QED
    BY <1>1, <1>2, <1>3, <2>2, <2>3, KeepLists, WaitStays DEF IInv, evtVars
<1>4. CASE /\ waitQ["R"] = <<>> /\ HasRoom /\ counter' = counter + 1 /\ MsgQueuePut(m)
           /\ UNCHANGED <<waitQ, sem, delayed, timedOut, buffer>>
  <2>1. CoreInv'
    BY <1>1, <1>2, <1>4, ThreadsStay DEF waitVars, argVars
  <2>2. ListInv'
    BY <1>1, <1>2, <1>4, PutLists
  <2>3. NoWaitBesideMessage'
    BY <1>4 DEF NoWaitBesideMessage
  <2>4. QED
    BY <2>1, <2>2, <2>3 DEF IInv
<1>5. QED
  BY <1>3, <1>4 DEF IsrSend

\* API_MsgQueueTryReceive in an interrupt.
LEMMA IsrTryReceivePreserves ==
    ASSUME IInv, IsrTryReceive
    PROVE  IInv'
<1> USE Constants
<1>1. CoreInv /\ ListInv /\ NoWaitBesideMessage /\ LibInv(Places) /\ ArgTypes
  BY DEF IInv, CoreInv
<1>2. /\ used /\ counter > 0 /\ counter' = counter - 1 /\ MsgQueueGet
      /\ UNCHANGED <<deleted, signalled, klock, picked, call, used, argVars>>
  BY DEF IsrTryReceive
<1>3. ListInv'
  BY <1>1, <1>2, GetLists
<1>4. waitQ["R"] = <<>>
  BY <1>1, <1>2 DEF NoWaitBesideMessage
<1>5. CASE UNCHANGED <<waitQ, sem, delayed, timedOut>>
  <2>1. CoreInv'
    BY <1>1, <1>2, <1>5, ThreadsStay DEF waitVars
  <2>2. QED
    BY <1>3, <1>4, <1>5, <2>1 DEF IInv, NoWaitBesideMessage
<1>6. CASE waitQ["S"] # <<>> /\ WakeFirst("S")
  <2>1. buffer' = buffer /\ buffer' \in [Threads -> Msgs \union Notices \union {Nothing}]
    BY <1>1, <1>2 DEF ArgTypes, argVars
  <2>2. CoreInv' /\ \A r \in Queues : waitQ[r] = <<>> => waitQ'[r] = <<>>
    BY <1>1, <1>2, <1>6, <2>1, IsrStep DEF argVars
  <2>3. waitQ'["R"] = <<>>
    BY <1>4, <2>2
  <2>4. QED
    BY <1>3, <2>2, <2>3 DEF IInv, NoWaitBesideMessage
<1>7. QED
  BY <1>2, <1>5, <1>6 DEF IsrTryReceive

\* A call that wakes everybody in a queue takes the next one, or is over.
LEMMA ReceiversStep ==
    ASSUME CoreInv, NEW t \in Threads, NEW place \in {"broadcast", "flushReceive"},
           NEW m \in Msgs \union {Nothing}, place = "broadcast" => m \in Msgs,
           \/ klock = NoThread /\ call[t].at = "idle"
           \/ call[t].at = place /\ picked = NoThread,
           used, WakeReceivers(t, place, m), UNCHANGED <<used, strict>>
    PROVE  CoreInv' /\ (waitQ["R"] = <<>> => waitQ'["R"] = <<>>)
<1> USE Constants
<1>1. LibInv(Places) /\ ArgTypes /\ KernelInv
  BY DEF CoreInv
<1>2. CASE /\ waitQ["R"] # <<>> /\ Pick("R") /\ klock' = t /\ At(t, place, "R")
           /\ buffer' = [buffer EXCEPT ![Head(waitQ["R"])] =
                            IF place = "broadcast" THEN Written(Head(waitQ["R"]), m)
                                                   ELSE "EMPTY"]
           /\ sending' = [sending EXCEPT ![t] = m]
  <2>1. Moves(Places, t, [at |-> place, q |-> "R", timeout |-> call[t].timeout])
    BY <1>1, <1>2, AtMoves DEF Places, LibInv
  <2>2. OthersKeep(t) /\ sending'[t] = m
    BY <1>1, <1>2, SendingSet
  <2>3. picked' = Head(waitQ["R"])
    BY <1>2 DEF Pick
  <2>4. (IF place = "broadcast" THEN Written(Head(waitQ["R"]), m) ELSE "EMPTY")
            \in Msgs \union Notices \union {Nothing}
    BY DEF Written, Notices
  <2>5. /\ buffer' \in [Threads -> Msgs \union Notices \union {Nothing}]
        /\ \A u \in Threads : u # picked' => buffer'[u] = buffer[u]
    BY <1>1, <1>2, <2>3, <2>4 DEF ArgTypes
  <2>6. /\ used' \in BOOLEAN /\ "R" \in Queues /\ place \in Inside
        /\ call[t].at = place => call[t].at \in Inside
    BY <1>1 DEF Inside, ArgTypes
  <2>7. CoreInv' /\ \A r \in Queues : waitQ[r] = <<>> => waitQ'[r] = <<>>
    BY <1>2, <2>1, <2>2, <2>5, <2>6, PickStep
  <2>8. QED
    BY <2>7
<1>3. CASE /\ waitQ["R"] = <<>> /\ klock' = NoThread /\ Return(t)
           /\ sending' = [sending EXCEPT ![t] = Nothing]
           /\ UNCHANGED <<waitVars, picked, buffer>>
  <2>1. OthersKeep(t)
    BY <1>1, <1>3, SendingSet
  <2>2. CASE klock = NoThread /\ call[t].at = "idle"
    BY <1>3, <2>1, <2>2, ReturnStep DEF waitVars
  <2>3. CASE call[t].at = place /\ picked = NoThread
    <3>1. call[t].at \in Inside
      BY <2>3 DEF Inside
    <3>2. QED
      BY <1>3, <2>1, <2>3, <3>1, LeaveStep DEF waitVars
  <2>4. QED
    BY <2>2, <2>3
<1>4. QED
  BY <1>2, <1>3 DEF WakeReceivers

\* A call wakes the senders, or goes on doing so.
LEMMA SendersStep ==
    ASSUME CoreInv, NEW t \in Threads,
           \/ klock = NoThread /\ call[t].at = "idle"
           \/ call[t].at = "wakeSenders" /\ picked = NoThread,
           used, WakeSenders(t), UNCHANGED <<used, argVars>>
    PROVE  CoreInv' /\ (waitQ["R"] = <<>> => waitQ'["R"] = <<>>)
<1> USE Constants
<1>1. /\ LibInv(Places) /\ ArgTypes
      /\ UNCHANGED <<sending, strict, buffer>>
      /\ buffer' \in [Threads -> Msgs \union Notices \union {Nothing}]
      /\ used' \in BOOLEAN
  BY DEF CoreInv, argVars, ArgTypes
<1>2. OthersKeep(t)
  BY <1>1, SendingStays DEF ArgTypes
<1>3. CASE waitQ["S"] # <<>> /\ Pick("S") /\ klock' = t /\ At(t, "wakeSenders", "S")
  <2>1. Moves(Places, t, [at |-> "wakeSenders", q |-> "S", timeout |-> call[t].timeout])
    BY <1>1, <1>3, AtMoves DEF Places, LibInv
  <2>2. "S" \in Queues /\ "wakeSenders" \in Inside
    BY DEF Inside
  <2>3. CoreInv' /\ \A r \in Queues : waitQ[r] = <<>> => waitQ'[r] = <<>>
    BY <1>1, <1>2, <1>3, <2>1, <2>2, PickStep
  <2>4. QED
    BY <2>3
<1>4. CASE klock' = NoThread /\ Return(t) /\ UNCHANGED <<waitVars, picked>>
  <2>1. CASE klock = NoThread /\ call[t].at = "idle"
    BY <1>1, <1>2, <1>4, <2>1, ReturnStep DEF waitVars
  <2>2. CASE call[t].at = "wakeSenders" /\ picked = NoThread
    <3>1. call[t].at \in Inside
      BY <2>2 DEF Inside
    <3>2. QED
      BY <1>1, <1>2, <1>4, <2>2, <3>1, LeaveStep DEF waitVars
  <2>3. QED
    BY <2>1, <2>2
<1>5. QED
  BY <1>3, <1>4 DEF WakeSenders

\* LW_OPTION_BROADCAST, API_MsgQueueFlushReceive, ...FlushSend, ...Clear.
LEMMA WakeAllPreserves ==
    ASSUME IInv, NEW t \in Threads,
           \/ \E m \in Msgs : Broadcast(t, m)
           \/ FlushReceive(t) \/ FlushSend(t) \/ Clear(t) \/ WakeNext(t)
    PROVE  IInv'
<1> USE Constants
<1>1. CoreInv /\ ListInv /\ NoWaitBesideMessage
  BY DEF IInv
<1>2. ASSUME CoreInv', waitQ["R"] = <<>> => waitQ'["R"] = <<>>, UNCHANGED evtVars
      PROVE  IInv'
  BY <1>1, <1>2, KeepLists, WaitStays DEF IInv, evtVars
<1>3. ASSUME NEW m \in Msgs, Broadcast(t, m) PROVE IInv'
  BY <1>1, <1>2, <1>3, ReceiversStep DEF Broadcast, Caller, evtVars
<1>4. CASE FlushReceive(t)
  BY <1>1, <1>2, <1>4, ReceiversStep DEF FlushReceive, Caller, evtVars
<1>5. CASE FlushSend(t)
  BY <1>1, <1>2, <1>5, SendersStep DEF FlushSend, Caller, evtVars
<1>6. CASE Clear(t)
  <2>1. /\ used /\ used' /\ MsgQueueClear /\ counter' = 0
        /\ CoreInv'
    BY <1>1, <1>6, SendersStep DEF Clear, Caller
  <2>2. ListInv'
    BY <2>1, ClearLists
  <2>3. QED
    BY <2>1, <2>2 DEF IInv, NoWaitBesideMessage
<1>7. CASE WakeNext(t)
  <2>1. picked = NoThread /\ UNCHANGED evtVars
    BY <1>7 DEF WakeNext
  <2>2. CASE /\ call[t].at \in {"broadcast", "flushReceive"}
             /\ WakeReceivers(t, call[t].at, sending[t]) /\ UNCHANGED strict
    <3>1. used
      <4>1. call[t].at \in Inside /\ call[t].at # "delete"
        BY <2>2 DEF Inside
      <4>2. QED
        BY <1>1, <4>1, InsideAlone
    <3>2. sending[t] \in Msgs \union {Nothing}
      BY <1>1 DEF CoreInv, ArgTypes
    <3>3. call[t].at = "broadcast" => sending[t] \in Msgs
      BY <1>1 DEF CoreInv, SendingInv, NeedsMessage
    <3>4. CoreInv' /\ (waitQ["R"] = <<>> => waitQ'["R"] = <<>>)
      BY <1>1, <2>1, <2>2, <3>1, <3>2, <3>3, ReceiversStep DEF evtVars
    <3>5. QED
      BY <1>2, <2>1, <3>4
  <2>3. CASE call[t].at = "wakeSenders" /\ WakeSenders(t) /\ UNCHANGED argVars
    <3>1. used
      <4>1. call[t].at \in Inside /\ call[t].at # "delete"
        BY <2>3 DEF Inside
      <4>2. QED
        BY <1>1, <4>1, InsideAlone
    <3>2. CoreInv' /\ (waitQ["R"] = <<>> => waitQ'["R"] = <<>>)
      BY <1>1, <2>1, <2>3, <3>1, SendersStep DEF evtVars
    <3>3. QED
      BY <1>2, <2>1, <3>2
  <2>4. QED
    BY <1>7, <2>2, <2>3 DEF WakeNext
<1>8. QED
  BY <1>3, <1>4, <1>5, <1>6, <1>7

\* The second half of waking a thread.
LEMMA WakeHighPreserves ==
    ASSUME IInv, NEW t \in Threads, WakeHigh(t) \/ DeleteHigh(t)
    PROVE  IInv'
<1> USE Constants
<1>1. CoreInv /\ ListInv /\ NoWaitBesideMessage /\ ArgTypes
  BY DEF IInv, CoreInv
<1>2. /\ call[t].at \in {"broadcast", "flushReceive", "wakeSenders", "delete"}
      /\ call[t].at \in Inside /\ picked # NoThread /\ WakePicked
      /\ \/ deleted' = deleted
         \/ deleted' = deleted \union {picked} /\ call[t].at = "delete"
      /\ UNCHANGED <<waitQ, delayed, signalled, klock, call, evtVars, sending, strict, buffer>>
  BY DEF WakeHigh, DeleteHigh, Inside, argVars
<1>3. Moves(Places, t, call[t]) /\ klock' = t
  BY <1>1, <1>2, StayMoves, InsideAlone
<1>4. OthersKeep(t) /\ (call[t].at = "broadcast" => sending'[t] \in Msgs)
  BY <1>1, <1>2, SendingStays DEF ArgTypes, CoreInv, SendingInv, NeedsMessage
<1>5. call[t].at # "again"
  BY <1>2
<1>6. CoreInv'
  BY <1>1, <1>2, <1>3, <1>4, <1>5, WakeStep DEF evtVars
<1>7. QED
  BY <1>1, <1>2, <1>6, KeepLists, WaitStays DEF IInv, evtVars

-----------------------------------------------------------------------------
\* API_MsgQueueDelete takes the next waiter, or is over.
LEMMA DeleteStep ==
    ASSUME CoreInv, NEW t \in Threads,
           \/ klock = NoThread /\ call[t].at = "idle" /\ used
           \/ call[t].at = "delete" /\ picked = NoThread /\ ~used,
           used' = FALSE, DeletePickOrFinish(t), UNCHANGED argVars
    PROVE  CoreInv'
<1> USE Constants
<1>1. /\ LibInv(Places) /\ ArgTypes /\ KernelInv /\ SendingInv /\ NothingLost
      /\ UNCHANGED <<sending, strict, buffer>>
      /\ buffer' \in [Threads -> Msgs \union Notices \union {Nothing}]
      /\ used' \in BOOLEAN
  BY DEF CoreInv, argVars, ArgTypes
<1>2. OthersKeep(t)
  BY <1>1, SendingStays DEF ArgTypes
<1>3. call[t].at = "delete" => call[t].at \in Inside
  BY DEF Inside
<1>4. ASSUME NEW q \in Queues, waitQ[q] # <<>>, Pick(q), klock' = t, At(t, "delete", NoQueue)
      PROVE  CoreInv'
  <2>1. Moves(Places, t, [at |-> "delete", q |-> NoQueue, timeout |-> call[t].timeout])
    BY <1>1, <1>4, AtMoves DEF Places, LibInv
  <2>2. "delete" \in Inside
    BY DEF Inside
  <2> DEFINE c == [at |-> "delete", q |-> NoQueue, timeout |-> call[t].timeout]
  <2>3. /\ Moves(Places, t, c) /\ c.at = "delete" /\ c.at \in Inside
        /\ c.at \notin {"give", "broadcast"}
    BY <2>1, <2>2
  <2>4. \/ klock = NoThread /\ call[t].at \in {"idle", "again"}
        \/ call[t].at \in Inside /\ picked = NoThread /\ used' = used
    BY <1>1, <1>3 DEF ArgTypes
  <2>5. \A u \in Threads : u # picked' => buffer'[u] = buffer[u]
    BY <1>1
  <2> HIDE DEF c
  <2>6. QED
    BY <1>1, <1>2, <1>4, <2>3, <2>4, <2>5, PickStep
<1>5. CASE /\ \A q \in Queues : waitQ[q] = <<>>
           /\ klock' = NoThread /\ Return(t) /\ UNCHANGED <<waitVars, picked>>
  <2>1. CASE call[t].at = "delete" /\ picked = NoThread /\ ~used
    <3>1. used' = used
      BY <1>1, <2>1 DEF ArgTypes
    <3>2. QED
      BY <1>1, <1>2, <1>3, <1>5, <2>1, <3>1, LeaveStep
  <2>2. CASE klock = NoThread /\ call[t].at = "idle" /\ used
    <3>1. Moves(Places, t, Idle)
      BY <1>5, ReturnMoves DEF Places
    <3>2. t \notin sem /\ t \notin signalled /\ picked = NoThread
      BY <1>1, <2>2, Outside DEF LibInv, FlagInv
    <3>3. signalled' \subseteq signalled
      BY <1>5 DEF waitVars
    <3>4. LibInv(Places)'
      BY <1>1, <1>5, <3>1, <3>2, <3>3, MoveKeeps DEF waitVars
    <3>5. call'[t] = Idle /\ \A x \in Threads : x # t => call'[x] = call[x]
      BY <1>1, <3>1, MoveEffect DEF LibInv
    <3>6. \A u \in Threads : call'[u].at \notin Inside
      BY <2>2, <3>5, Outside DEF Idle, Inside
    <3>7. KernelInv'
      BY <1>5, <3>6 DEF KernelInv, Inside, waitVars
    <3>8. SendingInv'
      BY <1>1, <3>5 DEF SendingInv, NeedsMessage, Idle
    <3>9. NothingLost'
      <4>1. buffer[t] = Nothing
        BY <2>2, WaitersHaveNothing
      <4>2. QED
        BY <1>1, <1>5, <3>5, <4>1 DEF NothingLost, waitVars
    <3>10. ArgTypes'
      BY <1>1 DEF ArgTypes
    <3>11. QED
      BY <3>4, <3>7, <3>8, <3>9, <3>10 DEF CoreInv
  <2>3. QED
    BY <2>1, <2>2
<1>6. QED
  BY <1>4, <1>5 DEF DeletePickOrFinish

\* The queue is deleted, its waiters one by one.
LEMMA DeletePreserves ==
    ASSUME IInv, NEW t \in Threads, Delete(t) \/ DeleteNext(t)
    PROVE  IInv'
<1>1. CoreInv /\ ListInv
  BY DEF IInv
<1>2. CASE Delete(t)
  <2>1. CoreInv'
    BY <1>1, <1>2, DeleteStep DEF Delete, Caller
  <2>2. ListInv'
    BY <1>1, <1>2, ClearLists DEF Delete, ListInv
  <2>3. NoWaitBesideMessage'
    BY <1>2 DEF Delete, NoWaitBesideMessage
  <2>4. QED
    BY <2>1, <2>2, <2>3 DEF IInv
<1>3. CASE DeleteNext(t)
  <2>1. /\ call[t].at = "delete" /\ picked = NoThread /\ DeletePickOrFinish(t)
        /\ UNCHANGED argVars /\ UNCHANGED evtVars
    BY <1>3 DEF DeleteNext
  <2>2. call[t].at \in Inside
    BY <2>1 DEF Inside
  <2>3. ~used /\ used' = FALSE
    <3>1. ~used /\ used \in BOOLEAN
      BY <1>1, <2>1, <2>2, InsideAlone DEF CoreInv, ArgTypes
    <3>2. QED
      BY <2>1, <3>1 DEF evtVars
  <2>4. CoreInv'
    BY <1>1, <2>1, <2>3, DeleteStep
  <2>5. ListInv'
    BY <1>1, <2>1, KeepLists
  <2>6. NoWaitBesideMessage'
    BY <2>3 DEF NoWaitBesideMessage
  <2>7. QED
    BY <2>4, <2>5, <2>6 DEF IInv
<1>4. QED
  BY <1>2, <1>3

\* Every step preserves the invariant.
LEMMA NextPreserves == IInv /\ [Next]_vars => IInv'
<1> SUFFICES ASSUME IInv, [Next]_vars PROVE IInv'
  OBVIOUS
<1> USE Constants
<1>1. CoreInv /\ ListInv /\ NoWaitBesideMessage
  BY DEF IInv
<1>2. CASE UNCHANGED vars
  <2>1. UNCHANGED <<waitVars, klock, picked, call, evtVars, argVars>>
    BY <1>2 DEF vars, libVars
  <2>2. CoreInv'
    BY <1>1, <2>1, ThreadsStay DEF evtVars
  <2>3. QED
    BY <1>1, <2>1, <2>2, KeepLists, WaitStays DEF IInv, evtVars, waitVars
<1>3. ASSUME NEW t \in Threads, Create(t) \/ Delete(t) PROVE IInv'
  BY <1>3, CreatePreserves, DeletePreserves
<1>4. ASSUME NEW t \in Threads, NEW m \in Msgs, NEW timeout \in Timeouts,
             Send(t, m, timeout)
      PROVE  IInv'
  BY <1>4, SendPreserves DEF Send, Caller
<1>5. ASSUME NEW t \in Threads, NEW isStrict \in BOOLEAN, NEW timeout \in Timeouts,
             Receive(t, isStrict, timeout)
      PROVE  IInv'
  BY <1>5, ReceivePreserves DEF Receive, Caller
<1>6. ASSUME NEW t \in Threads,
             \/ \E m \in Msgs : Broadcast(t, m)
             \/ FlushReceive(t) \/ FlushSend(t) \/ Clear(t)
      PROVE  IInv'
  BY <1>6, WakeAllPreserves
<1>7. ASSUME NEW t \in Threads, Proceed(t) PROVE IInv'
  BY <1>7, SendHighPreserves, WaitOverPreserves, ReceiveHighPreserves,
     SignalledPreserves, AgainPreserves, WakeHighPreserves, WakeAllPreserves,
     DeletePreserves DEF Proceed
<1>8. ASSUME NEW t \in Threads, Expire(t) \/ Signal(t), UNCHANGED <<evtVars, argVars>>
      PROVE  IInv'
  <2>1. UNCHANGED <<used, counter>>
    BY <1>8 DEF evtVars
  <2>2. CoreInv' /\ \A r \in Queues : waitQ[r] = <<>> => waitQ'[r] = <<>>
    BY <1>1, <1>8, <2>1, WokenStep
  <2>3. waitQ["R"] = <<>> => waitQ'["R"] = <<>>
    BY <2>2
  <2>4. QED
    BY <1>1, <1>8, <2>1, <2>2, <2>3, KeepLists, WaitStays DEF IInv
<1>9. QED
  BY <1>2, <1>3, <1>4, <1>5, <1>6, <1>7, <1>8, IsrSendPreserves,
     IsrTryReceivePreserves DEF Next

-----------------------------------------------------------------------------
\* The invariant holds in every reachable state, for any number of threads,
\* messages and urgencies and any size of the queue.
THEOREM Invariance == Spec => []IInv
BY InitIInv, NextPreserves, PTL DEF Spec

\* API_MsgQueue... keeps its control block well typed: the counter stays
\* between zero and EVENT_ulMaxCounter, and a call never goes on without the
\* message it was made for.
THEOREM TypeCorrect == Spec => []TypeOK
<1>1. IInv => TypeOK
  BY DEF IInv, CoreInv, LibInv, ArgTypes, ListInv, TypeOK
<1>2. QED
  BY <1>1, Invariance, PTL

\* EVENT_ulCounter counts the messages in the lists and MSGQUEUE_uiMap marks
\* the lists that are not empty, after every _MsgQueuePut, ...Get and ...Clear.
THEOREM ListsAgree == Spec => []CounterAndMapAgree
<1>1. IInv => CounterAndMapAgree
  BY DEF IInv, ListInv
<1>2. QED
  BY <1>1, Invariance, PTL

\* A receiver whose buffer a send, a broadcast or a flush has written returns
\* with it, whatever ticks, signals and deletions come between.
THEOREM NoMessageIsLost == Spec => []NothingLost
<1>1. IInv => NothingLost
  BY DEF IInv, CoreInv
<1>2. QED
  BY <1>1, Invariance, PTL

\* Nobody waits in API_MsgQueueReceive while the queue holds a message.
THEOREM NobodyWaitsBesideMessage == Spec => []NoWaitBesideMessage
<1>1. IInv => NoWaitBesideMessage
  BY DEF IInv
<1>2. QED
  BY <1>1, Invariance, PTL

\* No call of _MsgQueueGet finds an empty list: where the counter says that
\* there is a message, archFindLsb of the map gives a list that has one, and
\* no list before it has.
THEOREM GetFindsMessage ==
    Spec => [](used /\ counter > 0 =>
                  /\ FirstBit \in map /\ lists[FirstBit] # <<>>
                  /\ \A u \in Urgencies : u < FirstBit => lists[u] = <<>>)
<1>1. IInv => (used /\ counter > 0 =>
                  /\ FirstBit \in map /\ lists[FirstBit] # <<>>
                  /\ \A u \in Urgencies : u < FirstBit => lists[u] = <<>>)
  <2> SUFFICES ASSUME IInv, used, counter > 0
               PROVE  /\ FirstBit \in map /\ lists[FirstBit] # <<>>
                      /\ \A u \in Urgencies : u < FirstBit => lists[u] = <<>>
    OBVIOUS
  <2>1. /\ FirstBit \in map /\ FirstBit \in Urgencies /\ lists[FirstBit] # <<>>
        /\ \A j \in map : FirstBit <= j
    BY FirstBitFinds DEF IInv
  <2>2. map = {u \in Urgencies : lists[u] # <<>>} /\ Urgencies \in SUBSET Nat
    BY Constants DEF IInv, ListInv, CounterAndMapAgree
  <2>3. ASSUME NEW u \in Urgencies, u < FirstBit PROVE lists[u] = <<>>
    <3>1. u \in Nat /\ FirstBit \in Nat
      BY <2>1, <2>2
    <3>2. u \notin map
      BY <2>1, <2>3, <3>1
    <3>3. QED
      BY <2>2, <3>2
  <2>4. QED
    BY <2>1, <2>3
<1>2. QED
  BY <1>1, Invariance, PTL


-----------------------------------------------------------------------------
(* The lists laid end to end. *)

\* The eight lists, those of urgencies that no message has too.
Parts(ls) == [u \in 0 .. 7 |-> IF u \in Urgencies THEN ls[u] ELSE <<>>]

EightLists == [0 .. 7 -> Seq(Msgs)]

Whole(c) == c[0] \o c[1] \o c[2] \o c[3] \o c[4] \o c[5] \o c[6] \o c[7]

\* h gives what the first lists hold together.
Laid(h, c) ==
    /\ h \in EightLists
    /\ h[0] = c[0]
    /\ \A k \in 1 .. 7 : h[k] = h[k - 1] \o c[k]

\* r is p with m behind its first i messages.
PutBehind(p, r, i, m) ==
    /\ r \in Seq(Msgs) /\ Len(r) = Len(p) + 1 /\ i \in 0 .. Len(p)
    /\ \A j \in 1 .. i : r[j] = p[j]
    /\ r[i + 1] = m
    /\ \A j \in i + 1 .. Len(p) : r[j + 1] = p[j]

\* Two sequences end to end.
LEMMA EndToEnd ==
    ASSUME NEW p \in Seq(Msgs), NEW l \in Seq(Msgs)
    PROVE  /\ p \o l \in Seq(Msgs) /\ Len(p \o l) = Len(p) + Len(l)
           /\ Len(p) \in Nat /\ Len(l) \in Nat
           /\ \A j \in 1 .. Len(p) : (p \o l)[j] = p[j]
           /\ \A j \in 1 .. Len(l) : (p \o l)[Len(p) + j] = l[j]
<1>1. p \o l \in Seq(Msgs) /\ Len(p \o l) = Len(p) + Len(l)
  OBVIOUS
<1>2. Len(p) \in Nat /\ Len(l) \in Nat
  OBVIOUS
<1>3. \A j \in 1 .. Len(p) : (p \o l)[j] = p[j]
  OBVIOUS
<1>4. \A j \in 1 .. Len(l) : (p \o l)[Len(p) + j] = l[j]
  BY <1>2
<1>5. QED
  BY <1>1, <1>2, <1>3, <1>4

\* The lists can be laid end to end one by one.
LEMMA LaidExists ==
    ASSUME NEW c \in EightLists
    PROVE  \E h : Laid(h, c) /\ h[7] = Whole(c)
<1>1. \A u \in 0 .. 7 : c[u] \in Seq(Msgs)
  BY DEF EightLists
<1> DEFINE a0 == c[0]
           a1 == a0 \o c[1]
           a2 == a1 \o c[2]
           a3 == a2 \o c[3]
           a4 == a3 \o c[4]
           a5 == a4 \o c[5]
           a6 == a5 \o c[6]
           a7 == a6 \o c[7]
           h  == [k \in 0 .. 7 |->
                     CASE k = 0 -> a0 [] k = 1 -> a1 [] k = 2 -> a2 [] k = 3 -> a3
                       [] k = 4 -> a4 [] k = 5 -> a5 [] k = 6 -> a6 [] OTHER -> a7]
<1>2. a7 = Whole(c)
  BY DEF Whole
<1>3. a0 \in Seq(Msgs)
  BY <1>1
<1>4. a1 \in Seq(Msgs)
  BY <1>1, <1>3, EndToEnd
<1>5. a2 \in Seq(Msgs)
  BY <1>1, <1>4, EndToEnd
<1>6. a3 \in Seq(Msgs)
  BY <1>1, <1>5, EndToEnd
<1>7. a4 \in Seq(Msgs)
  BY <1>1, <1>6, EndToEnd
<1>8. a5 \in Seq(Msgs)
  BY <1>1, <1>7, EndToEnd
<1>9. a6 \in Seq(Msgs)
  BY <1>1, <1>8, EndToEnd
<1>10. a7 \in Seq(Msgs)
  BY <1>1, <1>9, EndToEnd
<1>11. /\ a1 = a0 \o c[1] /\ a2 = a1 \o c[2] /\ a3 = a2 \o c[3]
       /\ a4 = a3 \o c[4] /\ a5 = a4 \o c[5] /\ a6 = a5 \o c[6]
       /\ a7 = a6 \o c[7] /\ a0 = c[0]
  OBVIOUS
<1> HIDE DEF a0, a1, a2, a3, a4, a5, a6, a7
<1>12. /\ h[0] = a0 /\ h[1] = a1 /\ h[2] = a2 /\ h[3] = a3
       /\ h[4] = a4 /\ h[5] = a5 /\ h[6] = a6 /\ h[7] = a7
  OBVIOUS
<1>13. h \in EightLists
  BY <1>3, <1>4, <1>5, <1>6, <1>7, <1>8, <1>9, <1>10 DEF EightLists
<1> HIDE DEF h
<1>14. \A k \in 1 .. 7 : h[k] = h[k - 1] \o c[k]
  <2> SUFFICES ASSUME NEW k \in 1 .. 7 PROVE h[k] = h[k - 1] \o c[k]
    OBVIOUS
  <2>1. k = 1 \/ k = 2 \/ k = 3 \/ k = 4 \/ k = 5 \/ k = 6 \/ k = 7
    OBVIOUS
  <2>2. /\ h[1] = h[0] \o c[1] /\ h[2] = h[1] \o c[2]
        /\ h[3] = h[2] \o c[3] /\ h[4] = h[3] \o c[4]
        /\ h[5] = h[4] \o c[5] /\ h[6] = h[5] \o c[6]
        /\ h[7] = h[6] \o c[7]
    BY <1>11, <1>12
  <2>3. CASE k = 1
    <3>1. k - 1 = 0
      BY <2>3
    <3>2. QED
      BY <2>2, <2>3, <3>1, Zenon
  <2>4. CASE k = 2
    <3>1. k - 1 = 1
      BY <2>4
    <3>2. QED
      BY <2>2, <2>4, <3>1, Zenon
  <2>5. CASE k = 3
    <3>1. k - 1 = 2
      BY <2>5
    <3>2. QED
      BY <2>2, <2>5, <3>1, Zenon
  <2>6. CASE k = 4
    <3>1. k - 1 = 3
      BY <2>6
    <3>2. QED
      BY <2>2, <2>6, <3>1, Zenon
  <2>7. CASE k = 5
    <3>1. k - 1 = 4
      BY <2>7
    <3>2. QED
      BY <2>2, <2>7, <3>1, Zenon
  <2>8. CASE k = 6
    <3>1. k - 1 = 5
      BY <2>8
    <3>2. QED
      BY <2>2, <2>8, <3>1, Zenon
  <2>9. CASE k = 7
    <3>1. k - 1 = 6
      BY <2>9
    <3>2. QED
      BY <2>2, <2>9, <3>1, Zenon
  <2>10. QED
    BY <2>1, <2>3, <2>4, <2>5, <2>6, <2>7, <2>8, <2>9
<1>15. Laid(h, c) /\ h[7] = Whole(c)
  BY <1>2, <1>11, <1>12, <1>13, <1>14 DEF Laid
<1>16. QED
  BY <1>15

\* m at the end of p.
LEMMA PutLast ==
    ASSUME NEW p \in Seq(Msgs), NEW m \in Msgs
    PROVE  PutBehind(p, Append(p, m), Len(p), m)
<1>1. /\ Append(p, m) \in Seq(Msgs) /\ Len(Append(p, m)) = Len(p) + 1 /\ Len(p) \in Nat
      /\ \A j \in 1 .. Len(p) : Append(p, m)[j] = p[j]
      /\ Append(p, m)[Len(p) + 1] = m
  OBVIOUS
<1>2. QED
  BY <1>1 DEF PutBehind

\* m in p, with another sequence behind it.
LEMMA PutInLeft ==
    ASSUME NEW p \in Seq(Msgs), NEW r, NEW i, NEW m, PutBehind(p, r, i, m),
           NEW l \in Seq(Msgs)
    PROVE  PutBehind(p \o l, r \o l, i, m)
<1>1. /\ r \in Seq(Msgs) /\ Len(r) = Len(p) + 1 /\ i \in 0 .. Len(p)
      /\ \A j \in 1 .. i : r[j] = p[j]
      /\ r[i + 1] = m
      /\ \A j \in i + 1 .. Len(p) : r[j + 1] = p[j]
  BY DEF PutBehind
<1> DEFINE x == p \o l
           y == r \o l
<1>2. /\ x \in Seq(Msgs) /\ Len(x) = Len(p) + Len(l) /\ Len(p) \in Nat /\ Len(l) \in Nat
      /\ \A j \in 1 .. Len(p) : x[j] = p[j]
      /\ \A j \in 1 .. Len(l) : x[Len(p) + j] = l[j]
  BY EndToEnd
<1>3. /\ y \in Seq(Msgs) /\ Len(y) = Len(r) + Len(l)
      /\ \A j \in 1 .. Len(r) : y[j] = r[j]
      /\ \A j \in 1 .. Len(l) : y[Len(r) + j] = l[j]
  BY <1>1, EndToEnd
<1> HIDE DEF x, y
<1>4. Len(y) = Len(x) + 1 /\ i \in 0 .. Len(x)
  BY <1>1, <1>2, <1>3
<1>5. \A j \in 1 .. i : y[j] = x[j]
  BY <1>1, <1>2, <1>3
<1>6. y[i + 1] = m
  BY <1>1, <1>2, <1>3
<1>7. ASSUME NEW j \in i + 1 .. Len(x) PROVE y[j + 1] = x[j]
  <2>1. CASE j <= Len(p)
    BY <1>1, <1>2, <1>3, <2>1
  <2>2. CASE j > Len(p)
    <3>1. PICK d \in 1 .. Len(l) : j = Len(p) + d /\ j + 1 = Len(r) + d
      <4>1. j - Len(p) \in 1 .. Len(l) /\ j = Len(p) + (j - Len(p)) /\ j + 1 = Len(r) + (j - Len(p))
        BY <1>1, <1>2, <2>2
      <4>2. QED
        BY <4>1
    <3>2. x[Len(p) + d] = l[d] /\ y[Len(r) + d] = l[d]
      BY <1>2, <1>3, <3>1
    <3>3. QED
      BY <3>1, <3>2
  <2>3. QED
    BY <1>1, <1>2, <2>1, <2>2
<1>8. PutBehind(x, y, i, m)
  BY <1>3, <1>4, <1>5, <1>6, <1>7 DEF PutBehind
<1>9. QED
  BY <1>8 DEF x, y

\* m in l, with another sequence before it.
LEMMA PutInRight ==
    ASSUME NEW l \in Seq(Msgs), NEW r, NEW i, NEW m, PutBehind(l, r, i, m),
           NEW p \in Seq(Msgs)
    PROVE  PutBehind(p \o l, p \o r, Len(p) + i, m)
<1>1. /\ r \in Seq(Msgs) /\ Len(r) = Len(l) + 1 /\ i \in 0 .. Len(l)
      /\ \A j \in 1 .. i : r[j] = l[j]
      /\ r[i + 1] = m
      /\ \A j \in i + 1 .. Len(l) : r[j + 1] = l[j]
  BY DEF PutBehind
<1> DEFINE x == p \o l
           y == p \o r
           n == Len(p) + i
<1>2. /\ x \in Seq(Msgs) /\ Len(x) = Len(p) + Len(l) /\ Len(p) \in Nat /\ Len(l) \in Nat
      /\ \A j \in 1 .. Len(p) : x[j] = p[j]
      /\ \A j \in 1 .. Len(l) : x[Len(p) + j] = l[j]
  BY EndToEnd
<1>3. /\ y \in Seq(Msgs) /\ Len(y) = Len(p) + Len(r)
      /\ \A j \in 1 .. Len(p) : y[j] = p[j]
      /\ \A j \in 1 .. Len(r) : y[Len(p) + j] = r[j]
  BY <1>1, EndToEnd
<1> HIDE DEF x, y
<1>4. Len(y) = Len(x) + 1 /\ n \in 0 .. Len(x)
  BY <1>1, <1>2, <1>3
<1>5. ASSUME NEW j \in 1 .. n PROVE y[j] = x[j]
  <2>1. CASE j <= Len(p)
    BY <1>2, <1>3, <2>1
  <2>2. CASE j > Len(p)
    <3>1. PICK d \in 1 .. i : j = Len(p) + d
      <4>1. j - Len(p) \in 1 .. i /\ j = Len(p) + (j - Len(p))
        BY <1>1, <1>2, <2>2
      <4>2. QED
        BY <4>1
    <3>2. d \in 1 .. Len(l) /\ d \in 1 .. Len(r)
      BY <1>1, <1>2, <3>1
    <3>3. x[Len(p) + d] = l[d] /\ y[Len(p) + d] = r[d] /\ r[d] = l[d]
      BY <1>1, <1>2, <1>3, <3>1, <3>2
    <3>4. QED
      BY <3>1, <3>3
  <2>3. QED
    BY <1>1, <1>2, <2>1, <2>2
<1>6. y[n + 1] = m
  <2>1. i + 1 \in 1 .. Len(r) /\ n + 1 = Len(p) + (i + 1)
    BY <1>1, <1>2
  <2>2. y[Len(p) + (i + 1)] = r[i + 1]
    BY <1>3, <2>1
  <2>3. QED
    BY <1>1, <2>1, <2>2
<1>7. ASSUME NEW j \in n + 1 .. Len(x) PROVE y[j + 1] = x[j]
  <2>1. PICK d \in i + 1 .. Len(l) : j = Len(p) + d /\ j + 1 = Len(p) + (d + 1)
    <3>1. /\ j - Len(p) \in i + 1 .. Len(l) /\ j = Len(p) + (j - Len(p))
          /\ j + 1 = Len(p) + ((j - Len(p)) + 1)
      BY <1>1, <1>2
    <3>2. QED
      BY <3>1
  <2>2. d \in 1 .. Len(l) /\ d + 1 \in 1 .. Len(r)
    BY <1>1, <1>2, <2>1
  <2>3. x[Len(p) + d] = l[d] /\ y[Len(p) + (d + 1)] = r[d + 1] /\ r[d + 1] = l[d]
    BY <1>1, <1>2, <1>3, <2>1, <2>2
  <2>4. QED
    BY <2>1, <2>3
<1>8. PutBehind(x, y, n, m)
  BY <1>3, <1>4, <1>5, <1>6, <1>7 DEF PutBehind
<1>9. QED
  BY <1>8 DEF x, y


\* A claim about the first lists, one after the other.
LEMMA ListByList ==
    ASSUME NEW T \in SUBSET (0 .. 7), 0 \notin T, \A k \in 1 .. 7 : k \in T => k - 1 \in T
    PROVE  T = {}
<1> SUFFICES ASSUME T # {} PROVE FALSE
  OBVIOUS
<1>1. PICK n \in T : \A k \in T : n <= k
  <2>1. T \in SUBSET Nat
    OBVIOUS
  <2>2. QED
    BY <2>1, LeastMember
<1>2. n \in 1 .. 7 /\ ~(n <= n - 1)
  BY <1>1
<1>3. QED
  BY <1>1, <1>2

\* Each message is in the list of its urgency.
ByUrgency(c) == \A k \in 0 .. 7 : \A j \in 1 .. Len(c[k]) : Urgency[c[k][j]] = k

\* The messages of p have at most the urgency number k.
UpTo(p, k) == \A j \in 1 .. Len(p) : Urgency[p[j]] \in 0 .. k

\* The next list behind the lists before it.
LEMMA UpToNext ==
    ASSUME NEW p \in Seq(Msgs), NEW l \in Seq(Msgs), NEW k \in Nat \ {0}, UpTo(p, k - 1),
           \A j \in 1 .. Len(l) : Urgency[l[j]] = k
    PROVE  UpTo(p \o l, k)
<1>1. /\ Len(p \o l) = Len(p) + Len(l) /\ Len(p) \in Nat /\ Len(l) \in Nat
      /\ \A j \in 1 .. Len(p) : (p \o l)[j] = p[j]
      /\ \A j \in 1 .. Len(l) : (p \o l)[Len(p) + j] = l[j]
  BY EndToEnd
<1>2. ASSUME NEW j \in 1 .. Len(p \o l) PROVE Urgency[(p \o l)[j]] \in 0 .. k
  <2>1. CASE j <= Len(p)
    <3>1. j \in 1 .. Len(p)
      BY <1>1, <2>1
    <3>2. Urgency[p[j]] \in 0 .. k - 1 /\ (p \o l)[j] = p[j]
      BY <1>1, <3>1 DEF UpTo
    <3>3. 0 .. k - 1 \subseteq 0 .. k
      OBVIOUS
    <3>4. QED
      BY <3>2, <3>3
  <2>2. CASE j > Len(p)
    <3>1. PICK d \in 1 .. Len(l) : j = Len(p) + d
      <4>1. j - Len(p) \in 1 .. Len(l) /\ j = Len(p) + (j - Len(p))
        BY <1>1, <2>2
      <4>2. QED
        BY <4>1
    <3>2. (p \o l)[j] = l[d] /\ Urgency[l[d]] = k
      BY <1>1, <3>1
    <3>3. QED
      BY <3>2
  <2>3. QED
    BY <1>1, <2>1, <2>2
<1>3. QED
  BY <1>2 DEF UpTo

\* The urgencies of what the first lists hold.
LEMMA LaidUpTo ==
    ASSUME NEW c \in EightLists, ByUrgency(c), NEW h, Laid(h, c)
    PROVE  \A k \in 0 .. 7 : UpTo(h[k], k)
<1>1. /\ h \in [0 .. 7 -> Seq(Msgs)] /\ c \in [0 .. 7 -> Seq(Msgs)] /\ h[0] = c[0]
      /\ \A k \in 1 .. 7 : h[k] = h[k - 1] \o c[k]
  BY DEF Laid, EightLists
<1> DEFINE T == {k \in 0 .. 7 : ~UpTo(h[k], k)}
<1>2. 0 \notin T
  <2>1. \A j \in 1 .. Len(c[0]) : Urgency[c[0][j]] = 0
    BY DEF ByUrgency
  <2>2. UpTo(h[0], 0)
    BY <1>1, <2>1 DEF UpTo
  <2>3. QED
    BY <2>2
<1>3. ASSUME NEW k \in 1 .. 7, k \in T PROVE k - 1 \in T
  <2>1. k - 1 \in 0 .. 7 /\ k \in 0 .. 7 /\ k \in Nat \ {0}
    OBVIOUS
  <2>2. h[k - 1] \in Seq(Msgs) /\ c[k] \in Seq(Msgs) /\ h[k] = h[k - 1] \o c[k]
    BY <1>1, <2>1
  <2>3. \A j \in 1 .. Len(c[k]) : Urgency[c[k][j]] = k
    BY <2>1 DEF ByUrgency
  <2>4. UpTo(h[k - 1], k - 1) => UpTo(h[k], k)
    BY <2>1, <2>2, <2>3, UpToNext
  <2>5. QED
    BY <1>3, <2>1, <2>4
<1>4. T \in SUBSET (0 .. 7)
  OBVIOUS
<1> HIDE DEF T
<1>5. T = {}
  BY <1>2, <1>3, <1>4, ListByList
<1>6. QED
  BY <1>5 DEF T

\* The messages that m is put behind are the ones that go before it.
PutInOrder(p, r, i, m) ==
    /\ PutBehind(p, r, i, m)
    /\ \A j \in 1 .. Len(p) : j <= i <=> Urgency[p[j]] <= Urgency[m]

\* A list of messages that all go after m does not change its place.
LEMMA PutBefore ==
    ASSUME NEW p \in Seq(Msgs), NEW r \in Seq(Msgs), NEW i, NEW m \in Msgs, PutInOrder(p, r, i, m),
           NEW l \in Seq(Msgs), \A j \in 1 .. Len(l) : ~(Urgency[l[j]] <= Urgency[m])
    PROVE  PutInOrder(p \o l, r \o l, i, m)
<1>1. /\ Len(p \o l) = Len(p) + Len(l) /\ Len(p) \in Nat /\ Len(l) \in Nat
      /\ \A j \in 1 .. Len(p) : (p \o l)[j] = p[j]
      /\ \A j \in 1 .. Len(l) : (p \o l)[Len(p) + j] = l[j]
  BY EndToEnd
<1>2. PutBehind(p, r, i, m) /\ i \in 0 .. Len(p)
      /\ \A j \in 1 .. Len(p) : j <= i <=> Urgency[p[j]] <= Urgency[m]
  BY DEF PutInOrder, PutBehind
<1>3. PutBehind(p \o l, r \o l, i, m)
  BY <1>2, PutInLeft
<1>4. ASSUME NEW j \in 1 .. Len(p \o l) PROVE j <= i <=> Urgency[(p \o l)[j]] <= Urgency[m]
  <2>1. CASE j <= Len(p)
    <3>1. j \in 1 .. Len(p)
      BY <1>1, <2>1
    <3>2. QED
      BY <1>1, <1>2, <3>1
  <2>2. CASE j > Len(p)
    <3>1. PICK d \in 1 .. Len(l) : j = Len(p) + d
      <4>1. j - Len(p) \in 1 .. Len(l) /\ j = Len(p) + (j - Len(p))
        BY <1>1, <2>2
      <4>2. QED
        BY <4>1
    <3>2. (p \o l)[j] = l[d]
      BY <1>1, <3>1
    <3>3. ~(Urgency[(p \o l)[j]] <= Urgency[m])
      BY <3>2
    <3>4. ~(j <= i)
      BY <1>1, <1>2, <2>2
    <3>5. QED
      BY <3>3, <3>4
  <2>3. QED
    BY <1>1, <2>1, <2>2
<1>5. QED
  BY <1>3, <1>4 DEF PutInOrder

\* m at the end of its list, behind the lists before it.
LEMMA PutAtEnd ==
    ASSUME NEW p \in Seq(Msgs), NEW m \in Msgs, Urgency[m] \in Nat, UpTo(p, Urgency[m])
    PROVE  PutInOrder(p, Append(p, m), Len(p), m)
<1>1. PutBehind(p, Append(p, m), Len(p), m)
  BY PutLast
<1>2. ASSUME NEW j \in 1 .. Len(p) PROVE j <= Len(p) /\ Urgency[p[j]] <= Urgency[m]
  <2>1. Urgency[p[j]] \in 0 .. Urgency[m]
    BY DEF UpTo
  <2>2. QED
    BY <2>1
<1>3. QED
  BY <1>1, <1>2 DEF PutInOrder


\* Sequences are equal that have the same elements in the same places.
LEMMA SameSequence ==
    ASSUME NEW p \in Seq(Msgs), NEW r \in Seq(Msgs), Len(p) = Len(r),
           \A j \in 1 .. Len(p) : p[j] = r[j]
    PROVE  p = r
OBVIOUS

\* m behind the second of two sequences is behind both.
LEMMA AppendRight ==
    ASSUME NEW p \in Seq(Msgs), NEW l \in Seq(Msgs), NEW m \in Msgs
    PROVE  p \o Append(l, m) = Append(p \o l, m)
<1> DEFINE x == p \o Append(l, m)
           y == Append(p \o l, m)
<1>1. /\ Append(l, m) \in Seq(Msgs) /\ Len(Append(l, m)) = Len(l) + 1
      /\ \A j \in 1 .. Len(l) : Append(l, m)[j] = l[j]
      /\ Append(l, m)[Len(l) + 1] = m
      /\ Len(p) \in Nat /\ Len(l) \in Nat
  OBVIOUS
<1>2. /\ x \in Seq(Msgs) /\ Len(x) = Len(p) + Len(Append(l, m))
      /\ \A j \in 1 .. Len(p) : x[j] = p[j]
      /\ \A j \in 1 .. Len(Append(l, m)) : x[Len(p) + j] = Append(l, m)[j]
  BY <1>1, EndToEnd
<1>3. /\ p \o l \in Seq(Msgs) /\ Len(p \o l) = Len(p) + Len(l)
      /\ \A j \in 1 .. Len(p) : (p \o l)[j] = p[j]
      /\ \A j \in 1 .. Len(l) : (p \o l)[Len(p) + j] = l[j]
  BY EndToEnd
<1>4. /\ y \in Seq(Msgs) /\ Len(y) = Len(p \o l) + 1 /\ y[Len(p \o l) + 1] = m
      /\ \A j \in 1 .. Len(p \o l) : y[j] = (p \o l)[j]
  BY <1>3
<1> HIDE DEF x, y
<1>5. ASSUME NEW j \in 1 .. Len(x) PROVE x[j] = y[j]
  <2>1. CASE j <= Len(p)
    <3>1. j \in 1 .. Len(p) /\ j \in 1 .. Len(p \o l)
      BY <1>1, <1>2, <1>3, <2>1
    <3>2. x[j] = p[j] /\ y[j] = (p \o l)[j] /\ (p \o l)[j] = p[j]
      BY <1>2, <1>3, <1>4, <3>1
    <3>3. QED
      BY <3>2
  <2>2. CASE j > Len(p)
    <3>1. PICK d \in 1 .. Len(l) + 1 : j = Len(p) + d
      <4>1. j - Len(p) \in 1 .. Len(l) + 1 /\ j = Len(p) + (j - Len(p))
        BY <1>1, <1>2, <2>2
      <4>2. QED
        BY <4>1
    <3>2. x[j] = Append(l, m)[d]
      BY <1>1, <1>2, <3>1
    <3>3. CASE d = Len(l) + 1
      <4>1. j = Len(p \o l) + 1
        BY <1>1, <1>3, <3>1, <3>3
      <4>2. QED
        BY <1>1, <1>4, <3>2, <3>3, <4>1
    <3>4. CASE d # Len(l) + 1
      <4>1. d \in 1 .. Len(l) /\ j \in 1 .. Len(p \o l)
        BY <1>1, <1>3, <3>1, <3>4
      <4>2. y[j] = (p \o l)[Len(p) + d] /\ (p \o l)[Len(p) + d] = l[d]
        BY <1>3, <1>4, <3>1, <4>1
      <4>3. QED
        BY <1>1, <3>2, <4>1, <4>2
    <3>5. QED
      BY <3>3, <3>4
  <2>3. QED
    BY <1>1, <1>2, <2>1, <2>2
<1>6. Len(x) = Len(y)
  BY <1>1, <1>2, <1>3, <1>4
<1>7. x = y
  BY <1>2, <1>4, <1>5, <1>6, SameSequence
<1>8. QED
  BY <1>7 DEF x, y


\* _MsgQueuePut: m goes behind the messages that are as urgent, and before
\* the others.
LEMMA WholePut ==
    ASSUME NEW c \in EightLists, ByUrgency(c), NEW d \in EightLists, NEW m \in Msgs,
           NEW v \in 0 .. 7, v = Urgency[m], d[v] = Append(c[v], m),
           \A u \in 0 .. 7 : u # v => d[u] = c[u]
    PROVE  \E i : PutInOrder(Whole(c), Whole(d), i, m)
<1>1. PICK h : Laid(h, c) /\ h[7] = Whole(c)
  BY LaidExists
<1>2. PICK g : Laid(g, d) /\ g[7] = Whole(d)
  BY LaidExists
<1>3. /\ \A k \in 0 .. 7 : h[k] \in Seq(Msgs) /\ g[k] \in Seq(Msgs) /\ c[k] \in Seq(Msgs)
      /\ h[0] = c[0] /\ g[0] = d[0]
      /\ \A k \in 1 .. 7 : h[k] = h[k - 1] \o c[k] /\ g[k] = g[k - 1] \o d[k]
  BY <1>1, <1>2 DEF Laid, EightLists
<1>4. \A k \in 0 .. 7 : UpTo(h[k], k)
  BY <1>1, LaidUpTo
\* The lists before that of m are as they were.
<1>5. \A k \in 0 .. 7 : k < v => g[k] = h[k]
  <2> DEFINE T == {k \in 0 .. 7 : k < v /\ g[k] # h[k]}
  <2>1. 0 \notin T
    <3>1. 0 < v => d[0] = c[0]
      OBVIOUS
    <3>2. h[0] = c[0] /\ g[0] = d[0]
      BY <1>3
    <3>3. QED
      BY <3>1, <3>2
  <2>2. ASSUME NEW k \in 1 .. 7, k \in T PROVE k - 1 \in T
    <3>1. k - 1 \in 0 .. 7 /\ k \in 0 .. 7 /\ k < v /\ k - 1 < v /\ k # v
      BY <2>2
    <3>2. d[k] = c[k] /\ h[k] = h[k - 1] \o c[k] /\ g[k] = g[k - 1] \o d[k]
      BY <1>3, <3>1
    <3>3. g[k - 1] = h[k - 1] => g[k] = h[k]
      BY <3>2, Zenon
    <3>4. QED
      BY <2>2, <3>1, <3>3
  <2>3. T \in SUBSET (0 .. 7)
    OBVIOUS
  <2> HIDE DEF T
  <2>4. T = {}
    BY <2>1, <2>2, <2>3, ListByList
  <2>5. QED
    BY <2>4 DEF T
\* With its own list, m is the last.
<1>6. g[v] = Append(h[v], m)
  <2>1. CASE v = 0
    BY <1>3, <2>1
  <2>2. CASE v # 0
    <3>1. v \in 1 .. 7 /\ v - 1 \in 0 .. 7 /\ v - 1 < v
      BY <2>2
    <3>2. /\ g[v] = g[v - 1] \o d[v] /\ h[v] = h[v - 1] \o c[v] /\ g[v - 1] = h[v - 1]
          /\ h[v - 1] \in Seq(Msgs) /\ c[v] \in Seq(Msgs)
      BY <1>3, <1>5, <3>1
    <3>3. h[v - 1] \o Append(c[v], m) = Append(h[v - 1] \o c[v], m)
      BY <3>2, AppendRight
    <3>4. QED
      BY <3>2, <3>3, Zenon
  <2>3. QED
    BY <2>1, <2>2
<1>7. PutInOrder(h[v], g[v], Len(h[v]), m)
  <2>1. Urgency[m] \in Nat /\ UpTo(h[v], Urgency[m]) /\ h[v] \in Seq(Msgs)
    <3>1. v \in Nat
      OBVIOUS
    <3>2. UpTo(h[v], v) /\ h[v] \in Seq(Msgs)
      BY <1>3, <1>4
    <3>3. QED
      BY <3>1, <3>2
  <2>2. PutInOrder(h[v], Append(h[v], m), Len(h[v]), m)
    BY <2>1, PutAtEnd
  <2>3. QED
    BY <1>6, <2>2
\* The lists behind that of m go after it.
<1>8. \A k \in 0 .. 7 : v <= k => \E i : PutInOrder(h[k], g[k], i, m)
  <2> DEFINE T == {k \in 0 .. 7 : v <= k /\ ~ \E i : PutInOrder(h[k], g[k], i, m)}
  <2>1. 0 \notin T
    <3>1. SUFFICES ASSUME v <= 0 PROVE \E i : PutInOrder(h[0], g[0], i, m)
      OBVIOUS
    <3>2. v = 0
      BY <3>1
    <3>3. QED
      BY <1>7, <3>2
  <2>2. ASSUME NEW k \in 1 .. 7, k \in T PROVE k - 1 \in T
    <3>1. k - 1 \in 0 .. 7 /\ k \in 0 .. 7 /\ v <= k
      BY <2>2
    <3>2. k # v
      BY <1>7, <2>2
    <3>3. v <= k - 1 /\ ~(k <= v)
      BY <3>1, <3>2
    <3>4. d[k] = c[k] /\ h[k] = h[k - 1] \o c[k] /\ g[k] = g[k - 1] \o d[k]
      BY <1>3, <3>1, <3>2
    <3>5. /\ h[k - 1] \in Seq(Msgs) /\ g[k - 1] \in Seq(Msgs) /\ c[k] \in Seq(Msgs)
      BY <1>3, <3>1
    <3>6. \A j \in 1 .. Len(c[k]) : ~(Urgency[c[k][j]] <= Urgency[m])
      BY <3>1, <3>3 DEF ByUrgency
    <3>7. ASSUME NEW i, PutInOrder(h[k - 1], g[k - 1], i, m)
          PROVE  PutInOrder(h[k], g[k], i, m)
      <4>1. PutInOrder(h[k - 1] \o c[k], g[k - 1] \o c[k], i, m)
        BY <3>5, <3>6, <3>7, PutBefore
      <4>2. QED
        BY <3>4, <4>1, Zenon
    <3>8. QED
      BY <2>2, <3>1, <3>3, <3>7
  <2>3. T \in SUBSET (0 .. 7)
    OBVIOUS
  <2> HIDE DEF T
  <2>4. T = {}
    BY <2>1, <2>2, <2>3, ListByList
  <2>5. QED
    BY <2>4 DEF T
<1>9. QED
  <2>1. v <= 7 /\ 7 \in 0 .. 7
    OBVIOUS
  <2>2. QED
    BY <1>1, <1>2, <1>8, <2>1


\* What is taken from the first of two sequences is taken from both.
LEMMA TakeLeft ==
    ASSUME NEW p \in Seq(Msgs), NEW l \in Seq(Msgs), p # <<>>
    PROVE  p \o l # <<>> /\ Tail(p \o l) = Tail(p) \o l
<1> DEFINE x == Tail(p \o l)
           y == Tail(p) \o l
<1>1. /\ p \o l \in Seq(Msgs) /\ Len(p \o l) = Len(p) + Len(l)
      /\ Len(p) \in Nat \ {0} /\ Len(l) \in Nat
      /\ \A j \in 1 .. Len(p) : (p \o l)[j] = p[j]
      /\ \A j \in 1 .. Len(l) : (p \o l)[Len(p) + j] = l[j]
  BY EndToEnd
<1>2. p \o l # <<>>
  BY <1>1
<1>3. /\ x \in Seq(Msgs) /\ Len(x) = Len(p \o l) - 1
      /\ \A j \in 1 .. Len(x) : x[j] = (p \o l)[j + 1]
  BY <1>1, <1>2
<1>4. /\ Tail(p) \in Seq(Msgs) /\ Len(Tail(p)) = Len(p) - 1
      /\ \A j \in 1 .. Len(Tail(p)) : Tail(p)[j] = p[j + 1]
  OBVIOUS
<1>5. /\ y \in Seq(Msgs) /\ Len(y) = Len(Tail(p)) + Len(l)
      /\ \A j \in 1 .. Len(Tail(p)) : y[j] = Tail(p)[j]
      /\ \A j \in 1 .. Len(l) : y[Len(Tail(p)) + j] = l[j]
  BY <1>4, EndToEnd
<1> HIDE DEF x, y
<1>6. Len(x) = Len(y)
  BY <1>1, <1>3, <1>4, <1>5
<1>7. ASSUME NEW j \in 1 .. Len(x) PROVE x[j] = y[j]
  <2>1. CASE j <= Len(Tail(p))
    <3>1. j \in 1 .. Len(Tail(p)) /\ j + 1 \in 1 .. Len(p)
      BY <1>1, <1>3, <1>4, <2>1
    <3>2. x[j] = (p \o l)[j + 1] /\ (p \o l)[j + 1] = p[j + 1]
      BY <1>1, <1>3, <3>1
    <3>3. y[j] = Tail(p)[j] /\ Tail(p)[j] = p[j + 1]
      BY <1>4, <1>5, <3>1
    <3>4. QED
      BY <3>2, <3>3
  <2>2. CASE j > Len(Tail(p))
    <3>1. PICK d \in 1 .. Len(l) : j = Len(Tail(p)) + d /\ j + 1 = Len(p) + d
      <4>1. /\ j - Len(Tail(p)) \in 1 .. Len(l)
            /\ j = Len(Tail(p)) + (j - Len(Tail(p)))
            /\ j + 1 = Len(p) + (j - Len(Tail(p)))
        BY <1>1, <1>3, <1>4, <2>2
      <4>2. QED
        BY <4>1
    <3>2. x[j] = (p \o l)[Len(p) + d] /\ (p \o l)[Len(p) + d] = l[d]
      BY <1>1, <1>3, <3>1
    <3>3. y[j] = l[d]
      BY <1>5, <3>1
    <3>4. QED
      BY <3>2, <3>3
  <2>3. QED
    BY <1>3, <1>4, <2>1, <2>2
<1>8. x = y
  BY <1>3, <1>5, <1>6, <1>7, SameSequence
<1>9. QED
  BY <1>2, <1>8 DEF x, y

\* Nothing before a sequence.
LEMMA EmptyLeft ==
    ASSUME NEW l \in Seq(Msgs)
    PROVE  <<>> \o l = l
<1>1. <<>> \in Seq(Msgs) /\ Len(<<>>) = 0 /\ Len(l) \in Nat
  OBVIOUS
<1> DEFINE p == <<>>
           x == p \o l
<1>2. p \in Seq(Msgs) /\ Len(p) = 0
  BY <1>1
<1> HIDE DEF p
<1>3. x \in Seq(Msgs) /\ Len(x) = Len(p) + Len(l) /\ \A j \in 1 .. Len(l) : x[Len(p) + j] = l[j]
  BY <1>2, EndToEnd
<1> HIDE DEF x
<1>4. Len(x) = Len(l) /\ \A j \in 1 .. Len(x) : x[j] = l[j]
  BY <1>1, <1>2, <1>3
<1>5. x = l
  BY <1>3, <1>4, SameSequence
<1>6. QED
  BY <1>5 DEF x, p

\* Lists that are all empty hold nothing together.
LEMMA WholeEmpty ==
    ASSUME NEW c \in EightLists, \A u \in 0 .. 7 : c[u] = <<>>
    PROVE  Whole(c) = <<>>
<1>1. <<>> \in Seq(Msgs) /\ <<>> \o <<>> = <<>>
  <2>1. <<>> \in Seq(Msgs)
    OBVIOUS
  <2>2. QED
    BY <2>1, EmptyLeft
<1>2. /\ c[0] = <<>> /\ c[1] = <<>> /\ c[2] = <<>> /\ c[3] = <<>>
      /\ c[4] = <<>> /\ c[5] = <<>> /\ c[6] = <<>> /\ c[7] = <<>>
  OBVIOUS
<1>3. QED
  BY <1>1, <1>2, Zenon DEF Whole

\* _MsgQueueGet: the first message of the first list that has one is the
\* first of all.
LEMMA WholeGet ==
    ASSUME NEW c \in EightLists, NEW d \in EightLists, NEW v \in 0 .. 7,
           c[v] # <<>>, d[v] = Tail(c[v]), \A u \in 0 .. 7 : u # v => d[u] = c[u],
           \A u \in 0 .. 7 : u < v => c[u] = <<>>
    PROVE  Whole(c) # <<>> /\ Whole(d) = Tail(Whole(c))
<1>1. PICK h : Laid(h, c) /\ h[7] = Whole(c)
  BY LaidExists
<1>2. PICK g : Laid(g, d) /\ g[7] = Whole(d)
  BY LaidExists
<1>3. /\ \A k \in 0 .. 7 : /\ h[k] \in Seq(Msgs) /\ g[k] \in Seq(Msgs)
                           /\ c[k] \in Seq(Msgs) /\ d[k] \in Seq(Msgs)
      /\ h[0] = c[0] /\ g[0] = d[0]
      /\ \A k \in 1 .. 7 : h[k] = h[k - 1] \o c[k] /\ g[k] = g[k - 1] \o d[k]
  BY <1>1, <1>2 DEF Laid, EightLists
\* The lists before that one hold nothing.
<1>4. \A k \in 0 .. 7 : k < v => h[k] = <<>> /\ g[k] = <<>>
  <2> DEFINE T == {k \in 0 .. 7 : k < v /\ ~(h[k] = <<>> /\ g[k] = <<>>)}
  <2>1. 0 \notin T
    <3>1. 0 < v => d[0] = c[0] /\ c[0] = <<>>
      OBVIOUS
    <3>2. h[0] = c[0] /\ g[0] = d[0]
      BY <1>3
    <3>3. QED
      BY <3>1, <3>2
  <2>2. ASSUME NEW k \in 1 .. 7, k \in T PROVE k - 1 \in T
    <3>1. k - 1 \in 0 .. 7 /\ k \in 0 .. 7 /\ k < v /\ k - 1 < v /\ k # v
      BY <2>2
    <3>2. /\ c[k] = <<>> /\ d[k] = <<>> /\ c[k] \in Seq(Msgs)
          /\ h[k] = h[k - 1] \o c[k] /\ g[k] = g[k - 1] \o d[k]
      BY <1>3, <3>1
    <3>3. <<>> \o <<>> = <<>>
      BY <3>2, EmptyLeft
    <3>4. h[k - 1] = <<>> /\ g[k - 1] = <<>> => h[k] = <<>> /\ g[k] = <<>>
      BY <3>2, <3>3, Zenon
    <3>5. QED
      BY <2>2, <3>1, <3>4
  <2>3. T \in SUBSET (0 .. 7)
    OBVIOUS
  <2> HIDE DEF T
  <2>4. T = {}
    BY <2>1, <2>2, <2>3, ListByList
  <2>5. QED
    BY <2>4 DEF T
<1>5. h[v] = c[v] /\ g[v] = d[v]
  <2>1. CASE v = 0
    BY <1>3, <2>1
  <2>2. CASE v # 0
    <3>1. v \in 1 .. 7 /\ v - 1 \in 0 .. 7 /\ v - 1 < v
      BY <2>2
    <3>2. /\ g[v] = g[v - 1] \o d[v] /\ h[v] = h[v - 1] \o c[v]
          /\ h[v - 1] = <<>> /\ g[v - 1] = <<>> /\ c[v] \in Seq(Msgs) /\ d[v] \in Seq(Msgs)
      BY <1>3, <1>4, <3>1
    <3>3. <<>> \o c[v] = c[v] /\ <<>> \o d[v] = d[v]
      BY <3>2, EmptyLeft
    <3>4. QED
      BY <3>2, <3>3, Zenon
  <2>3. QED
    BY <2>1, <2>2
<1>6. \A k \in 0 .. 7 : v <= k => h[k] # <<>> /\ g[k] = Tail(h[k])
  <2> DEFINE T == {k \in 0 .. 7 : v <= k /\ ~(h[k] # <<>> /\ g[k] = Tail(h[k]))}
  <2>1. 0 \notin T
    <3>1. v <= 0 => v = 0
      OBVIOUS
    <3>2. v = 0 => h[0] # <<>> /\ g[0] = Tail(h[0])
      BY <1>5
    <3>3. QED
      BY <3>1, <3>2
  <2>2. ASSUME NEW k \in 1 .. 7, k \in T PROVE k - 1 \in T
    <3>1. k - 1 \in 0 .. 7 /\ k \in 0 .. 7 /\ v <= k
      BY <2>2
    <3>2. k # v
      BY <1>5, <2>2
    <3>3. v <= k - 1
      BY <3>1, <3>2
    <3>4. /\ d[k] = c[k] /\ h[k] = h[k - 1] \o c[k] /\ g[k] = g[k - 1] \o d[k]
          /\ h[k - 1] \in Seq(Msgs) /\ c[k] \in Seq(Msgs)
      BY <1>3, <3>1, <3>2
    <3>5. ASSUME h[k - 1] # <<>>, g[k - 1] = Tail(h[k - 1])
          PROVE  h[k] # <<>> /\ g[k] = Tail(h[k])
      <4>1. /\ h[k - 1] \o c[k] # <<>>
            /\ Tail(h[k - 1] \o c[k]) = Tail(h[k - 1]) \o c[k]
        BY <3>4, <3>5, TakeLeft
      <4>2. QED
        BY <3>4, <3>5, <4>1, Zenon
    <3>6. QED
      BY <2>2, <3>1, <3>3, <3>5
  <2>3. T \in SUBSET (0 .. 7)
    OBVIOUS
  <2> HIDE DEF T
  <2>4. T = {}
    BY <2>1, <2>2, <2>3, ListByList
  <2>5. QED
    BY <2>4 DEF T
<1>7. h[7] # <<>> /\ g[7] = Tail(h[7])
  <2>1. v <= 7 /\ 7 \in 0 .. 7
    OBVIOUS
  <2>2. QED
    BY <1>6, <2>1
<1>8. QED
  BY <1>1, <1>2, <1>7


\* The lists of the model are the eight lists.
LEMMA StoredIsWhole ==
    ASSUME NEW ls \in [Urgencies -> Seq(Msgs)]
    PROVE  /\ Parts(ls) \in EightLists
           /\ \A u \in Urgencies : u \in 0 .. 7 /\ Parts(ls)[u] = ls[u]
           /\ \A u \in 0 .. 7 : u \notin Urgencies => Parts(ls)[u] = <<>>
           /\ lists = ls => Stored = Whole(Parts(ls))
           /\ lists' = ls => Stored' = Whole(Parts(ls))
<1>1. \A u \in Urgencies : u \in 0 .. 7
  BY UrgencyAssumption DEF Urgencies
<1>2. Parts(ls) \in EightLists
  <2>1. \A u \in 0 .. 7 : (IF u \in Urgencies THEN ls[u] ELSE <<>>) \in Seq(Msgs)
    BY EmptyQueue
  <2>2. QED
    BY <2>1 DEF Parts, EightLists
<1>3. \A u \in 0 .. 7 : Parts(ls)[u] = IF u \in Urgencies THEN ls[u] ELSE <<>>
  BY DEF Parts
<1>4. ASSUME lists = ls PROVE Stored = Whole(Parts(ls))
  <2>1. \A u \in 0 .. 7 : ListOf(u) = Parts(ls)[u]
    BY <1>3, <1>4 DEF ListOf
  <2>2. /\ ListOf(0) = Parts(ls)[0] /\ ListOf(1) = Parts(ls)[1]
        /\ ListOf(2) = Parts(ls)[2] /\ ListOf(3) = Parts(ls)[3]
        /\ ListOf(4) = Parts(ls)[4] /\ ListOf(5) = Parts(ls)[5]
        /\ ListOf(6) = Parts(ls)[6] /\ ListOf(7) = Parts(ls)[7]
    BY <2>1
  <2>3. QED
    BY <2>2, Zenon DEF Stored, Whole
<1>5. ASSUME lists' = ls PROVE Stored' = Whole(Parts(ls))
  <2>1. \A u \in 0 .. 7 : ListOf(u)' = Parts(ls)[u]
    BY <1>3, <1>5 DEF ListOf
  <2>2. /\ ListOf(0)' = Parts(ls)[0] /\ ListOf(1)' = Parts(ls)[1]
        /\ ListOf(2)' = Parts(ls)[2] /\ ListOf(3)' = Parts(ls)[3]
        /\ ListOf(4)' = Parts(ls)[4] /\ ListOf(5)' = Parts(ls)[5]
        /\ ListOf(6)' = Parts(ls)[6] /\ ListOf(7)' = Parts(ls)[7]
    BY <2>1
  <2>3. QED
    BY <2>2, Zenon DEF Stored, Whole
<1>6. QED
  BY <1>1, <1>2, <1>3, <1>4, <1>5

\* Eight lists laid end to end are a sequence of messages.
LEMMA WholeIsSeq ==
    ASSUME NEW c \in EightLists
    PROVE  Whole(c) \in Seq(Msgs)
<1>1. PICK h : Laid(h, c) /\ h[7] = Whole(c)
  BY LaidExists
<1>2. QED
  BY <1>1 DEF Laid, EightLists

\* What the channel is made of: each message lies in the list of its urgency,
\* and the counter counts them all; a queue that was deleted holds none.
ChannelInv ==
    /\ ByUrgency(Parts(lists))
    /\ used => counter = Len(Stored)
    /\ ~used => Stored = <<>>

\* To insert is to put behind the messages before.
LEMMA InsertPuts ==
    ASSUME NEW p \in Seq(Msgs), NEW r, NEW i, NEW m \in Msgs, PutBehind(p, r, i, m)
    PROVE  i + 1 \in 1 .. Len(p) + 1 /\ r = InsertAt(p, i + 1, m)
<1>1. /\ r \in Seq(Msgs) /\ Len(r) = Len(p) + 1 /\ i \in 0 .. Len(p) /\ Len(p) \in Nat
      /\ \A j \in 1 .. i : r[j] = p[j]
      /\ r[i + 1] = m
      /\ \A j \in i + 1 .. Len(p) : r[j + 1] = p[j]
  BY DEF PutBehind
<1>2. PICK n \in 1 .. Len(p) + 1 : n = i + 1
  BY <1>1
<1> DEFINE x == InsertAt(p, n, m)
<1>3. /\ x \in Seq(Msgs) /\ Len(x) = Len(p) + 1
      /\ \A j \in 1 .. Len(p) + 1 :
            x[j] = IF j < n THEN p[j] ELSE IF j = n THEN m ELSE p[j - 1]
  BY <1>2, InsertAtElements
<1> HIDE DEF x
<1>4. ASSUME NEW j \in 1 .. Len(r) PROVE r[j] = x[j]
  <2>1. CASE j < i + 1
    <3>1. j \in 1 .. i /\ j \in 1 .. Len(p) + 1
      BY <1>1, <2>1
    <3>2. x[j] = p[j] /\ r[j] = p[j]
      BY <1>1, <1>2, <1>3, <2>1, <3>1
    <3>3. QED
      BY <3>2
  <2>2. CASE j = i + 1
    <3>1. x[i + 1] = m
      BY <1>1, <1>2, <1>3
    <3>2. QED
      BY <1>1, <2>2, <3>1
  <2>3. CASE j > i + 1
    <3>1. PICK d \in i + 1 .. Len(p) : d = j - 1 /\ j = d + 1
      <4>1. j - 1 \in i + 1 .. Len(p) /\ j = (j - 1) + 1
        BY <1>1, <2>3
      <4>2. QED
        BY <4>1
    <3>2. r[j] = p[d]
      BY <1>1, <3>1
    <3>3. x[j] = p[d]
      BY <1>1, <1>2, <1>3, <2>3, <3>1
    <3>4. QED
      BY <3>2, <3>3
  <2>4. QED
    BY <1>1, <2>1, <2>2, <2>3
<1>5. r = x
  BY <1>1, <1>3, <1>4, SameSequence
<1>6. QED
  BY <1>2, <1>5 DEF x


-----------------------------------------------------------------------------
(* The lists, the map and the gifts implement the channel. *)

\* _MsgQueuePut puts a message in its place of the channel.
LEMMA StoredPut ==
    ASSUME ListInv, ListInv', ByUrgency(Parts(lists)), NEW m \in Msgs, MsgQueuePut(m)
    PROVE  /\ ByUrgency(Parts(lists))'
           /\ Len(Stored') = Len(Stored) + 1
           /\ \E i \in 1 .. Len(Stored) + 1 :
                 /\ \A j \in DOMAIN Stored : j < i <=> Urgency[Stored[j]] <= Urgency[m]
                 /\ Stored' = InsertAt(Stored, i, m)
<1> DEFINE v == Urgency[m]
           c == Parts(lists)
           d == Parts(lists')
<1>1. /\ lists \in [Urgencies -> Seq(Msgs)] /\ lists' \in [Urgencies -> Seq(Msgs)]
      /\ lists' = [lists EXCEPT ![v] = Append(lists[v], m)]
  BY DEF ListInv, MsgQueuePut
<1>2. v \in Urgencies /\ v \in 0 .. 7
  BY UrgencyAssumption DEF Urgencies
<1>3. /\ c \in EightLists /\ d \in EightLists
      /\ Stored = Whole(c) /\ Stored' = Whole(d)
  BY <1>1, StoredIsWhole
<1>4. /\ \A u \in Urgencies : c[u] = lists[u] /\ d[u] = lists'[u]
      /\ \A u \in 0 .. 7 : u \notin Urgencies => c[u] = <<>> /\ d[u] = <<>>
  BY <1>1, StoredIsWhole
<1>5. ByUrgency(c)
  OBVIOUS
<1>6. v = Urgency[m]
  OBVIOUS
<1>7. ByUrgency(Parts(lists))' <=> ByUrgency(d)
  BY DEF ByUrgency, Parts
<1> HIDE DEF v, c, d
<1>8. d[v] = Append(c[v], m) /\ \A u \in 0 .. 7 : u # v => d[u] = c[u]
  <2>1. lists'[v] = Append(lists[v], m) /\ \A u \in Urgencies : u # v => lists'[u] = lists[u]
    BY <1>1, <1>2
  <2>2. QED
    BY <1>2, <1>4, <2>1
<1>9. ByUrgency(d)
  <2> SUFFICES ASSUME NEW k \in 0 .. 7, NEW j \in 1 .. Len(d[k]) PROVE Urgency[d[k][j]] = k
    BY DEF ByUrgency
  <2>1. c[k] \in Seq(Msgs)
    BY <1>3 DEF EightLists
  <2>2. \A n \in 1 .. Len(c[k]) : Urgency[c[k][n]] = k
    BY <1>5 DEF ByUrgency
  <2>3. CASE k # v
    BY <1>8, <2>2, <2>3
  <2>4. CASE k = v
    <3>1. d[k] = Append(c[k], m)
      BY <1>8, <2>4
    <3>2. CASE j = Len(c[k]) + 1
      <4>1. d[k][j] = m
        BY <2>1, <3>1, <3>2
      <4>2. QED
        BY <1>6, <2>4, <4>1
    <3>3. CASE j # Len(c[k]) + 1
      <4>1. j \in 1 .. Len(c[k]) /\ d[k][j] = c[k][j]
        BY <2>1, <3>1, <3>3
      <4>2. QED
        BY <2>2, <4>1
    <3>4. QED
      BY <3>2, <3>3
  <2>5. QED
    BY <2>3, <2>4
<1>10. PICK i : PutInOrder(Stored, Stored', i, m)
  BY <1>2, <1>3, <1>5, <1>6, <1>8, WholePut
<1>11. /\ Stored \in Seq(Msgs) /\ PutBehind(Stored, Stored', i, m)
       /\ Len(Stored') = Len(Stored) + 1 /\ i \in 0 .. Len(Stored) /\ Len(Stored) \in Nat
       /\ \A j \in 1 .. Len(Stored) : j <= i <=> Urgency[Stored[j]] <= Urgency[m]
  BY <1>3, <1>10, WholeIsSeq DEF PutInOrder, PutBehind
<1>12. i + 1 \in 1 .. Len(Stored) + 1 /\ Stored' = InsertAt(Stored, i + 1, m)
  BY <1>11, InsertPuts
<1>13. \A j \in DOMAIN Stored : j < i + 1 <=> Urgency[Stored[j]] <= Urgency[m]
  <2>1. DOMAIN Stored = 1 .. Len(Stored)
    BY <1>11
  <2>2. \A j \in 1 .. Len(Stored) : j < i + 1 <=> j <= i
    BY <1>11
  <2>3. QED
    BY <1>11, <2>1, <2>2
<1>14. QED
  BY <1>7, <1>9, <1>11, <1>12, <1>13

\* _MsgQueueGet takes the first message of the channel.
LEMMA StoredGet ==
    ASSUME ListInv, ListInv', used, counter > 0, ByUrgency(Parts(lists)), MsgQueueGet
    PROVE  /\ ByUrgency(Parts(lists))'
           /\ Stored # <<>> /\ Stored' = Tail(Stored)
<1> DEFINE v == FirstBit
           c == Parts(lists)
           d == Parts(lists')
<1>1. /\ lists \in [Urgencies -> Seq(Msgs)] /\ lists' \in [Urgencies -> Seq(Msgs)]
      /\ lists' = [lists EXCEPT ![v] = Tail(lists[v])]
      /\ map = {u \in Urgencies : lists[u] # <<>>}
  BY DEF ListInv, MsgQueueGet, CounterAndMapAgree
<1>2. v \in Urgencies /\ lists[v] # <<>> /\ \A j \in map : v <= j
  BY FirstBitFinds
<1>3. /\ c \in EightLists /\ d \in EightLists
      /\ Stored = Whole(c) /\ Stored' = Whole(d)
  BY <1>1, StoredIsWhole
<1>4. /\ \A u \in Urgencies : u \in 0 .. 7 /\ c[u] = lists[u] /\ d[u] = lists'[u]
      /\ \A u \in 0 .. 7 : u \notin Urgencies => c[u] = <<>> /\ d[u] = <<>>
  BY <1>1, StoredIsWhole
<1>5. ByUrgency(c)
  OBVIOUS
<1>6. ByUrgency(Parts(lists))' <=> ByUrgency(d)
  BY DEF ByUrgency, Parts
<1> HIDE DEF v, c, d
<1>7. v \in 0 .. 7
  BY <1>2, <1>4
<1>8. c[v] # <<>> /\ d[v] = Tail(c[v]) /\ \A u \in 0 .. 7 : u # v => d[u] = c[u]
  <2>1. lists'[v] = Tail(lists[v]) /\ \A u \in Urgencies : u # v => lists'[u] = lists[u]
    BY <1>1, <1>2
  <2>2. QED
    BY <1>2, <1>4, <2>1
<1>9. \A u \in 0 .. 7 : u < v => c[u] = <<>>
  <2> SUFFICES ASSUME NEW u \in 0 .. 7, u < v PROVE c[u] = <<>>
    OBVIOUS
  <2>1. ~(v <= u)
    BY <1>7
  <2>2. u \in Urgencies => lists[u] = <<>>
    BY <1>1, <1>2, <2>1
  <2>3. QED
    BY <1>4, <2>2
<1>10. Stored # <<>> /\ Stored' = Tail(Stored)
  BY <1>3, <1>7, <1>8, <1>9, WholeGet
<1>11. ByUrgency(d)
  <2> SUFFICES ASSUME NEW k \in 0 .. 7, NEW j \in 1 .. Len(d[k]) PROVE Urgency[d[k][j]] = k
    BY DEF ByUrgency
  <2>1. c[k] \in Seq(Msgs)
    BY <1>3 DEF EightLists
  <2>2. \A n \in 1 .. Len(c[k]) : Urgency[c[k][n]] = k
    BY <1>5 DEF ByUrgency
  <2>3. CASE k # v
    BY <1>8, <2>2, <2>3
  <2>4. CASE k = v
    <3>1. d[k] = Tail(c[k]) /\ c[k] # <<>>
      BY <1>8, <2>4
    <3>2. j + 1 \in 1 .. Len(c[k]) /\ d[k][j] = c[k][j + 1]
      BY <2>1, <3>1
    <3>3. QED
      BY <2>2, <3>2
  <2>5. QED
    BY <2>3, <2>4
<1>12. QED
  BY <1>6, <1>10, <1>11

\* _MsgQueueClear empties the channel.
LEMMA StoredClear ==
    ASSUME lists' = [u \in Urgencies |-> <<>>]
    PROVE  ByUrgency(Parts(lists))' /\ Stored' = <<>>
<1> DEFINE ls == [u \in Urgencies |-> <<>>]
           d == Parts(ls)
<1>1. ls \in [Urgencies -> Seq(Msgs)] /\ \A u \in Urgencies : ls[u] = <<>>
  BY EmptyQueue
<1>2. /\ d \in EightLists /\ Stored' = Whole(d)
      /\ \A u \in Urgencies : d[u] = ls[u]
      /\ \A u \in 0 .. 7 : u \notin Urgencies => d[u] = <<>>
  BY <1>1, StoredIsWhole
<1>3. \A u \in 0 .. 7 : d[u] = <<>>
  BY <1>1, <1>2
<1>4. ByUrgency(Parts(lists))' <=> ByUrgency(d)
  BY DEF ByUrgency, Parts
<1> HIDE DEF d
<1>5. Stored' = <<>>
  BY <1>2, <1>3, WholeEmpty
<1>6. ByUrgency(d)
  BY <1>3 DEF ByUrgency
<1>7. QED
  BY <1>4, <1>5, <1>6


\* What a step may do to the messages.
Stores == \E m \in Msgs :
    used /\ HasRoom /\ counter' = counter + 1 /\ MsgQueuePut(m) /\ UNCHANGED <<used, buffer>>

Takes ==
    used /\ counter > 0 /\ counter' = counter - 1 /\ MsgQueueGet /\ UNCHANGED <<used, buffer>>

Gives == \E x \in Msgs \union Notices :
    /\ used /\ waitQ["R"] # <<>>
    /\ buffer' = [buffer EXCEPT ![Head(waitQ["R"])] = x]
    /\ UNCHANGED evtVars

Returns == \E t \in Threads : buffer' = [buffer EXCEPT ![t] = Nothing] /\ UNCHANGED evtVars

Empties ==
    /\ MsgQueueClear
    /\ \/ used' /\ counter' = 0
       \/ used /\ ~used'
    /\ UNCHANGED buffer

Effect == Stores \/ Takes \/ Gives \/ Returns \/ Empties \/ UNCHANGED <<evtVars, buffer>>

\* A send stores its message or gives it.
LEMMA SendEffect ==
    ASSUME NEW t \in Threads, NEW m \in Msgs, NEW timeout, SendEnter(t, m, timeout)
    PROVE  Effect
<1>1. CASE SendInvalid(t)
  BY <1>1 DEF SendInvalid, Effect
<1>2. CASE SendGive(t, m, timeout)
  <2>1. Written(Head(waitQ["R"]), m) \in Msgs \union Notices
    BY DEF Written, Notices
  <2>2. Gives
    BY <1>2, <2>1 DEF SendGive, Gives
  <2>3. QED
    BY <2>2 DEF Effect
<1>3. CASE SendStore(t, m)
  <2>1. Stores
    BY <1>3 DEF SendStore, Stores
  <2>2. QED
    BY <2>1 DEF Effect
<1>4. CASE SendFull(t, m, timeout)
  BY <1>4 DEF SendFull, Effect
<1>5. QED
  BY <1>1, <1>2, <1>3, <1>4 DEF SendEnter

\* A receive takes a message or leaves everything where it is.
LEMMA ReceiveEffect ==
    ASSUME NEW t \in Threads, NEW isStrict, NEW timeout, ReceiveEnter(t, isStrict, timeout)
    PROVE  Effect
<1>1. CASE ReceiveInvalid(t) \/ ReceiveTooBig(t, isStrict)
  BY <1>1 DEF ReceiveInvalid, ReceiveTooBig, argVars, Effect
<1>2. CASE ReceiveTake(t, isStrict)
  <2>1. Takes
    BY <1>2 DEF ReceiveTake, Takes, argVars
  <2>2. QED
    BY <2>1 DEF Effect
<1>3. CASE ReceiveNone(t, isStrict, timeout)
  BY <1>3 DEF ReceiveNone, Effect
<1>4. QED
  BY <1>1, <1>2, <1>3 DEF ReceiveEnter

\* A broadcast or a flush gives the next receiver what it was called with.
LEMMA ReceiversEffect ==
    ASSUME used, NEW t \in Threads, NEW place, NEW m, place = "broadcast" => m \in Msgs,
           WakeReceivers(t, place, m), UNCHANGED evtVars
    PROVE  Effect
<1>1. CASE waitQ["R"] # <<>>
  <2>1. PICK x \in Msgs \union Notices :
           buffer' = [buffer EXCEPT ![Head(waitQ["R"])] = x]
    <3>1. (IF place = "broadcast" THEN Written(Head(waitQ["R"]), m) ELSE "EMPTY")
             \in Msgs \union Notices
      BY DEF Written, Notices
    <3>2. QED
      BY <1>1, <3>1 DEF WakeReceivers
  <2>2. Gives
    BY <1>1, <2>1 DEF Gives
  <2>3. QED
    BY <2>2 DEF Effect
<1>2. CASE waitQ["R"] = <<>>
  BY <1>2 DEF WakeReceivers, Effect
<1>3. QED
  BY <1>1, <1>2

\* Every step has one of the effects.
LEMMA StepEffect ==
    ASSUME IInv, [Next]_vars
    PROVE  Effect
<1>1. CoreInv
  BY DEF IInv
<1>2. CASE UNCHANGED vars
  BY <1>2 DEF vars, argVars, Effect
<1>3. ASSUME NEW t \in Threads, Create(t) \/ Delete(t) PROVE Effect
  <2>1. Empties
    BY <1>3 DEF Create, Delete, Empties, argVars
  <2>2. QED
    BY <2>1 DEF Effect
<1>4. ASSUME NEW t \in Threads, NEW m \in Msgs, NEW timeout \in Timeouts,
             Send(t, m, timeout)
      PROVE  Effect
  BY <1>4, SendEffect DEF Send
<1>5. ASSUME NEW t \in Threads, NEW isStrict \in BOOLEAN, NEW timeout \in Timeouts,
             Receive(t, isStrict, timeout)
      PROVE  Effect
  BY <1>5, ReceiveEffect DEF Receive
<1>6. ASSUME NEW t \in Threads, NEW m \in Msgs, Broadcast(t, m) PROVE Effect
  BY <1>6, ReceiversEffect DEF Broadcast
<1>7. ASSUME NEW t \in Threads, FlushReceive(t) PROVE Effect
  <2>1. "flushReceive" # "broadcast"
    OBVIOUS
  <2>2. QED
    BY <1>7, <2>1, ReceiversEffect DEF FlushReceive
<1>8. ASSUME NEW t \in Threads, FlushSend(t) PROVE Effect
  BY <1>8 DEF FlushSend, argVars, Effect
<1>9. ASSUME NEW t \in Threads, Clear(t) PROVE Effect
  <2>1. Empties
    BY <1>9 DEF Clear, Empties, argVars
  <2>2. QED
    BY <2>1 DEF Effect
<1>10. ASSUME NEW t \in Threads, Proceed(t) PROVE Effect
  <2>1. CASE \/ SendHigh(t) \/ SendWoken(t) \/ ReceiveHigh(t) \/ CallSignalled(t)
             \/ WakeHigh(t) \/ DeleteHigh(t) \/ DeleteNext(t)
    BY <2>1 DEF SendHigh, SendWoken, ReceiveHigh, CallSignalled, WakeHigh, DeleteHigh,
                DeleteNext, argVars, Effect
  <2>2. CASE ReceiveWoken(t)
    <3>1. Returns
      BY <2>2 DEF ReceiveWoken, Returns
    <3>2. QED
      BY <3>1 DEF Effect
  <2>3. CASE Again(t)
    <3>1. CASE call[t].q = "S" /\ SendEnter(t, sending[t], call[t].timeout)
      <4>1. sending[t] \in Msgs
        BY <1>1, <2>3, <3>1 DEF Again, CoreInv, SendingInv, NeedsMessage
      <4>2. QED
        BY <3>1, <4>1, SendEffect
    <3>2. CASE ReceiveEnter(t, t \in strict, call[t].timeout)
      BY <3>2, ReceiveEffect
    <3>3. QED
      BY <2>3, <3>1, <3>2 DEF Again
  <2>4. CASE WakeNext(t)
    <3>1. UNCHANGED evtVars
      BY <2>4 DEF WakeNext
    <3>2. CASE call[t].at = "wakeSenders" /\ WakeSenders(t) /\ UNCHANGED argVars
      BY <3>1, <3>2 DEF argVars, Effect
    <3>3. CASE /\ call[t].at \in {"broadcast", "flushReceive"}
               /\ WakeReceivers(t, call[t].at, sending[t])
      <4>1. call[t].at \in Inside /\ call[t].at # "delete"
        BY <3>3 DEF Inside
      <4>2. used
        BY <1>1, <4>1, InsideAlone
      <4>3. call[t].at = "broadcast" => sending[t] \in Msgs
        BY <1>1 DEF CoreInv, SendingInv, NeedsMessage
      <4>4. QED
        BY <3>1, <3>3, <4>2, <4>3, ReceiversEffect
    <3>4. QED
      BY <2>4, <3>2, <3>3 DEF WakeNext
  <2>5. QED
    BY <1>10, <2>1, <2>2, <2>3, <2>4 DEF Proceed
<1>11. ASSUME NEW t \in Threads, UNCHANGED <<evtVars, argVars>> PROVE Effect
  BY <1>11 DEF argVars, Effect
<1>12. ASSUME NEW m \in Msgs, IsrSend(m) PROVE Effect
  <2>1. CASE /\ waitQ["R"] # <<>>
             /\ buffer' = [buffer EXCEPT ![Head(waitQ["R"])] = m]
             /\ UNCHANGED <<counter, map, lists>>
    <3>1. Gives
      BY <1>12, <2>1 DEF IsrSend, Gives, evtVars
    <3>2. QED
      BY <3>1 DEF Effect
  <2>2. CASE HasRoom /\ counter' = counter + 1 /\ MsgQueuePut(m) /\ UNCHANGED buffer
    <3>1. Stores
      BY <1>12, <2>2 DEF IsrSend, Stores
    <3>2. QED
      BY <3>1 DEF Effect
  <2>3. QED
    BY <1>12, <2>1, <2>2 DEF IsrSend
<1>13. CASE IsrTryReceive
  <2>1. Takes
    BY <1>13 DEF IsrTryReceive, Takes, argVars
  <2>2. QED
    BY <2>1 DEF Effect
<1>14. QED
  BY <1>2, <1>3, <1>4, <1>5, <1>6, <1>7, <1>8, <1>9, <1>10, <1>11, <1>12, <1>13 DEF Next


\* Each effect is a step of the channel, or none.
LEMMA EffectOnChannel ==
    ASSUME IInv, IInv', ChannelInv, Effect
    PROVE  ChannelInv' /\ [Channel!Next]_(Channel!vars)
<1> USE Constants
<1>1. /\ CoreInv /\ ListInv /\ ListInv' /\ NoWaitBesideMessage /\ ArgTypes /\ LibInv(Places)
      /\ counter \in Nat /\ counter' \in Nat
  BY DEF IInv, CoreInv, ListInv
<1>2. /\ ByUrgency(Parts(lists))
      /\ used => counter = Len(Stored)
      /\ ~used => Stored = <<>>
  BY DEF ChannelInv
<1>3. Stored \in Seq(Msgs) /\ Stored' \in Seq(Msgs)
  BY <1>1, StoredIsWhole, WholeIsSeq DEF ListInv
<1>4. ASSUME UNCHANGED evtVars PROVE ChannelInv' /\ used' = used /\ Stored' = Stored
  <2>1. UNCHANGED <<used, counter, lists>>
    BY <1>4 DEF evtVars
  <2>2. Stored' = Stored
    BY <2>1 DEF Stored, ListOf
  <2>3. ByUrgency(Parts(lists))'
    <3>1. lists' = lists /\ ByUrgency(Parts(lists))
      BY <1>2, <2>1
    <3>2. QED
      BY <3>1, Zenon DEF ByUrgency, Parts
  <2>4. QED
    BY <1>2, <2>1, <2>2, <2>3 DEF ChannelInv
<1>5. CASE Stores
  <2>1. PICK m \in Msgs :
           /\ used /\ HasRoom /\ counter' = counter + 1 /\ MsgQueuePut(m)
           /\ UNCHANGED <<used, buffer>>
    BY <1>5 DEF Stores
  <2>2. /\ ByUrgency(Parts(lists))'
        /\ Len(Stored') = Len(Stored) + 1
        /\ \E i \in 1 .. Len(Stored) + 1 :
              /\ \A j \in DOMAIN Stored : j < i <=> Urgency[Stored[j]] <= Urgency[m]
              /\ Stored' = InsertAt(Stored, i, m)
    BY <1>1, <1>2, <2>1, StoredPut
  <2>3. used' /\ counter' = Len(Stored')
    BY <1>2, <2>1, <2>2
  <2>4. ChannelInv'
    BY <2>2, <2>3 DEF ChannelInv
  <2>5. Len(Stored) < MaxMsgs
    BY <1>2, <2>1 DEF HasRoom
  <2>6. Channel!Put(m)
    <3>1. \A i : Channel!InsertAt(Stored, i, m) = InsertAt(Stored, i, m)
      BY DEF Channel!InsertAt, InsertAt
    <3>2. QED
      BY <2>1, <2>2, <2>5, <3>1 DEF Channel!Put
  <2>7. QED
    BY <2>4, <2>6 DEF Channel!Next
<1>6. CASE Takes
  <2>1. /\ used /\ counter > 0 /\ counter' = counter - 1 /\ MsgQueueGet
        /\ UNCHANGED <<used, buffer>>
    BY <1>6 DEF Takes
  <2>2. ByUrgency(Parts(lists))' /\ Stored # <<>> /\ Stored' = Tail(Stored)
    BY <1>1, <1>2, <2>1, StoredGet
  <2>3. Len(Stored') = Len(Stored) - 1
    BY <1>3, <2>2
  <2>4. ChannelInv'
    BY <1>2, <2>1, <2>2, <2>3 DEF ChannelInv
  <2>5. Channel!Take
    BY <2>1, <2>2 DEF Channel!Take
  <2>6. QED
    BY <2>4, <2>5 DEF Channel!Next
<1>7. CASE Gives
  <2>1. PICK x \in Msgs \union Notices :
           /\ used /\ waitQ["R"] # <<>>
           /\ buffer' = [buffer EXCEPT ![Head(waitQ["R"])] = x]
           /\ UNCHANGED evtVars
    BY <1>7 DEF Gives
  <2>2. Stored = <<>>
    <3>1. counter = 0
      BY <1>1, <2>1 DEF NoWaitBesideMessage
    <3>2. Len(Stored) = 0
      BY <1>2, <2>1, <3>1
    <3>3. QED
      BY <1>3, <3>2
  <2>3. PICK h \in Threads : h = Head(waitQ["R"]) /\ h \in ToSet(waitQ["R"])
    <3>1. waitQ["R"] \in Seq(Threads)
      BY <1>1 DEF LibInv, LibTypeOK
    <3>2. QED
      BY <2>1, <3>1 DEF ToSet
  <2>4. h \in sem /\ h # picked
    BY <1>1, <2>3 DEF LibInv, QueueInv
  <2>5. buffer[h] = Nothing
    BY <1>1, <2>4, WaitersHaveNothing
  <2>6. used' = used /\ Stored' = Stored /\ ChannelInv'
    BY <1>4, <2>1
  <2>7. Channel!Hand(h, x)
    BY <2>1, <2>2, <2>3, <2>5, <2>6 DEF Channel!Hand
  <2>8. QED
    BY <2>6, <2>7 DEF Channel!Next
<1>8. CASE Returns
  <2>1. PICK t \in Threads : buffer' = [buffer EXCEPT ![t] = Nothing] /\ UNCHANGED evtVars
    BY <1>8 DEF Returns
  <2>2. used' = used /\ Stored' = Stored /\ ChannelInv'
    BY <1>4, <2>1
  <2>3. CASE buffer[t] = Nothing
    <3>1. buffer' = buffer
      BY <1>1, <2>1, <2>3 DEF ArgTypes
    <3>2. QED
      BY <2>2, <3>1 DEF Channel!vars
  <2>4. CASE buffer[t] # Nothing
    <3>1. Channel!Deliver(t)
      BY <2>1, <2>2, <2>4 DEF Channel!Deliver
    <3>2. QED
      BY <2>2, <3>1 DEF Channel!Next
  <2>5. QED
    BY <2>3, <2>4
<1>9. CASE Empties
  <2>1. ByUrgency(Parts(lists))' /\ Stored' = <<>> /\ Len(<<>>) = 0
    BY <1>9, StoredClear DEF Empties, MsgQueueClear
  <2>2. CASE used' /\ counter' = 0
    <3>1. ChannelInv'
      BY <2>1, <2>2 DEF ChannelInv
    <3>2. buffer' = buffer /\ used \in BOOLEAN /\ used' \in BOOLEAN /\ used' = TRUE
      <4>1. ArgTypes'
        BY DEF IInv, CoreInv
      <4>2. QED
        BY <1>1, <1>9, <2>2, <4>1 DEF Empties, ArgTypes
    <3>3. used => Channel!Clear
      BY <2>1, <3>2 DEF Channel!Clear
    <3>4. ~used => Channel!Create
      BY <1>2, <2>1, <3>2 DEF Channel!Create
    <3>5. QED
      BY <3>1, <3>3, <3>4 DEF Channel!Next
  <2>3. CASE used /\ ~used'
    <3>1. ChannelInv'
      BY <2>1, <2>3 DEF ChannelInv
    <3>2. buffer' = buffer /\ used' = FALSE
      <4>1. ArgTypes'
        BY DEF IInv, CoreInv
      <4>2. QED
        BY <1>9, <2>3, <4>1 DEF Empties, ArgTypes
    <3>3. Channel!Delete
      BY <2>1, <2>3, <3>2 DEF Channel!Delete
    <3>4. QED
      BY <3>1, <3>3 DEF Channel!Next
  <2>4. QED
    BY <1>9, <2>2, <2>3 DEF Empties
<1>10. CASE UNCHANGED <<evtVars, buffer>>
  BY <1>4, <1>10 DEF Channel!vars
<1>11. QED
  BY <1>5, <1>6, <1>7, <1>8, <1>9, <1>10 DEF Effect

\* Before the queue is made the channel is empty.
LEMMA InitChannel == Init => ChannelInv /\ Channel!Init
<1> SUFFICES ASSUME Init PROVE ChannelInv /\ Channel!Init
  OBVIOUS
<1>1. /\ used = FALSE /\ lists = [u \in Urgencies |-> <<>>]
      /\ buffer = [t \in Threads |-> Nothing]
  BY DEF Init
<1>2. lists \in [Urgencies -> Seq(Msgs)]
  BY <1>1, EmptyQueue
<1>3. /\ Parts(lists) \in EightLists /\ Stored = Whole(Parts(lists))
      /\ \A u \in Urgencies : Parts(lists)[u] = lists[u]
      /\ \A u \in 0 .. 7 : u \notin Urgencies => Parts(lists)[u] = <<>>
  BY <1>2, StoredIsWhole
<1>4. \A u \in 0 .. 7 : Parts(lists)[u] = <<>>
  BY <1>1, <1>3
<1>5. ByUrgency(Parts(lists)) /\ Stored = <<>>
  BY <1>3, <1>4, WholeEmpty DEF ByUrgency
<1>6. QED
  BY <1>1, <1>5 DEF ChannelInv, Channel!Init

\* The eight lists of API_MsgQueue..., the map over them and the gifts to
\* waiting receivers implement the bounded channel of MsgChannel: messages are
\* taken in order of urgency and, among equals, of arrival, none goes in when
\* EVENT_ulMaxCounter are stored, and no gift passes a stored one, for any
\* number of threads, messages and urgencies and any size of the queue.
THEOREM MsgQueueImplementsChannel == Spec => ImplementsChannel
<1>1. Init => IInv /\ ChannelInv /\ Channel!Init
  BY InitIInv, InitChannel
<1>2. IInv /\ ChannelInv /\ [Next]_vars =>
          IInv' /\ ChannelInv' /\ [Channel!Next]_(Channel!vars)
  BY NextPreserves, StepEffect, EffectOnChannel
<1>3. QED
  BY <1>1, <1>2, PTL DEF Spec, ImplementsChannel, Channel!Spec
=============================================================================
