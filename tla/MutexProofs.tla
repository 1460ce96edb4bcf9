----------------------------- MODULE MutexProofs -----------------------------
(***************************************************************************)
(* The safety of the mutexes, for any number of mutexes and threads, any   *)
(* options and priorities.  What the owner fields say is inductive only    *)
(* with what the threads on their way through a call rely on: who is in    *)
(* the kernel and with which mutex (KernelInv), whose wait ended with the  *)
(* mutex in its hand (OwnerInv), and what the event library promises       *)
(* (LibInv).                                                               *)
(***************************************************************************)
EXTENDS Mutex, EventLibProofs

Posting(t, m)  == call[t].at = "post" /\ call[t].q = m
Deleting(t, m) == call[t].at = "delete" /\ call[t].q = m

\* Who is inside the kernel has its mutex to itself.
KernelInv ==
    /\ \A t \in Threads : klock = t <=> call[t].at \in {"post", "delete"}
    /\ \A t \in Threads : \A m \in Mutexes :
          Posting(t, m) => /\ m \in used /\ owner[m] = t /\ depth[m] = 0
                           /\ picked # NoThread /\ call[picked].q = m
    /\ \A t \in Threads : call[t].at \in {"post", "delete"} => call[t].q \in Mutexes
    /\ \A t \in Threads : call[t].at = "delete" => call[t].q \notin used
    /\ \A m \in Mutexes \ used :
          waitQ[m] # <<>> \/ owner[m] # NoThread =>
              \E t \in Threads : Deleting(t, m)

\* A mutex that exists is free, or its owner knows that it is, or will know.
Known(m, t) ==
    /\ holds[m][t] = IF \/ m \notin used \/ owner[m] # t
                        \/ Arriving(t, m) \/ Posting(t, m)
                     THEN 0 ELSE depth[m] + 1
    /\ Arriving(t, m) => m \in used /\ owner[m] = t /\ depth[m] = 0
    /\ /\ m \in used /\ owner[m] = t /\ call[t].q = m
       /\ call[t].at \in {"waiting", "again"}
       => option[m].kind = "NORMAL" \/ Arriving(t, m)

Consistent(m) ==
    m \in used => /\ m \in free <=> owner[m] = NoThread
                  /\ m \in free => waitQ[m] = <<>> /\ depth[m] = 0

OwnerInv == \A m \in Mutexes : Consistent(m) /\ \A t \in Threads : Known(m, t)

\* A thread whose mutex was deleted before it could return success.
VoidedInv ==
    \A t \in voided :
        /\ call[t].at = "waiting"
        /\ t \notin sem /\ t \notin timedOut /\ t \notin deleted /\ t \notin signalled

\* Each thread that has left a mutex undoes one protection, its own or that
\* of the owner a mutex was deleted under.
UnsafeInv == \A t \in Threads : unsafe[t] # NoThread <=> call[t].at = "unsafe"

IInv ==
    /\ TypeOK
    /\ QueueInv
    /\ FlagInv
    /\ KernelInv
    /\ OwnerInv
    /\ VoidedInv
    /\ UnsafeInv
-----------------------------------------------------------------------------
\* What the proofs use of the constants.
LEMMA Constants ==
    /\ NoThread \notin Threads /\ NoQueue \notin Queues
    /\ BasePrio \in [Threads -> 0 .. 255] /\ Ceiling \in 0 .. 255 /\ MaxDepth \in Nat
    /\ Options \subseteq [kind : {"NORMAL", "ERRORCHECK", "RECURSIVE"}, inherit : BOOLEAN]
BY ThreadsAssumption, QueuesAssumption, BasePrioAssumption, OptionsAssumption,
   CeilingAssumption, MaxDepthAssumption

\* The invariant contains what the lemmas on the event library need.
LEMMA LibPart == IInv => /\ LibInv(Places) /\ TypeOK /\ KernelInv /\ OwnerInv
                         /\ VoidedInv /\ UnsafeInv
BY DEF IInv, LibInv, TypeOK

\* The initial state satisfies the invariant.
LEMMA InitIInv == Init => IInv
<1> SUFFICES ASSUME Init PROVE IInv
  OBVIOUS
<1> USE Constants
<1>1. LibInv(Places)
  BY LibInitInv DEF Init, Places
<1>2. TypeOK
  BY <1>1 DEF Init, TypeOK, LibInv, Mutexes, Lowest
<1>3. KernelInv
  BY DEF Init, LibInit, Idle, KernelInv, Posting, Deleting, Mutexes
<1>4. OwnerInv
  <2>1. \A t \in Threads : call[t].at = "idle"
    BY DEF Init, LibInit, Idle
  <2>2. \A m \in Mutexes, t \in Threads : ~Arriving(t, m) /\ holds[m][t] = 0
    BY <2>1 DEF Init, Arriving
  <2>3. used = {}
    BY DEF Init
  <2>4. QED
    BY <2>2, <2>3 DEF OwnerInv, Known, Consistent
<1>5. VoidedInv /\ UnsafeInv
  BY DEF Init, LibInit, Idle, VoidedInv, UnsafeInv
<1>6. QED
  BY <1>1, <1>2, <1>3, <1>4, <1>5 DEF IInv, LibInv

\* One entry of holds changes.
LEMMA HoldsEntry ==
    ASSUME holds \in [Mutexes -> [Threads -> Nat]], NEW m \in Mutexes,
           NEW t \in Threads, NEW v \in Nat,
           holds' = [holds EXCEPT ![m][t] = v]
    PROVE  /\ holds' \in [Mutexes -> [Threads -> Nat]]
           /\ \A n \in Mutexes, u \in Threads :
                 holds'[n][u] = IF n = m /\ u = t THEN v ELSE holds[n][u]
OBVIOUS

\* A call of t that does not end in success ends, or starts again.
LEMMA StepAsidePreserves ==
    ASSUME IInv, NEW t \in Threads, NEW c, Moves(Places, t, c),
           call[t].at \in {"idle", "again", "waiting"}, t \notin sem,
           \A m \in Mutexes : ~Arriving(t, m),
           c.at = "idle" \/ (/\ call[t].at = "waiting" /\ c.at = "again"
                             /\ c.q = call[t].q),
           signalled' \subseteq signalled, t \notin signalled',
           \A u \in Threads : u # t => (u \in signalled' <=> u \in signalled),
           voided' = voided \ {t},
           UNCHANGED <<waitQ, sem, delayed, timedOut, deleted, klock, picked, evtVars,
                       prio, safe, unsafe, holds, leaked>>
    PROVE  IInv'
<1> USE Constants
<1>1. LibInv(Places) /\ TypeOK /\ KernelInv /\ OwnerInv /\ VoidedInv /\ UnsafeInv
  BY LibPart
<1>2. /\ call' \in [Threads -> Calls(Places)]
      /\ call'[t] = c
      /\ \A x \in Threads : x # t => call'[x] = call[x]
  BY <1>1, MoveEffect DEF LibInv
<1>3. LibInv(Places)'
  BY <1>1, MoveKeeps DEF LibInv, LibTypeOK, FlagInv
<1>4. TypeOK'
  BY <1>1, <1>3 DEF TypeOK, LibInv, evtVars
<1>5. \A u \in Threads : \A m \in Mutexes :
          /\ Arriving(u, m)' <=> Arriving(u, m)
          /\ Posting(u, m)' <=> Posting(u, m)
          /\ Deleting(u, m)' <=> Deleting(u, m)
  BY <1>2 DEF Arriving, Posting, Deleting
<1>6. \A u \in Threads : call'[u].at \in {"post", "delete"} <=>
                         call[u].at \in {"post", "delete"}
  BY <1>2
<1>7. KernelInv'
  <2>1. picked # NoThread => call'[picked] = call[picked]
    BY <1>1, <1>2 DEF LibInv, FlagInv, LibTypeOK
  <2>2. QED
    BY <1>1, <1>2, <1>5, <1>6, <2>1 DEF KernelInv, evtVars
<1>8. OwnerInv'
  <2> SUFFICES ASSUME NEW m \in Mutexes, NEW u \in Threads,
                      m \in used, owner[m] = u, call'[u].q = m,
                      call'[u].at \in {"waiting", "again"}
               PROVE  option[m].kind = "NORMAL" \/ Arriving(u, m)'
    BY <1>1, <1>5 DEF OwnerInv, Known, Consistent, evtVars
  <2>1. CASE u = t
    BY <1>1, <1>2, <2>1 DEF OwnerInv, Known
  <2>2. CASE u # t
    BY <1>1, <1>2, <1>5, <2>2 DEF OwnerInv, Known
  <2>3. QED
    BY <2>1, <2>2
<1>9. VoidedInv'
  BY <1>1, <1>2 DEF VoidedInv, TypeOK
<1>10. UnsafeInv'
  BY <1>1, <1>2 DEF UnsafeInv
<1>11. QED
  BY <1>3, <1>4, <1>7, <1>8, <1>9, <1>10 DEF IInv, LibInv

\* Outside of the kernel no hand-over and no deletion is under way.
LEMMA Outside ==
    ASSUME IInv, klock = NoThread
    PROVE  /\ picked = NoThread
           /\ \A u \in Threads : call[u].at # "post" /\ call[u].at # "delete"
           /\ \A m \in Mutexes \ used : waitQ[m] = <<>> /\ owner[m] = NoThread
BY Constants DEF IInv, FlagInv, KernelInv, Deleting

\* A thread that does not wait returns: what that says of the others.
LEMMA ReturnEffect ==
    ASSUME IInv, NEW t \in Threads, call[t].at # "waiting", Return(t),
           klock = NoThread, UNCHANGED <<klock, picked, waitVars, voided>>
    PROVE  /\ LibInv(Places)'
           /\ call'[t] = Idle /\ t \notin sem
           /\ \A x \in Threads : x # t => call'[x] = call[x]
           /\ \A x \in Threads : \A n \in Mutexes :
                 Arriving(x, n)' <=> Arriving(x, n)
           /\ \A n \in Mutexes : ~Arriving(t, n)
<1>1. LibInv(Places)
  BY LibPart
<1>2. Moves(Places, t, Idle)
  BY ReturnMoves DEF Places
<1>3. t \notin sem /\ t \notin signalled
  BY <1>1 DEF LibInv, FlagInv
<1>4. klock' \in Threads \union {NoThread} /\ (klock' = NoThread => picked = NoThread)
  BY <1>1, Outside DEF LibInv, LibTypeOK
<1>5. LibInv(Places)'
  BY <1>1, <1>2, <1>3, <1>4, MoveKeeps DEF waitVars
<1>6. call'[t] = Idle /\ \A x \in Threads : x # t => call'[x] = call[x]
  BY <1>1, <1>2, MoveEffect DEF LibInv
<1>7. QED
  BY <1>3, <1>5, <1>6 DEF Arriving, waitVars, Idle

-----------------------------------------------------------------------------
(* Every action preserves the invariant. *)

\* Create takes a block on whose queue nobody is left.
LEMMA CreatePreserves ==
    ASSUME IInv, NEW t \in Threads, NEW m \in Mutexes, NEW opt \in Options,
           Create(t, m, opt)
    PROVE  IInv'
<1> USE Constants
<1>1. LibInv(Places) /\ TypeOK /\ KernelInv /\ OwnerInv /\ VoidedInv /\ UnsafeInv
  BY LibPart
<1>2. /\ call[t].at = "idle" /\ klock = NoThread /\ m \notin used
      /\ used' = used \union {m} /\ option' = [option EXCEPT ![m] = opt]
      /\ free' = free \union {m} /\ saved' = [saved EXCEPT ![m] = Lowest]
      /\ depth' = [depth EXCEPT ![m] = 0] /\ owner' = [owner EXCEPT ![m] = NoThread]
      /\ Return(t)
      /\ UNCHANGED <<sem, delayed, timedOut, deleted, signalled, klock, picked,
                     prio, safe, unsafe, holds, voided, leaked>>
  BY DEF Create, Caller, histVars
<1>3. /\ \A u \in Threads : call[u].at # "post" /\ call[u].at # "delete"
      /\ \A n \in Mutexes \ used : waitQ[n] = <<>> /\ owner[n] = NoThread
  BY <1>2, Outside
<1>4. waitQ' = waitQ
  <2>1. waitQ \in [Queues -> Seq(Threads)] /\ waitQ[m] = <<>> /\ m \in Queues
    BY <1>1, <1>2, <1>3 DEF LibInv, LibTypeOK, Mutexes
  <2>2. waitQ' = [waitQ EXCEPT ![m] = <<>>]
    BY DEF Create
  <2>3. QED
    BY <2>1, <2>2
<1>5. /\ LibInv(Places)'
      /\ call'[t] = Idle
      /\ \A x \in Threads : x # t => call'[x] = call[x]
      /\ \A x \in Threads : \A n \in Mutexes : Arriving(x, n)' <=> Arriving(x, n)
  BY <1>2, <1>4, ReturnEffect DEF waitVars
<1>6. TypeOK'
  BY <1>1, <1>2, <1>5 DEF TypeOK, LibInv, Lowest, Mutexes
<1>7. /\ \A u \in Threads : call'[u].at # "post" /\ call'[u].at # "delete"
      /\ \A u \in Threads : \A n \in Mutexes : ~Posting(u, n) /\ ~Posting(u, n)'
  BY <1>3, <1>5 DEF Idle, Posting
<1>8. KernelInv'
  <2>1. \A n \in Mutexes \ used' : waitQ'[n] = <<>> /\ owner'[n] = NoThread
    BY <1>1, <1>2, <1>3, <1>4 DEF TypeOK
  <2>2. \A u \in Threads : klock' # u
    BY <1>2
  <2>3. QED
    BY <1>7, <2>1, <2>2 DEF KernelInv
<1>9. OwnerInv'
  <2> SUFFICES ASSUME NEW n \in Mutexes
               PROVE  Consistent(n)' /\ \A u \in Threads : Known(n, u)'
    BY DEF OwnerInv
  <2>1. CASE n = m
    <3>1. /\ owner'[n] = NoThread /\ depth'[n] = 0 /\ n \in free' /\ waitQ'[n] = <<>>
          /\ n \in Mutexes \ used
      BY <1>1, <1>2, <1>3, <1>4, <2>1 DEF TypeOK
    <3>2. \A u \in Threads : holds'[n][u] = 0 /\ ~Arriving(u, n)
      BY <1>1, <1>2, <2>1 DEF OwnerInv, Known
    <3>3. QED
      BY <3>1, <3>2, <1>5 DEF Known, Consistent
  <2>2. CASE n # m
    <3>1. /\ owner'[n] = owner[n] /\ depth'[n] = depth[n] /\ option'[n] = option[n]
          /\ n \in used' <=> n \in used
          /\ n \in free' <=> n \in free
      BY <1>1, <1>2, <2>2 DEF TypeOK
    <3>2. QED
      BY <3>1, <1>1, <1>2, <1>4, <1>5, <1>7 DEF OwnerInv, Known, Consistent, Idle
  <2>3. QED
    BY <2>1, <2>2
<1>10. VoidedInv'
  BY <1>1, <1>2, <1>5 DEF VoidedInv, TypeOK
<1>11. UnsafeInv'
  BY <1>1, <1>2, <1>5 DEF UnsafeInv, Idle
<1>12. QED
  BY <1>5, <1>6, <1>8, <1>9, <1>10, <1>11 DEF IInv, LibInv

\* A call that changes nothing but ends.
LEMMA RefusedPreserves ==
    ASSUME IInv, NEW t \in Threads, call[t].at \in {"idle", "again"},
           klock = NoThread, Return(t), holds' = holds,
           UNCHANGED <<waitVars, klock, picked, evtVars, prio, safe, unsafe, voided,
                       leaked>>
    PROVE  IInv'
<1>1. LibInv(Places) /\ VoidedInv
  BY LibPart
<1>2. Moves(Places, t, Idle)
  BY ReturnMoves DEF Places
<1>3. t \notin sem /\ t \notin signalled /\ t \notin voided
  BY <1>1 DEF LibInv, FlagInv, VoidedInv
<1>4. \A m \in Mutexes : ~Arriving(t, m)
  BY DEF Arriving
<1>5. voided' = voided \ {t} /\ signalled' = signalled
  BY <1>3 DEF waitVars
<1>6. QED
  BY <1>2, <1>3, <1>4, <1>5, StepAsidePreserves DEF waitVars, Idle

\* What is known of a mutex and a thread stays known when the step is about
\* other ones.
LEMMA OwnerFrame ==
    ASSUME NEW n \in Mutexes, NEW u \in Threads, Known(n, u),
           owner'[n] = owner[n], depth'[n] = depth[n], option'[n] = option[n],
           n \in used' <=> n \in used, holds'[n][u] = holds[n][u],
           Arriving(u, n)' <=> Arriving(u, n), Posting(u, n)' <=> Posting(u, n),
           call'[u].q = n /\ call'[u].at \in {"waiting", "again"} =>
               call[u].q = n /\ call[u].at \in {"waiting", "again"}
    PROVE  Known(n, u)'
BY DEF Known

\* Nobody had the mutex, so nobody relied on it.
LEMMA PendTakePreserves ==
    ASSUME IInv, NEW t \in Threads, NEW m \in Mutexes,
           call[t].at \in {"idle", "again"}, klock = NoThread, PendTake(t, m)
    PROVE  IInv'
<1> USE Constants
<1>1. LibInv(Places) /\ TypeOK /\ KernelInv /\ OwnerInv /\ VoidedInv /\ UnsafeInv
  BY LibPart
<1>2. /\ m \in used /\ m \in free /\ free' = free \ {m}
      /\ saved' = [saved EXCEPT ![m] = prio[t]] /\ owner' = [owner EXCEPT ![m] = t]
      /\ safe' = [safe EXCEPT ![t] = @ + 1]
      /\ Return(t)
      /\ holds' = [holds EXCEPT ![m][t] = holds[m][t] + 1]
      /\ UNCHANGED <<waitVars, klock, picked, used, option, depth, prio, unsafe,
                     voided, leaked>>
  BY DEF PendTake, Returned
<1>3. \A u \in Threads : call[u].at # "post" /\ call[u].at # "delete"
  BY Outside
<1>4. /\ LibInv(Places)'
      /\ call'[t] = Idle
      /\ \A x \in Threads : x # t => call'[x] = call[x]
      /\ \A x \in Threads : \A n \in Mutexes : Arriving(x, n)' <=> Arriving(x, n)
      /\ \A n \in Mutexes : ~Arriving(t, n)
  BY <1>2, ReturnEffect
<1>5. /\ holds' \in [Mutexes -> [Threads -> Nat]]
      /\ \A n \in Mutexes, u \in Threads :
            holds'[n][u] = IF n = m /\ u = t THEN holds[m][t] + 1 ELSE holds[n][u]
  <2>1. holds \in [Mutexes -> [Threads -> Nat]] /\ holds[m][t] + 1 \in Nat
    BY <1>1 DEF TypeOK
  <2>2. QED
    BY <1>2, <2>1, HoldsEntry
<1>6. TypeOK'
  BY <1>1, <1>2, <1>4, <1>5 DEF TypeOK, LibInv, Lowest
<1>7. /\ \A u \in Threads : call'[u].at # "post" /\ call'[u].at # "delete"
      /\ \A u \in Threads : \A n \in Mutexes : ~Posting(u, n) /\ ~Posting(u, n)'
  BY <1>3, <1>4 DEF Idle, Posting
<1>8. KernelInv'
  <2>1. \A n \in Mutexes \ used' : waitQ'[n] = <<>> /\ owner'[n] = NoThread
    BY <1>1, <1>2, Outside DEF TypeOK, waitVars
  <2>2. \A u \in Threads : klock' # u
    BY <1>2
  <2>3. QED
    BY <1>7, <2>1, <2>2 DEF KernelInv
<1>9. OwnerInv'
  <2>0. Consistent(m) /\ owner[m] = NoThread /\ depth[m] = 0
    BY <1>1, <1>2 DEF OwnerInv, Consistent
  <2>1. \A n \in Mutexes : n # m => owner'[n] = owner[n]
    BY <1>1, <1>2 DEF TypeOK
  <2>2. owner'[m] = t
    BY <1>1, <1>2 DEF TypeOK
  <2>3. ASSUME NEW n \in Mutexes PROVE Consistent(n)'
    BY <1>1, <1>2, <2>0, <2>1, <2>2 DEF OwnerInv, Consistent, waitVars
  <2>4. ASSUME NEW n \in Mutexes, NEW u \in Threads PROVE Known(n, u)'
    <3>1. Known(n, u)
      BY <1>1 DEF OwnerInv
    <3>2. CASE n # m
      <4>1. /\ owner'[n] = owner[n] /\ holds'[n][u] = holds[n][u]
            /\ depth' = depth /\ option' = option /\ used' = used
        BY <2>1, <3>2, <1>2, <1>5
      <4>2. call'[u].q = n /\ call'[u].at \in {"waiting", "again"} =>
               call[u].q = n /\ call[u].at \in {"waiting", "again"}
        BY <1>4 DEF Idle
      <4>3. QED
        BY <3>1, <4>1, <4>2, <1>4, <1>7, OwnerFrame
    <3>3. CASE n = m /\ u # t
      BY <3>1, <3>3, <2>0, <2>2, <1>2, <1>4, <1>5, <1>7 DEF Known
    <3>4. CASE n = m /\ u = t
      BY <3>1, <3>4, <2>0, <2>2, <1>2, <1>4, <1>5, <1>7 DEF Known, Idle
    <3>5. QED
      BY <3>2, <3>3, <3>4
  <2>5. QED
    BY <2>3, <2>4 DEF OwnerInv
<1>10. VoidedInv'
  BY <1>1, <1>2, <1>4 DEF VoidedInv, TypeOK, waitVars
<1>11. UnsafeInv'
  BY <1>1, <1>2, <1>4 DEF UnsafeInv, Idle
<1>12. QED
  BY <1>4, <1>6, <1>8, <1>9, <1>10, <1>11 DEF IInv, LibInv

\* A caller comes back from a call that changed at most one mutex of its own:
\* its depth, and how deep the caller holds it.
LEMMA OwnDepthPreserves ==
    ASSUME IInv, NEW t \in Threads, NEW m \in Mutexes, NEW d \in 0 .. MaxDepth,
           call[t].at = "idle", klock = NoThread, Return(t),
           m \in used, owner[m] = t,
           depth' = [depth EXCEPT ![m] = d],
           holds' = [holds EXCEPT ![m][t] = d + 1],
           UNCHANGED <<waitVars, klock, picked, used, option, free, saved, owner, prio,
                       safe, unsafe, voided, leaked>>
    PROVE  IInv'
<1> USE Constants
<1>1. LibInv(Places) /\ TypeOK /\ KernelInv /\ OwnerInv /\ VoidedInv /\ UnsafeInv
  BY LibPart
<1>3. \A u \in Threads : call[u].at # "post" /\ call[u].at # "delete"
  BY Outside
<1>4. /\ LibInv(Places)'
      /\ call'[t] = Idle
      /\ \A x \in Threads : x # t => call'[x] = call[x]
      /\ \A x \in Threads : \A n \in Mutexes : Arriving(x, n)' <=> Arriving(x, n)
      /\ \A n \in Mutexes : ~Arriving(t, n)
  BY ReturnEffect
<1>5. /\ holds' \in [Mutexes -> [Threads -> Nat]]
      /\ \A n \in Mutexes, u \in Threads :
            holds'[n][u] = IF n = m /\ u = t THEN d + 1 ELSE holds[n][u]
  BY <1>1, HoldsEntry DEF TypeOK
<1>6. TypeOK'
  BY <1>1, <1>4, <1>5 DEF TypeOK, LibInv
<1>7. /\ \A u \in Threads : call'[u].at # "post" /\ call'[u].at # "delete"
      /\ \A u \in Threads : \A n \in Mutexes : ~Posting(u, n) /\ ~Posting(u, n)'
  BY <1>3, <1>4 DEF Idle, Posting
<1>8. KernelInv'
  <2>1. \A n \in Mutexes \ used' : waitQ'[n] = <<>> /\ owner'[n] = NoThread
    BY Outside DEF waitVars
  <2>2. \A u \in Threads : klock' # u
    OBVIOUS
  <2>3. QED
    BY <1>7, <2>1, <2>2 DEF KernelInv
<1>9. OwnerInv'
  <2>1. depth'[m] = d /\ \A n \in Mutexes : n # m => depth'[n] = depth[n]
    BY <1>1 DEF TypeOK
  <2>2. ASSUME NEW n \in Mutexes PROVE Consistent(n)'
    <3>1. m \notin free
      BY <1>1 DEF OwnerInv, Consistent
    <3>2. QED
      BY <1>1, <2>1, <3>1 DEF OwnerInv, Consistent, waitVars
  <2>3. ASSUME NEW n \in Mutexes, NEW u \in Threads PROVE Known(n, u)'
    <3>1. Known(n, u)
      BY <1>1 DEF OwnerInv
    <3>2. CASE n # m
      <4>1. depth'[n] = depth[n] /\ holds'[n][u] = holds[n][u]
        BY <2>1, <3>2, <1>5
      <4>2. call'[u].q = n /\ call'[u].at \in {"waiting", "again"} =>
               call[u].q = n /\ call[u].at \in {"waiting", "again"}
        BY <1>4 DEF Idle
      <4>3. QED
        BY <3>1, <4>1, <4>2, <1>4, <1>7, OwnerFrame
    <3>3. CASE n = m /\ u # t
      BY <3>1, <3>3, <1>4, <1>5, <1>7 DEF Known
    <3>4. CASE n = m /\ u = t
      BY <3>1, <3>4, <2>1, <1>4, <1>5, <1>7 DEF Known, Idle
    <3>5. QED
      BY <3>2, <3>3, <3>4
  <2>4. QED
    BY <2>2, <2>3 DEF OwnerInv
<1>10. VoidedInv'
  BY <1>1, <1>4 DEF VoidedInv, TypeOK, waitVars
<1>11. UnsafeInv'
  BY <1>1, <1>4 DEF UnsafeInv, Idle
<1>12. QED
  BY <1>4, <1>6, <1>8, <1>9, <1>10, <1>11 DEF IInv, LibInv

\* How deep an owner that is not in a call holds its mutex.
LEMMA OwnerHolds ==
    ASSUME IInv, NEW t \in Threads, NEW m \in Mutexes, m \in used, owner[m] = t,
           call[t].at \in {"idle", "again"}
    PROVE  /\ holds[m][t] = depth[m] + 1 /\ m \notin free
           /\ \A u \in Threads : u # t => holds[m][u] = 0
<1>1. Known(m, t) /\ Consistent(m) /\ \A u \in Threads : Known(m, u)
  BY DEF IInv, OwnerInv
<1>2. ~Arriving(t, m) /\ ~Posting(t, m)
  BY DEF Arriving, Posting
<1>3. QED
  BY <1>1, <1>2, Constants DEF Known, Consistent

\* A caller within the bound, or a call that starts again.
Enters(t, m) ==
    \/ call[t].at = "idle" /\ (owner[m] = t => depth[m] < MaxDepth)
    \/ call[t].at = "again" /\ call[t].q = m

\* The owner locks its mutex again; a call that waited for it cannot, as only
\* an unchecked mutex lets its owner wait.
LEMMA PendOwnPreserves ==
    ASSUME IInv, NEW t \in Threads, NEW m \in Mutexes,
           Enters(t, m), klock = NoThread, PendOwn(t, m)
    PROVE  IInv'
<1> USE Constants
<1>0. call[t].at \in {"idle", "again"}
  BY DEF Enters
<1>1. /\ m \in used /\ owner[m] = t
      /\ UNCHANGED <<waitVars, klock, picked, used, option, free, saved, owner, prio,
                     safe, unsafe, voided, leaked>>
  BY DEF PendOwn
<1>2. holds[m][t] = depth[m] + 1 /\ TypeOK
  BY <1>0, <1>1, OwnerHolds DEF IInv
<1>3. CASE option[m].kind = "ERRORCHECK" /\ Returned(t, m, "EDEADLK") /\ UNCHANGED depth
  <2>1. Return(t) /\ holds' = holds
    BY <1>2, <1>3 DEF Returned, TypeOK
  <2>2. QED
    BY <1>0, <1>1, <1>3, <2>1, RefusedPreserves DEF evtVars
<1>4. CASE /\ option[m].kind = "RECURSIVE"
           /\ depth' = [depth EXCEPT ![m] = @ + 1]
           /\ Returned(t, m, "NONE")
  <2>1. call[t].at = "idle" /\ depth[m] < MaxDepth
    <3>1. Known(m, t)
      BY DEF IInv, OwnerInv
    <3>2. call[t].at # "again"
      <4>1. SUFFICES ASSUME call[t].at = "again" PROVE FALSE
        OBVIOUS
      <4>2. call[t].q = m /\ ~Arriving(t, m)
        BY <4>1 DEF Enters, Arriving
      <4>3. QED
        BY <1>1, <1>4, <3>1, <4>1, <4>2 DEF Known
    <3>3. QED
      BY <1>1, <3>2 DEF Enters
  <2>2. depth[m] + 1 \in 0 .. MaxDepth
    BY <1>2, <2>1 DEF TypeOK
  <2>3. /\ Return(t) /\ holds' = [holds EXCEPT ![m][t] = (depth[m] + 1) + 1]
        /\ depth' = [depth EXCEPT ![m] = depth[m] + 1]
    BY <1>2, <1>4 DEF Returned
  <2>4. QED
    BY <1>1, <2>1, <2>2, <2>3, OwnDepthPreserves
<1>5. QED
  BY <1>3, <1>4 DEF PendOwn

\* The owner gives back one of several locks.
LEMMA PostAgainPreserves ==
    ASSUME IInv, NEW t \in Threads, NEW m \in Mutexes, PostAgain(t, m)
    PROVE  IInv'
<1> USE Constants
<1>1. /\ call[t].at = "idle" /\ klock = NoThread /\ m \in used /\ owner[m] = t
      /\ depth[m] > 0 /\ Return(t)
      /\ depth' = [depth EXCEPT ![m] = depth[m] - 1]
      /\ holds' = [holds EXCEPT ![m][t] = holds[m][t] - 1]
      /\ UNCHANGED <<waitVars, klock, picked, used, option, free, saved, owner, prio,
                     safe, unsafe, voided, leaked>>
  BY DEF PostAgain, Caller, Given
<1>2. holds[m][t] = depth[m] + 1 /\ TypeOK
  BY <1>1, OwnerHolds DEF IInv
<1>3. depth[m] - 1 \in 0 .. MaxDepth /\ holds[m][t] - 1 = (depth[m] - 1) + 1
  BY <1>1, <1>2 DEF TypeOK
<1>4. QED
  BY <1>1, <1>3, OwnDepthPreserves

\* The boost changes the priority of the owner only, and never lowers it.
LEMMA BoostEffect ==
    ASSUME TypeOK, NEW t \in Threads, NEW m \in Mutexes, owner[m] \in Threads
    PROVE  /\ Boosted(m, t) \in [Threads -> 0 .. Lowest]
           /\ \A u \in Threads : u # owner[m] => Boosted(m, t)[u] = prio[u]
           /\ Boosted(m, t)[owner[m]] <= prio[owner[m]]
           /\ option[m].inherit => Boosted(m, t)[owner[m]] <= prio[t]
<1> DEFINE o == owner[m]
           p == IF option[m].inherit THEN prio[t]
                ELSE IF Ceiling < prio[o] THEN Ceiling ELSE prio[o]
<1>1. /\ prio \in [Threads -> 0 .. 255] /\ o \in Threads /\ Lowest = 255
      /\ prio[t] \in 0 .. 255 /\ prio[o] \in 0 .. 255 /\ Ceiling \in 0 .. 255
      /\ option[m].inherit \in BOOLEAN
  BY Constants DEF TypeOK, Lowest
<1>2. CASE prio[t] >= prio[o]
  <2>1. Boosted(m, t) = prio
    BY <1>2 DEF Boosted
  <2>2. QED
    BY <1>1, <1>2, <2>1
<1>3. CASE ~(prio[t] >= prio[o])
  <2>1. Boosted(m, t) = [prio EXCEPT ![o] = p]
    BY <1>3 DEF Boosted
  <2>2. /\ p \in 0 .. 255 /\ p <= prio[o]
        /\ option[m].inherit => p <= prio[t]
    <3> HIDE DEF o
    <3>1. CASE option[m].inherit
      <4>1. p = prio[t]
        BY <3>1
      <4> HIDE DEF p
      <4>2. prio[t] <= prio[o]
        <5>1. \A i, j \in 0 .. 255 : ~(i >= j) => i <= j
          OBVIOUS
        <5>2. prio[t] \in 0 .. 255 /\ prio[o] \in 0 .. 255
          BY <1>1
        <5>3. QED
          BY <1>3, <5>1, <5>2
      <4>3. p <= prio[t]
        BY <1>1, <4>1
      <4>4. QED
        BY <1>1, <4>1, <4>2, <4>3
    <3>2. CASE ~option[m].inherit
      BY <1>1, <1>3, <3>2
    <3>3. QED
      BY <1>1, <3>1, <3>2
  <2> HIDE DEF p, o
  <2>3. /\ [prio EXCEPT ![o] = p] \in [Threads -> 0 .. 255]
        /\ [prio EXCEPT ![o] = p][o] = p
        /\ \A u \in Threads : u # o => [prio EXCEPT ![o] = p][u] = prio[u]
    BY <1>1, <2>2
  <2>4. QED
    BY <1>1, <2>1, <2>2, <2>3 DEF o
<1>4. QED
  BY <1>2, <1>3

\* A thread joins the queue of a mutex that has an owner; it may be its own.
LEMMA PendBlockPreserves ==
    ASSUME IInv, NEW t \in Threads, NEW m \in Mutexes, NEW timeout \in Timeouts,
           call[t].at \in {"idle", "again"}, klock = NoThread,
           PendBlock(t, m, timeout)
    PROVE  IInv'
<1> USE Constants
<1>1. LibInv(Places) /\ TypeOK /\ KernelInv /\ OwnerInv /\ VoidedInv /\ UnsafeInv
  BY LibPart
<1>2. /\ m \in used /\ m \notin free /\ (option[m].kind = "NORMAL" \/ owner[m] # t)
      /\ prio' = Boosted(m, t) /\ Join(t, m, timeout, prio)
      /\ UNCHANGED <<klock, picked, used, option, free, saved, depth, owner, safe,
                     unsafe, holds, voided, leaked>>
  BY DEF PendBlock, Busy, evtVars, histVars
<1>3. \A u \in Threads : call[u].at # "post" /\ call[u].at # "delete"
  BY Outside
<1>4. /\ LibInv(Places)'
      /\ t \in sem' /\ t \notin sem
      /\ waitQ'[m] # <<>>
      /\ \A r \in Mutexes : r # m => waitQ'[r] = waitQ[r]
      /\ call'[t] = [at |-> "waiting", q |-> m, timeout |-> timeout]
      /\ \A x \in Threads : x # t => call'[x] = call[x]
  <2>1. prio \in [Threads -> Nat]
    <3>1. prio \in [Threads -> 0 .. 255]
      BY <1>1 DEF TypeOK, Lowest
    <3>2. QED
      BY <3>1
  <2>2. "waiting" \in Places /\ m \in Queues
    BY DEF Places, Mutexes
  <2>3. QED
    BY <1>1, <1>2, <2>1, <2>2, JoinEffect DEF Mutexes
<1>5. /\ sem' = sem \union {t} /\ timedOut' = timedOut \ {t}
      /\ deleted' = deleted \ {t} /\ signalled' = signalled
  BY <1>2 DEF Join
<1>6. TypeOK'
  <2>1. owner[m] \in Threads
    BY <1>1, <1>2 DEF TypeOK, OwnerInv, Consistent
  <2>2. prio' \in [Threads -> 0 .. Lowest]
    BY <1>1, <1>2, <2>1, BoostEffect
  <2>3. QED
    BY <1>1, <1>2, <1>4, <2>2 DEF TypeOK, LibInv
<1>7. /\ \A u \in Threads : call'[u].at # "post" /\ call'[u].at # "delete"
      /\ \A u \in Threads : \A n \in Mutexes : ~Posting(u, n) /\ ~Posting(u, n)'
  BY <1>3, <1>4 DEF Posting
<1>8. KernelInv'
  <2>1. \A n \in Mutexes \ used' : waitQ'[n] = <<>> /\ owner'[n] = NoThread
    BY <1>2, <1>4, Outside
  <2>2. \A u \in Threads : klock' # u
    BY <1>2
  <2>3. QED
    BY <1>7, <2>1, <2>2 DEF KernelInv
<1>9. \A x \in Threads : \A n \in Mutexes : Arriving(x, n)' <=> Arriving(x, n)
  BY <1>2, <1>4, <1>5 DEF Arriving
<1>10. OwnerInv'
  <2>1. ASSUME NEW n \in Mutexes PROVE Consistent(n)'
    BY <1>1, <1>2, <1>4 DEF OwnerInv, Consistent
  <2>2. ASSUME NEW n \in Mutexes, NEW u \in Threads PROVE Known(n, u)'
    <3>1. Known(n, u)
      BY <1>1 DEF OwnerInv
    <3>2. CASE u # t \/ n # m
      <4>1. call'[u].q = n /\ call'[u].at \in {"waiting", "again"} =>
               call[u].q = n /\ call[u].at \in {"waiting", "again"}
        BY <1>4, <3>2
      <4>2. QED
        BY <3>1, <4>1, <1>2, <1>7, <1>9, OwnerFrame
    <3>3. CASE u = t /\ n = m
      BY <3>1, <3>3, <1>2, <1>7, <1>9 DEF Known
    <3>4. QED
      BY <3>2, <3>3
  <2>3. QED
    BY <2>1, <2>2 DEF OwnerInv
<1>11. VoidedInv'
  BY <1>1, <1>2, <1>4, <1>5 DEF VoidedInv, TypeOK
<1>12. UnsafeInv'
  BY <1>1, <1>2, <1>4 DEF UnsafeInv
<1>13. QED
  BY <1>4, <1>6, <1>8, <1>10, <1>11, <1>12 DEF IInv, LibInv

\* A pend from __wait_again to __KERNEL_EXIT.
LEMMA PendEnterPreserves ==
    ASSUME IInv, NEW t \in Threads, NEW m \in Mutexes, NEW timeout \in Timeouts,
           Enters(t, m), klock = NoThread, PendEnter(t, m, timeout)
    PROVE  IInv'
<1>0. call[t].at \in {"idle", "again"}
  BY DEF Enters
<1>1. CASE PendInvalid(t, m) \/ PendNotWait(t, m, timeout)
  <2>1. Return(t) /\ holds' = holds
    BY <1>1 DEF PendInvalid, PendNotWait, Returned, IInv, TypeOK
  <2>2. QED
    BY <1>0, <1>1, <2>1, RefusedPreserves DEF PendInvalid, PendNotWait
<1>2. CASE PendTake(t, m)
  BY <1>0, <1>2, PendTakePreserves
<1>3. CASE PendOwn(t, m)
  BY <1>3, PendOwnPreserves
<1>4. CASE PendBlock(t, m, timeout)
  BY <1>0, <1>4, PendBlockPreserves
<1>5. QED
  BY <1>1, <1>2, <1>3, <1>4 DEF PendEnter

\* API_SemaphoreMPend up to the wait, at once or after a signal.
LEMMA PendPreserves ==
    ASSUME IInv, NEW t \in Threads, NEW m \in Mutexes, NEW timeout \in Timeouts,
           Pend(t, m, timeout) \/ PendAgain(t)
    PROVE  IInv'
<1>1. CASE Pend(t, m, timeout)
  <2>1. Enters(t, m) /\ klock = NoThread /\ PendEnter(t, m, timeout)
    BY <1>1 DEF Pend, Caller, Enters
  <2>2. QED
    BY <2>1, PendEnterPreserves
<1>2. CASE PendAgain(t)
  <2>1. call[t].q \in Mutexes /\ call[t].timeout \in Timeouts
    BY <1>2 DEF PendAgain, IInv, FlagInv, TypeOK, LibTypeOK, Mutexes
  <2>2. QED
    BY <1>2, <2>1, PendEnterPreserves DEF PendAgain, Enters
<1>3. QED
  BY <1>1, <1>2

\* A signal ends a wait before the mutex is handed over, or not at all.
LEMMA PendSignalledPreserves ==
    ASSUME IInv, NEW t \in Threads, PendSignalled(t)
    PROVE  IInv'
<1>1. LibInv(Places) /\ VoidedInv
  BY LibPart
<1>2. Signalled(t) /\ UNCHANGED <<evtVars, prio, safe, unsafe, histVars>>
  BY DEF PendSignalled
<1>3. {"idle", "again"} \subseteq Places
  BY DEF Places
<1>4. /\ t \in signalled /\ t \notin sem
      /\ call[t].at = "waiting" /\ call[t].q \in Queues
      /\ signalled' = signalled \ {t}
      /\ UNCHANGED <<waitQ, sem, delayed, timedOut, deleted, klock, picked>>
  BY <1>1, <1>2, <1>3, SignalledEffect
<1>5. t \notin voided
  BY <1>1, <1>4 DEF VoidedInv
<1>6. \A m \in Mutexes : ~Arriving(t, m)
  BY <1>4 DEF Arriving
<1>7. voided' = voided \ {t}
  BY <1>2, <1>5 DEF histVars
<1>8. CASE Return(t)
  <2>1. Moves(Places, t, Idle)
    BY <1>3, <1>8, ReturnMoves
  <2>2. QED
    BY <2>1, <1>2, <1>4, <1>6, <1>7, StepAsidePreserves DEF Idle, histVars
<1>9. CASE At(t, "again", call[t].q)
  <2> DEFINE c == [at |-> "again", q |-> call[t].q, timeout |-> call[t].timeout]
  <2>1. Moves(Places, t, c)
    BY <1>1, <1>3, <1>4, <1>9, AtMoves DEF LibInv
  <2>2. c.at = "again" /\ c.q = call[t].q
    OBVIOUS
  <2> HIDE DEF c
  <2>3. QED
    BY <2>1, <2>2, <1>2, <1>4, <1>6, <1>7, StepAsidePreserves DEF histVars
<1>10. QED
  BY <1>2, <1>8, <1>9 DEF Signalled

\* The wait is over: its result is a success exactly when the mutex was handed
\* over, and then it is the thread's with depth 0.
LEMMA PendReturnPreserves ==
    ASSUME IInv, NEW t \in Threads, PendReturn(t)
    PROVE  IInv'
<1> USE Constants
<1> DEFINE m == call[t].q
           r == IF t \in voided THEN "VOID" ELSE WaitResult(t)
<1>1. LibInv(Places) /\ TypeOK /\ KernelInv /\ OwnerInv /\ VoidedInv /\ UnsafeInv
  BY LibPart
<1>2. /\ call[t].at = "waiting" /\ t \notin sem /\ t \notin signalled
      /\ Return(t) /\ voided' = voided \ {t}
      /\ holds' = [holds EXCEPT ![m][t] = IF r = "NONE" THEN holds[m][t] + 1
                                                        ELSE holds[m][t]]
      /\ UNCHANGED <<waitVars, klock, picked, evtVars, prio, safe, unsafe, leaked>>
  BY DEF PendReturn, WaitOver, Returned
<1>3. m \in Mutexes
  BY <1>1, <1>2 DEF LibInv, FlagInv, Mutexes
<1>4. Moves(Places, t, Idle)
  BY <1>2, ReturnMoves DEF Places
<1>5. CASE t \in voided \/ t \in timedOut \/ t \in deleted
  <2>1. r # "NONE"
    BY <1>5 DEF WaitResult
  <2>2. holds' = holds
    <3>1. holds' = [holds EXCEPT ![m][t] = holds[m][t]]
      BY <1>2, <2>1
    <3>2. holds \in [Mutexes -> [Threads -> Nat]]
      BY <1>1 DEF TypeOK
    <3> HIDE DEF m, r
    <3>3. QED
      BY <1>3, <3>1, <3>2
  <2>3. \A n \in Mutexes : ~Arriving(t, n)
    BY <1>5 DEF Arriving
  <2>4. QED
    BY <1>2, <1>4, <2>2, <2>3, StepAsidePreserves DEF Idle, waitVars
<1>6. CASE t \notin voided /\ t \notin timedOut /\ t \notin deleted
  <2>1. Arriving(t, m)
    BY <1>2, <1>6 DEF Arriving
  <2>2. r = "NONE"
    BY <1>6 DEF WaitResult
  <2>3. m \in used /\ owner[m] = t /\ depth[m] = 0 /\ holds[m][t] = 0
    BY <1>1, <1>3, <2>1 DEF OwnerInv, Known
  <2>4. holds' = [holds EXCEPT ![m][t] = 1]
    BY <1>2, <2>2, <2>3
  <2> HIDE DEF m, r
  <2>5. voided' = voided
    BY <1>2, <1>6
  <2>6. /\ call'[t] = Idle
        /\ \A x \in Threads : x # t => call'[x] = call[x]
    BY <1>1, <1>4, MoveEffect DEF LibInv
  <2>7. LibInv(Places)'
    BY <1>1, <1>2, <1>4, MoveKeeps DEF LibInv, LibTypeOK, FlagInv, waitVars
  <2>8. /\ holds' \in [Mutexes -> [Threads -> Nat]]
        /\ \A n \in Mutexes, u \in Threads :
              holds'[n][u] = IF n = m /\ u = t THEN 1 ELSE holds[n][u]
    BY <1>1, <1>3, <2>4, HoldsEntry DEF TypeOK
  <2>9. TypeOK'
    BY <1>1, <1>2, <2>5, <2>7, <2>8 DEF TypeOK, LibInv, evtVars
  <2>10. \A u \in Threads : \A n \in Mutexes :
            /\ Posting(u, n)' <=> Posting(u, n)
            /\ Deleting(u, n)' <=> Deleting(u, n)
    BY <1>2, <2>6 DEF Posting, Deleting, Idle
  <2>11. KernelInv'
    <3>1. picked # NoThread => call'[picked] = call[picked]
      BY <1>1, <1>2, <2>6 DEF LibInv, FlagInv, LibTypeOK
    <3>2. \A u \in Threads : call'[u].at \in {"post", "delete"} <=>
                             call[u].at \in {"post", "delete"}
      BY <1>2, <2>6 DEF Idle
    <3>3. QED
      BY <1>1, <1>2, <2>6, <2>10, <3>1, <3>2 DEF KernelInv, evtVars, Idle, waitVars
  <2>12. OwnerInv'
    <3>1. ASSUME NEW n \in Mutexes PROVE Consistent(n)'
      BY <1>1, <1>2 DEF OwnerInv, Consistent, waitVars, evtVars
    <3>2. ASSUME NEW n \in Mutexes, NEW u \in Threads PROVE Known(n, u)'
      <4>1. Known(n, u)
        BY <1>1 DEF OwnerInv
      <4>2. CASE u # t
        <5>1. Arriving(u, n)' <=> Arriving(u, n)
          BY <1>2, <2>5, <2>6, <4>2 DEF Arriving, waitVars
        <5>2. holds'[n][u] = holds[n][u] /\ call'[u] = call[u]
          BY <2>6, <2>8, <4>2
        <5>3. QED
          BY <4>1, <5>1, <5>2, <1>2, <2>10, OwnerFrame DEF evtVars
      <4>3. CASE u = t /\ n # m
        <5>1. ~Arriving(u, n) /\ ~Arriving(u, n)'
          BY <2>6, <4>3 DEF Arriving, m, Idle
        <5>2. holds'[n][u] = holds[n][u] /\ call'[u].at = "idle"
          BY <2>6, <2>8, <4>3 DEF Idle
        <5>3. QED
          BY <4>1, <5>1, <5>2, <1>2, <2>10, OwnerFrame DEF evtVars
      <4>4. CASE u = t /\ n = m
        <5>1. ~Arriving(u, n)' /\ ~Posting(u, n)'
          BY <1>2, <2>6, <4>4 DEF Arriving, Posting, Idle
        <5>2. holds'[n][u] = 1 /\ call'[u].at = "idle"
          BY <2>6, <2>8, <4>4 DEF Idle
        <5>3. QED
          BY <4>4, <5>1, <5>2, <1>2, <2>3 DEF Known, evtVars
      <4>5. QED
        BY <4>2, <4>3, <4>4
    <3>3. QED
      BY <3>1, <3>2 DEF OwnerInv
  <2>13. VoidedInv'
    BY <1>1, <1>2, <1>6, <2>5, <2>6 DEF VoidedInv, TypeOK, waitVars
  <2>14. UnsafeInv'
    BY <1>1, <1>2, <2>6 DEF UnsafeInv, Idle
  <2>15. QED
    BY <2>7, <2>9, <2>11, <2>12, <2>13, <2>14 DEF IInv, LibInv
<1>7. QED
  BY <1>5, <1>6

-----------------------------------------------------------------------------
\* The owner gives up what it holds before the next owner has it.
LEMMA PostPickPreserves ==
    ASSUME IInv, NEW t \in Threads, NEW m \in Mutexes, PostPick(t, m)
    PROVE  IInv'
<1> USE Constants
<1>1. LibInv(Places) /\ TypeOK /\ KernelInv /\ OwnerInv /\ VoidedInv /\ UnsafeInv
  BY LibPart
<1>2. /\ call[t].at = "idle" /\ klock = NoThread /\ m \in used /\ owner[m] = t
      /\ depth[m] = 0 /\ waitQ[m] # <<>> /\ Pick(m) /\ klock' = t /\ At(t, "post", m)
      /\ holds' = [holds EXCEPT ![m][t] = holds[m][t] - 1]
      /\ UNCHANGED <<evtVars, prio, safe, unsafe, voided, leaked>>
  BY DEF PostPick, Caller, Given
<1> DEFINE c == [at |-> "post", q |-> m, timeout |-> call[t].timeout]
<1>3. Moves(Places, t, c)
  BY <1>1, <1>2, AtMoves DEF LibInv, Places, Mutexes
<1>4. /\ call'[t] = c
      /\ \A x \in Threads : x # t => call'[x] = call[x]
  BY <1>1, <1>3, MoveEffect DEF LibInv
<1>5. c.at = "post" /\ c.q = m
  OBVIOUS
<1> HIDE DEF c
<1>6. /\ picked = NoThread
      /\ \A u \in Threads : call[u].at # "post" /\ call[u].at # "delete"
      /\ \A n \in Mutexes \ used : waitQ[n] = <<>> /\ owner[n] = NoThread
  BY <1>2, Outside
<1>7. /\ LibInv(Places)'
      /\ picked' \in Threads /\ picked' # t /\ call'[picked'].q = m
  BY <1>1, <1>2, <1>3, <1>6, PickEffect DEF Mutexes
<1>8. /\ \A n \in Mutexes : n # m => waitQ'[n] = waitQ[n]
      /\ UNCHANGED <<sem, timedOut, deleted, signalled>>
  BY <1>1, <1>2 DEF Pick, LibInv, LibTypeOK, Mutexes
<1>9. holds[m][t] = 1 /\ m \notin free
  BY <1>1, <1>2, OwnerHolds DEF TypeOK
<1>10. /\ holds' \in [Mutexes -> [Threads -> Nat]]
       /\ \A n \in Mutexes, u \in Threads :
             holds'[n][u] = IF n = m /\ u = t THEN 0 ELSE holds[n][u]
  <2>1. holds' = [holds EXCEPT ![m][t] = 0]
    BY <1>2, <1>9
  <2>2. QED
    BY <1>1, <2>1, HoldsEntry DEF TypeOK
<1>11. TypeOK'
  BY <1>1, <1>2, <1>7, <1>10 DEF TypeOK, LibInv, evtVars
<1>12. \A u \in Threads : \A n \in Mutexes :
          /\ Posting(u, n)' <=> u = t /\ n = m
          /\ ~Posting(u, n)
          /\ Arriving(u, n)' <=> Arriving(u, n)
  BY <1>2, <1>4, <1>5, <1>6, <1>8 DEF Posting, Arriving
<1>13. KernelInv'
  <2>1. \A u \in Threads : klock' = u <=> call'[u].at \in {"post", "delete"}
    BY <1>2, <1>4, <1>5, <1>6
  <2>2. \A n \in Mutexes \ used' : waitQ'[n] = <<>> /\ owner'[n] = NoThread
    BY <1>2, <1>6, <1>8 DEF evtVars
  <2>3. \A u \in Threads : u # t => call'[u].at # "post" /\ call'[u].at # "delete"
    BY <1>4, <1>6
  <2>4. QED
    BY <1>2, <1>4, <1>5, <1>7, <1>12, <2>1, <2>2, <2>3 DEF KernelInv, evtVars
<1>14. OwnerInv'
  <2>1. ASSUME NEW n \in Mutexes PROVE Consistent(n)'
    BY <1>1, <1>2, <1>8, <1>9 DEF OwnerInv, Consistent, evtVars
  <2>2. ASSUME NEW n \in Mutexes, NEW u \in Threads PROVE Known(n, u)'
    <3>1. Known(n, u)
      BY <1>1 DEF OwnerInv
    <3>2. CASE u # t \/ n # m
      <4>1. holds'[n][u] = holds[n][u]
        BY <3>2, <1>10
      <4>2. call'[u].q = n /\ call'[u].at \in {"waiting", "again"} =>
               call[u].q = n /\ call[u].at \in {"waiting", "again"}
        BY <1>4, <1>5
      <4>3. ~Posting(u, n)'
        BY <3>2, <1>12
      <4>4. QED
        BY <3>1, <4>1, <4>2, <4>3, <1>2, <1>12, OwnerFrame DEF evtVars
    <3>3. CASE u = t /\ n = m
      BY <3>1, <3>3, <1>2, <1>4, <1>5, <1>10, <1>12 DEF Known, evtVars
    <3>4. QED
      BY <3>2, <3>3
  <2>3. QED
    BY <2>1, <2>2 DEF OwnerInv
<1>15. VoidedInv'
  BY <1>1, <1>2, <1>4, <1>8 DEF VoidedInv, TypeOK
<1>16. UnsafeInv'
  BY <1>1, <1>2, <1>4, <1>5 DEF UnsafeInv
<1>17. QED
  BY <1>7, <1>11, <1>13, <1>14, <1>15, <1>16 DEF IInv, LibInv

\* The next owner waits with nothing against it, so its pend returns success.
LEMMA PostHighPreserves ==
    ASSUME IInv, NEW t \in Threads, PostHigh(t)
    PROVE  IInv'
<1> USE Constants
<1> DEFINE m == call[t].q
           p == picked
<1>1. LibInv(Places) /\ TypeOK /\ KernelInv /\ OwnerInv /\ VoidedInv /\ UnsafeInv
  BY LibPart
<1>2. /\ call[t].at = "post"
      /\ prio' = [prio EXCEPT ![t] = saved[m]]
      /\ saved' = [saved EXCEPT ![m] = prio[p]]
      /\ owner' = [owner EXCEPT ![m] = p]
      /\ WakePicked /\ safe' = [safe EXCEPT ![p] = @ + 1]
      /\ klock' = NoThread /\ At(t, "unsafe", m) /\ unsafe' = [unsafe EXCEPT ![t] = t]
      /\ UNCHANGED <<waitQ, delayed, deleted, signalled, used, option, free, depth,
                     holds, voided, leaked>>
  BY DEF PostHigh, histVars
<1>3. m \in Mutexes
  BY <1>1, <1>2 DEF KernelInv
<1>4. /\ m \in used /\ owner[m] = t /\ depth[m] = 0 /\ p # NoThread /\ call[p].q = m
  BY <1>1, <1>2, <1>3 DEF KernelInv, Posting
<1> HIDE DEF m
<1> DEFINE c == [at |-> "unsafe", q |-> m, timeout |-> call[t].timeout]
<1>5. Moves(Places, t, c)
  BY <1>1, <1>2, <1>3, AtMoves DEF LibInv, Places, Mutexes
<1>6. c.at = "unsafe" /\ c.q = m
  OBVIOUS
<1> HIDE DEF c
<1>7. /\ call'[t] = c
      /\ \A x \in Threads : x # t => call'[x] = call[x]
  BY <1>1, <1>5, MoveEffect DEF LibInv
<1>8. /\ LibInv(Places)' /\ p \in sem /\ p \in Threads /\ p # t
      /\ call[p].at = "waiting" /\ call'[p] = call[p]
      /\ p \notin timedOut /\ p \notin deleted /\ p \notin signalled
      /\ picked' = NoThread /\ sem' = sem \ {p} /\ timedOut' = timedOut
  BY <1>1, <1>2, <1>4, <1>5, WakeEffect
<1>9. p \notin voided
  BY <1>1, <1>8 DEF VoidedInv
<1> HIDE DEF p
<1>10. /\ owner'[m] = p
       /\ \A n \in Mutexes : n # m => owner'[n] = owner[n]
  BY <1>1, <1>2, <1>3 DEF TypeOK
<1>11. TypeOK'
  BY <1>1, <1>2, <1>3, <1>8 DEF TypeOK, LibInv, Lowest
<1>12. klock = t /\ \A u \in Threads : u # t => call[u].at # "post" /\ call[u].at # "delete"
  BY <1>1, <1>2 DEF KernelInv
<1>13. /\ \A u \in Threads : call'[u].at # "post" /\ call'[u].at # "delete"
       /\ \A u \in Threads : \A n \in Mutexes : ~Posting(u, n)'
       /\ \A u \in Threads : \A n \in Mutexes : Posting(u, n) => u = t /\ n = m
  BY <1>6, <1>7, <1>12 DEF Posting, m
<1>14. KernelInv'
  <2>1. \A n \in Mutexes \ used' : waitQ'[n] = <<>> /\ owner'[n] = NoThread
    BY <1>1, <1>2, <1>4, <1>10, <1>12 DEF KernelInv, Deleting
  <2>2. \A u \in Threads : klock' # u
    BY <1>2
  <2>3. QED
    BY <1>13, <2>1, <2>2 DEF KernelInv
<1>15. \A u \in Threads : \A n \in Mutexes :
          Arriving(u, n)' <=> Arriving(u, n) \/ (u = p /\ n = m)
  BY <1>2, <1>4, <1>6, <1>7, <1>8, <1>9 DEF Arriving
<1>16. OwnerInv'
  <2>1. ASSUME NEW n \in Mutexes PROVE Consistent(n)'
    <3>1. Consistent(n) /\ Consistent(m)
      BY <1>1, <1>3 DEF OwnerInv
    <3>2. CASE n = m
      BY <3>1, <3>2, <1>2, <1>4, <1>8, <1>10 DEF Consistent
    <3>3. CASE n # m
      BY <3>1, <3>3, <1>2, <1>10 DEF Consistent
    <3>4. QED
      BY <3>2, <3>3
  <2>2. ASSUME NEW n \in Mutexes, NEW u \in Threads PROVE Known(n, u)'
    <3>1. Known(n, u) /\ Known(m, u)
      BY <1>1, <1>3 DEF OwnerInv
    <3>2. CASE n # m
      <4>1. call'[u].q = n /\ call'[u].at \in {"waiting", "again"} =>
               call[u].q = n /\ call[u].at \in {"waiting", "again"}
        BY <1>6, <1>7
      <4>2. /\ Posting(u, n)' <=> Posting(u, n)
            /\ Arriving(u, n)' <=> Arriving(u, n)
        BY <3>2, <1>13, <1>15
      <4>3. QED
        BY <3>1, <3>2, <4>1, <4>2, <1>2, <1>10, OwnerFrame
    <3>3. CASE n = m /\ u = p
      <4>1. holds[m][u] = 0
        BY <3>1, <3>3, <1>4, <1>8 DEF Known
      <4>2. QED
        BY <3>3, <4>1, <1>2, <1>4, <1>10, <1>15 DEF Known
    <3>4. CASE n = m /\ u # p
      <4>1. ~Arriving(u, n)
        BY <3>1, <3>4, <1>2, <1>4 DEF Known, Arriving
      <4>2. holds[m][u] = 0
        BY <3>1, <3>4, <1>2, <1>4 DEF Known, Posting, m
      <4>3. QED
        BY <3>4, <4>1, <4>2, <1>2, <1>10, <1>15 DEF Known
    <3>5. QED
      BY <3>2, <3>3, <3>4
  <2>3. QED
    BY <2>1, <2>2 DEF OwnerInv
<1>17. VoidedInv'
  BY <1>1, <1>2, <1>7, <1>8 DEF VoidedInv, TypeOK
<1>18. UnsafeInv'
  BY <1>1, <1>2, <1>6, <1>7 DEF UnsafeInv, TypeOK
<1>19. QED
  BY <1>8, <1>11, <1>14, <1>16, <1>17, <1>18 DEF IInv, LibInv

\* Nobody waits: the mutex is free.
LEMMA PostFreePreserves ==
    ASSUME IInv, NEW t \in Threads, NEW m \in Mutexes, PostFree(t, m)
    PROVE  IInv'
<1> USE Constants
<1>1. LibInv(Places) /\ TypeOK /\ KernelInv /\ OwnerInv /\ VoidedInv /\ UnsafeInv
  BY LibPart
<1>2. /\ call[t].at = "idle" /\ klock = NoThread /\ m \in used /\ owner[m] = t
      /\ depth[m] = 0 /\ waitQ[m] = <<>> /\ free' = free \union {m}
      /\ saved' = [saved EXCEPT ![m] = Lowest] /\ owner' = [owner EXCEPT ![m] = NoThread]
      /\ At(t, "unsafe", m) /\ unsafe' = [unsafe EXCEPT ![t] = t]
      /\ holds' = [holds EXCEPT ![m][t] = holds[m][t] - 1]
      /\ leaked' \subseteq leaked \union {t}
      /\ UNCHANGED <<waitVars, klock, picked, used, option, depth, prio, safe, voided>>
  BY DEF PostFree, Caller, Given
<1> DEFINE c == [at |-> "unsafe", q |-> m, timeout |-> call[t].timeout]
<1>3. Moves(Places, t, c)
  BY <1>1, <1>2, AtMoves DEF LibInv, Places, Mutexes
<1>4. c.at = "unsafe" /\ c.q = m
  OBVIOUS
<1> HIDE DEF c
<1>5. /\ call'[t] = c
      /\ \A x \in Threads : x # t => call'[x] = call[x]
  BY <1>1, <1>3, MoveEffect DEF LibInv
<1>6. /\ picked = NoThread
      /\ \A u \in Threads : call[u].at # "post" /\ call[u].at # "delete"
      /\ \A n \in Mutexes \ used : waitQ[n] = <<>> /\ owner[n] = NoThread
  BY <1>2, Outside
<1>7. LibInv(Places)'
  <2>1. t \notin sem /\ t \notin signalled
    BY <1>1, <1>2 DEF LibInv, FlagInv
  <2>2. QED
    BY <1>1, <1>2, <1>3, <1>6, <2>1, MoveKeeps DEF waitVars
<1>8. holds[m][t] = 1 /\ m \notin free
  BY <1>1, <1>2, OwnerHolds DEF TypeOK
<1>9. /\ holds' \in [Mutexes -> [Threads -> Nat]]
      /\ \A n \in Mutexes, u \in Threads :
            holds'[n][u] = IF n = m /\ u = t THEN 0 ELSE holds[n][u]
  <2>1. holds' = [holds EXCEPT ![m][t] = 0]
    BY <1>2, <1>8
  <2>2. QED
    BY <1>1, <2>1, HoldsEntry DEF TypeOK
<1>10. /\ owner'[m] = NoThread
       /\ \A n \in Mutexes : n # m => owner'[n] = owner[n]
  BY <1>1, <1>2 DEF TypeOK
<1>11. TypeOK'
  <2>1. /\ saved' \in [Mutexes -> 0 .. Lowest]
        /\ owner' \in [Mutexes -> Threads \union {NoThread}]
        /\ unsafe' \in [Threads -> Threads \union {NoThread}]
    BY <1>1, <1>2 DEF TypeOK, Lowest
  <2>2. free' \subseteq Mutexes /\ leaked' \subseteq Threads
    BY <1>1, <1>2 DEF TypeOK
  <2>3. QED
    BY <1>1, <1>2, <1>7, <1>9, <2>1, <2>2 DEF TypeOK, LibInv
<1>12. /\ \A u \in Threads : call'[u].at # "post" /\ call'[u].at # "delete"
       /\ \A u \in Threads : \A n \in Mutexes : /\ ~Posting(u, n)' /\ ~Posting(u, n)
                                                /\ Arriving(u, n)' <=> Arriving(u, n)
  BY <1>2, <1>4, <1>5, <1>6 DEF Posting, Arriving, waitVars
<1>13. KernelInv'
  <2>1. \A n \in Mutexes \ used' : waitQ'[n] = <<>> /\ owner'[n] = NoThread
    BY <1>2, <1>6, <1>10 DEF waitVars
  <2>2. \A u \in Threads : klock' # u
    BY <1>2
  <2>3. QED
    BY <1>12, <2>1, <2>2 DEF KernelInv
<1>14. OwnerInv'
  <2>1. ASSUME NEW n \in Mutexes PROVE Consistent(n)'
    BY <1>1, <1>2, <1>10 DEF OwnerInv, Consistent, waitVars
  <2>2. ASSUME NEW n \in Mutexes, NEW u \in Threads PROVE Known(n, u)'
    <3>1. Known(n, u)
      BY <1>1 DEF OwnerInv
    <3>2. CASE n # m
      <4>1. holds'[n][u] = holds[n][u]
        BY <3>2, <1>9
      <4>2. call'[u].q = n /\ call'[u].at \in {"waiting", "again"} =>
               call[u].q = n /\ call[u].at \in {"waiting", "again"}
        BY <1>4, <1>5
      <4>3. QED
        BY <3>1, <3>2, <4>1, <4>2, <1>2, <1>10, <1>12, OwnerFrame
    <3>3. CASE n = m
      <4>1. ~Arriving(u, m)
        BY <3>1, <3>3, <1>2 DEF Known, Arriving
      <4>2. holds'[m][u] = 0
        BY <3>1, <3>3, <1>2, <1>9 DEF Known
      <4>3. QED
        BY <3>3, <4>1, <4>2, <1>10, <1>12 DEF Known
    <3>4. QED
      BY <3>2, <3>3
  <2>3. QED
    BY <2>1, <2>2 DEF OwnerInv
<1>15. VoidedInv'
  BY <1>1, <1>2, <1>5 DEF VoidedInv, TypeOK, waitVars
<1>16. UnsafeInv'
  <2>1. unsafe'[t] = t /\ \A u \in Threads : u # t => unsafe'[u] = unsafe[u]
    BY <1>1, <1>2 DEF TypeOK
  <2>2. QED
    BY <1>1, <1>4, <1>5, <2>1 DEF UnsafeInv
<1>17. QED
  BY <1>7, <1>11, <1>13, <1>14, <1>15, <1>16 DEF IInv, LibInv

\* The protection is undone and the call returns.
LEMMA UnsafePreserves ==
    ASSUME IInv, NEW t \in Threads, Unsafe(t)
    PROVE  IInv'
<1> USE Constants
<1>1. LibInv(Places) /\ TypeOK /\ KernelInv /\ OwnerInv /\ VoidedInv /\ UnsafeInv
  BY LibPart
<1>2. /\ call[t].at = "unsafe" /\ klock = NoThread /\ Return(t)
      /\ safe' = [safe EXCEPT ![unsafe[t]] = IF @ > 0 THEN @ - 1 ELSE @]
      /\ unsafe' = [unsafe EXCEPT ![t] = NoThread]
      /\ UNCHANGED <<waitVars, klock, picked, evtVars, prio, holds, voided, leaked>>
  BY DEF Unsafe, histVars
<1>3. \A u \in Threads : call[u].at # "post" /\ call[u].at # "delete"
  BY <1>2, Outside
<1>4. /\ LibInv(Places)'
      /\ call'[t] = Idle
      /\ \A x \in Threads : x # t => call'[x] = call[x]
      /\ \A x \in Threads : \A n \in Mutexes : Arriving(x, n)' <=> Arriving(x, n)
  BY <1>2, ReturnEffect
<1>5. TypeOK'
  <2>1. unsafe[t] \in Threads
    BY <1>1, <1>2 DEF UnsafeInv, TypeOK
  <2>2. safe' \in [Threads -> Nat]
    BY <1>1, <1>2, <2>1 DEF TypeOK
  <2>3. QED
    BY <1>1, <1>2, <1>4, <2>2 DEF TypeOK, LibInv, evtVars
<1>6. /\ \A u \in Threads : call'[u].at # "post" /\ call'[u].at # "delete"
      /\ \A u \in Threads : \A n \in Mutexes : ~Posting(u, n) /\ ~Posting(u, n)'
  BY <1>3, <1>4 DEF Idle, Posting
<1>7. KernelInv'
  <2>1. \A n \in Mutexes \ used' : waitQ'[n] = <<>> /\ owner'[n] = NoThread
    BY <1>2, Outside DEF waitVars, evtVars
  <2>2. \A u \in Threads : klock' # u
    BY <1>2
  <2>3. QED
    BY <1>6, <2>1, <2>2 DEF KernelInv
<1>8. OwnerInv'
  <2>1. ASSUME NEW n \in Mutexes PROVE Consistent(n)'
    BY <1>1, <1>2 DEF OwnerInv, Consistent, waitVars, evtVars
  <2>2. ASSUME NEW n \in Mutexes, NEW u \in Threads PROVE Known(n, u)'
    <3>1. Known(n, u)
      BY <1>1 DEF OwnerInv
    <3>2. call'[u].q = n /\ call'[u].at \in {"waiting", "again"} =>
             call[u].q = n /\ call[u].at \in {"waiting", "again"}
      BY <1>4 DEF Idle
    <3>3. QED
      BY <3>1, <3>2, <1>2, <1>4, <1>6, OwnerFrame DEF evtVars
  <2>3. QED
    BY <2>1, <2>2 DEF OwnerInv
<1>9. VoidedInv'
  BY <1>1, <1>2, <1>4 DEF VoidedInv, TypeOK, waitVars
<1>10. UnsafeInv'
  <2>1. unsafe'[t] = NoThread /\ \A u \in Threads : u # t => unsafe'[u] = unsafe[u]
    BY <1>1, <1>2 DEF TypeOK
  <2>2. QED
    BY <1>1, <1>4, <2>1 DEF UnsafeInv, Idle
<1>11. QED
  BY <1>4, <1>5, <1>7, <1>8, <1>9, <1>10 DEF IInv, LibInv

-----------------------------------------------------------------------------
\* What a step of the deletion of m by t starts from and does to the history:
\* from then on nobody relies on m.
DeleteStep(t, m) ==
    /\ picked = NoThread
    /\ \/ call[t].at = "idle" /\ klock = NoThread
       \/ call[t].at = "delete" /\ call[t].q = m
    /\ used' = used \ {m}
    /\ holds' \in [Mutexes -> [Threads -> Nat]]
    /\ \A n \in Mutexes, u \in Threads : holds'[n][u] = IF n = m THEN 0 ELSE holds[n][u]
    /\ voided' = voided \union {u \in Threads : Arriving(u, m)}
    /\ UNCHANGED <<option, free, saved, depth, safe, leaked>>

\* Both actions of the deletion are such steps.
LEMMA DeleteSteps ==
    ASSUME IInv, NEW t \in Threads, NEW m \in Mutexes,
           Delete(t, m) \/ (DeleteNext(t) /\ m = call[t].q)
    PROVE  DeleteStep(t, m) /\ (DeletePick(t, m) \/ DeleteFinish(t, m))
<1>1. holds \in [Mutexes -> [Threads -> Nat]]
  BY DEF IInv, TypeOK
<1>2. CASE Delete(t, m)
  <2>1. picked = NoThread
    BY <1>2, Outside DEF Delete, Caller
  <2>2. holds' = [holds EXCEPT ![m] = [u \in Threads |-> 0]]
    BY <1>2 DEF Delete
  <2>3. /\ holds' \in [Mutexes -> [Threads -> Nat]]
        /\ \A n \in Mutexes, u \in Threads :
              holds'[n][u] = IF n = m THEN 0 ELSE holds[n][u]
    BY <1>1, <2>2
  <2>4. QED
    BY <1>2, <2>1, <2>3 DEF Delete, Caller, DeleteStep
<1>3. CASE DeleteNext(t) /\ m = call[t].q
  <2>1. /\ call[t].at = "delete" /\ picked = NoThread
        /\ UNCHANGED <<used, option, free, saved, depth, safe, holds, voided, leaked>>
    BY <1>3 DEF DeleteNext, histVars
  <2>2. m \notin used
    BY <1>3, <2>1 DEF IInv, KernelInv
  <2>3. \A u \in Threads : holds[m][u] = 0 /\ ~Arriving(u, m)
    BY <2>2 DEF IInv, OwnerInv, Known
  <2>4. QED
    BY <1>1, <1>3, <2>1, <2>2, <2>3 DEF DeleteStep, DeleteNext
<1>4. QED
  BY <1>2, <1>3

\* What such a step leaves of what is known, when the thread ends up where no
\* thread relies on a mutex.
LEMMA DeleteStepKeeps ==
    ASSUME IInv, NEW t \in Threads, NEW m \in Mutexes, DeleteStep(t, m),
           NEW c, Moves(Places, t, c), c.at \in {"idle", "delete", "unsafe"},
           UNCHANGED <<sem, timedOut, deleted, signalled>>,
           \A n \in Mutexes : n # m => waitQ'[n] = waitQ[n] /\ owner'[n] = owner[n]
    PROVE  /\ OwnerInv' /\ VoidedInv'
           /\ \A n \in Mutexes : n # m /\ n \notin used =>
                 waitQ'[n] = <<>> /\ owner'[n] = NoThread
           /\ call'[t] = c
           /\ \A x \in Threads : /\ x # t => call'[x] = call[x]
                                 /\ x # t => call[x].at \notin {"post", "delete"}
<1> USE Constants
<1>1. LibInv(Places) /\ TypeOK /\ KernelInv /\ OwnerInv /\ VoidedInv /\ UnsafeInv
  BY LibPart
<1>2. /\ used' = used \ {m}
      /\ \A n \in Mutexes, u \in Threads : holds'[n][u] = IF n = m THEN 0 ELSE holds[n][u]
      /\ voided' = voided \union {u \in Threads : Arriving(u, m)}
      /\ UNCHANGED <<option, free, depth>>
      /\ call[t].at \in {"idle", "delete"}
      /\ klock # NoThread => call[t].at = "delete" /\ call[t].q = m
  BY DEF DeleteStep
<1>3. /\ call'[t] = c
      /\ \A x \in Threads : x # t => call'[x] = call[x]
  BY <1>1, MoveEffect DEF LibInv
<1>4. \A x \in Threads : x # t => call[x].at \notin {"post", "delete"}
  BY <1>1, <1>2 DEF KernelInv
<1>5. \A n \in Mutexes : n # m /\ n \notin used =>
                 waitQ'[n] = <<>> /\ owner'[n] = NoThread
  <2>1. SUFFICES ASSUME NEW n \in Mutexes, n # m, n \notin used
                 PROVE  waitQ[n] = <<>> /\ owner[n] = NoThread
    OBVIOUS
  <2>2. \A u \in Threads : ~Deleting(u, n)
    BY <1>1, <1>2, <1>4, <2>1 DEF KernelInv, Deleting
  <2>3. QED
    BY <1>1, <2>1, <2>2 DEF KernelInv
<1>6. \A u \in Threads : \A n \in Mutexes :
         /\ Arriving(u, n)' <=> Arriving(u, n) /\ n # m
         /\ ~Posting(u, n) /\ ~Posting(u, n)'
  BY <1>2, <1>3, <1>4 DEF Arriving, Posting
<1>7. OwnerInv'
  <2>1. ASSUME NEW n \in Mutexes PROVE Consistent(n)'
    BY <1>1, <1>2 DEF OwnerInv, Consistent
  <2>2. ASSUME NEW n \in Mutexes, NEW u \in Threads PROVE Known(n, u)'
    <3>1. Known(n, u)
      BY <1>1 DEF OwnerInv
    <3>2. CASE n = m
      BY <3>2, <1>2, <1>6 DEF Known
    <3>3. CASE n # m
      <4>1. call'[u].q = n /\ call'[u].at \in {"waiting", "again"} =>
               call[u].q = n /\ call[u].at \in {"waiting", "again"}
        BY <1>3
      <4>2. n \in used' <=> n \in used
        BY <1>2, <3>3
      <4>3. QED
        BY <3>1, <3>3, <4>1, <4>2, <1>2, <1>6, OwnerFrame
    <3>4. QED
      BY <3>2, <3>3
  <2>3. QED
    BY <2>1, <2>2 DEF OwnerInv
<1>8. VoidedInv'
  <2> SUFFICES ASSUME NEW u \in voided'
               PROVE  /\ call'[u].at = "waiting"
                      /\ u \notin sem /\ u \notin timedOut /\ u \notin deleted
                      /\ u \notin signalled
    BY DEF VoidedInv
  <2>1. /\ u \in Threads /\ call[u].at = "waiting"
        /\ u \notin sem /\ u \notin timedOut /\ u \notin deleted /\ u \notin signalled
    BY <1>1, <1>2 DEF VoidedInv, TypeOK, Arriving
  <2>2. QED
    BY <1>2, <1>3, <2>1
<1>9. QED
  BY <1>3, <1>4, <1>5, <1>7, <1>8

\* A waiter of the mutex is taken off its queue, to be told that it is gone.
LEMMA DeletePickPreserves ==
    ASSUME IInv, NEW t \in Threads, NEW m \in Mutexes, DeleteStep(t, m),
           DeletePick(t, m)
    PROVE  IInv'
<1> USE Constants
<1>1. LibInv(Places) /\ TypeOK /\ KernelInv /\ OwnerInv /\ VoidedInv /\ UnsafeInv
  BY LibPart
<1>2. /\ waitQ[m] # <<>> /\ Pick(m) /\ klock' = t /\ At(t, "delete", m)
      /\ UNCHANGED <<owner, prio, unsafe>>
  BY DEF DeletePick
<1>3. /\ picked = NoThread /\ used' = used \ {m}
      /\ holds' \in [Mutexes -> [Threads -> Nat]]
      /\ call[t].at \in {"idle", "delete"}
      /\ voided' = voided \union {u \in Threads : Arriving(u, m)}
      /\ UNCHANGED <<option, free, saved, depth, safe, leaked>>
  BY DEF DeleteStep
<1> DEFINE c == [at |-> "delete", q |-> m, timeout |-> call[t].timeout]
<1>4. Moves(Places, t, c)
  BY <1>1, <1>2, AtMoves DEF LibInv, Places, Mutexes
<1>5. c.at = "delete" /\ c.q = m
  OBVIOUS
<1> HIDE DEF c
<1>6. LibInv(Places)'
  BY <1>1, <1>2, <1>3, <1>4, PickEffect DEF Mutexes
<1>7. /\ \A n \in Mutexes : n # m => waitQ'[n] = waitQ[n] /\ owner'[n] = owner[n]
      /\ UNCHANGED <<sem, timedOut, deleted, signalled>>
  BY <1>1, <1>2 DEF Pick, LibInv, LibTypeOK, Mutexes
<1>8. /\ OwnerInv' /\ VoidedInv'
      /\ \A n \in Mutexes : n # m /\ n \notin used =>
            waitQ'[n] = <<>> /\ owner'[n] = NoThread
      /\ call'[t] = c
      /\ \A x \in Threads : /\ x # t => call'[x] = call[x]
                            /\ x # t => call[x].at \notin {"post", "delete"}
  BY <1>4, <1>5, <1>7, DeleteStepKeeps
<1>9. TypeOK'
  BY <1>1, <1>2, <1>3, <1>6 DEF TypeOK, LibInv
<1>10. KernelInv'
  <2>1. \A u \in Threads : u # t => call'[u].at \notin {"post", "delete"}
    BY <1>8
  <2>2. Deleting(t, m)'
    BY <1>5, <1>8 DEF Deleting
  <2>3. \A u \in Threads : \A n \in Mutexes : ~Posting(u, n)'
    BY <1>5, <1>8, <2>1 DEF Posting
  <2>4. \A n \in Mutexes \ used' : waitQ'[n] # <<>> \/ owner'[n] # NoThread =>
            \E u \in Threads : Deleting(u, n)'
    BY <1>3, <1>8, <2>2
  <2>5. QED
    BY <1>2, <1>3, <1>5, <1>8, <2>1, <2>3, <2>4 DEF KernelInv
<1>11. UnsafeInv'
  BY <1>1, <1>2, <1>3, <1>5, <1>8 DEF UnsafeInv
<1>12. QED
  BY <1>6, <1>8, <1>9, <1>10, <1>11 DEF IInv, LibInv

\* No waiter is left: the mutex has no owner any more.
LEMMA DeleteFinishPreserves ==
    ASSUME IInv, NEW t \in Threads, NEW m \in Mutexes, DeleteStep(t, m),
           DeleteFinish(t, m)
    PROVE  IInv'
<1> USE Constants
<1>1. LibInv(Places) /\ TypeOK /\ KernelInv /\ OwnerInv /\ VoidedInv /\ UnsafeInv
  BY LibPart
<1>2. /\ waitQ[m] = <<>> /\ klock' = NoThread /\ owner' = [owner EXCEPT ![m] = NoThread]
      /\ UNCHANGED <<waitVars, picked>>
  BY DEF DeleteFinish
<1>3. /\ picked = NoThread /\ used' = used \ {m}
      /\ holds' \in [Mutexes -> [Threads -> Nat]]
      /\ call[t].at \in {"idle", "delete"}
      /\ voided' = voided \union {u \in Threads : Arriving(u, m)}
      /\ UNCHANGED <<option, free, saved, depth, safe, leaked>>
  BY DEF DeleteStep
<1>4. /\ owner'[m] = NoThread
      /\ \A n \in Mutexes : n # m => waitQ'[n] = waitQ[n] /\ owner'[n] = owner[n]
      /\ owner' \in [Mutexes -> Threads \union {NoThread}]
  BY <1>1, <1>2 DEF TypeOK, waitVars
<1>5. t \notin sem /\ t \notin signalled
  BY <1>1, <1>3 DEF LibInv, FlagInv
<1>6. \E c : /\ Moves(Places, t, c) /\ c.at \in {"idle", "unsafe"}
             /\ unsafe' \in [Threads -> Threads \union {NoThread}]
             /\ unsafe'[t] # NoThread <=> c.at = "unsafe"
             /\ \A u \in Threads : u # t => unsafe'[u] = unsafe[u]
             /\ prio' \in [Threads -> 0 .. Lowest]
  <2>1. CASE owner[m] = NoThread
    <3>1. Return(t) /\ UNCHANGED <<prio, unsafe>>
      BY <2>1 DEF DeleteFinish
    <3>2. Moves(Places, t, Idle) /\ Idle.at = "idle"
      BY <3>1, ReturnMoves DEF Places, Idle
    <3>3. unsafe'[t] = NoThread
      BY <1>1, <1>3, <3>1 DEF UnsafeInv
    <3>4. QED
      BY <1>1, <3>1, <3>2, <3>3 DEF TypeOK
  <2>2. CASE owner[m] # NoThread
    <3>1. /\ prio' = [prio EXCEPT ![owner[m]] = saved[m]]
          /\ unsafe' = [unsafe EXCEPT ![t] = owner[m]] /\ At(t, "unsafe", m)
      BY <2>2 DEF DeleteFinish
    <3> DEFINE c == [at |-> "unsafe", q |-> m, timeout |-> call[t].timeout]
    <3>2. Moves(Places, t, c)
      BY <1>1, <3>1, AtMoves DEF LibInv, Places, Mutexes
    <3>3. c.at = "unsafe"
      OBVIOUS
    <3> HIDE DEF c
    <3>4. owner[m] \in Threads
      BY <1>1, <2>2 DEF TypeOK
    <3>5. /\ unsafe' \in [Threads -> Threads \union {NoThread}]
          /\ unsafe'[t] # NoThread
          /\ \A u \in Threads : u # t => unsafe'[u] = unsafe[u]
          /\ prio' \in [Threads -> 0 .. Lowest]
      BY <1>1, <3>1, <3>4 DEF TypeOK
    <3>6. QED
      BY <3>2, <3>3, <3>5
  <2>3. QED
    BY <2>1, <2>2
<1>7. PICK c : /\ Moves(Places, t, c) /\ c.at \in {"idle", "unsafe"}
               /\ unsafe' \in [Threads -> Threads \union {NoThread}]
               /\ unsafe'[t] # NoThread <=> c.at = "unsafe"
               /\ \A u \in Threads : u # t => unsafe'[u] = unsafe[u]
               /\ prio' \in [Threads -> 0 .. Lowest]
  BY <1>6
<1>8. LibInv(Places)'
  BY <1>1, <1>2, <1>3, <1>5, <1>7, MoveKeeps DEF waitVars
<1>9. /\ OwnerInv' /\ VoidedInv'
      /\ \A n \in Mutexes : n # m /\ n \notin used =>
            waitQ'[n] = <<>> /\ owner'[n] = NoThread
      /\ call'[t] = c
      /\ \A x \in Threads : /\ x # t => call'[x] = call[x]
                            /\ x # t => call[x].at \notin {"post", "delete"}
  BY <1>2, <1>4, <1>7, DeleteStepKeeps DEF waitVars
<1>10. TypeOK'
  BY <1>1, <1>3, <1>4, <1>7, <1>8 DEF TypeOK, LibInv
<1>11. KernelInv'
  <2>1. \A u \in Threads : call'[u].at # "post" /\ call'[u].at # "delete" /\ klock' # u
    BY <1>2, <1>7, <1>9
  <2>2. \A n \in Mutexes \ used' : waitQ'[n] = <<>> /\ owner'[n] = NoThread
    BY <1>2, <1>3, <1>4, <1>9 DEF waitVars
  <2>3. QED
    BY <2>1, <2>2 DEF KernelInv, Posting
<1>12. UnsafeInv'
  BY <1>1, <1>7, <1>9 DEF UnsafeInv
<1>13. QED
  BY <1>8, <1>9, <1>10, <1>11, <1>12 DEF IInv, LibInv

\* API_SemaphoreMDelete, its first stretch and the later ones.
LEMMA DeletePreserves ==
    ASSUME IInv, NEW t \in Threads, NEW m \in Mutexes,
           Delete(t, m) \/ (DeleteNext(t) /\ m = call[t].q)
    PROVE  IInv'
BY DeleteSteps, DeletePickPreserves, DeleteFinishPreserves

\* A waiter of a deleted mutex is told so when it is woken.
LEMMA DeleteHighPreserves ==
    ASSUME IInv, NEW t \in Threads, DeleteHigh(t)
    PROVE  IInv'
<1> USE Constants
<1>1. LibInv(Places) /\ TypeOK /\ KernelInv /\ OwnerInv /\ VoidedInv /\ UnsafeInv
  BY LibPart
<1>2. /\ call[t].at = "delete" /\ picked # NoThread
      /\ deleted' = deleted \union {picked} /\ WakePicked
      /\ UNCHANGED <<waitQ, delayed, signalled, klock, call, evtVars, prio,
                     safe, unsafe, holds, voided, leaked>>
  BY DEF DeleteHigh, histVars
<1>3. Moves(Places, t, call[t])
  <2>1. call \in [Threads -> Calls(Places)]
    BY <1>1 DEF LibInv, LibTypeOK, Calls
  <2>2. call' = [call EXCEPT ![t] = call[t]]
    BY <1>2, <2>1
  <2>3. QED
    BY <1>2, <2>1, <2>2 DEF Moves
<1>4. /\ LibInv(Places)' /\ picked \in sem /\ picked \in Threads
      /\ picked' = NoThread /\ sem' = sem \ {picked} /\ timedOut' = timedOut
  <2>1. klock' \in Threads \union {NoThread}
    BY <1>1, <1>2 DEF LibInv, LibTypeOK
  <2>2. QED
    BY <1>1, <1>2, <1>3, <2>1, WakeEffect
<1>5. TypeOK'
  BY <1>1, <1>2, <1>4 DEF TypeOK, LibInv, evtVars
<1>6. \A u \in Threads : \A n \in Mutexes : ~Posting(u, n)
  BY <1>1, <1>2 DEF KernelInv, Posting
<1>7. KernelInv'
  BY <1>1, <1>2, <1>6 DEF KernelInv, Posting, Deleting, evtVars
<1>8. \A u \in Threads : \A n \in Mutexes : Arriving(u, n)' <=> Arriving(u, n)
  BY <1>2, <1>4 DEF Arriving
<1>9. OwnerInv'
  BY <1>1, <1>2, <1>6, <1>8 DEF OwnerInv, Known, Consistent, Posting, evtVars
<1>10. VoidedInv'
  BY <1>1, <1>2, <1>4 DEF VoidedInv
<1>11. UnsafeInv'
  BY <1>1, <1>2 DEF UnsafeInv
<1>12. QED
  BY <1>4, <1>5, <1>7, <1>9, <1>10, <1>11 DEF IInv, LibInv

\* The tick and signals end the wait of threads that have nothing yet.
LEMMA WokenPreserves ==
    ASSUME IInv, NEW x \in Threads, Expire(x) \/ Signal(x),
           UNCHANGED <<evtVars, prio, safe, unsafe, histVars>>
    PROVE  IInv'
<1> USE Constants
<1>1. LibInv(Places) /\ TypeOK /\ KernelInv /\ OwnerInv /\ VoidedInv /\ UnsafeInv
  BY LibPart
<1>2. /\ LibInv(Places)' /\ x \in sem
      /\ sem' = sem \ {x} /\ timedOut' = timedOut \union {x}
      /\ UNCHANGED <<deleted, klock, picked, call>>
      /\ \A q \in Queues : waitQ[q] = <<>> => waitQ'[q] = <<>>
      /\ signalled' \subseteq signalled \union {x} /\ signalled \subseteq signalled'
  <2>1. CASE Expire(x)
    BY <1>1, <2>1, ExpireEffect
  <2>2. CASE Signal(x)
    BY <1>1, <2>2, SignalEffect
  <2>3. QED
    BY <2>1, <2>2
<1>3. TypeOK'
  BY <1>1, <1>2 DEF TypeOK, LibInv, evtVars, histVars
<1>4. \A u \in Threads : \A n \in Mutexes : Arriving(u, n)' <=> Arriving(u, n)
  BY <1>2 DEF Arriving, histVars
<1>5. KernelInv'
  BY <1>1, <1>2 DEF KernelInv, Posting, Deleting, evtVars, Mutexes
<1>6. OwnerInv'
  <2>1. ASSUME NEW n \in Mutexes PROVE Consistent(n)'
    BY <1>1, <1>2 DEF OwnerInv, Consistent, evtVars, Mutexes
  <2>2. ASSUME NEW n \in Mutexes, NEW u \in Threads PROVE Known(n, u)'
    <3>1. Known(n, u) /\ (Posting(u, n)' <=> Posting(u, n))
      BY <1>1, <1>2 DEF OwnerInv, Posting
    <3>2. QED
      BY <3>1, <1>2, <1>4, OwnerFrame DEF evtVars, histVars
  <2>3. QED
    BY <2>1, <2>2 DEF OwnerInv
<1>7. VoidedInv'
  BY <1>1, <1>2 DEF VoidedInv, histVars
<1>8. UnsafeInv'
  BY <1>1, <1>2 DEF UnsafeInv
<1>9. QED
  BY <1>2, <1>3, <1>5, <1>6, <1>7, <1>8 DEF IInv, LibInv

-----------------------------------------------------------------------------
\* A step that changes nothing.
LEMMA StutterPreserves == IInv /\ UNCHANGED vars => IInv'
<1> SUFFICES ASSUME IInv, UNCHANGED vars PROVE IInv'
  OBVIOUS
<1>1. /\ UNCHANGED <<waitQ, sem, delayed, timedOut, deleted, signalled, klock, picked, call>>
      /\ UNCHANGED <<used, option, free, saved, depth, owner, prio, safe, unsafe>>
      /\ UNCHANGED <<holds, voided, leaked>>
  BY DEF vars, libVars, waitVars, evtVars, histVars
<1>2. TypeOK'
  BY <1>1 DEF IInv, TypeOK, LibTypeOK
<1>3. QueueInv' /\ FlagInv'
  BY <1>1 DEF IInv, QueueInv, FlagInv
<1>4. KernelInv' /\ VoidedInv' /\ UnsafeInv'
  BY <1>1 DEF IInv, KernelInv, Posting, Deleting, VoidedInv, UnsafeInv
<1>5. OwnerInv'
  BY <1>1 DEF IInv, OwnerInv, Known, Consistent, Arriving, Posting
<1>6. QED
  BY <1>2, <1>3, <1>4, <1>5 DEF IInv

\* Every step preserves the invariant.
LEMMA NextPreserves == IInv /\ [Next]_vars => IInv'
<1> SUFFICES ASSUME IInv, [Next]_vars PROVE IInv'
  OBVIOUS
<1>1. ASSUME NEW t \in Threads, NEW m \in Mutexes, NEW opt \in Options, Create(t, m, opt)
      PROVE  IInv'
  BY <1>1, CreatePreserves
<1>2. ASSUME NEW t \in Threads, NEW m \in Mutexes, NEW timeout \in Timeouts,
             Pend(t, m, timeout)
      PROVE  IInv'
  BY <1>2, PendPreserves
<1>3. ASSUME NEW t \in Threads, NEW m \in Mutexes, PostRefused(t, m)
      PROVE  IInv'
  <2>1. call[t].at \in {"idle", "again"} /\ klock = NoThread /\ holds' = holds
    BY <1>3 DEF PostRefused, Caller, histVars
  <2>2. QED
    BY <1>3, <2>1, RefusedPreserves DEF PostRefused, histVars
<1>4. ASSUME NEW t \in Threads, NEW m \in Mutexes, PostAgain(t, m) PROVE IInv'
  BY <1>4, PostAgainPreserves
<1>5. ASSUME NEW t \in Threads, NEW m \in Mutexes, PostPick(t, m) PROVE IInv'
  BY <1>5, PostPickPreserves
<1>6. ASSUME NEW t \in Threads, NEW m \in Mutexes, PostFree(t, m) PROVE IInv'
  BY <1>6, PostFreePreserves
<1>7. ASSUME NEW t \in Threads, NEW m \in Mutexes, Delete(t, m) PROVE IInv'
  BY <1>7, DeletePreserves
<1>8. ASSUME NEW t \in Threads, Proceed(t) PROVE IInv'
  <2>1. CASE PendAgain(t)
    <3>1. call[t].q \in Mutexes /\ call[t].timeout \in Timeouts
      BY <2>1 DEF PendAgain, IInv, FlagInv, TypeOK, LibTypeOK, Mutexes
    <3>2. QED
      BY <2>1, <3>1, PendPreserves
  <2>2. CASE PendSignalled(t)
    BY <2>2, PendSignalledPreserves
  <2>3. CASE PendReturn(t)
    BY <2>3, PendReturnPreserves
  <2>4. CASE PostHigh(t)
    BY <2>4, PostHighPreserves
  <2>5. CASE Unsafe(t)
    BY <2>5, UnsafePreserves
  <2>6. CASE DeleteHigh(t)
    BY <2>6, DeleteHighPreserves
  <2>7. CASE DeleteNext(t)
    <3>1. call[t].q \in Mutexes
      BY <2>7 DEF DeleteNext, IInv, KernelInv
    <3>2. QED
      BY <2>7, <3>1, DeletePreserves
  <2>8. QED
    BY <1>8, <2>1, <2>2, <2>3, <2>4, <2>5, <2>6, <2>7 DEF Proceed
<1>9. ASSUME NEW t \in Threads, Expire(t) \/ Signal(t),
             UNCHANGED <<evtVars, prio, safe, unsafe, histVars>>
      PROVE  IInv'
  BY <1>9, WokenPreserves
<1>10. CASE UNCHANGED vars
  BY <1>10, StutterPreserves
<1>11. QED
  BY <1>1, <1>2, <1>3, <1>4, <1>5, <1>6, <1>7, <1>8, <1>9, <1>10 DEF Next

\* The inductive invariant holds in every reachable state.
THEOREM Invariance == Spec => []IInv
<1>1. Init => IInv
  BY InitIInv
<1>2. IInv /\ [Next]_vars => IInv'
  BY NextPreserves
<1>3. QED
  BY <1>1, <1>2, PTL DEF Spec

\* Every variable of the mutexes keeps its type, the depth its bound: however
\* calls, ticks, signals and deletions interleave, no post gives back more
\* than was locked.
THEOREM TypeCorrect == Spec => []TypeOK
<1>1. IInv => TypeOK
  BY DEF IInv
<1>2. QED
  BY <1>1, Invariance, PTL

\* EVENT_pvTcbOwn and EVENT_pvPtr agree with what the threads were told.
THEOREM OwnersKnow == Spec => []OwnerKnows
<1>1. IInv => OwnerKnows
  <2> SUFFICES ASSUME IInv, NEW m \in used PROVE
               /\ m \in free <=> owner[m] = NoThread
               /\ m \in free => waitQ[m] = <<>>
               /\ \A t \in Threads :
                     ~(call[t].at = "post" /\ call[t].q = m) =>
                        holds[m][t] = IF owner[m] # t \/ Arriving(t, m)
                                      THEN 0 ELSE depth[m] + 1
    BY DEF OwnerKnows
  <2>1. m \in Mutexes
    BY DEF IInv, TypeOK
  <2>2. Consistent(m) /\ \A t \in Threads : Known(m, t)
    BY <2>1 DEF IInv, OwnerInv
  <2>3. QED
    BY <2>2 DEF Consistent, Known, Posting
<1>2. QED
  BY <1>1, Invariance, PTL

-----------------------------------------------------------------------------
(* The calls implement locks, by the results that they return. *)

\* Where a call ends without success, nothing its callers rely on changes.
LEMMA FailedReturn ==
    ASSUME TypeOK, NEW t \in Threads, NEW m \in Mutexes, NEW r, r # "NONE",
           Returned(t, m, r)
    PROVE  holds' = holds
<1>1. holds \in [Mutexes -> [Threads -> Nat]]
  BY DEF TypeOK
<1>2. holds' = [holds EXCEPT ![m][t] = @]
  BY DEF Returned
<1>3. QED
  BY <1>1, <1>2

\* A pend either changes nothing for the callers, or gives the mutex to one
\* that shares it with nobody.
LEMMA PendLocks ==
    ASSUME IInv, NEW t \in Threads, NEW m \in Mutexes, NEW timeout,
           call[t].at \in {"idle", "again"}, PendEnter(t, m, timeout)
    PROVE  Lock!Lock(m, t) \/ UNCHANGED <<used, holds>>
<1>1. TypeOK
  BY DEF IInv
<1>2. CASE PendInvalid(t, m)
  BY <1>1, <1>2, FailedReturn DEF PendInvalid, evtVars
<1>3. CASE PendTake(t, m)
  <2>1. owner[m] = NoThread
    BY <1>3 DEF PendTake, IInv, OwnerInv, Consistent
  <2>2. \A u \in Threads : holds[m][u] = 0
    BY <2>1, Constants DEF IInv, OwnerInv, Known
  <2>3. m \in used /\ holds' = [holds EXCEPT ![m][t] = @ + 1] /\ used' = used
    BY <1>3 DEF PendTake, Returned
  <2>4. QED
    BY <2>2, <2>3 DEF Lock!Lock
<1>4. CASE PendOwn(t, m)
  <2>1. \A u \in Threads : u # t => holds[m][u] = 0
    BY <1>4, OwnerHolds DEF PendOwn
  <2>2. m \in used /\ used' = used
    BY <1>4 DEF PendOwn
  <2>3. Returned(t, m, "EDEADLK") \/ Returned(t, m, "NONE")
    BY <1>4 DEF PendOwn
  <2>4. CASE Returned(t, m, "EDEADLK")
    BY <1>1, <2>2, <2>4, FailedReturn
  <2>5. CASE Returned(t, m, "NONE")
    <3>1. holds' = [holds EXCEPT ![m][t] = @ + 1]
      BY <2>5 DEF Returned
    <3>2. QED
      BY <2>1, <2>2, <3>1 DEF Lock!Lock
  <2>6. QED
    BY <2>3, <2>4, <2>5
<1>5. CASE PendNotWait(t, m, timeout)
  BY <1>1, <1>5, FailedReturn DEF PendNotWait, evtVars
<1>6. CASE PendBlock(t, m, timeout)
  BY <1>6 DEF PendBlock, evtVars, histVars
<1>7. QED
  BY <1>2, <1>3, <1>4, <1>5, <1>6 DEF PendEnter

\* A wait that ends in success has made the thread the only owner.
LEMMA ReturnLocks ==
    ASSUME IInv, NEW t \in Threads, PendReturn(t)
    PROVE  Lock!Lock(call[t].q, t) \/ UNCHANGED <<used, holds>>
<1> DEFINE m == call[t].q
           r == IF t \in voided THEN "VOID" ELSE WaitResult(t)
<1>1. /\ m \in Mutexes /\ call[t].at = "waiting" /\ t \notin sem /\ t \notin signalled
      /\ Returned(t, m, r) /\ used' = used
  BY DEF PendReturn, WaitOver, IInv, FlagInv, evtVars, Mutexes
<1>2. CASE r # "NONE"
  <2> HIDE DEF r, m
  <2>1. QED
    BY <1>1, <1>2, FailedReturn DEF IInv
<1>3. CASE r = "NONE"
  <2>1. Arriving(t, m)
    BY <1>1, <1>3 DEF Arriving, WaitResult
  <2>2. m \in used /\ owner[m] = t /\ \A u \in Threads : Known(m, u)
    BY <1>1, <2>1 DEF IInv, OwnerInv, Known
  <2>3. \A u \in Threads : u # t => holds[m][u] = 0
    BY <2>2 DEF Known
  <2>4. holds' = [holds EXCEPT ![m][t] = @ + 1]
    BY <1>1, <1>3 DEF Returned
  <2>5. QED
    BY <1>1, <2>2, <2>3, <2>4 DEF Lock!Lock
<1>4. QED
  BY <1>2, <1>3

\* Every step of the mutexes is a step of the locks, or none.
LEMMA LockStep == IInv /\ [Next]_vars => [Lock!Next]_(Lock!vars)
<1> SUFFICES ASSUME IInv, [Next]_vars PROVE Lock!Next \/ UNCHANGED <<used, holds>>
  BY DEF Lock!vars
<1>1. ASSUME NEW t \in Threads, NEW m \in Mutexes, NEW opt \in Options, Create(t, m, opt)
      PROVE  Lock!Create(m)
  BY <1>1 DEF Create, histVars, Lock!Create
<1>2. ASSUME NEW t \in Threads, NEW m \in Mutexes, NEW timeout \in Timeouts,
             Pend(t, m, timeout)
      PROVE  Lock!Lock(m, t) \/ UNCHANGED <<used, holds>>
  BY <1>2, PendLocks DEF Pend, Caller
<1>3. ASSUME NEW t \in Threads, NEW m \in Mutexes, PostRefused(t, m)
      PROVE  UNCHANGED <<used, holds>>
  BY <1>3 DEF PostRefused, evtVars, histVars
<1>4. ASSUME NEW t \in Threads, NEW m \in Mutexes,
             PostAgain(t, m) \/ PostPick(t, m) \/ PostFree(t, m)
      PROVE  Lock!Unlock(m, t)
  <2>1. /\ m \in used /\ owner[m] = t /\ call[t].at = "idle" /\ used' = used
        /\ holds' = [holds EXCEPT ![m][t] = @ - 1]
    BY <1>4 DEF PostAgain, PostPick, PostFree, Caller, Given, evtVars
  <2>2. holds[m][t] > 0
    BY <2>1, OwnerHolds DEF IInv, TypeOK
  <2>3. QED
    BY <2>1, <2>2 DEF Lock!Unlock
<1>5. ASSUME NEW t \in Threads, NEW m \in Mutexes, Delete(t, m) PROVE Lock!Delete(m)
  BY <1>5 DEF Delete, Lock!Delete
<1>6. ASSUME NEW t \in Threads, Proceed(t)
      PROVE  (\E m \in Mutexes : Lock!Lock(m, t)) \/ UNCHANGED <<used, holds>>
  <2>1. CASE PendAgain(t)
    <3>1. call[t].q \in Mutexes /\ call[t].at = "again"
      BY <2>1 DEF PendAgain, IInv, FlagInv, Mutexes
    <3>2. QED
      BY <2>1, <3>1, PendLocks DEF PendAgain
  <2>2. CASE PendReturn(t)
    <3>1. call[t].q \in Mutexes
      BY <2>2 DEF PendReturn, WaitOver, IInv, FlagInv, Mutexes
    <3>2. QED
      BY <2>2, <3>1, ReturnLocks
  <2>3. CASE PendSignalled(t) \/ PostHigh(t) \/ Unsafe(t) \/ DeleteHigh(t) \/ DeleteNext(t)
    BY <2>3 DEF PendSignalled, PostHigh, Unsafe, DeleteHigh, DeleteNext, evtVars, histVars
  <2>4. QED
    BY <1>6, <2>1, <2>2, <2>3 DEF Proceed
<1>7. ASSUME UNCHANGED <<evtVars, prio, safe, unsafe, histVars>> \/ UNCHANGED vars
      PROVE  UNCHANGED <<used, holds>>
  BY <1>7 DEF vars, evtVars, histVars
<1>8. QED
  BY <1>1, <1>2, <1>3, <1>4, <1>5, <1>6, <1>7 DEF Next, Lock!Next

\* By the results they got from pend and post, callers of the mutexes share
\* none: the mutexes implement the locks of AbstractLock, for any number of
\* mutexes and threads.
THEOREM MutexImplementsLock == Spec => ImplementsLock
<1>1. Init => Lock!Init
  BY DEF Init, Lock!Init
<1>2. IInv /\ [Next]_vars => [Lock!Next]_(Lock!vars)
  BY LockStep
<1>3. QED
  BY <1>1, <1>2, Invariance, PTL DEF Spec, ImplementsLock, Lock!Spec

-----------------------------------------------------------------------------
(* Protection against deletion. *)

\* SafeWhileOwner, with its sets counted.
LEMMA SafeCounts ==
    SafeWhileOwner <=> \A x \in Threads :
        safe[x] = Count(Mutexes, owner, x) + Count(Threads, unsafe, x)
BY DEF SafeWhileOwner, Pending, Count

\* One owner and one protection to undo change, and the counters with them.
LEMMA SafeStep ==
    ASSUME SafeWhileOwner, NEW m \in Mutexes, NEW t \in Threads,
           \A n \in Mutexes : n # m => owner'[n] = owner[n],
           \A u \in Threads : u # t => unsafe'[u] = unsafe[u],
           \A x \in Threads :
              safe'[x] = (((safe[x] - One(owner[m], x)) + One(owner'[m], x))
                             - One(unsafe[t], x)) + One(unsafe'[t], x)
    PROVE  SafeWhileOwner'
<1>1. ASSUME NEW x \in Threads
      PROVE  safe'[x] = Count(Mutexes, owner', x) + Count(Threads, unsafe', x)
  <2>1. IsFiniteSet(Mutexes) /\ IsFiniteSet(Threads)
    BY ThreadsAssumption, QueuesAssumption DEF Mutexes
  <2>2. /\ Count(Mutexes, owner, x) \in Nat
        /\ Count(Mutexes, owner', x) =
              (Count(Mutexes, owner, x) - One(owner[m], x)) + One(owner'[m], x)
    BY <2>1, CountAfterChange
  <2>3. /\ Count(Threads, unsafe, x) \in Nat
        /\ Count(Threads, unsafe', x) =
              (Count(Threads, unsafe, x) - One(unsafe[t], x)) + One(unsafe'[t], x)
    BY <2>1, CountAfterChange
  <2>4. safe[x] = Count(Mutexes, owner, x) + Count(Threads, unsafe, x)
    BY SafeCounts
  <2>5. /\ One(owner[m], x) \in Nat /\ One(owner'[m], x) \in Nat
        /\ One(unsafe[t], x) \in Nat /\ One(unsafe'[t], x) \in Nat
    BY DEF One
  <2>6. QED
    BY <2>2, <2>3, <2>4, <2>5
<1>2. QED
  BY <1>1 DEF SafeWhileOwner, Pending, Count

\* A step that leaves owners and counters alone.
LEMMA SafeFrame ==
    ASSUME SafeWhileOwner, UNCHANGED <<owner, safe, unsafe>>
    PROVE  SafeWhileOwner'
BY DEF SafeWhileOwner, Pending

\* The thread that takes the mutex is protected by the same step.
LEMMA PendTakeSafe ==
    ASSUME IInv, SafeWhileOwner, NEW t \in Threads, NEW m \in Mutexes, PendTake(t, m)
    PROVE  SafeWhileOwner'
<1>1. TypeOK /\ safe \in [Threads -> Nat]
  BY DEF IInv, TypeOK
<1>2. owner[m] = NoThread
  BY DEF PendTake, IInv, OwnerInv, Consistent
<1>3. /\ owner'[m] = t /\ \A n \in Mutexes : n # m => owner'[n] = owner[n]
      /\ unsafe' = unsafe
      /\ \A x \in Threads : safe'[x] = IF x = t THEN safe[x] + 1 ELSE safe[x]
  BY <1>1 DEF PendTake, TypeOK
<1>4. \A x \in Threads :
        safe'[x] = (((safe[x] - One(owner[m], x)) + One(owner'[m], x))
                       - One(unsafe[t], x)) + One(unsafe'[t], x)
  BY <1>1, <1>2, <1>3, Constants DEF One
<1>5. QED
  BY <1>1, <1>3, <1>4, SafeStep

\* The next owner is protected before it runs, the last one for a while more.
LEMMA PostHighSafe ==
    ASSUME IInv, SafeWhileOwner, NEW t \in Threads, PostHigh(t)
    PROVE  SafeWhileOwner'
<1> DEFINE m == call[t].q
<1>1. TypeOK /\ safe \in [Threads -> Nat]
  BY DEF IInv, TypeOK
<1>2. /\ call[t].at = "post" /\ m \in Mutexes /\ owner[m] = t
      /\ picked # NoThread /\ picked \in Threads /\ unsafe[t] = NoThread
  <2>1. call[t].at = "post" /\ m \in Mutexes
    BY DEF PostHigh, IInv, KernelInv
  <2>2. Posting(t, m)
    BY <2>1 DEF Posting
  <2>3. QED
    BY <2>1, <2>2 DEF IInv, KernelInv, UnsafeInv, TypeOK, LibTypeOK
<1>3. picked # t
  BY <1>2 DEF IInv, FlagInv
<1>4. /\ owner'[m] = picked /\ \A n \in Mutexes : n # m => owner'[n] = owner[n]
      /\ unsafe'[t] = t /\ \A u \in Threads : u # t => unsafe'[u] = unsafe[u]
      /\ \A x \in Threads : safe'[x] = IF x = picked THEN safe[x] + 1 ELSE safe[x]
  BY <1>1, <1>2 DEF PostHigh, TypeOK
<1> HIDE DEF m
<1>5. \A x \in Threads :
        safe'[x] = (((safe[x] - One(owner[m], x)) + One(owner'[m], x))
                       - One(unsafe[t], x)) + One(unsafe'[t], x)
  BY <1>1, <1>2, <1>3, <1>4, Constants DEF One
<1>6. QED
  BY <1>1, <1>2, <1>4, <1>5, SafeStep

\* Who frees the mutex stays protected until it is out of the kernel.
LEMMA PostFreeSafe ==
    ASSUME IInv, SafeWhileOwner, NEW t \in Threads, NEW m \in Mutexes, PostFree(t, m)
    PROVE  SafeWhileOwner'
<1>1. TypeOK /\ safe \in [Threads -> Nat]
  BY DEF IInv, TypeOK
<1>2. owner[m] = t /\ unsafe[t] = NoThread /\ safe' = safe
  BY DEF PostFree, Caller, IInv, UnsafeInv
<1>3. /\ owner'[m] = NoThread /\ \A n \in Mutexes : n # m => owner'[n] = owner[n]
      /\ unsafe'[t] = t /\ \A u \in Threads : u # t => unsafe'[u] = unsafe[u]
  BY <1>1 DEF PostFree, TypeOK
<1>4. \A x \in Threads :
        safe'[x] = (((safe[x] - One(owner[m], x)) + One(owner'[m], x))
                       - One(unsafe[t], x)) + One(unsafe'[t], x)
  BY <1>1, <1>2, <1>3, Constants DEF One
<1>5. QED
  BY <1>1, <1>3, <1>4, SafeStep

\* LW_THREAD_UNSAFE never meets a counter of 0.
LEMMA UnsafeSafe ==
    ASSUME IInv, SafeWhileOwner, NEW t \in Threads, Unsafe(t)
    PROVE  SafeWhileOwner'
<1>1. TypeOK /\ safe \in [Threads -> Nat]
  BY DEF IInv, TypeOK
<1>2. unsafe[t] \in Threads
  BY DEF Unsafe, IInv, UnsafeInv, TypeOK
<1>3. /\ \A u \in Threads : u # t => unsafe'[u] = unsafe[u]
      /\ unsafe'[t] = NoThread /\ owner' = owner
  BY <1>1 DEF Unsafe, TypeOK, evtVars
<1>4. IsFiniteSet(Threads) /\ IsFiniteSet(Mutexes)
  BY ThreadsAssumption, QueuesAssumption DEF Mutexes
<1>5. \A x \in Threads : Count(Mutexes, owner, x) \in Nat
  <2> TAKE x \in Threads
  <2>1. IsFiniteSet({n \in Mutexes : owner[n] = x})
    BY <1>4, FS_Subset
  <2>2. QED
    BY <2>1, FS_CardinalityType DEF Count
<1>6. \A x \in Threads :
        /\ Count(Threads, unsafe, x) \in Nat
        /\ Count(Threads, unsafe', x) =
              (Count(Threads, unsafe, x) - One(unsafe[t], x)) + One(unsafe'[t], x)
        /\ Count(Threads, unsafe, x) >= One(unsafe[t], x)
  BY <1>3, <1>4, CountAfterChange
<1>7. \A x \in Threads : safe[x] = Count(Mutexes, owner, x) + Count(Threads, unsafe, x)
  BY SafeCounts
<1>8. safe[unsafe[t]] > 0
  BY <1>2, <1>5, <1>6, <1>7 DEF One
<1>9. \A x \in Threads : safe'[x] = IF x = unsafe[t] THEN safe[x] - 1 ELSE safe[x]
  BY <1>1, <1>2, <1>8 DEF Unsafe
<1>10. ASSUME NEW x \in Threads
       PROVE  safe'[x] = Count(Mutexes, owner', x) + Count(Threads, unsafe', x)
  <2>1. One(unsafe'[t], x) = 0 /\ One(unsafe[t], x) = IF x = unsafe[t] THEN 1 ELSE 0
    BY <1>3, Constants DEF One
  <2>2. QED
    BY <1>3, <1>5, <1>6, <1>7, <1>9, <2>1
<1>11. QED
  BY <1>10 DEF SafeWhileOwner, Pending, Count

\* The protection of the owner of a deleted mutex is undone by the deleter.
LEMMA DeleteFinishSafe ==
    ASSUME IInv, SafeWhileOwner, NEW t \in Threads, NEW m \in Mutexes,
           call[t].at \in {"idle", "delete"}, DeleteFinish(t, m), safe' = safe
    PROVE  SafeWhileOwner'
<1>1. TypeOK /\ safe \in [Threads -> Nat]
  BY DEF IInv, TypeOK
<1>2. owner' = [owner EXCEPT ![m] = NoThread] /\ unsafe[t] = NoThread
  BY DEF DeleteFinish, IInv, UnsafeInv
<1>3. unsafe' = [unsafe EXCEPT ![t] = owner[m]]
  <2>1. CASE owner[m] = NoThread
    BY <1>1, <1>2, <2>1 DEF DeleteFinish, TypeOK
  <2>2. CASE owner[m] # NoThread
    BY <2>2 DEF DeleteFinish
  <2>3. QED
    BY <2>1, <2>2
<1>4. /\ owner'[m] = NoThread /\ \A n \in Mutexes : n # m => owner'[n] = owner[n]
      /\ unsafe'[t] = owner[m] /\ \A u \in Threads : u # t => unsafe'[u] = unsafe[u]
  BY <1>1, <1>2, <1>3 DEF TypeOK
<1>5. \A x \in Threads :
        safe'[x] = (((safe[x] - One(owner[m], x)) + One(owner'[m], x))
                       - One(unsafe[t], x)) + One(unsafe'[t], x)
  BY <1>1, <1>2, <1>4, Constants DEF One
<1>6. QED
  BY <1>4, <1>5, SafeStep

\* Every step keeps the counters right.
LEMMA SafeNext == IInv /\ SafeWhileOwner /\ [Next]_vars => SafeWhileOwner'
<1> SUFFICES ASSUME IInv, SafeWhileOwner, [Next]_vars PROVE SafeWhileOwner'
  OBVIOUS
<1>1. ASSUME NEW t \in Threads, NEW m \in Mutexes, NEW opt \in Options, Create(t, m, opt)
      PROVE  SafeWhileOwner'
  <2>1. owner[m] = NoThread /\ owner \in [Mutexes -> Threads \union {NoThread}]
    BY <1>1, Outside DEF Create, Caller, IInv, TypeOK
  <2>2. owner' = [owner EXCEPT ![m] = NoThread]
    BY <1>1 DEF Create
  <2>3. owner' = owner
    BY <2>1, <2>2
  <2>4. QED
    BY <1>1, <2>3, SafeFrame DEF Create
<1>2. ASSUME NEW t \in Threads, NEW m \in Mutexes, NEW timeout, PendEnter(t, m, timeout)
      PROVE  SafeWhileOwner'
  <2>1. CASE PendTake(t, m)
    BY <2>1, PendTakeSafe
  <2>2. CASE PendInvalid(t, m) \/ PendOwn(t, m) \/ PendNotWait(t, m, timeout)
             \/ PendBlock(t, m, timeout)
    BY <2>2, SafeFrame DEF PendInvalid, PendOwn, PendNotWait, PendBlock, evtVars
  <2>3. QED
    BY <1>2, <2>1, <2>2 DEF PendEnter
<1>3. ASSUME NEW t \in Threads, NEW m \in Mutexes,
             PostRefused(t, m) \/ PostAgain(t, m) \/ PostPick(t, m)
      PROVE  SafeWhileOwner'
  BY <1>3, SafeFrame DEF PostRefused, PostAgain, PostPick, evtVars
<1>4. ASSUME NEW t \in Threads, NEW m \in Mutexes, PostFree(t, m)
      PROVE  SafeWhileOwner'
  BY <1>4, PostFreeSafe
<1>5. ASSUME NEW t \in Threads, NEW m \in Mutexes,
             Delete(t, m) \/ (DeleteNext(t) /\ m = call[t].q)
      PROVE  SafeWhileOwner'
  <2>1. /\ safe' = safe /\ call[t].at \in {"idle", "delete"}
        /\ DeletePick(t, m) \/ DeleteFinish(t, m)
    BY <1>5 DEF Delete, DeleteNext, Caller
  <2>2. CASE DeletePick(t, m)
    BY <2>1, <2>2, SafeFrame DEF DeletePick
  <2>3. CASE DeleteFinish(t, m)
    BY <2>1, <2>3, DeleteFinishSafe
  <2>4. QED
    BY <2>1, <2>2, <2>3
<1>6. ASSUME NEW t \in Threads, Proceed(t) PROVE SafeWhileOwner'
  <2>1. CASE PendAgain(t)
    <3>1. call[t].q \in Mutexes
      BY <2>1 DEF PendAgain, IInv, FlagInv, Mutexes
    <3>2. QED
      BY <2>1, <3>1, <1>2 DEF PendAgain
  <2>2. CASE PostHigh(t)
    BY <2>2, PostHighSafe
  <2>3. CASE Unsafe(t)
    BY <2>3, UnsafeSafe
  <2>4. CASE DeleteNext(t)
    <3>1. call[t].q \in Mutexes
      BY <2>4 DEF DeleteNext, IInv, KernelInv
    <3>2. QED
      BY <2>4, <3>1, <1>5
  <2>5. CASE PendSignalled(t) \/ PendReturn(t) \/ DeleteHigh(t)
    BY <2>5, SafeFrame DEF PendSignalled, PendReturn, DeleteHigh, evtVars
  <2>6. QED
    BY <1>6, <2>1, <2>2, <2>3, <2>4, <2>5 DEF Proceed
<1>7. ASSUME UNCHANGED <<evtVars, prio, safe, unsafe, histVars>> \/ UNCHANGED vars
      PROVE  SafeWhileOwner'
  BY <1>7, SafeFrame DEF vars, evtVars
<1>8. QED
  BY <1>1, <1>2, <1>3, <1>4, <1>5, <1>6, <1>7 DEF Next, Pend

\* TCB_ulThreadSafeCounter counts the mutexes a thread owns and the threads
\* that are about to undo one of its protections: it is protected from the
\* step that makes it the owner until after it has given the mutex back.
THEOREM OwnersAreSafe == Spec => []SafeWhileOwner
<1>1. Init => SafeWhileOwner
  <2> SUFFICES ASSUME Init, NEW x \in Threads
               PROVE  safe[x] = Cardinality({m \in Mutexes : owner[m] = x})
                                  + Cardinality({u \in Threads : unsafe[u] = x})
    BY DEF SafeWhileOwner, Pending
  <2>1. /\ {m \in Mutexes : owner[m] = x} = {}
        /\ {u \in Threads : unsafe[u] = x} = {} /\ safe[x] = 0
    BY Constants DEF Init
  <2>2. QED
    BY <2>1, FS_EmptySet
<1>2. IInv /\ SafeWhileOwner /\ [Next]_vars => SafeWhileOwner'
  BY SafeNext
<1>3. QED
  BY <1>1, <1>2, Invariance, PTL DEF Spec

-----------------------------------------------------------------------------
(***************************************************************************)
(* Priorities, with one mutex: with nested ones they do not come back in   *)
(* every order of the posts, and a raised owner that waits itself raises   *)
(* nobody.                                                                 *)
(***************************************************************************)

OneMutex == \A m, n \in Mutexes : m = n

\* The ceiling is one: no thread is above it.
ProperCeiling == \A t \in Threads : Ceiling <= BasePrio[t]

\* What a mutex has saved is what its owner goes back to.
SavedInv ==
    \A m \in Mutexes : \A t \in Threads :
        owner[m] = t => saved[m] = BasePrio[t] \/ t \in leaked

\* Nobody is raised above a proper ceiling.
CeilingInv ==
    ProperCeiling => /\ \A t \in Threads : Ceiling <= prio[t]
                     /\ \A m \in Mutexes : Ceiling <= saved[m]

\* A queue is in order of priority but for an owner that waits for its own
\* mutex: one that is raised keeps its place.
SortedBut(q, p, o) ==
    \A i, j \in 1 .. Len(q) : i < j => q[j] = o \/ p[q[i]] <= p[q[j]]

OrderInv ==
    WaitPriority =>
        \A m \in Mutexes :
            /\ SortedBut(waitQ[m], prio, owner[m])
            /\ \A t \in Threads : Posting(t, m) =>
                  \A w \in ToSet(waitQ[m]) : prio[picked] <= prio[w]

BackInv == SavedInv /\ PriorityComesBack /\ CeilingInv
PrioInv == BackInv /\ OrderInv /\ NoInversion

\* What theorems about inversion ask of the options the mutexes are made with.
ProperOptions == ProperCeiling \/ \A opt \in Options : opt.inherit

\* A step that leaves owners, priorities and what is saved alone.
LEMMA BackFrame ==
    ASSUME BackInv, UNCHANGED <<owner, saved, prio, leaked>>
    PROVE  BackInv'
BY DEF BackInv, SavedInv, PriorityComesBack, CeilingInv

\* A new mutex has no owner, and neither had the block it is made of.
LEMMA CreateBack ==
    ASSUME IInv, BackInv, NEW t \in Threads, NEW m \in Mutexes, NEW opt,
           Create(t, m, opt)
    PROVE  BackInv'
<1>1. TypeOK
  BY DEF IInv
<1>2. owner[m] = NoThread
  BY Outside DEF Create, Caller
<1>3. /\ \A n \in Mutexes : owner'[n] = owner[n]
      /\ \A n \in Mutexes : n # m => saved'[n] = saved[n]
      /\ saved'[m] = 255
      /\ UNCHANGED <<prio, leaked>>
  BY <1>1, <1>2 DEF Create, TypeOK, histVars, Lowest
<1>4. Ceiling <= 255
  BY Constants
<1>5. SavedInv'
  BY <1>2, <1>3, Constants DEF BackInv, SavedInv
<1>6. PriorityComesBack'
  BY <1>3 DEF BackInv, PriorityComesBack
<1>7. CeilingInv'
  <2> SUFFICES ASSUME ProperCeiling
               PROVE  /\ \A u \in Threads : Ceiling <= prio'[u]
                      /\ \A n \in Mutexes : Ceiling <= saved'[n]
    BY DEF CeilingInv
  <2>1. /\ \A u \in Threads : Ceiling <= prio[u]
        /\ \A n \in Mutexes : Ceiling <= saved[n]
    BY DEF BackInv, CeilingInv
  <2>2. QED
    BY <1>3, <1>4, <2>1
<1>8. QED
  BY <1>5, <1>6, <1>7 DEF BackInv

\* Who takes a free mutex runs at its own priority, which the mutex saves.
LEMMA PendTakeBack ==
    ASSUME OneMutex, IInv, BackInv, NEW t \in Threads, NEW m \in Mutexes, PendTake(t, m)
    PROVE  BackInv'
<1>1. TypeOK
  BY DEF IInv
<1>2. owner[m] = NoThread /\ \A n \in Mutexes : n = m
  BY DEF PendTake, IInv, OwnerInv, Consistent, OneMutex
<1>3. owner'[m] = t /\ saved'[m] = prio[t] /\ UNCHANGED <<prio, leaked>>
  BY <1>1 DEF PendTake, TypeOK
<1>4. \A u \in Threads : prio[u] = BasePrio[u] \/ u \in leaked
  BY <1>2, Constants DEF BackInv, PriorityComesBack
<1>5. SavedInv'
  BY <1>2, <1>3, <1>4 DEF SavedInv
<1>6. PriorityComesBack'
  BY <1>3, <1>4 DEF PriorityComesBack
<1>7. CeilingInv'
  BY <1>2, <1>3 DEF BackInv, CeilingInv
<1>8. QED
  BY <1>5, <1>6, <1>7 DEF BackInv

\* Only the owner is raised, and never above the waiter that raises it or the
\* ceiling.
LEMMA PendBlockBack ==
    ASSUME IInv, BackInv, NEW t \in Threads, NEW m \in Mutexes, NEW timeout,
           PendBlock(t, m, timeout)
    PROVE  BackInv'
<1>1. TypeOK /\ owner[m] \in Threads
  BY DEF PendBlock, Busy, IInv, TypeOK, OwnerInv, Consistent
<1>2. prio' = Boosted(m, t) /\ UNCHANGED <<owner, saved, leaked>>
  BY DEF PendBlock, evtVars, histVars
<1>3. \A u \in Threads : u # owner[m] => prio'[u] = prio[u]
  BY <1>1, <1>2, BoostEffect
<1>4. prio'[owner[m]] \in {prio[owner[m]], prio[t], Ceiling}
  BY <1>1, <1>2 DEF Boosted, TypeOK
<1>5. SavedInv' /\ PriorityComesBack'
  BY <1>1, <1>2, <1>3 DEF BackInv, SavedInv, PriorityComesBack
<1>6. CeilingInv'
  <2>1. Ceiling <= Ceiling
    BY Constants
  <2>2. QED
    BY <1>1, <1>2, <1>3, <1>4, <2>1 DEF BackInv, CeilingInv
<1>7. QED
  BY <1>5, <1>6 DEF BackInv

\* The owner goes back to what was saved, the next one's priority is saved.
LEMMA PostHighBack ==
    ASSUME OneMutex, IInv, BackInv, NEW t \in Threads, PostHigh(t)
    PROVE  BackInv'
<1> DEFINE m == call[t].q
<1>1. TypeOK
  BY DEF IInv
<1>2. /\ call[t].at = "post" /\ m \in Mutexes /\ owner[m] = t
      /\ picked # NoThread /\ picked \in Threads
  <2>1. call[t].at = "post" /\ m \in Mutexes
    BY DEF PostHigh, IInv, KernelInv
  <2>2. Posting(t, m)
    BY <2>1 DEF Posting
  <2>3. QED
    BY <2>1, <2>2 DEF IInv, KernelInv, TypeOK, LibTypeOK
<1>3. picked # t
  BY <1>2 DEF IInv, FlagInv
<1>4. /\ prio'[t] = saved[m] /\ \A u \in Threads : u # t => prio'[u] = prio[u]
      /\ saved'[m] = prio[picked] /\ owner'[m] = picked /\ leaked' = leaked
  BY <1>1, <1>2 DEF PostHigh, TypeOK, histVars
<1>5. \A n \in Mutexes : n = m
  BY <1>2 DEF OneMutex
<1> HIDE DEF m
<1>6. \A u \in Threads : u # t => prio[u] = BasePrio[u] \/ u \in leaked
  BY <1>2, <1>5 DEF BackInv, PriorityComesBack
<1>7. saved[m] = BasePrio[t] \/ t \in leaked
  BY <1>2 DEF BackInv, SavedInv
<1>8. SavedInv'
  BY <1>2, <1>3, <1>4, <1>5, <1>6 DEF SavedInv
<1>9. PriorityComesBack'
  BY <1>4, <1>6, <1>7 DEF PriorityComesBack
<1>10. CeilingInv'
  BY <1>2, <1>4, <1>5 DEF BackInv, CeilingInv
<1>11. QED
  BY <1>8, <1>9, <1>10 DEF BackInv

\* Who frees the mutex at another priority than was saved is leaked.
LEMMA PostFreeBack ==
    ASSUME OneMutex, IInv, BackInv, NEW t \in Threads, NEW m \in Mutexes, PostFree(t, m)
    PROVE  BackInv'
<1>1. TypeOK
  BY DEF IInv
<1>2. /\ owner[m] = t /\ owner'[m] = NoThread /\ saved'[m] = 255 /\ prio' = prio
      /\ \A n \in Mutexes : n = m
  BY <1>1 DEF PostFree, TypeOK, OneMutex, Lowest
<1>3. leaked \subseteq leaked' /\ (prio[t] # saved[m] => t \in leaked')
  BY DEF PostFree
<1>4. Ceiling <= 255
  BY Constants
<1>5. SavedInv'
  BY <1>2, Constants DEF SavedInv
<1>6. PriorityComesBack'
  BY <1>2, <1>3 DEF BackInv, SavedInv, PriorityComesBack
<1>7. CeilingInv'
  BY <1>2, <1>4 DEF BackInv, CeilingInv
<1>8. QED
  BY <1>5, <1>6, <1>7 DEF BackInv

\* The owner a mutex is deleted under goes back as well.
LEMMA DeleteFinishBack ==
    ASSUME OneMutex, IInv, BackInv, NEW t \in Threads, NEW m \in Mutexes,
           DeleteFinish(t, m), UNCHANGED <<saved, leaked>>
    PROVE  BackInv'
<1>1. TypeOK
  BY DEF IInv
<1>2. owner'[m] = NoThread /\ \A n \in Mutexes : n = m
  BY <1>1 DEF DeleteFinish, TypeOK, OneMutex
<1>3. SavedInv'
  BY <1>2, Constants DEF SavedInv
<1>4. CASE owner[m] = NoThread
  <2>1. prio' = prio
    BY <1>4 DEF DeleteFinish
  <2>2. QED
    BY <1>2, <1>3, <1>4, <2>1, Constants DEF BackInv, PriorityComesBack, CeilingInv
<1>5. CASE owner[m] # NoThread
  <2>1. /\ owner[m] \in Threads /\ prio'[owner[m]] = saved[m]
        /\ \A u \in Threads : u # owner[m] => prio'[u] = prio[u]
    BY <1>1, <1>5 DEF DeleteFinish, TypeOK
  <2>2. saved[m] = BasePrio[owner[m]] \/ owner[m] \in leaked
    BY <2>1 DEF BackInv, SavedInv
  <2>3. PriorityComesBack'
    BY <1>2, <2>1, <2>2 DEF BackInv, PriorityComesBack
  <2>4. CeilingInv'
    BY <2>1 DEF BackInv, CeilingInv
  <2>5. QED
    BY <1>3, <2>3, <2>4 DEF BackInv
<1>6. QED
  BY <1>4, <1>5

\* Every step keeps what owners go back to.
LEMMA BackNext ==
    ASSUME OneMutex
    PROVE  IInv /\ BackInv /\ [Next]_vars => BackInv'
<1> SUFFICES ASSUME IInv, BackInv, [Next]_vars PROVE BackInv'
  OBVIOUS
<1>1. ASSUME NEW t \in Threads, NEW m \in Mutexes, NEW opt \in Options, Create(t, m, opt)
      PROVE  BackInv'
  BY <1>1, CreateBack
<1>2. ASSUME NEW t \in Threads, NEW m \in Mutexes, NEW timeout, PendEnter(t, m, timeout)
      PROVE  BackInv'
  <2>1. CASE PendTake(t, m)
    BY <2>1, PendTakeBack
  <2>2. CASE PendBlock(t, m, timeout)
    BY <2>2, PendBlockBack
  <2>3. CASE PendInvalid(t, m) \/ PendOwn(t, m) \/ PendNotWait(t, m, timeout)
    BY <2>3, BackFrame DEF PendInvalid, PendOwn, PendNotWait, evtVars
  <2>4. QED
    BY <1>2, <2>1, <2>2, <2>3 DEF PendEnter
<1>3. ASSUME NEW t \in Threads, NEW m \in Mutexes,
             PostRefused(t, m) \/ PostAgain(t, m) \/ PostPick(t, m)
      PROVE  BackInv'
  BY <1>3, BackFrame DEF PostRefused, PostAgain, PostPick, evtVars, histVars
<1>4. ASSUME NEW t \in Threads, NEW m \in Mutexes, PostFree(t, m)
      PROVE  BackInv'
  BY <1>4, PostFreeBack
<1>5. ASSUME NEW t \in Threads, NEW m \in Mutexes,
             Delete(t, m) \/ (DeleteNext(t) /\ m = call[t].q)
      PROVE  BackInv'
  <2>1. UNCHANGED <<saved, leaked>> /\ (DeletePick(t, m) \/ DeleteFinish(t, m))
    BY <1>5 DEF Delete, DeleteNext, histVars
  <2>2. CASE DeletePick(t, m)
    BY <2>1, <2>2, BackFrame DEF DeletePick
  <2>3. CASE DeleteFinish(t, m)
    BY <2>1, <2>3, DeleteFinishBack
  <2>4. QED
    BY <2>1, <2>2, <2>3
<1>6. ASSUME NEW t \in Threads, Proceed(t) PROVE BackInv'
  <2>1. CASE PendAgain(t)
    <3>1. call[t].q \in Mutexes
      BY <2>1 DEF PendAgain, IInv, FlagInv, Mutexes
    <3>2. QED
      BY <2>1, <3>1, <1>2 DEF PendAgain
  <2>2. CASE PostHigh(t)
    BY <2>2, PostHighBack
  <2>3. CASE DeleteNext(t)
    <3>1. call[t].q \in Mutexes
      BY <2>3 DEF DeleteNext, IInv, KernelInv
    <3>2. QED
      BY <2>3, <3>1, <1>5
  <2>4. CASE PendSignalled(t) \/ PendReturn(t) \/ DeleteHigh(t) \/ Unsafe(t)
    BY <2>4, BackFrame DEF PendSignalled, PendReturn, DeleteHigh, Unsafe, evtVars, histVars
  <2>5. QED
    BY <1>6, <2>1, <2>2, <2>3, <2>4 DEF Proceed
<1>7. ASSUME UNCHANGED <<evtVars, prio, safe, unsafe, histVars>> \/ UNCHANGED vars
      PROVE  BackInv'
  BY <1>7, BackFrame DEF vars, evtVars, histVars
<1>8. QED
  BY <1>1, <1>2, <1>3, <1>4, <1>5, <1>6, <1>7 DEF Next, Pend

\* No owner saves a priority that is not its thread's, but for leaked ones.
LEMMA InitBack == Init => BackInv
<1> SUFFICES ASSUME Init PROVE BackInv
  OBVIOUS
<1>1. SavedInv /\ PriorityComesBack
  BY Constants DEF Init, SavedInv, PriorityComesBack
<1>2. CeilingInv
  BY Constants DEF Init, CeilingInv, ProperCeiling, Lowest
<1>3. QED
  BY <1>1, <1>2 DEF BackInv

\* With one mutex, a thread that owns nothing runs at the priority it was
\* created with, but for one that freed the mutex when the waiter that had
\* raised it was gone.
THEOREM PrioritiesComeBack == OneMutex => (Spec => []PriorityComesBack)
<1> SUFFICES ASSUME OneMutex PROVE Spec => []PriorityComesBack
  OBVIOUS
<1>1. Init => BackInv
  BY InitBack
<1>2. IInv /\ BackInv /\ [Next]_vars => BackInv'
  BY BackNext
<1>3. BackInv => PriorityComesBack
  BY DEF BackInv
<1>4. QED
  BY <1>1, <1>2, <1>3, Invariance, PTL DEF Spec

-----------------------------------------------------------------------------
(* The order of the queue, and inversion. *)

\* A waiter that joins by its priority keeps the order, wherever an owner
\* that waits itself stands.
LEMMA AddedSortedBut ==
    ASSUME NEW q \in Seq(Threads), NEW t \in Threads, NEW p \in [Threads -> Nat],
           NEW o, SortedBut(q, p, o)
    PROVE  SortedBut(Added(q, t, TRUE, p), p, o)
<1>1. Added(q, t, TRUE, p) = InsertAt(q, PriorityPlace(q, p[t], p), t)
  BY DEF Added, AddPriority
<1>2. p[t] \in Nat
  OBVIOUS
<1>3. PICK i \in 1 .. Len(q) + 1 :
          /\ Added(q, t, TRUE, p) = InsertAt(q, i, t)
          /\ i <= Len(q) => p[t] < p[q[i]]
          /\ \A j \in 1 .. i - 1 : p[q[j]] <= p[t]
  BY <1>1, <1>2, PriorityPlaceExists
<1>4. PICK r \in Seq(Threads) :
          /\ r = InsertAt(q, i, t) /\ Len(r) = Len(q) + 1
          /\ \A j \in 1 .. Len(q) + 1 :
                r[j] = IF j < i THEN q[j] ELSE IF j = i THEN t ELSE q[j - 1]
  BY InsertAtElements
<1>5. ASSUME NEW k \in 1 .. Len(q), i <= k PROVE q[k] = o \/ p[t] <= p[q[k]]
  <2>1. i \in 1 .. Len(q) /\ q[i] \in Threads /\ q[k] \in Threads /\ p[t] < p[q[i]]
    BY <1>3, <1>5
  <2>2. CASE i = k
    BY <2>1, <2>2
  <2>3. CASE i < k
    BY <2>1, <2>3, <1>2 DEF SortedBut
  <2>4. QED
    BY <1>5, <2>2, <2>3
<1>6. ASSUME NEW a \in 1 .. Len(r), NEW b \in 1 .. Len(r), a < b
      PROVE  r[b] = o \/ p[r[a]] <= p[r[b]]
  <2> DEFINE n == Len(q)
  <2>0. /\ n \in Nat /\ i \in 1 .. n + 1 /\ a \in 1 .. n + 1 /\ b \in 1 .. n + 1 /\ a < b
        /\ \A j \in 1 .. n + 1 :
              r[j] = IF j < i THEN q[j] ELSE IF j = i THEN t ELSE q[j - 1]
    BY <1>4, <1>6
  <2> HIDE DEF n
  <2>1. CASE b < i
    <3>1. a < i /\ b < i /\ a \in 1 .. n /\ b \in 1 .. n
      BY <2>0, <2>1
    <3>3. r[a] = q[a] /\ r[b] = q[b]
      BY <2>0, <3>1
    <3>4. a \in 1 .. Len(q) /\ b \in 1 .. Len(q)
      BY <3>1 DEF n
    <3>2. QED
      BY <1>6, <3>3, <3>4 DEF SortedBut
  <2>2. CASE b = i
    <3>1. a \in 1 .. i - 1 /\ r[a] = q[a] /\ r[b] = t
      BY <1>4, <1>6, <2>2
    <3>2. QED
      BY <1>3, <3>1
  <2>3. CASE b > i /\ a = i
    <3>1. b - 1 \in 1 .. Len(q) /\ i <= b - 1 /\ r[a] = t /\ r[b] = q[b - 1]
      BY <1>4, <2>3
    <3>2. QED
      BY <1>5, <3>1
  <2>4. CASE b > i /\ a # i
    <3>1. PICK c \in 1 .. Len(q) : r[a] = q[c] /\ c < b - 1
      <4>1. CASE a < i
        <5>1. a \in 1 .. Len(q) /\ r[a] = q[a] /\ a < b - 1
          BY <1>4, <2>4, <4>1
        <5>2. QED
          BY <5>1
      <4>2. CASE a > i
        <5>1. a - 1 \in 1 .. Len(q) /\ r[a] = q[a - 1] /\ a - 1 < b - 1
          BY <1>4, <1>6, <4>2
        <5>2. QED
          BY <5>1
      <4>3. QED
        BY <2>4, <4>1, <4>2
    <3>2. b - 1 \in 1 .. Len(q) /\ r[b] = q[b - 1]
      BY <1>4, <2>4
    <3>3. QED
      BY <3>1, <3>2 DEF SortedBut
  <2>5. QED
    BY <2>1, <2>2, <2>3, <2>4
<1>7. QED
  BY <1>3, <1>4, <1>6 DEF SortedBut

\* So does one that leaves, from anywhere or from the front.
LEMMA RemovedSortedBut ==
    ASSUME NEW q \in Seq(Threads), NEW i \in 1 .. Len(q), NEW r \in Seq(Threads),
           Len(r) = Len(q) - 1,
           \A j \in 1 .. Len(q) - 1 : r[j] = IF j < i THEN q[j] ELSE q[j + 1],
           NEW p, NEW o, SortedBut(q, p, o)
    PROVE  SortedBut(r, p, o)
<1> SUFFICES ASSUME NEW a \in 1 .. Len(r), NEW b \in 1 .. Len(r), a < b
             PROVE  r[b] = o \/ p[r[a]] <= p[r[b]]
  BY DEF SortedBut
<1> DEFINE up(j) == IF j < i THEN j ELSE j + 1
<1>1. /\ up(a) \in 1 .. Len(q) /\ up(b) \in 1 .. Len(q) /\ up(a) < up(b)
      /\ r[a] = q[up(a)] /\ r[b] = q[up(b)]
  OBVIOUS
<1> HIDE DEF up
<1>2. QED
  BY <1>1 DEF SortedBut

\* _EventUnQueue keeps the order.
LEMMA DeletedSortedBut ==
    ASSUME NEW q \in Seq(Threads), NEW x \in ToSet(q), NEW p, NEW o, SortedBut(q, p, o)
    PROVE  SortedBut(Deleted(q, x), p, o)
<1>1. \E k \in 1 .. Len(q) : q[k] = x
  BY ByPosition
<1>2. PICK i \in 1 .. Len(q) : Deleted(q, x) = RemoveAt(q, i)
  BY <1>1 DEF Deleted
<1>3. PICK r \in Seq(Threads) :
          /\ r = RemoveAt(q, i) /\ Len(r) = Len(q) - 1
          /\ \A j \in 1 .. Len(q) - 1 : r[j] = IF j < i THEN q[j] ELSE q[j + 1]
  BY RemoveAtElements
<1>4. QED
  BY <1>2, <1>3, RemovedSortedBut

\* What is left behind the first waiter waited before.
LEMMA TailSubset ==
    ASSUME NEW q \in Seq(Threads), q # <<>>
    PROVE  ToSet(Tail(q)) \subseteq ToSet(q)
<1>0. Tail(q) \in Seq(Threads) /\ Len(Tail(q)) = Len(q) - 1
  OBVIOUS
<1>1. PICK r \in Seq(Threads) : r = Tail(q) /\ Len(r) = Len(q) - 1
  BY <1>0
<1>2. \A j \in 1 .. Len(r) : r[j] = q[j + 1] /\ j + 1 \in 1 .. Len(q)
  BY <1>1
<1>3. ToSet(r) \subseteq ToSet(q)
  BY <1>2, ByPosition
<1>4. QED
  BY <1>1, <1>3

\* The first waiter leaves; it was not below the others.
LEMMA TailSortedBut ==
    ASSUME NEW q \in Seq(Threads), q # <<>>, NEW p, NEW o, SortedBut(q, p, o)
    PROVE  /\ SortedBut(Tail(q), p, o)
           /\ \A w \in ToSet(Tail(q)) : w = o \/ p[Head(q)] <= p[w]
<1>0. Tail(q) \in Seq(Threads) /\ Len(Tail(q)) = Len(q) - 1
  OBVIOUS
<1>1. PICK r \in Seq(Threads) : r = Tail(q) /\ Len(r) = Len(q) - 1
  BY <1>0
<1>2. \A j \in 1 .. Len(r) : r[j] = q[j + 1]
  BY <1>1
<1>3. \A a, b \in 1 .. Len(r) : a < b => r[b] = o \/ p[r[a]] <= p[r[b]]
  <2> SUFFICES ASSUME NEW a \in 1 .. Len(r), NEW b \in 1 .. Len(r), a < b
               PROVE  r[b] = o \/ p[r[a]] <= p[r[b]]
    OBVIOUS
  <2>1. a + 1 \in 1 .. Len(q) /\ b + 1 \in 1 .. Len(q) /\ a + 1 < b + 1
    BY <1>1
  <2>2. QED
    BY <1>2, <2>1 DEF SortedBut
<1>4. ASSUME NEW w \in ToSet(r) PROVE w = o \/ p[Head(q)] <= p[w]
  <2>1. PICK k \in 1 .. Len(r) : r[k] = w
    BY ByPosition
  <2>2. 1 \in 1 .. Len(q) /\ k + 1 \in 1 .. Len(q) /\ 1 < k + 1
    BY <1>1
  <2>3. Head(q) = q[1] /\ w = q[k + 1]
    BY <1>2, <2>1
  <2>4. QED
    BY <2>2, <2>3 DEF SortedBut
<1>5. QED
  BY <1>1, <1>3, <1>4 DEF SortedBut

\* Queues that only got shorter, under the same owners and priorities.
LEMMA OrderFrame ==
    ASSUME TypeOK, OrderInv, NoInversion, UNCHANGED <<prio, owner>>,
           \A m \in used' : m \in used /\ option'[m] = option[m],
           \A m \in Mutexes :
              /\ SortedBut(waitQ[m], prio, owner[m]) => SortedBut(waitQ'[m], prio, owner[m])
              /\ ToSet(waitQ'[m]) \subseteq ToSet(waitQ[m])
              /\ \A t \in Threads : Posting(t, m)' => Posting(t, m) /\ picked' = picked
    PROVE  OrderInv' /\ NoInversion'
<1>1. used \subseteq Mutexes
  BY DEF TypeOK
<1>2. OrderInv'
  BY DEF OrderInv
<1>3. NoInversion'
  BY <1>1 DEF NoInversion
<1>4. QED
  BY <1>2, <1>3

\* The queues stay as they are, and no hand-over begins.
LEMMA OrderStays ==
    ASSUME TypeOK, OrderInv, NoInversion, UNCHANGED <<waitQ, prio, owner, option>>,
           used' \subseteq used,
           \A m \in Mutexes, t \in Threads :
              Posting(t, m)' => Posting(t, m) /\ picked' = picked
    PROVE  OrderInv' /\ NoInversion'
<1>1. \A m \in Mutexes :
         /\ SortedBut(waitQ[m], prio, owner[m]) => SortedBut(waitQ'[m], prio, owner[m])
         /\ ToSet(waitQ'[m]) \subseteq ToSet(waitQ[m])
  OBVIOUS
<1>2. QED
  BY <1>1, OrderFrame

\* Nobody waits.
LEMMA OrderEmpty ==
    ASSUME TypeOK', \A m \in Mutexes : waitQ'[m] = <<>>
    PROVE  OrderInv' /\ NoInversion'
<1>1. \A m \in Mutexes : ToSet(waitQ'[m]) = {} /\ Len(waitQ'[m]) = 0
  BY EmptyQueue
<1>2. OrderInv'
  BY <1>1 DEF OrderInv, SortedBut
<1>3. used' \subseteq Mutexes
  BY DEF TypeOK
<1>4. NoInversion'
  BY <1>1, <1>3 DEF NoInversion
<1>5. QED
  BY <1>2, <1>4

\* A call that changes the place of nobody but t, and not to "post".
LEMMA NotPosting ==
    ASSUME TypeOK, NEW t \in Threads, NEW c, c.at # "post", NEW m \in Mutexes,
           NEW u \in Threads, call' = [call EXCEPT ![t] = c]
    PROVE  Posting(u, m)' => Posting(u, m)
BY DEF Posting, TypeOK, LibTypeOK

\* The waiter that blocks raises an owner below it.
LEMMA PendBlockOrder ==
    ASSUME OneMutex, ProperOptions, IInv, IInv', BackInv, OrderInv, NoInversion,
           NEW t \in Threads, NEW m \in Mutexes, NEW timeout \in Timeouts,
           klock = NoThread, call[t].at # "waiting", PendBlock(t, m, timeout)
    PROVE  OrderInv' /\ NoInversion'
<1>1. TypeOK /\ owner[m] \in Threads /\ LibInv(Places)
  BY LibPart DEF PendBlock, Busy, IInv, TypeOK, OwnerInv, Consistent
<1>2. /\ prio' = Boosted(m, t) /\ Join(t, m, timeout, prio) /\ m \in used
      /\ UNCHANGED <<klock, picked, owner, option, used>>
  BY DEF PendBlock, evtVars, Busy
<1>3. /\ prio' \in [Threads -> 0 .. Lowest] /\ prio \in [Threads -> Nat]
      /\ \A u \in Threads : u # owner[m] => prio'[u] = prio[u]
      /\ prio'[owner[m]] <= prio[owner[m]]
      /\ option[m].inherit => prio'[owner[m]] <= prio[t]
  <2>1. prio \in [Threads -> 0 .. 255]
    BY <1>1 DEF TypeOK, Lowest
  <2>2. prio \in [Threads -> Nat]
    BY <2>1
  <2>3. QED
    BY <1>1, <1>2, <2>2, BoostEffect
<1>4. /\ ToSet(waitQ'[m]) = ToSet(waitQ[m]) \union {t}
      /\ waitQ[m] \in Seq(Threads) /\ waitQ'[m] \in Seq(Threads)
  <2>1. "waiting" \in Places /\ m \in Queues
    BY DEF Places, Mutexes
  <2>2. LibInv(Places)' /\ ToSet(waitQ'[m]) = ToSet(waitQ[m]) \union {t}
    BY <1>1, <1>2, <1>3, <2>1, JoinEffect
  <2>3. QED
    BY <1>1, <2>1, <2>2 DEF LibInv, LibTypeOK
<1>5. \A n \in Mutexes : n = m
  BY DEF OneMutex
<1>6. \A u \in Threads : call'[u].at # "post"
  BY <1>2, Constants DEF IInv, KernelInv
<1>7. \A u \in Threads : prio[u] \in Nat /\ prio'[u] \in Nat /\ prio'[u] <= prio[u]
  <2>1. \A u \in Threads : prio'[u] \in 0 .. Lowest
    BY <1>3
  <2>2. \A u \in Threads : prio'[u] \in Nat /\ prio[u] \in Nat
    BY <1>3, <2>1 DEF Lowest
  <2>3. QED
    BY <1>1, <1>3, <2>2
<1>8. ASSUME WaitPriority PROVE SortedBut(waitQ'[m], prio', owner[m])
  <2>1. SortedBut(waitQ[m], prio, owner[m])
    BY <1>8 DEF OrderInv
  <2>2. waitQ'[m] = Added(waitQ[m], t, TRUE, prio)
    BY <1>1, <1>2, <1>8, WaitPriorityAssumption DEF Join, LibInv, LibTypeOK, Mutexes
  <2>3. SortedBut(waitQ'[m], prio, owner[m])
    BY <1>3, <1>4, <2>1, <2>2, AddedSortedBut
  <2>4. ASSUME NEW i \in 1 .. Len(waitQ'[m]), NEW j \in 1 .. Len(waitQ'[m]), i < j,
               waitQ'[m][j] # owner[m]
        PROVE  prio'[waitQ'[m][i]] <= prio'[waitQ'[m][j]]
    <3>1. waitQ'[m][i] \in Threads /\ waitQ'[m][j] \in Threads
      BY <1>4
    <3>2. prio[waitQ'[m][i]] <= prio[waitQ'[m][j]]
      BY <2>3, <2>4 DEF SortedBut
    <3>3. QED
      BY <1>3, <1>7, <2>4, <3>1, <3>2
  <2>5. QED
    BY <2>4 DEF SortedBut
<1>9. OrderInv'
  BY <1>2, <1>5, <1>6, <1>8 DEF OrderInv, Posting
<1>10. NoInversion'
  <2> SUFFICES ASSUME WaitPriority, NEW w \in ToSet(waitQ[m]) \union {t},
                      option[m].inherit \/ Ceiling <= BasePrio[w]
               PROVE  prio'[owner[m]] <= prio'[w]
    BY <1>1, <1>2, <1>4, <1>5 DEF NoInversion, TypeOK
  <2>1. w \in Threads
    BY <1>4, ByPosition
  <2>2. CASE w = owner[m]
    BY <1>7, <2>1, <2>2
  <2>3. CASE w # owner[m] /\ w \in ToSet(waitQ[m])
    BY <1>1, <1>2, <1>3, <1>7, <2>1, <2>3 DEF NoInversion
  <2>4. CASE w # owner[m] /\ w = t
    <3>1. prio'[t] = prio[t]
      BY <1>3, <2>4
    <3>2. CASE option[m].inherit
      BY <1>3, <2>4, <3>1, <3>2
    <3>3. CASE ~option[m].inherit
      <4>1. option[m] \in Options
        BY <1>1 DEF TypeOK
      <4>2. ProperCeiling
        BY <3>3, <4>1 DEF ProperOptions
      <4>3. Ceiling <= prio[t] /\ Ceiling \in Nat
        BY <4>2, Constants DEF BackInv, CeilingInv
      <4>4. prio'[owner[m]] = IF prio[t] >= prio[owner[m]] THEN prio[owner[m]]
                              ELSE IF Ceiling < prio[owner[m]] THEN Ceiling
                              ELSE prio[owner[m]]
        BY <1>1, <1>2, <3>3 DEF Boosted, TypeOK
      <4>5. QED
        BY <1>1, <1>7, <2>4, <3>1, <4>3, <4>4
    <3>4. QED
      BY <3>2, <3>3
  <2>5. QED
    BY <2>2, <2>3, <2>4
<1>11. QED
  BY <1>9, <1>10

\* The first waiter leaves the queue of m: the rest stays in order, and none
\* of it is above the one that left.
LEMMA PickOrder ==
    ASSUME TypeOK, OrderInv, NoInversion, NEW m \in Mutexes, waitQ[m] # <<>>,
           Pick(m), UNCHANGED <<prio, owner, option>>, used' \subseteq used,
           \A n \in Mutexes, u \in Threads : Posting(u, n)' =>
              n = m /\ owner[m] \notin ToSet(waitQ[m])
    PROVE  OrderInv' /\ NoInversion'
<1>1. waitQ \in [Queues -> Seq(Threads)] /\ m \in Queues
  BY DEF TypeOK, LibTypeOK, Mutexes
<1>2. /\ waitQ'[m] = Tail(waitQ[m]) /\ picked' = Head(waitQ[m])
      /\ \A n \in Mutexes : n # m => waitQ'[n] = waitQ[n]
  BY <1>1 DEF Pick, Mutexes
<1>3. ToSet(Tail(waitQ[m])) \subseteq ToSet(waitQ[m])
  BY <1>1, TailSubset
<1>4. ASSUME SortedBut(waitQ[m], prio, owner[m])
      PROVE  /\ SortedBut(Tail(waitQ[m]), prio, owner[m])
             /\ \A w \in ToSet(Tail(waitQ[m])) :
                   w = owner[m] \/ prio[Head(waitQ[m])] <= prio[w]
  BY <1>1, <1>4, TailSortedBut
<1>5. OrderInv'
  <2> SUFFICES ASSUME WaitPriority, NEW n \in Mutexes
               PROVE  /\ SortedBut(waitQ'[n], prio', owner'[n])
                      /\ \A u \in Threads : Posting(u, n)' =>
                            \A w \in ToSet(waitQ'[n]) : prio'[picked'] <= prio'[w]
    BY DEF OrderInv
  <2>1. SortedBut(waitQ[n], prio, owner[n])
    BY DEF OrderInv
  <2>2. CASE n = m
    BY <2>1, <2>2, <1>2, <1>3, <1>4
  <2>3. CASE n # m
    BY <2>1, <2>3, <1>2
  <2>4. QED
    BY <2>2, <2>3
<1>6. NoInversion'
  <2>1. \A n \in Mutexes : ToSet(waitQ'[n]) \subseteq ToSet(waitQ[n])
    BY <1>2, <1>3
  <2>2. used \subseteq Mutexes
    BY DEF TypeOK
  <2>3. QED
    BY <2>1, <2>2 DEF NoInversion
<1>7. QED
  BY <1>5, <1>6

\* The next owner is not below those that wait on.
LEMMA PostHighOrder ==
    ASSUME OneMutex, IInv, OrderInv, NEW t \in Threads, PostHigh(t)
    PROVE  OrderInv' /\ NoInversion'
<1> DEFINE m == call[t].q
<1>1. TypeOK /\ LibInv(Places)
  BY LibPart
<1>2. call[t].at = "post" /\ m \in Mutexes /\ Posting(t, m)
  BY DEF PostHigh, IInv, KernelInv, Posting
<1>3. owner[m] = t /\ picked # NoThread /\ picked \in Threads /\ m \in used
  BY <1>1, <1>2 DEF IInv, KernelInv, TypeOK, LibTypeOK
<1>4. picked \notin ToSet(waitQ[m]) /\ t \notin ToSet(waitQ[m])
  BY <1>2, <1>3 DEF IInv, QueueInv, FlagInv, Mutexes
<1>5. /\ \A u \in Threads : u # t => prio'[u] = prio[u]
      /\ owner'[m] = picked /\ UNCHANGED <<waitQ, used, option>>
  BY <1>1, <1>2 DEF PostHigh, TypeOK
<1>6. picked # t
  BY <1>2, <1>3 DEF IInv, FlagInv
<1>7. ToSet(waitQ[m]) \subseteq Threads /\ waitQ[m] \in Seq(Threads)
  BY <1>1, <1>2, ByPosition DEF LibInv, LibTypeOK, Mutexes
<1>8. \A u \in Threads : call'[u].at # "post"
  <2>1. \A u \in Threads : u # t => call[u].at # "post"
    BY <1>2, Constants DEF IInv, KernelInv
  <2>2. call'[t].at = "unsafe" /\ \A u \in Threads : u # t => call'[u] = call[u]
    BY <1>1 DEF PostHigh, At, LibInv, LibTypeOK
  <2>3. QED
    BY <2>1, <2>2
<1>9. \A n \in Mutexes : n = m
  BY <1>2 DEF OneMutex
<1>10. ASSUME WaitPriority
       PROVE  /\ SortedBut(waitQ'[m], prio', owner'[m])
              /\ \A w \in ToSet(waitQ'[m]) : prio'[owner'[m]] <= prio'[w]
  <2>1. /\ SortedBut(waitQ[m], prio, owner[m])
        /\ \A w \in ToSet(waitQ[m]) : prio[picked] <= prio[w]
    BY <1>2, <1>10 DEF OrderInv
  <2>2. \A i \in 1 .. Len(waitQ[m]) : waitQ[m][i] \in Threads /\ waitQ[m][i] # t
    BY <1>4, <1>7, ByPosition
  <2> HIDE DEF m
  <2>3. SortedBut(waitQ'[m], prio', owner'[m])
    BY <1>3, <1>5, <2>1, <2>2 DEF SortedBut
  <2>4. QED
    BY <1>4, <1>5, <1>6, <1>7, <1>3, <2>1, <2>3
<1> HIDE DEF m
<1>11. OrderInv'
  BY <1>8, <1>9, <1>10 DEF OrderInv, Posting
<1>12. NoInversion'
  BY <1>1, <1>5, <1>9, <1>10 DEF NoInversion, TypeOK
<1>13. QED
  BY <1>11, <1>12

\* The tick or a signal takes a waiter out of its place.
LEMMA WokenOrder ==
    ASSUME IInv, OrderInv, NoInversion, NEW x \in Threads, Expire(x) \/ Signal(x),
           UNCHANGED <<evtVars, prio, safe, unsafe, histVars>>
    PROVE  OrderInv' /\ NoInversion'
<1>1. TypeOK /\ LibInv(Places)
  BY LibPart
<1>2. Unpend(x) /\ UNCHANGED <<picked, call>>
  BY DEF Expire, Signal
<1>3. ASSUME NEW m \in Mutexes
      PROVE  /\ SortedBut(waitQ[m], prio, owner[m]) =>
                   SortedBut(waitQ'[m], prio, owner[m])
             /\ ToSet(waitQ'[m]) \subseteq ToSet(waitQ[m])
  <2>1. waitQ[m] \in Seq(Threads) /\ IsInjective(waitQ[m])
    BY <1>1 DEF LibInv, LibTypeOK, QueueInv, Mutexes
  <2>2. waitQ'[m] = IF x \in sem /\ x \in ToSet(waitQ[m])
                    THEN Deleted(waitQ[m], x) ELSE waitQ[m]
    BY <1>2 DEF Unpend, Mutexes
  <2>3. CASE x \in sem /\ x \in ToSet(waitQ[m])
    <3>1. \E p : p \in [Threads -> Nat]
      <4>1. [u \in Threads |-> 0] \in [Threads -> Nat]
        OBVIOUS
      <4>2. QED
        BY <4>1
    <3>2. ToSet(Deleted(waitQ[m], x)) = ToSet(waitQ[m]) \ {x}
      BY <2>1, <2>3, <3>1, DeletedIsGone
    <3>3. QED
      BY <2>1, <2>2, <2>3, <3>2, DeletedSortedBut
  <2>4. CASE ~(x \in sem /\ x \in ToSet(waitQ[m]))
    BY <2>2, <2>4
  <2>5. QED
    BY <2>3, <2>4
<1>4. \A m \in Mutexes, t \in Threads : Posting(t, m)' => Posting(t, m) /\ picked' = picked
  BY <1>2 DEF Posting
<1>5. \A m \in used' : m \in used /\ option'[m] = option[m]
  BY DEF evtVars
<1>6. UNCHANGED <<prio, owner>>
  BY DEF evtVars
<1>7. QED
  BY <1>1, <1>3, <1>4, <1>5, <1>6, OrderFrame

\* Outside of the kernel no call that ends, or starts again, hands over.
LEMMA NoPosting ==
    ASSUME IInv', klock' = NoThread
    PROVE  \A m \in Mutexes, t \in Threads : ~Posting(t, m)'
BY Constants DEF IInv, KernelInv, Posting

\* Every step keeps the order of the queue, and owners above their waiters.
LEMMA OrderNext ==
    ASSUME OneMutex, ProperOptions
    PROVE  IInv /\ IInv' /\ BackInv /\ OrderInv /\ NoInversion /\ [Next]_vars
              => OrderInv' /\ NoInversion'
<1> SUFFICES ASSUME IInv, IInv', BackInv, OrderInv, NoInversion, [Next]_vars
             PROVE  OrderInv' /\ NoInversion'
  OBVIOUS
<1>0. TypeOK /\ TypeOK'
  BY DEF IInv
<1>1. ASSUME NEW t \in Threads, NEW m \in Mutexes, NEW opt \in Options, Create(t, m, opt)
      PROVE  OrderInv' /\ NoInversion'
  <2>1. waitQ'[m] = <<>>
    BY <1>0, <1>1 DEF Create, TypeOK, LibTypeOK, Mutexes
  <2>2. QED
    BY <1>0, <2>1, OrderEmpty DEF OneMutex
<1>2. ASSUME NEW t \in Threads, NEW m \in Mutexes, NEW timeout \in Timeouts,
             call[t].at # "waiting", klock = NoThread, PendEnter(t, m, timeout)
      PROVE  OrderInv' /\ NoInversion'
  <2>1. CASE PendTake(t, m)
    <3>1. waitQ' = waitQ /\ waitQ[m] = <<>>
      BY <2>1 DEF PendTake, IInv, OwnerInv, Consistent, waitVars
    <3>2. QED
      BY <1>0, <3>1, OrderEmpty DEF OneMutex
  <2>2. CASE PendBlock(t, m, timeout)
    BY <1>2, <2>2, PendBlockOrder
  <2>3. CASE PendInvalid(t, m) \/ PendOwn(t, m) \/ PendNotWait(t, m, timeout)
    <3>1. klock' = NoThread /\ UNCHANGED <<waitQ, prio, owner, option, used>>
      BY <1>2, <2>3 DEF PendInvalid, PendOwn, PendNotWait, evtVars, waitVars
    <3>2. QED
      BY <1>0, <3>1, NoPosting, OrderStays
  <2>4. QED
    BY <1>2, <2>1, <2>2, <2>3 DEF PendEnter
<1>3. ASSUME NEW t \in Threads, NEW m \in Mutexes, PostRefused(t, m) \/ PostAgain(t, m)
      PROVE  OrderInv' /\ NoInversion'
  <2>1. klock' = NoThread /\ UNCHANGED <<waitQ, prio, owner, option, used>>
    BY <1>3 DEF PostRefused, PostAgain, Caller, evtVars, waitVars
  <2>2. QED
    BY <1>0, <2>1, NoPosting, OrderStays
<1>4. ASSUME NEW t \in Threads, NEW m \in Mutexes, PostPick(t, m)
      PROVE  OrderInv' /\ NoInversion'
  <2>1. /\ waitQ[m] # <<>> /\ Pick(m) /\ owner[m] = t /\ call[t].at = "idle"
        /\ UNCHANGED <<prio, owner, option, used>>
    BY <1>4 DEF PostPick, Caller, evtVars
  <2>2. t \notin ToSet(waitQ[m])
    BY <2>1 DEF IInv, QueueInv, FlagInv, Mutexes
  <2>3. \A n \in Mutexes : n = m
    BY DEF OneMutex
  <2>4. QED
    BY <1>0, <2>1, <2>2, <2>3, PickOrder
<1>5. ASSUME NEW t \in Threads, NEW m \in Mutexes, PostFree(t, m)
      PROVE  OrderInv' /\ NoInversion'
  <2>1. waitQ'[m] = <<>>
    BY <1>5 DEF PostFree, waitVars
  <2>2. QED
    BY <1>0, <2>1, OrderEmpty DEF OneMutex
<1>6. ASSUME NEW t \in Threads, NEW m \in Mutexes,
             Delete(t, m) \/ (DeleteNext(t) /\ m = call[t].q)
      PROVE  OrderInv' /\ NoInversion'
  <2>1. /\ DeletePick(t, m) \/ DeleteFinish(t, m)
        /\ option' = option /\ used' \subseteq used
    BY <1>6 DEF Delete, DeleteNext
  <2>2. CASE DeletePick(t, m)
    <3>1. waitQ[m] # <<>> /\ Pick(m) /\ UNCHANGED <<prio, owner>> /\ klock' = t
          /\ call' = [call EXCEPT ![t] = [at |-> "delete", q |-> m, timeout |-> @.timeout]]
      BY <2>2 DEF DeletePick, At
    <3>2. call'[t].at = "delete"
      BY <1>0, <3>1 DEF TypeOK, LibTypeOK
    <3>3. \A n \in Mutexes, u \in Threads : ~Posting(u, n)'
      BY <3>1, <3>2 DEF IInv, KernelInv, Posting
    <3>4. QED
      BY <1>0, <2>1, <3>1, <3>3, PickOrder
  <2>3. CASE DeleteFinish(t, m)
    <3>1. waitQ'[m] = <<>>
      BY <2>3 DEF DeleteFinish, waitVars
    <3>2. QED
      BY <1>0, <3>1, OrderEmpty DEF OneMutex
  <2>4. QED
    BY <2>1, <2>2, <2>3
<1>7. ASSUME NEW t \in Threads, Proceed(t) PROVE OrderInv' /\ NoInversion'
  <2>1. CASE PendAgain(t)
    <3>1. call[t].q \in Mutexes /\ call[t].timeout \in Timeouts
      BY <2>1 DEF PendAgain, IInv, FlagInv, TypeOK, LibTypeOK, Mutexes
    <3>2. QED
      BY <2>1, <3>1, <1>2 DEF PendAgain
  <2>2. CASE PostHigh(t)
    BY <2>2, PostHighOrder
  <2>3. CASE DeleteNext(t)
    <3>1. call[t].q \in Mutexes
      BY <2>3 DEF DeleteNext, IInv, KernelInv
    <3>2. QED
      BY <2>3, <3>1, <1>6
  <2>4. CASE PendSignalled(t) \/ PendReturn(t) \/ Unsafe(t)
    <3>1. /\ UNCHANGED <<waitQ, prio, owner, option, used, klock, picked>>
      BY <2>4 DEF PendSignalled, Signalled, PendReturn, Unsafe, evtVars, waitVars
    <3>2. \E c : c.at # "post" /\ call' = [call EXCEPT ![t] = c]
      <4>1. CASE Return(t)
        <5>1. Idle.at # "post"
          BY DEF Idle
        <5>2. QED
          BY <4>1, <5>1 DEF Return
      <4>2. CASE At(t, "again", call[t].q)
        <5> DEFINE c == [at |-> "again", q |-> call[t].q, timeout |-> call[t].timeout]
        <5>1. call' = [call EXCEPT ![t] = c] /\ c.at # "post"
          BY <1>0, <4>2 DEF At, TypeOK, LibTypeOK
        <5>2. QED
          BY <5>1
      <4>3. QED
        BY <2>4, <4>1, <4>2 DEF PendSignalled, Signalled, PendReturn, Returned, Unsafe
    <3>3. \A m \in Mutexes, u \in Threads : Posting(u, m)' => Posting(u, m)
      BY <1>0, <3>2, NotPosting
    <3>4. QED
      BY <1>0, <3>1, <3>3, OrderStays
  <2>5. CASE DeleteHigh(t)
    <3>1. /\ UNCHANGED <<waitQ, prio, owner, option, used, call>>
          /\ call[t].at = "delete"
      BY <2>5 DEF DeleteHigh, evtVars
    <3>2. \A m \in Mutexes, u \in Threads : ~Posting(u, m)'
      BY <3>1 DEF IInv, KernelInv, Posting
    <3>3. QED
      BY <1>0, <3>1, <3>2, OrderStays
  <2>6. QED
    BY <1>7, <2>1, <2>2, <2>3, <2>4, <2>5 DEF Proceed
<1>8. ASSUME NEW t \in Threads, Expire(t) \/ Signal(t),
             UNCHANGED <<evtVars, prio, safe, unsafe, histVars>>
      PROVE  OrderInv' /\ NoInversion'
  BY <1>8, WokenOrder
<1>9. CASE UNCHANGED vars
  <2>1. UNCHANGED <<waitQ, prio, owner, option, used, picked, call>>
    BY <1>9 DEF vars, libVars, waitVars, evtVars
  <2>2. \A m \in Mutexes, u \in Threads : Posting(u, m)' => Posting(u, m)
    BY <2>1 DEF Posting
  <2>3. QED
    BY <1>0, <2>1, <2>2, OrderStays
<1>10. QED
  BY <1>1, <1>2, <1>3, <1>4, <1>5, <1>6, <1>7, <1>8, <1>9 DEF Next, Pend, Caller

\* With one mutex, and inheritance or a ceiling that no thread is above, an
\* owner is never below a thread that waits for its mutex by priority,
\* whichever waiters came, gave up or were served before.
THEOREM InversionNever ==
    OneMutex /\ ProperOptions => (Spec => []NoInversion)
<1> SUFFICES ASSUME OneMutex, ProperOptions PROVE Spec => []NoInversion
  OBVIOUS
<1> DEFINE J == IInv /\ BackInv /\ OrderInv /\ NoInversion
<1>1. Init => J
  <2> SUFFICES ASSUME Init PROVE J
    OBVIOUS
  <2>1. IInv /\ BackInv
    BY InitIInv, InitBack
  <2>2. \A m \in Mutexes : waitQ[m] = <<>> /\ Len(waitQ[m]) = 0
    BY DEF Init, LibInit, Mutexes
  <2>3. \A m \in Mutexes, t \in Threads : ~Posting(t, m)
    BY DEF Init, LibInit, Idle, Posting
  <2>4. OrderInv /\ NoInversion
    BY <2>2, <2>3 DEF OrderInv, SortedBut, NoInversion, Init
  <2>5. QED
    BY <2>1, <2>4
<1>2. J /\ [Next]_vars => J'
  BY NextPreserves, BackNext, OrderNext
<1>3. J => NoInversion
  OBVIOUS
<1> HIDE DEF J
<1>4. QED
  BY <1>1, <1>2, <1>3, PTL DEF Spec
=============================================================================
