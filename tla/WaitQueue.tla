------------------------------ MODULE WaitQueue ------------------------------
(***************************************************************************)
(* The wait queue of a kernel object (LW_CLASS_WAITQUEUE), as the sequence *)
(* of the waiting threads in the order in which they are to be woken.      *)
(*                                                                         *)
(* The code keeps either one FIFO ring, whose oldest node is woken first,  *)
(* or an array of rings, one per range of priorities, each in order of     *)
(* priority; the head of the first ring that is not empty is woken first.  *)
(* The ranges ascend, so the rings laid end to end are one sequence.       *)
(* WQ_usNum, the number of waiters, is the length of the sequence.         *)
(***************************************************************************)
EXTENDS Integers, SequencesExt

\* The place of a thread of priority p in q: behind every waiter of the same
\* or a higher priority (a smaller number) that precedes the first lower one.
PriorityPlace(q, p, prio) ==
    CHOOSE i \in 1 .. Len(q) + 1 :
        /\ i <= Len(q) => p < prio[q[i]]
        /\ \A j \in 1 .. i - 1 : prio[q[j]] <= p

AddFifo(q, t) == Append(q, t)

AddPriorityAtEnd(q, t, prio) == Append(q, t)

AddPriority(q, t, prio) == InsertAt(q, PriorityPlace(q, prio[t], prio), t)

\* q with t added, in the discipline the object was created with.
Added(q, t, byPriority, prio) ==
    IF byPriority THEN AddPriority(q, t, prio) ELSE AddFifo(q, t)

\* q without t, which stands somewhere in it.
Deleted(q, t) == RemoveAt(q, CHOOSE i \in 1 .. Len(q) : q[i] = t)

\* No waiter stands behind one of lower priority.
Sorted(q, prio) ==
    \A i, j \in 1 .. Len(q) : i < j => prio[q[i]] <= prio[q[j]]
=============================================================================
