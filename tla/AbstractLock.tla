----------------------------- MODULE AbstractLock -----------------------------
(***************************************************************************)
(* What the callers of a set of recursive locks rely on, said only of what *)
(* they see: how many more times each of them has locked than unlocked.    *)
(***************************************************************************)
EXTENDS Naturals

CONSTANTS Locks, Users

VARIABLES
    alive,  \* the locks that exist
    holds   \* how deep each user holds each lock

vars == <<alive, holds>>

Init ==
    /\ alive = {}
    /\ holds = [l \in Locks |-> [u \in Users |-> 0]]

Create(l) ==
    /\ l \notin alive
    /\ alive' = alive \union {l}
    /\ UNCHANGED holds

\* Only a user that shares the lock with nobody gets it, or gets it deeper.
Lock(l, u) ==
    /\ l \in alive
    /\ \A v \in Users \ {u} : holds[l][v] = 0
    /\ holds' = [holds EXCEPT ![l][u] = @ + 1]
    /\ UNCHANGED alive

Unlock(l, u) ==
    /\ l \in alive
    /\ holds[l][u] > 0
    /\ holds' = [holds EXCEPT ![l][u] = @ - 1]
    /\ UNCHANGED alive

Delete(l) ==
    /\ l \in alive
    /\ alive' = alive \ {l}
    /\ holds' = [holds EXCEPT ![l] = [u \in Users |-> 0]]

Next ==
    \E l \in Locks :
        \/ Create(l) \/ Delete(l)
        \/ \E u \in Users : Lock(l, u) \/ Unlock(l, u)

Spec == Init /\ [][Next]_vars
=============================================================================
