---------------------------- MODULE ReadersWriters ----------------------------
(***************************************************************************)
(* What the callers of a reader-writer lock rely on: many of them read, or *)
(* one of them writes.  A writer may start writing again and then has to   *)
(* stop as often.                                                          *)
(***************************************************************************)
EXTENDS Naturals

CONSTANT Users

VARIABLES
    alive,      \* the lock exists
    reading,    \* the users that read
    writing     \* how deep each user writes

vars == <<alive, reading, writing>>

NobodyWrites == \A u \in Users : writing[u] = 0

Init ==
    /\ alive = FALSE
    /\ reading = {}
    /\ writing = [u \in Users |-> 0]

StartRead(u) ==
    /\ alive
    /\ NobodyWrites
    /\ u \notin reading
    /\ reading' = reading \union {u}
    /\ UNCHANGED <<alive, writing>>

StartWrite(u) ==
    /\ alive
    /\ reading = {}
    /\ \A v \in Users \ {u} : writing[v] = 0
    /\ writing' = [writing EXCEPT ![u] = @ + 1]
    /\ UNCHANGED <<alive, reading>>

Stop(u) ==
    /\ alive
    /\ \/ u \in reading /\ reading' = reading \ {u} /\ UNCHANGED writing
       \/ /\ writing[u] > 0
          /\ writing' = [writing EXCEPT ![u] = @ - 1]
          /\ UNCHANGED reading
    /\ UNCHANGED alive

Create ==
    /\ ~alive
    /\ alive' = TRUE
    /\ UNCHANGED <<reading, writing>>

Delete ==
    /\ alive
    /\ alive' = FALSE
    /\ reading' = {}
    /\ writing' = [u \in Users |-> 0]

Next == Create \/ Delete \/ \E u \in Users : StartRead(u) \/ StartWrite(u) \/ Stop(u)

Spec == Init /\ [][Next]_vars
=============================================================================
