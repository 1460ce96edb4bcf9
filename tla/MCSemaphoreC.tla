---------------------------- MODULE MCSemaphoreC ----------------------------
(* Small instances of SemaphoreC for TLC. *)
EXTENDS SemaphoreC

CONSTANTS t1, t2, t3

\* t1 and t2 have the same priority, t3 a higher one.
MCPrio == [t \in Threads |-> IF t = t3 THEN 1 ELSE 2]

\* Threads of the same priority are interchangeable.
Symmetry == Permutations({t1, t2})
=============================================================================
