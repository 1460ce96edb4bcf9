---------------------------- MODULE MCSemaphoreRW ----------------------------
(* Small instances of SemaphoreRW for TLC. *)
EXTENDS SemaphoreRW

MCPrio == [t \in Threads |-> 1]
=============================================================================
