------------------------------ MODULE MCMsgQueue ------------------------------
(* Small instances of MsgQueue for TLC. *)
EXTENDS MsgQueue

MCPrio == [t \in Threads |-> 1]

\* A plain short message, and a long urgent one.
MCMsgs    == {"plain", "urgent"}
MCUrgency == [m \in MCMsgs |-> IF m = "urgent" THEN 0 ELSE 7]
MCLong    == {"urgent"}

\* The threads have the same priority: they are interchangeable.
Symmetry == Permutations(Threads)
=============================================================================
