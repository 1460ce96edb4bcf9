------------------------------- MODULE MCMutex -------------------------------
(* Small instances of Mutex for TLC. *)
EXTENDS Mutex

CONSTANTS t1, t2, t3

\* t1 is the highest.
MCPrio == [t \in Threads |-> CASE t = t1 -> 1 [] t = t2 -> 2 [] OTHER -> 3]

\* Recursive and unchecked mutexes with inheritance, checking ones with a ceiling.
MCOptions == {[kind |-> "RECURSIVE", inherit |-> TRUE],
              [kind |-> "NORMAL", inherit |-> TRUE],
              [kind |-> "ERRORCHECK", inherit |-> FALSE]}

\* TLC takes states for the same that differ only in what nobody reads before
\* it is written: the time-out flag of a thread that does not wait (Join), and
\* the fields of a control block that was freed (Create).
Block(m) == IF m \in used \/ owner[m] # NoThread
            THEN <<option[m], saved[m], depth[m], m \in free>> ELSE <<>>

View == <<waitQ, sem, delayed, {t \in timedOut : call[t].at = "waiting"}, deleted,
          signalled, klock, picked, call, used, owner, [m \in Mutexes |-> Block(m)],
          prio, safe, unsafe, histVars>>
=============================================================================
