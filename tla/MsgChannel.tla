------------------------------ MODULE MsgChannel ------------------------------
(***************************************************************************)
(* What the users of a message queue rely on: a bounded channel that keeps *)
(* its messages in order of urgency and, among equals, of arrival, and the *)
(* inbox of each receiver that waits.  Nobody is given a message in its    *)
(* inbox while one that was sent before is still in the channel.           *)
(***************************************************************************)
EXTENDS Integers, SequencesExt

CONSTANTS
    Users,
    Msgs,
    Notices,    \* what a receiver may find in its inbox instead of a message
    Nothing,
    Urgency,    \* the urgency of each message, 0 is the most urgent
    MaxMsgs

VARIABLES
    alive,      \* the channel exists
    chan,       \* the messages in the order in which they are to be taken
    inbox       \* what a waiting receiver has been given, or Nothing

vars == <<alive, chan, inbox>>

Init ==
    /\ alive = FALSE
    /\ chan = <<>>
    /\ inbox = [u \in Users |-> Nothing]

Create == ~alive /\ alive' = TRUE /\ UNCHANGED <<chan, inbox>>

Delete == alive /\ alive' = FALSE /\ chan' = <<>> /\ UNCHANGED inbox

\* The message goes behind those that are as urgent and before the others.
Put(m) ==
    /\ alive
    /\ Len(chan) < MaxMsgs
    /\ \E i \in 1 .. Len(chan) + 1 :
          /\ \A j \in DOMAIN chan : j < i <=> Urgency[chan[j]] <= Urgency[m]
          /\ chan' = InsertAt(chan, i, m)
    /\ UNCHANGED <<alive, inbox>>

Take ==
    /\ alive
    /\ chan # <<>>
    /\ chan' = Tail(chan)
    /\ UNCHANGED <<alive, inbox>>

Hand(u, x) ==
    /\ alive
    /\ chan = <<>>
    /\ inbox[u] = Nothing
    /\ inbox' = [inbox EXCEPT ![u] = x]
    /\ UNCHANGED <<alive, chan>>

\* A receiver returns with what it was given.
Deliver(u) ==
    /\ inbox[u] # Nothing
    /\ inbox' = [inbox EXCEPT ![u] = Nothing]
    /\ UNCHANGED <<alive, chan>>

Clear == alive /\ chan' = <<>> /\ UNCHANGED <<alive, inbox>>

Next ==
    \/ Create \/ Delete \/ Clear \/ Take
    \/ \E m \in Msgs : Put(m)
    \/ \E u \in Users :
          \/ \E x \in Msgs \union Notices : Hand(u, x)
          \/ Deliver(u)

Spec == Init /\ [][Next]_vars
=============================================================================
