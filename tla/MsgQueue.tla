------------------------------- MODULE MsgQueue -------------------------------
(***************************************************************************)
(* API_MsgQueue...: one message queue, with a queue "R" of threads that    *)
(* wait to receive and a queue "S" of threads that wait to send, called by *)
(* threads and, for sends and tries to receive, by interrupts.             *)
(*                                                                         *)
(* A sender that finds a receiver waiting hands it the message; a sender   *)
(* that has waited for room is not given any: it is woken and sends again. *)
(***************************************************************************)
EXTENDS EventLib

CONSTANTS
    Prio,       \* TCB_ucPriority of each thread, 0 is the highest
    Msgs,       \* the messages that are sent
    Urgency,    \* the queue number of each: EVENT_MSG_Q_PRIO_LOW, or ulOption's
    Long,       \* those that are longer than the buffers of strict receivers
    Nothing,    \* a value that is not a message
    MaxMsgs     \* EVENT_ulMaxCounter

ASSUME TwoQueues == Queues = {"R", "S"}
ASSUME PrioAssumption == Prio \in [Threads -> 0 .. 255]
ASSUME UrgencyAssumption == Urgency \in [Msgs -> 0 .. 7]
ASSUME LongAssumption == Long \subseteq Msgs
ASSUME NothingAssumption == Nothing \notin Msgs
ASSUME MaxMsgsAssumption == MaxMsgs \in Nat \ {0}

VARIABLES
    used,       \* EVENT_ucType = LW_TYPE_EVENT_MSGQUEUE
    counter,    \* EVENT_ulCounter
    map,        \* MSGQUEUE_uiMap, the set of its 1 bits
    lists,      \* MSGQUEUE_pmonoHeader, first message first
    sending,    \* the message of each send under way
    strict,     \* the receivers without LW_OPTION_NOERROR and a small buffer
    buffer      \* what was written for each waiting receiver (..pstMsgByteSize)

evtVars == <<used, counter, map, lists>>
argVars == <<sending, strict, buffer>>
vars    == <<libVars, evtVars, argVars>>

Urgencies == {Urgency[m] : m \in Msgs}
Notices   == {"EMPTY", "E2BIG"}     \* length 0: from a flush, or with E2BIG
Places    == {"idle", "waiting", "again", "give", "take", "wakeSenders",
              "broadcast", "flushReceive", "delete"}

-----------------------------------------------------------------------------
(* _MsgQueueLib.c. *)

\* archFindLsb and archFindMsb of the map.
LastBit  == CHOOSE i \in map : \A j \in map : j <= i
FirstBit == CHOOSE i \in map : \A j \in map : i <= j

\* _MsgQueueMsgLen: the message that the next _MsgQueueGet takes.
FirstMsg == Head(lists[FirstBit])

GetKeepsBit ==
    /\ lists' = [lists EXCEPT ![FirstBit] = Tail(@)]
    /\ UNCHANGED map

MsgQueueGet ==
    /\ lists' = [lists EXCEPT ![FirstBit] = Tail(@)]
    /\ map' = IF Len(lists[FirstBit]) = 1 THEN map \ {FirstBit} ELSE map

MsgQueuePut(m) ==
    /\ lists' = [lists EXCEPT ![Urgency[m]] = Append(@, m)]
    /\ map' = map \union {Urgency[m]}

MsgQueueClear ==
    /\ lists' = [u \in Urgencies |-> <<>>]
    /\ map' = {}

-----------------------------------------------------------------------------
(* API_MsgQueueCreate; the control block may be one that was freed. *)
Create(t) ==
    /\ Caller(t)
    /\ ~used
    /\ used' = TRUE
    /\ MsgQueueClear
    /\ counter' = 0
    /\ waitQ' = [q \in Queues |-> <<>>]
    /\ Return(t)
    /\ UNCHANGED <<sem, delayed, timedOut, deleted, signalled, klock, picked,
                   argVars>>

-----------------------------------------------------------------------------
(* API_MsgQueueSend2, and API_MsgQueueSendEx2 with LW_OPTION_URGENT. *)

\* What is written for x when it is given m.
Written(x, m) == IF x \in strict /\ m \in Long THEN "E2BIG" ELSE m

HasRoomOrIsFull == counter <= MaxMsgs

HasRoom == counter < MaxMsgs

SendInvalid(t) ==
    /\ ~used
    /\ Return(t)
    /\ sending' = [sending EXCEPT ![t] = Nothing]
    /\ UNCHANGED <<waitVars, klock, picked, evtVars, strict, buffer>>

\* A receiver waits: it is given the message.
SendGive(t, m, timeout) ==
    /\ used
    /\ waitQ["R"] # <<>>
    /\ Pick("R")
    /\ buffer' = [buffer EXCEPT ![Head(waitQ["R"])] = Written(Head(waitQ["R"]), m)]
    /\ sending' = [sending EXCEPT ![t] = m]
    /\ klock' = t
    /\ call' = [call EXCEPT ![t] = [at |-> "give", q |-> "S", timeout |-> timeout]]
    /\ UNCHANGED <<evtVars, strict>>

SendStoreUnasked(t, m) ==
    /\ used
    /\ HasRoom
    /\ counter' = counter + 1
    /\ MsgQueuePut(m)
    /\ Return(t)
    /\ sending' = [sending EXCEPT ![t] = Nothing]
    /\ UNCHANGED <<waitVars, klock, picked, used, strict, buffer>>

SendStore(t, m) ==
    /\ used
    /\ waitQ["R"] = <<>>
    /\ HasRoom
    /\ counter' = counter + 1
    /\ MsgQueuePut(m)
    /\ Return(t)
    /\ sending' = [sending EXCEPT ![t] = Nothing]
    /\ UNCHANGED <<waitVars, klock, picked, used, strict, buffer>>

\* The queue is full: ERROR_MSGQUEUE_FULL, or a wait.
SendFull(t, m, timeout) ==
    /\ used
    /\ waitQ["R"] = <<>>
    /\ ~HasRoom
    /\ \/ /\ timeout = "NotWait"
          /\ Return(t)
          /\ sending' = [sending EXCEPT ![t] = Nothing]
          /\ UNCHANGED waitVars
       \/ /\ timeout # "NotWait"
          /\ Join(t, "S", timeout, Prio)
          /\ sending' = [sending EXCEPT ![t] = m]
    /\ UNCHANGED <<klock, picked, evtVars, strict, buffer>>

SendEnter(t, m, timeout) ==
    \/ SendInvalid(t)
    \/ SendGive(t, m, timeout)
    \/ SendStore(t, m)
    \/ SendFull(t, m, timeout)

Send(t, m, timeout) == Caller(t) /\ SendEnter(t, m, timeout)

\* A receiver whose buffer was too small is woken for nothing: __re_send.
SendHigh(t) ==
    /\ call[t].at = "give"
    /\ WakePicked
    /\ klock' = NoThread
    /\ IF buffer[picked] = "E2BIG"
       THEN At(t, "again", "S") /\ UNCHANGED sending
       ELSE Return(t) /\ sending' = [sending EXCEPT ![t] = Nothing]
    /\ UNCHANGED <<waitQ, delayed, deleted, signalled, evtVars, strict, buffer>>

\* The wait for room is over: goto __re_send, with the timeout of the call.
SendWoken(t) ==
    /\ WaitOver(t)
    /\ call[t].q = "S"
    /\ t \notin signalled
    /\ IF WaitResult(t) = "NONE"
       THEN At(t, "again", "S") /\ UNCHANGED sending
       ELSE Return(t) /\ sending' = [sending EXCEPT ![t] = Nothing]
    /\ UNCHANGED <<waitVars, klock, picked, evtVars, strict, buffer>>

\* The same calls in an interrupt, which never waits; its messages are short.
IsrSend(m) ==
    /\ used
    /\ m \notin Long
    /\ \/ /\ waitQ["R"] # <<>>
          /\ WakeFirst("R")
          /\ buffer' = [buffer EXCEPT ![Head(waitQ["R"])] = m]
          /\ UNCHANGED <<counter, map, lists>>
       \/ /\ waitQ["R"] = <<>>
          /\ HasRoom
          /\ counter' = counter + 1
          /\ MsgQueuePut(m)
          /\ UNCHANGED <<waitQ, sem, delayed, timedOut, buffer>>
    /\ UNCHANGED <<deleted, signalled, klock, picked, call, used, sending, strict>>

-----------------------------------------------------------------------------
(* API_MsgQueueReceive, ...ReceiveEx and ...TryReceive. *)
ReceiveInvalid(t) ==
    /\ ~used
    /\ Return(t)
    /\ UNCHANGED <<waitVars, klock, picked, evtVars, argVars>>

\* There is a message; the first sender that waits for room is woken.
ReceiveTake(t, isStrict) ==
    /\ used
    /\ counter > 0
    /\ ~(isStrict /\ FirstMsg \in Long)
    /\ counter' = counter - 1
    /\ MsgQueueGet
    /\ IF waitQ["S"] = <<>>
       THEN Return(t) /\ UNCHANGED <<waitVars, klock, picked>>
       ELSE Pick("S") /\ klock' = t /\ At(t, "take", "R")
    /\ UNCHANGED <<used, argVars>>

\* It stays where it is.
ReceiveTooBig(t, isStrict) ==
    /\ used
    /\ counter > 0
    /\ isStrict
    /\ FirstMsg \in Long
    /\ Return(t)
    /\ UNCHANGED <<waitVars, klock, picked, evtVars, argVars>>

ReceiveNone(t, isStrict, timeout) ==
    /\ used
    /\ counter = 0
    /\ \/ /\ timeout = "NotWait"
          /\ Return(t)
          /\ UNCHANGED <<waitVars, strict>>
       \/ /\ timeout # "NotWait"
          /\ Join(t, "R", timeout, Prio)
          /\ strict' = IF isStrict THEN strict \union {t} ELSE strict \ {t}
    /\ UNCHANGED <<klock, picked, evtVars, sending, buffer>>

ReceiveEnter(t, isStrict, timeout) ==
    \/ ReceiveInvalid(t)
    \/ ReceiveTake(t, isStrict)
    \/ ReceiveTooBig(t, isStrict)
    \/ ReceiveNone(t, isStrict, timeout)

Receive(t, isStrict, timeout) == Caller(t) /\ ReceiveEnter(t, isStrict, timeout)

ReceiveHigh(t) ==
    /\ call[t].at = "take"
    /\ WakePicked
    /\ klock' = NoThread
    /\ Return(t)
    /\ UNCHANGED <<waitQ, delayed, deleted, signalled, evtVars, argVars>>

\* Success with what is in the buffer, or with none, or TIMEOUT or DELETED.
ReceiveWoken(t) ==
    /\ WaitOver(t)
    /\ call[t].q = "R"
    /\ t \notin signalled
    /\ Return(t)
    /\ buffer' = [buffer EXCEPT ![t] = Nothing]
    /\ strict' = strict \ {t}
    /\ UNCHANGED <<waitVars, klock, picked, evtVars, sending>>

\* API_MsgQueueTryReceive in an interrupt.
IsrTryReceive ==
    /\ used
    /\ counter > 0
    /\ counter' = counter - 1
    /\ MsgQueueGet
    /\ IF waitQ["S"] = <<>>
       THEN UNCHANGED <<waitQ, sem, delayed, timedOut>>
       ELSE WakeFirst("S")
    /\ UNCHANGED <<deleted, signalled, klock, picked, call, used, argVars>>

-----------------------------------------------------------------------------
(* What a signal does to either call; goto __re_send and __wait_again. *)
CallSignalled(t) ==
    /\ Signalled(t)
    /\ sending' = [sending EXCEPT ![t] = IF call'[t] = Idle THEN Nothing ELSE @]
    /\ strict' = IF call'[t] = Idle THEN strict \ {t} ELSE strict
    /\ UNCHANGED <<evtVars, buffer>>

Again(t) ==
    /\ call[t].at = "again"
    /\ klock = NoThread
    /\ \/ call[t].q = "S" /\ SendEnter(t, sending[t], call[t].timeout)
       \/ call[t].q = "R" /\ ReceiveEnter(t, t \in strict, call[t].timeout)

-----------------------------------------------------------------------------
(***************************************************************************)
(* The calls that wake everybody in a queue, with interrupts open between  *)
(* one and the next: LW_OPTION_BROADCAST, API_MsgQueueFlushReceive,        *)
(* API_MsgQueueFlushSend and API_MsgQueueClear.  API_MsgQueueFlush is a    *)
(* FlushSend followed by a FlushReceive.                                   *)
(***************************************************************************)
WakeReceivers(t, place, m) ==
    \/ /\ waitQ["R"] # <<>>
       /\ Pick("R")
       /\ buffer' = [buffer EXCEPT ![Head(waitQ["R"])] =
                        IF place = "broadcast" THEN Written(Head(waitQ["R"]), m)
                                               ELSE "EMPTY"]
       /\ klock' = t
       /\ At(t, place, "R")
       /\ sending' = [sending EXCEPT ![t] = m]
    \/ /\ waitQ["R"] = <<>>
       /\ klock' = NoThread
       /\ Return(t)
       /\ sending' = [sending EXCEPT ![t] = Nothing]
       /\ UNCHANGED <<waitVars, picked, buffer>>

WakeSenders(t) ==
    \/ /\ waitQ["S"] # <<>>
       /\ Pick("S")
       /\ klock' = t
       /\ At(t, "wakeSenders", "S")
    \/ /\ waitQ["S"] = <<>>
       /\ klock' = NoThread
       /\ Return(t)
       /\ UNCHANGED <<waitVars, picked>>

Broadcast(t, m) ==
    /\ Caller(t)
    /\ used
    /\ WakeReceivers(t, "broadcast", m)
    /\ UNCHANGED <<evtVars, strict>>

FlushReceive(t) ==
    /\ Caller(t)
    /\ used
    /\ WakeReceivers(t, "flushReceive", Nothing)
    /\ UNCHANGED <<evtVars, strict>>

FlushSend(t) ==
    /\ Caller(t)
    /\ used
    /\ WakeSenders(t)
    /\ UNCHANGED <<evtVars, argVars>>

Clear(t) ==
    /\ Caller(t)
    /\ used
    /\ MsgQueueClear
    /\ counter' = 0
    /\ WakeSenders(t)
    /\ UNCHANGED <<used, argVars>>

WakeHigh(t) ==
    /\ call[t].at \in {"broadcast", "flushReceive", "wakeSenders"}
    /\ picked # NoThread
    /\ WakePicked
    /\ UNCHANGED <<waitQ, delayed, deleted, signalled, klock, call, evtVars,
                   argVars>>

WakeNext(t) ==
    /\ picked = NoThread
    /\ \/ /\ call[t].at \in {"broadcast", "flushReceive"}
          /\ WakeReceivers(t, call[t].at, sending[t])
          /\ UNCHANGED strict
       \/ /\ call[t].at = "wakeSenders"
          /\ WakeSenders(t)
          /\ UNCHANGED argVars
    /\ UNCHANGED evtVars
-----------------------------------------------------------------------------
(***************************************************************************)
(* API_MsgQueueDelete: receivers are woken first, then senders.  The lists *)
(* go with the memory that is freed at the end; nothing reads them before. *)
(***************************************************************************)
DeletePickOrFinish(t) ==
    \/ /\ \E q \in Queues : waitQ[q] # <<>>
       /\ Pick(IF waitQ["R"] # <<>> THEN "R" ELSE "S")
       /\ klock' = t
       /\ At(t, "delete", NoQueue)
    \/ /\ \A q \in Queues : waitQ[q] = <<>>
       /\ klock' = NoThread
       /\ Return(t)
       /\ UNCHANGED <<waitVars, picked>>

Delete(t) ==
    /\ Caller(t)
    /\ used
    /\ used' = FALSE
    /\ MsgQueueClear
    /\ DeletePickOrFinish(t)
    /\ UNCHANGED <<counter, argVars>>

DeleteHigh(t) ==
    /\ call[t].at = "delete"
    /\ picked # NoThread
    /\ deleted' = deleted \union {picked}
    /\ WakePicked
    /\ UNCHANGED <<waitQ, delayed, signalled, klock, call, evtVars, argVars>>

DeleteNext(t) ==
    /\ call[t].at = "delete"
    /\ picked = NoThread
    /\ DeletePickOrFinish(t)
    /\ UNCHANGED <<evtVars, argVars>>

-----------------------------------------------------------------------------
Init ==
    /\ LibInit
    /\ used = FALSE
    /\ counter = 0
    /\ map = {}
    /\ lists = [u \in Urgencies |-> <<>>]
    /\ sending = [t \in Threads |-> Nothing]
    /\ strict = {}
    /\ buffer = [t \in Threads |-> Nothing]

\* The call of t goes on.
Proceed(t) ==
    \/ SendHigh(t) \/ SendWoken(t) \/ ReceiveHigh(t) \/ ReceiveWoken(t)
    \/ CallSignalled(t) \/ Again(t)
    \/ WakeHigh(t) \/ WakeNext(t)
    \/ DeleteHigh(t) \/ DeleteNext(t)

Next ==
    \/ \E t \in Threads :
          \/ Create(t) \/ Delete(t)
          \/ \E m \in Msgs, timeout \in Timeouts : Send(t, m, timeout)
          \/ \E isStrict \in BOOLEAN, timeout \in Timeouts :
                Receive(t, isStrict, timeout)
          \/ \E m \in Msgs : Broadcast(t, m)
          \/ FlushReceive(t) \/ FlushSend(t) \/ Clear(t)
          \/ Proceed(t)
          \/ (Expire(t) \/ Signal(t)) /\ UNCHANGED <<evtVars, argVars>>
    \/ \E m \in Msgs : IsrSend(m)
    \/ IsrTryReceive

Spec == Init /\ [][Next]_vars

-----------------------------------------------------------------------------
TypeOK ==
    /\ LibTypeOK(Places)
    /\ used \in BOOLEAN
    /\ counter \in 0 .. MaxMsgs
    /\ map \subseteq Urgencies
    /\ lists \in [Urgencies -> Seq(Msgs)]
    /\ sending \in [Threads -> Msgs \union {Nothing}]
    /\ strict \subseteq Threads
    /\ buffer \in [Threads -> Msgs \union Notices \union {Nothing}]

\* The eight lists laid end to end, the most urgent first.
ListOf(u) == IF u \in Urgencies THEN lists[u] ELSE <<>>

Stored == ListOf(0) \o ListOf(1) \o ListOf(2) \o ListOf(3)
             \o ListOf(4) \o ListOf(5) \o ListOf(6) \o ListOf(7)

\* The places of the lists that hold a message.
Kept == UNION {{u} \X DOMAIN lists[u] : u \in Urgencies}

\* EVENT_ulCounter counts the messages in the lists and MSGQUEUE_uiMap marks
\* the lists that are not empty, so that _MsgQueueGet, which looks at the map
\* only, finds a message whenever the counter says that there is one.
CounterAndMapAgree ==
    used => /\ counter = Cardinality(Kept)
            /\ map = {u \in Urgencies : lists[u] # <<>>}

\* A message that was given to a waiting receiver is returned by it: whatever
\* ticks, signals and deletions come between, a receiver whose buffer was
\* written is on its way back with success, or in the hands of who wrote it.
NothingLost ==
    \A t \in Threads :
        buffer[t] # Nothing =>
            /\ call[t].at = "waiting" /\ call[t].q = "R"
            /\ t = picked \/ t \notin sem \union delayed \union timedOut
                                  \union deleted \union signalled

\* Nobody waits to receive beside a message, however sends from interrupts
\* fall between the steps of the calls that wake several threads.
NoWaitBesideMessage == used /\ counter > 0 => waitQ["R"] = <<>>

\* The lists, the map and the direct gifts implement one bounded channel in
\* order of urgency and arrival, in which no later message passes an earlier
\* one of the same urgency on its way to a waiting receiver.
Channel == INSTANCE MsgChannel WITH
               Users <- Threads, alive <- used, chan <- Stored, inbox <- buffer

ImplementsChannel == Channel!Spec
=============================================================================
