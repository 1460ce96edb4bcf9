----------------------------- MODULE WakeupLine -----------------------------
(***************************************************************************)
(* The wakeup line of the kernel, a list of waiting nodes in which each    *)
(* node counts the ticks from the node before it: _WakeupLine.c, and the   *)
(* scan of k_scanlink.h.  Threads with a time-out, hardware timers,        *)
(* application timers and delayed work wait on lines of this kind.         *)
(*                                                                         *)
(* A line w has the fields of LW_CLASS_WAKEUP: line is the list            *)
(* (WU_plineHeader), op the node the scan visits next (WU_plineOp) and     *)
(* last the time of the last charge (WU_i64LastTime).  proc says that the  *)
(* time since then is charged first: bProcTime, for a line with a          *)
(* WU_pfuncWakeup.                                                         *)
(***************************************************************************)
EXTENDS Integers, FiniteSets, SequencesExt

Null == "null"

Empty == [line |-> <<>>, op |-> Null, last |-> 0]

Place(line, n) == CHOOSE k \in DOMAIN line : line[k].node = n

\* The counts of the first k nodes together.
Expiry(line, k) ==
    LET sum[i \in 0 .. k] == IF i = 0 THEN 0 ELSE sum[i - 1] + line[i].counter
    IN  sum[k]

\* _list_line_get_next
NextOf(line, n) ==
    LET k == Place(line, n)
    IN  IF k = Len(line) THEN Null ELSE line[k + 1].node

\* The head has waited for some ticks more.
Charged(line, ticks) ==
    IF line = <<>> THEN line
    ELSE [line EXCEPT ![1].counter = IF @ > ticks THEN @ - ticks ELSE 0]

\* n goes behind every node that is not later, and the node on its right
\* counts from n.
InsertedAtHead(line, n, c) ==
    LET right == IF line = <<>> THEN line
                 ELSE [line EXCEPT ![1].counter = @ - c]
    IN  <<[node |-> n, counter |-> c]>> \o right

Inserted(line, n, c) ==
    LET k     == Cardinality({j \in DOMAIN line : Expiry(line, j) <= c})
        delta == c - Expiry(line, k)
        right == IF k = Len(line) THEN line
                 ELSE [line EXCEPT ![k + 1].counter = @ - delta]
    IN  InsertAt(right, k + 1, [node |-> n, counter |-> delta])

\* n goes, and the node on its right takes over its count.
RemovedLosesCount(line, n) == RemoveAt(line, Place(line, n))

Removed(line, n) ==
    LET k     == Place(line, n)
        right == IF k = Len(line) THEN line
                 ELSE [line EXCEPT ![k + 1].counter = @ + line[k].counter]
    IN  RemoveAt(right, k)

\* _WakeupAdd.  The time of the charge is now, also when there was no node to
\* charge.
WakeupAddKeepsLast(w, n, c, proc, now) ==
    [w EXCEPT
        !.line = Inserted(IF proc THEN Charged(@, now - w.last) ELSE @, n, c),
        !.last = IF proc /\ w.line # <<>> THEN now ELSE @]

WakeupAdd(w, n, c, proc, now) ==
    [w EXCEPT
        !.line = Inserted(IF proc THEN Charged(@, now - w.last) ELSE @, n, c),
        !.last = IF proc THEN now ELSE @]

\* _WakeupDel.  A scan that was to visit n visits the next node instead; the
\* time is charged when n was the head.
WakeupDelKeepsOp(w, n, proc, now) ==
    LET first == proc /\ w.line[1].node = n
        rest  == Removed(w.line, n)
    IN  [line |-> IF first THEN Charged(rest, now - w.last) ELSE rest,
         op   |-> w.op,
         last |-> IF first THEN now ELSE w.last]

WakeupDel(w, n, proc, now) ==
    LET first == proc /\ w.line[1].node = n
        rest  == Removed(w.line, n)
    IN  [line |-> IF first THEN Charged(rest, now - w.last) ELSE rest,
         op   |-> IF w.op = n THEN NextOf(w.line, n) ELSE w.op,
         last |-> IF first THEN now ELSE w.last]

\* _WakeupStatus: the ticks n still has to wait.
WakeupStatus(w, n, now) ==
    LET sum   == Expiry(w.line, Place(w.line, n))
        since == IF w.last = 0 THEN 0 ELSE now - w.last
    IN  IF sum > since THEN sum - since ELSE 0

\* __WAKEUP_PASS_FIRST: the scan starts at the head, with ticks to charge.
PassFirst(w) ==
    [w EXCEPT !.op = IF w.line = <<>> THEN Null ELSE w.line[1].node]

\* One round of the scan, on the node at op.  The node is due when its count
\* is used up; what is left of the ticks is for the node behind it.  Else the
\* scan ends here.
PassDue(w, ticks) ==
    w.op # Null /\ w.line[Place(w.line, w.op)].counter <= ticks

PassNode(w, ticks) ==
    LET k == Place(w.line, w.op)
    IN  [w EXCEPT !.op = NextOf(w.line, @),
                  !.line[k].counter = IF @ > ticks THEN @ - ticks ELSE 0]

PassLeft(w, ticks) == ticks - w.line[Place(w.line, w.op)].counter
=============================================================================
