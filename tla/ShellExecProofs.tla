--------------------------- MODULE ShellExecProofs ---------------------------
(***************************************************************************)
(* Proofs about the execution of a command line, for lines of any length   *)
(* and any number of shells: the nested calls of __tshellExec run the      *)
(* commands the operators ask for, in order, pipes of two transmit, and    *)
(* the file that pipes share is gone in the end.                           *)
(***************************************************************************)
EXTENDS ShellExec, SequenceTheorems, TLAPS

Texts  == [cmd : Nat, op : Ops \union {"end"}, reads : BOOLEAN, writes : BOOLEAN]
Frames == [stages : Seq(Texts), at : {"start", "run", "first", "decide", "second", "finish"},
           first : {OK, ERROR}, second : {OK, ERROR}]

\* A line as it is entered.
Parsed(ln) ==
    /\ ln \in Seq(Texts)
    /\ \A i \in 1 .. Len(ln) : ln[i] = Stage(i, ln[i].op) /\ (ln[i].op = "end" <=> i = Len(ln))

PipeBefore(ln, i) == i > 1 /\ IsPipe(ln[i - 1].op)

\* What is behind the operator before command i, and what is before the one
\* after it, as the calls are given them.
TextFrom(ln, i) ==
    [j \in 1 .. Len(ln) - i + 1 |->
        IF j = 1 THEN [ln[i] EXCEPT !.reads = PipeBefore(ln, i)] ELSE ln[i + j - 1]]

TextOf(ln, i) ==
    <<[cmd |-> i, op |-> "end", reads |-> PipeBefore(ln, i), writes |-> IsPipe(ln[i].op)]>>

\* The calls of a stack from the outermost on.
Outer(st, i) == st[Len(st) + 1 - i]

Inside == {"part", "run"}
Places == {"start", "part", "run", "decide", "finish"}

\* A shell with the stack st is at a place of the call that begins with command
\* c of the line ln: at its start, in the call for the text before the operator
\* ("part", and "run" when the file is open), or when this ("decide") or the
\* call for the rest ("finish") has returned.  The calls around it wait for
\* what is behind their operators.
Calls(st, ln, c, at) ==
    /\ c \in 1 .. Len(ln)
    /\ at \in Places
    /\ at # "start" => c < Len(ln)
    /\ at = "run" => IsPipe(ln[c].op)
    /\ Len(st) = IF at \in Inside THEN c + 1 ELSE c
    /\ \A i \in 1 .. c : Outer(st, i).stages = TextFrom(ln, i)
    /\ \A i \in 1 .. c - 1 : Outer(st, i).at = "second"
    /\ Outer(st, c).at = IF at \in Inside THEN "first" ELSE at
    /\ at \in Inside => /\ Outer(st, c + 1).stages = TextOf(ln, c)
                        /\ Outer(st, c + 1).at = IF at = "part" THEN "start" ELSE "run"

\* How many commands have run there.
HasRun(ln, n, c, at) ==
    CASE at = "decide" -> n = c
      [] at = "finish" -> n \in c + 1 .. Len(ln)
      [] OTHER         -> n = c - 1

\* The value of a command, and that the line goes on behind the first n.
Own(bad, i) == IF i \in bad THEN ERROR ELSE OK

Goes(ln, bad, n) == \A i \in 1 .. n : ~Ends(ln, bad, i)

\* Command n is the last that is to run.
Ended(ln, bad, n) == Ends(ln, bad, n) /\ Goes(ln, bad, n - 1)

\* What the calls have been told, when no other shell is at work.
Told(st, ln, bad, n, c, at) ==
    /\ \A i \in 1 .. c : i < c \/ at \in {"decide", "finish"} => Outer(st, i).first = Own(bad, i)
    /\ Goes(ln, bad, c - 1)
    /\ at = "finish" => Ended(ln, bad, n) /\ Outer(st, c).second = Value(ln, bad, c + 1, n)

\* What is in the file then.
InLog(ln, held, c, at) ==
    /\ at \in {"start", "part"} /\ PipeBefore(ln, c) => held = <<c - 1>>
    /\ at = "run" => held = Nothing
    /\ at = "decide" /\ IsPipe(ln[c].op) => held = <<c>>

Working(s, c, at) ==
    /\ Calls(stack[s], line[s], c, at)
    /\ HasRun(line[s], Len(ran[s]), c, at)
    /\ s \notin shared => /\ Told(stack[s], line[s], fails[s], Len(ran[s]), c, at)
                          /\ InLog(line[s], log, c, at)

Resting(s) ==
    /\ stack[s] = <<>>
    /\ line[s] = <<>> => ran[s] = <<>>
    /\ line[s] # <<>> => Len(ran[s]) \in 1 .. Len(line[s])
    /\ line[s] # <<>> /\ s \notin shared =>
          /\ Ended(line[s], fails[s], Len(ran[s]))
          /\ result[s] = Value(line[s], fails[s], 1, Len(ran[s]))

ShellInv(s) == Resting(s) \/ \E c \in 1 .. Len(line[s]), at \in Places : Working(s, c, at)

\* The commands ran in the order of the line, and those behind a pipe read what
\* the command before it printed, if they do not write to the file themselves.
RanInv(s) ==
    \A i \in 1 .. Len(ran[s]) :
        /\ ran[s][i].cmd = i
        /\ s \notin shared /\ PipeBefore(line[s], i) /\ ~IsPipe(line[s][i].op) =>
              ran[s][i].input = <<i - 1>>

\* Whoever works beside another shell is known to have done so.
AloneInv == \A s \in Shells : stack[s] # <<>> /\ s \notin shared => Busy = {s}

\* A call waits for a part of its pipe.
Piping(st, ln) ==
    \E i \in 1 .. Len(st) : /\ i <= Len(ln) /\ IsPipe(ln[i].op)
                            /\ Outer(st, i).at \in {"first", "decide", "second", "finish"}

\* While the file is there, a shell is in a pipe it will remove it behind, or one
\* was torn out of a pipe.
LogInv == log # Absent => left \/ \E s \in Shells : Piping(stack[s], line[s])

Inputs == Seq(Nat) \union {Absent}

TypeInv ==
    /\ stack \in [Shells -> Seq(Frames)]
    /\ line \in [Shells -> Seq(Texts)]
    /\ \A s \in Shells : Parsed(line[s])
    /\ fails \in [Shells -> SUBSET Nat]
    /\ result \in [Shells -> {OK, ERROR}]
    /\ ran \in [Shells -> Seq([cmd : Nat, input : Inputs])]
    /\ log \in Inputs
    /\ shared \subseteq Shells

IInv ==
    /\ TypeInv
    /\ \A s \in Shells : ShellInv(s) /\ RanInv(s)
    /\ AloneInv
    /\ LogInv

-----------------------------------------------------------------------------
(* Stacks. *)

Replaces(r, st, f) == r = <<f>> \o Tail(st)

Pushes(r, st, g, f) == r = <<g, f>> \o Tail(st)

\* The innermost call goes on.
LEMMA Replaced ==
    ASSUME NEW st \in Seq(Frames), st # <<>>, NEW f \in Frames,
           NEW r, Replaces(r, st, f)
    PROVE  /\ r \in Seq(Frames) /\ Len(r) = Len(st)
           /\ Outer(r, Len(st)) = f
           /\ \A i \in 1 .. Len(st) - 1 : Outer(r, i) = Outer(st, i)
<1>1. /\ Tail(st) \in Seq(Frames) /\ Len(Tail(st)) = Len(st) - 1 /\ Len(st) \in Nat \ {0}
      /\ \A j \in 1 .. Len(st) - 1 : Tail(st)[j] = st[j + 1]
  OBVIOUS
<1>2. /\ r \in Seq(Frames) /\ Len(r) = Len(st) /\ r[1] = f
      /\ \A j \in 2 .. Len(st) : r[j] = Tail(st)[j - 1]
  BY <1>1 DEF Replaces
<1>3. \A j \in 2 .. Len(st) : r[j] = st[j]
  BY <1>1, <1>2
<1>4. Outer(r, Len(st)) = f
  BY <1>1, <1>2 DEF Outer
<1>5. ASSUME NEW i \in 1 .. Len(st) - 1 PROVE Outer(r, i) = Outer(st, i)
  <2>1. Len(st) + 1 - i \in 2 .. Len(st)
    BY <1>1
  <2>2. QED
    BY <1>2, <1>3, <2>1 DEF Outer
<1>6. QED
  BY <1>2, <1>4, <1>5

\* It calls itself.
LEMMA Pushed ==
    ASSUME NEW st \in Seq(Frames), st # <<>>, NEW f \in Frames, NEW g \in Frames,
           NEW r, Pushes(r, st, g, f)
    PROVE  /\ r \in Seq(Frames) /\ Len(r) = Len(st) + 1
           /\ Outer(r, Len(st) + 1) = g /\ Outer(r, Len(st)) = f
           /\ \A i \in 1 .. Len(st) - 1 : Outer(r, i) = Outer(st, i)
<1>1. /\ Tail(st) \in Seq(Frames) /\ Len(Tail(st)) = Len(st) - 1 /\ Len(st) \in Nat \ {0}
      /\ \A j \in 1 .. Len(st) - 1 : Tail(st)[j] = st[j + 1]
  OBVIOUS
<1>2. /\ r \in Seq(Frames) /\ Len(r) = Len(st) + 1 /\ r[1] = g /\ r[2] = f
      /\ \A j \in 3 .. Len(st) + 1 : r[j] = Tail(st)[j - 2]
  BY <1>1 DEF Pushes
<1>3. \A j \in 3 .. Len(st) + 1 : r[j] = st[j - 1]
  BY <1>1, <1>2
<1>4. Outer(r, Len(st) + 1) = g /\ Outer(r, Len(st)) = f
  BY <1>1, <1>2 DEF Outer
<1>5. ASSUME NEW i \in 1 .. Len(st) - 1 PROVE Outer(r, i) = Outer(st, i)
  <2>1. Len(st) + 2 - i \in 3 .. Len(st) + 1 /\ (Len(st) + 2 - i) - 1 = Len(st) + 1 - i
        /\ Len(r) + 1 - i = Len(st) + 2 - i
    BY <1>1, <1>2
  <2>2. QED
    BY <1>3, <2>1 DEF Outer
<1>6. QED
  BY <1>2, <1>4, <1>5

\* It returns.
LEMMA Popped ==
    ASSUME NEW st \in Seq(Frames), st # <<>>
    PROVE  /\ Tail(st) \in Seq(Frames) /\ Len(Tail(st)) = Len(st) - 1
           /\ Tail(st) = <<>> <=> Len(st) = 1
           /\ Head(st) \in Frames /\ Head(st) = Outer(st, Len(st))
           /\ \A i \in 1 .. Len(st) - 1 : Outer(Tail(st), i) = Outer(st, i)
           /\ Len(st) > 1 => Head(Tail(st)) = Outer(st, Len(st) - 1)
<1>1. /\ Tail(st) \in Seq(Frames) /\ Len(Tail(st)) = Len(st) - 1 /\ Len(st) \in Nat \ {0}
      /\ \A j \in 1 .. Len(st) - 1 : Tail(st)[j] = st[j + 1]
  OBVIOUS
<1>2. Head(st) = st[1] /\ st[1] \in Frames
  OBVIOUS
<1>3. Head(st) = Outer(st, Len(st))
  BY <1>1, <1>2 DEF Outer
<1>4. ASSUME NEW i \in 1 .. Len(st) - 1 PROVE Outer(Tail(st), i) = Outer(st, i)
  <2>1. Len(st) - i \in 1 .. Len(st) - 1
        /\ Len(Tail(st)) + 1 - i = Len(st) - i /\ (Len(st) - i) + 1 = Len(st) + 1 - i
    BY <1>1
  <2>2. QED
    BY <1>1, <2>1 DEF Outer
<1>5. ASSUME Len(st) > 1 PROVE Head(Tail(st)) = Outer(st, Len(st) - 1)
  <2>1. Head(Tail(st)) = Tail(st)[1]
    BY <1>1, <1>5, HeadTailProperties
  <2>2. Tail(st)[1] = st[2] /\ Len(st) + 1 - (Len(st) - 1) = 2
    BY <1>1, <1>5
  <2>3. QED
    BY <2>1, <2>2 DEF Outer
<1>6. Tail(st) = <<>> <=> Len(st) = 1
  BY <1>1, EmptySeq
<1>7. QED
  BY <1>1, <1>2, <1>3, <1>4, <1>5, <1>6


-----------------------------------------------------------------------------
(* The texts that the calls are given. *)

\* Whether a command stands behind a pipe, or before one.
LEMMA PipesRead ==
    ASSUME NEW ln, NEW i
    PROVE  PipeBefore(ln, i) \in BOOLEAN /\ IsPipe(ln[i].op) \in BOOLEAN
BY DEF PipeBefore, IsPipe

\* Texts are what their fields are.
LEMMA SameText ==
    ASSUME NEW x \in Texts, NEW y \in Texts, x.cmd = y.cmd, x.op = y.op,
           x.reads = y.reads, x.writes = y.writes
    PROVE  x = y
BY DEF Texts

\* A command of a line.
LEMMA CommandIs ==
    ASSUME NEW ln, Parsed(ln), NEW i \in 1 .. Len(ln)
    PROVE  /\ ln[i] \in Texts /\ ln[i].op \in Ops \union {"end"}
           /\ ln[i].cmd = i /\ ln[i].reads = FALSE /\ ln[i].writes = FALSE
           /\ ln[i].op = "end" <=> i = Len(ln)
<1>1. ln[i] \in Texts /\ ln[i] = Stage(i, ln[i].op) /\ (ln[i].op = "end" <=> i = Len(ln))
  BY DEF Parsed
<1>2. ln[i].op \in Ops \union {"end"}
  BY <1>1 DEF Texts
<1>3. ln[i].cmd = i /\ ln[i].reads = FALSE /\ ln[i].writes = FALSE
  BY <1>1 DEF Stage
<1>4. QED
  BY <1>1, <1>2, <1>3

\* The same once it reads what is before it.
LEMMA ReadingText ==
    ASSUME NEW x \in Texts, NEW b \in BOOLEAN
    PROVE  /\ [x EXCEPT !.reads = b] \in Texts /\ [x EXCEPT !.reads = b].cmd = x.cmd
           /\ [x EXCEPT !.reads = b].op = x.op /\ [x EXCEPT !.reads = b].reads = b
           /\ [x EXCEPT !.reads = b].writes = x.writes
BY DEF Texts

\* And when it is the last of its text, and writes.
LEMMA EndText ==
    ASSUME NEW x \in Texts, NEW b \in BOOLEAN
    PROVE  LET y == [x EXCEPT !.op = "end", !.writes = b]
           IN  y \in Texts /\ y.cmd = x.cmd /\ y.op = "end" /\ y.reads = x.reads /\ y.writes = b
BY DEF Texts

\* What is known of the text from a command on.
IsTextFrom(t, ln, i) ==
    /\ t \in Seq(Texts) /\ t # <<>> /\ Len(t) = Len(ln) - i + 1
    /\ t[1] \in Texts /\ t[1].cmd = i /\ t[1].op = ln[i].op
    /\ t[1].reads = PipeBefore(ln, i) /\ t[1].writes = FALSE
    /\ \A j \in 2 .. Len(t) : t[j] = ln[i + j - 1]
    /\ Head(t) = t[1]

\* What is behind an operator is a text with one stage for each command there.
LEMMA TextFacts ==
    ASSUME NEW ln, Parsed(ln), NEW i \in 1 .. Len(ln)
    PROVE  IsTextFrom(TextFrom(ln, i), ln, i)
<1>0. PICK t : t = TextFrom(ln, i)
  OBVIOUS
<1> DEFINE n == Len(ln) - i + 1
           e(j) == IF j = 1 THEN [ln[i] EXCEPT !.reads = PipeBefore(ln, i)] ELSE ln[i + j - 1]
<1>1. n \in Nat \ {0} /\ Len(ln) \in Nat
  BY LenProperties DEF Parsed
<1>2. ASSUME NEW j \in 1 .. n PROVE e(j) \in Texts
  <2>1. CASE j = 1
    <3>1. PipeBefore(ln, i) \in BOOLEAN
      BY PipesRead
    <3>2. ln[i] \in Texts
      BY CommandIs
    <3>3. [ln[i] EXCEPT !.reads = PipeBefore(ln, i)] \in Texts
      BY <3>1, <3>2, ReadingText
    <3>4. QED
      BY <2>1, <3>3
  <2>2. CASE j # 1
    <3>1. i + j - 1 \in 1 .. Len(ln)
      BY <1>1, <2>2
    <3>2. QED
      BY <2>2, <3>1, CommandIs
  <2>3. QED
    BY <2>1, <2>2
<1>3. t = [j \in 1 .. n |-> e(j)]
  BY <1>0 DEF TextFrom
<1>4. t \in Seq(Texts)
  <2> HIDE DEF e, n
  <2>1. [j \in 1 .. n |-> e(j)] \in Seq(Texts)
    BY <1>1, <1>2, IsASeq
  <2>2. QED
    BY <1>3, <2>1
<1>5. DOMAIN t = 1 .. n
  BY <1>3
<1>6. Len(t) = n
  <2> HIDE DEF n
  <2>1. Len(t) \in Nat /\ DOMAIN t = 1 .. Len(t)
    BY <1>4, LenProperties
  <2>2. QED
    BY <1>1, <1>5, <2>1
<1>7. /\ t[1] \in Texts /\ t[1].cmd = i /\ t[1].op = ln[i].op
      /\ t[1].reads = PipeBefore(ln, i) /\ t[1].writes = FALSE
  <2>1. t[1] = [ln[i] EXCEPT !.reads = PipeBefore(ln, i)]
    BY <1>1, <1>3
  <2>2. PipeBefore(ln, i) \in BOOLEAN
    BY PipesRead
  <2>3. ln[i] \in Texts /\ ln[i].cmd = i /\ ln[i].writes = FALSE
    BY CommandIs
  <2>4. QED
    BY <2>1, <2>2, <2>3, ReadingText
<1>8. \A j \in 2 .. Len(t) : t[j] = ln[i + j - 1]
  BY <1>1, <1>3, <1>6
<1>9. t # <<>> /\ Head(t) = t[1]
  <2> HIDE DEF n
  <2>1. t # <<>>
    BY <1>1, <1>4, <1>6, EmptySeq
  <2>2. QED
    BY <1>4, <2>1
<1>10. IsTextFrom(t, ln, i)
  BY <1>4, <1>6, <1>7, <1>8, <1>9 DEF IsTextFrom
<1>11. QED
  BY <1>0, <1>10

\* The text before an operator, and the text behind it.
LEMMA SplitText ==
    ASSUME NEW ln, Parsed(ln), NEW i \in 1 .. Len(ln)
    PROVE  /\ Before(TextFrom(ln, i)) = TextOf(ln, i)
           /\ TextOf(ln, i) \in Seq(Texts)
           /\ i < Len(ln) => Behind(TextFrom(ln, i)) = TextFrom(ln, i + 1)
<1> DEFINE t == TextFrom(ln, i)
           r == [cmd |-> i, op |-> "end", reads |-> PipeBefore(ln, i),
                 writes |-> IsPipe(ln[i].op)]
<1>0. IsTextFrom(t, ln, i)
  BY TextFacts
<1>2. Len(ln) \in Nat
  BY LenProperties DEF Parsed
<1> HIDE DEF t
<1>1. /\ t \in Seq(Texts) /\ t # <<>> /\ Len(t) = Len(ln) - i + 1
      /\ t[1] \in Texts /\ t[1].cmd = i /\ t[1].op = ln[i].op
      /\ t[1].reads = PipeBefore(ln, i) /\ t[1].writes = FALSE
      /\ \A j \in 2 .. Len(t) : t[j] = ln[i + j - 1]
      /\ Head(t) = t[1]
  BY <1>0 DEF IsTextFrom
<1>3. Head(t).op = ln[i].op
  BY <1>1
<1>4. /\ r \in Texts /\ r.cmd = i /\ r.op = "end" /\ r.reads = PipeBefore(ln, i)
      /\ r.writes = IsPipe(ln[i].op)
  BY <1>2, PipesRead DEF Texts
<1> HIDE DEF r
<1>5. Before(t) = <<r>>
  <2> DEFINE x == [Head(t) EXCEPT !.op = "end", !.writes = IsPipe(Head(t).op)]
  <2>1. /\ x \in Texts /\ x.cmd = i /\ x.op = "end" /\ x.reads = PipeBefore(ln, i)
        /\ x.writes = IsPipe(ln[i].op)
    <3>1. Head(t) \in Texts /\ IsPipe(Head(t).op) \in BOOLEAN
      BY <1>1, PipesRead DEF IsPipe
    <3>2. QED
      BY <1>1, <1>3, <3>1, EndText
  <2>2. x = r
    BY <1>4, <2>1, SameText
  <2>3. QED
    BY <2>2 DEF Before
<1>6. ASSUME i < Len(ln) PROVE Behind(t) = TextFrom(ln, i + 1)
  <2> DEFINE u == TextFrom(ln, i + 1)
             w == Tail(t)
  <2>0. IsTextFrom(u, ln, i + 1)
    <3>1. i + 1 \in 1 .. Len(ln)
      BY <1>2, <1>6
    <3>2. QED
      BY <3>1, TextFacts
  <2>2. /\ w \in Seq(Texts) /\ Len(w) = Len(ln) - i
        /\ \A j \in 1 .. Len(w) : w[j] = t[j + 1]
    BY <1>1, <1>2, HeadTailProperties
  <2> HIDE DEF u, w
  <2>1. /\ u \in Seq(Texts) /\ u # <<>> /\ Len(u) = Len(ln) - (i + 1) + 1
        /\ u[1] \in Texts /\ u[1].cmd = i + 1 /\ u[1].op = ln[i + 1].op
        /\ u[1].reads = PipeBefore(ln, i + 1) /\ u[1].writes = FALSE
        /\ \A j \in 2 .. Len(u) : u[j] = ln[(i + 1) + j - 1]
    BY <2>0 DEF IsTextFrom
  <2>3. Len(u) = Len(w) /\ \A j \in 2 .. Len(u) : u[j] = w[j]
    BY <1>1, <1>2, <2>1, <2>2
  <2>4. /\ 1 \in 1 .. Len(w) /\ w[1] \in Texts /\ w[1].cmd = i + 1
        /\ w[1].op = ln[i + 1].op /\ w[1].reads = FALSE /\ w[1].writes = FALSE
    <3>1. 1 \in 1 .. Len(w) /\ w[1] = ln[i + 1] /\ i + 1 \in 1 .. Len(ln)
      BY <1>1, <1>2, <1>6, <2>2
    <3>2. ln[i + 1] \in Texts /\ ln[i + 1].cmd = i + 1 /\ ln[i + 1].reads = FALSE
          /\ ln[i + 1].writes = FALSE
      BY <3>1, CommandIs
    <3>3. QED
      BY <3>1, <3>2
  <2>5. PipeBefore(ln, i + 1) <=> IsPipe(ln[i].op)
    BY <1>2 DEF PipeBefore
  <2>6. CASE IsPipe(ln[i].op)
    <3> DEFINE v == [w EXCEPT ![1].reads = TRUE]
    <3>1. Behind(t) = v
      BY <1>3, <2>6 DEF Behind, w
    <3>2. [w[1] EXCEPT !.reads = TRUE] = u[1]
      <4> DEFINE x == [w[1] EXCEPT !.reads = TRUE]
      <4>1. PipeBefore(ln, i + 1) = TRUE
        BY <2>5, <2>6, PipesRead
      <4>2. x \in Texts /\ x.cmd = w[1].cmd /\ x.op = w[1].op /\ x.reads = TRUE
            /\ x.writes = w[1].writes
        BY <2>4 DEF Texts
      <4>3. QED
        BY <2>1, <2>4, <4>1, <4>2, SameText
    <3>3. v = [w EXCEPT ![1] = u[1]]
      BY <2>4, <3>2
    <3> HIDE DEF v
    <3>4. /\ v \in Seq(Texts) /\ Len(v) = Len(w)
          /\ \A j \in 1 .. Len(w) : v[j] = IF j = 1 THEN u[1] ELSE w[j]
      <4>1. 1 \in 1 .. Len(w) /\ w \in Seq(Texts) /\ u[1] \in Texts
        BY <2>1, <2>2, <2>4
      <4>2. QED
        BY <3>3, <4>1, ExceptSeq
    <3>5. \A j \in 1 .. Len(u) : v[j] = u[j]
      BY <2>3, <3>4
    <3>6. QED
      BY <2>1, <2>3, <3>1, <3>4, <3>5, SeqEqual DEF u
  <2>7. CASE ~IsPipe(ln[i].op)
    <3>1. Behind(t) = w
      BY <1>3, <2>7 DEF Behind, w
    <3>2. w[1] = u[1]
      <4>1. PipeBefore(ln, i + 1) = FALSE
        BY <2>5, <2>7, PipesRead
      <4>2. QED
        BY <2>1, <2>4, <4>1, SameText
    <3>3. \A j \in 1 .. Len(u) : w[j] = u[j]
      BY <2>3, <3>2
    <3>4. QED
      BY <2>1, <2>2, <2>3, <3>1, <3>3, SeqEqual DEF u
  <2>8. QED
    BY <2>6, <2>7
<1>7. QED
  BY <1>4, <1>5, <1>6 DEF t, r, TextOf

\* The lines users type.
LEMMA EnteredLine ==
    ASSUME NEW n \in 1 .. MaxLen, NEW ln \in Lines[n]
    PROVE  Parsed(ln) /\ Len(ln) = n /\ ln = TextFrom(ln, 1)
<1>1. n \in Nat \ {0}
  BY MaxLenAssumption
<1>2. PICK ops \in [1 .. n - 1 -> Ops] :
         ln = [i \in 1 .. n |-> Stage(i, IF i = n THEN "end" ELSE ops[i])]
  BY DEF Lines
<1> DEFINE e(i) == Stage(i, IF i = n THEN "end" ELSE ops[i])
<1>3. ASSUME NEW i \in 1 .. n PROVE e(i) \in Texts /\ (e(i).op = "end" <=> i = n)
  <2>1. i # n => ops[i] \in Ops
    BY <1>1
  <2>2. i # n => ops[i] # "end"
    BY <2>1, OpsAssumption
  <2>3. QED
    BY <2>1, <2>2 DEF Stage, Texts
<1>4. ln \in Seq(Texts)
  <2> HIDE DEF e
  <2>1. [i \in 1 .. n |-> e(i)] \in Seq(Texts)
    BY <1>1, <1>3, IsASeq
  <2>2. QED
    BY <1>2, <2>1 DEF e
<1>5. Len(ln) = n
  <2>1. DOMAIN ln = 1 .. n
    BY <1>2
  <2>2. Len(ln) \in Nat /\ DOMAIN ln = 1 .. Len(ln)
    BY <1>4, LenProperties
  <2>3. QED
    BY <1>1, <2>1, <2>2
<1>6. \A i \in 1 .. n : ln[i] = Stage(i, ln[i].op) /\ (ln[i].op = "end" <=> i = n)
  BY <1>2, <1>3 DEF Stage
<1>7. Parsed(ln)
  BY <1>4, <1>5, <1>6 DEF Parsed
<1>8. ln = TextFrom(ln, 1)
  <2> DEFINE t == TextFrom(ln, 1)
  <2>0. IsTextFrom(t, ln, 1)
    <3>1. 1 \in 1 .. Len(ln)
      BY <1>1, <1>5
    <3>2. QED
      BY <1>7, <3>1, TextFacts
  <2> HIDE DEF t
  <2>1. /\ t \in Seq(Texts) /\ Len(t) = Len(ln) - 1 + 1
        /\ t[1] \in Texts /\ t[1].cmd = 1 /\ t[1].op = ln[1].op
        /\ t[1].reads = PipeBefore(ln, 1) /\ t[1].writes = FALSE
        /\ \A j \in 2 .. Len(t) : t[j] = ln[1 + j - 1]
    BY <2>0 DEF IsTextFrom
  <2>2. PipeBefore(ln, 1) = FALSE
    BY DEF PipeBefore
  <2>3. ln[1] = t[1]
    <3>1. 1 \in 1 .. Len(ln)
      BY <1>1, <1>5
    <3>2. /\ ln[1] \in Texts /\ ln[1].cmd = 1
          /\ ln[1].reads = FALSE /\ ln[1].writes = FALSE
      BY <1>7, <3>1, CommandIs
    <3>3. QED
      BY <2>1, <2>2, <3>2, SameText
  <2>4. Len(t) = Len(ln) /\ \A j \in 1 .. Len(ln) : ln[j] = t[j]
    BY <1>1, <1>5, <2>1, <2>2, <2>3
  <2>5. QED
    BY <1>4, <2>1, <2>4, SeqEqual DEF t
<1>9. QED
  BY <1>5, <1>7, <1>8


-----------------------------------------------------------------------------
(* Where a shell is, and what its innermost call is given. *)

\* The innermost call of the stack.
LEMMA TopIs ==
    ASSUME NEW ln, Parsed(ln), NEW st \in Seq(Frames), NEW c, NEW at, Calls(st, ln, c, at)
    PROVE  /\ c \in Nat \ {0} /\ Len(st) \in Nat \ {0} /\ st # <<>>
           /\ Head(st) \in Frames
           /\ at \notin Inside => /\ Len(st) = c /\ Head(st) = Outer(st, c) /\ Head(st).at = at
                                  /\ Head(st).stages = TextFrom(ln, c)
           /\ at \in Inside => /\ Len(st) = c + 1 /\ Head(st) = Outer(st, c + 1)
                               /\ Head(st).at = IF at = "part" THEN "start" ELSE "run"
                               /\ Head(st).stages = TextOf(ln, c)
<1>1. Len(ln) \in Nat
  BY LenProperties DEF Parsed
<1>2. c \in Nat \ {0} /\ Len(st) = (IF at \in Inside THEN c + 1 ELSE c)
  BY <1>1 DEF Calls
<1>3. st # <<>> /\ Len(st) \in Nat \ {0}
  BY <1>2, EmptySeq
<1>4. Head(st) \in Frames /\ Head(st) = Outer(st, Len(st))
  BY <1>3, Popped
<1>5. ASSUME at \notin Inside
      PROVE  Len(st) = c /\ Head(st) = Outer(st, c) /\ Head(st).at = at
             /\ Head(st).stages = TextFrom(ln, c)
  BY <1>2, <1>4, <1>5 DEF Calls
<1>6. ASSUME at \in Inside
      PROVE  Len(st) = c + 1 /\ Head(st) = Outer(st, c + 1)
             /\ Head(st).at = (IF at = "part" THEN "start" ELSE "run")
             /\ Head(st).stages = TextOf(ln, c)
  BY <1>2, <1>4, <1>6 DEF Calls
<1>7. QED
  BY <1>2, <1>3, <1>4, <1>5, <1>6

\* The command at the head of the innermost text.
IsHead(x, ln, c, at) ==
    /\ x.cmd = c /\ x.reads = PipeBefore(ln, c)
    /\ at \in Inside => x.op = "end" /\ x.writes = IsPipe(ln[c].op)
    /\ at \notin Inside => x.op = ln[c].op /\ x.writes = FALSE

\* The innermost call looks at the command it begins with.
LEMMA HeadIs ==
    ASSUME NEW ln, Parsed(ln), NEW st \in Seq(Frames), NEW c, NEW at, Calls(st, ln, c, at)
    PROVE  IsHead(Head(Head(st).stages), ln, c, at)
<1>1. c \in 1 .. Len(ln)
  BY DEF Calls
<1>2. CASE at \notin Inside
  <2> DEFINE t == TextFrom(ln, c)
  <2>1. Head(st).stages = t
    BY <1>2, TopIs
  <2>2. IsTextFrom(t, ln, c)
    BY <1>1, TextFacts
  <2> HIDE DEF t
  <2>3. /\ Head(t).cmd = c /\ Head(t).op = ln[c].op /\ Head(t).reads = PipeBefore(ln, c)
        /\ Head(t).writes = FALSE
    BY <2>2 DEF IsTextFrom
  <2>4. QED
    BY <1>2, <2>1, <2>3 DEF IsHead
<1>3. CASE at \in Inside
  <2> DEFINE r == [cmd |-> c, op |-> "end", reads |-> PipeBefore(ln, c),
                   writes |-> IsPipe(ln[c].op)]
  <2>1. Head(st).stages = <<r>>
    BY <1>3, TopIs DEF TextOf
  <2>2. /\ r.cmd = c /\ r.op = "end" /\ r.reads = PipeBefore(ln, c)
        /\ r.writes = IsPipe(ln[c].op)
    OBVIOUS
  <2> HIDE DEF r
  <2>3. Head(Head(st).stages) = r
    BY <2>1
  <2>4. QED
    BY <1>3, <2>2, <2>3 DEF IsHead
<1>4. QED
  BY <1>2, <1>3

\* Which calls wait for a part of a pipe.
LEMMA PipingIs ==
    ASSUME NEW ln, Parsed(ln), NEW st \in Seq(Frames), NEW c, NEW at, Calls(st, ln, c, at)
    PROVE  Piping(st, ln) <=> \/ \E i \in 1 .. c - 1 : IsPipe(ln[i].op)
                              \/ at # "start" /\ IsPipe(ln[c].op)
<1>1. Len(ln) \in Nat /\ c \in 1 .. Len(ln) /\ at \in Places
      /\ Len(st) = (IF at \in Inside THEN c + 1 ELSE c)
  BY LenProperties DEF Parsed, Calls
<1>2. /\ \A i \in 1 .. c - 1 : Outer(st, i).at = "second"
      /\ Outer(st, c).at = IF at \in Inside THEN "first" ELSE at
      /\ at \in Inside => Outer(st, c + 1).at = IF at = "part" THEN "start" ELSE "run"
  BY DEF Calls
<1>3. ASSUME NEW i \in 1 .. Len(st), i <= Len(ln), IsPipe(ln[i].op),
             Outer(st, i).at \in {"first", "decide", "second", "finish"}
      PROVE  i \in 1 .. c - 1 \/ (i = c /\ at # "start")
  <2>1. i \in 1 .. c - 1 \/ i = c \/ (i = c + 1 /\ at \in Inside)
    <3>1. CASE at \in Inside
      <4>1. Len(st) = c + 1
        BY <1>1, <3>1
      <4>2. i \in 1 .. c - 1 \/ i = c \/ i = c + 1
        BY <1>1, <4>1
      <4>3. QED
        BY <3>1, <4>2
    <3>2. CASE at \notin Inside
      <4>1. Len(st) = c
        BY <1>1, <3>2
      <4>2. i \in 1 .. c - 1 \/ i = c
        BY <1>1, <4>1
      <4>3. QED
        BY <4>2
    <3>3. QED
      BY <3>1, <3>2
  <2>2. ~(i = c + 1 /\ at \in Inside)
    BY <1>2, <1>3
  <2>3. i = c => at # "start"
    BY <1>2, <1>3 DEF Inside
  <2>4. QED
    BY <2>1, <2>2, <2>3
<1>4. ASSUME NEW i \in 1 .. c - 1, IsPipe(ln[i].op) PROVE Piping(st, ln)
  <2>1. i \in 1 .. Len(st) /\ i <= Len(ln) /\ Outer(st, i).at = "second"
    BY <1>1, <1>2
  <2>2. QED
    BY <1>4, <2>1 DEF Piping
<1>5. ASSUME at # "start", IsPipe(ln[c].op) PROVE Piping(st, ln)
  <2>1. c \in 1 .. Len(st) /\ c <= Len(ln)
    BY <1>1
  <2>2. Outer(st, c).at \in {"first", "decide", "second", "finish"}
    BY <1>1, <1>2, <1>5 DEF Places, Inside
  <2>3. QED
    BY <1>5, <2>1, <2>2 DEF Piping
<1>6. QED
  BY <1>3, <1>4, <1>5 DEF Piping


-----------------------------------------------------------------------------
(* How a step moves a shell in its calls. *)

\* A call that goes on keeps its text and what it was told.
LEMMA MovedFrame ==
    ASSUME NEW f \in Frames, NEW v \in {OK, ERROR},
           NEW at \in {"start", "run", "first", "decide", "second", "finish"}
    PROVE  /\ [f EXCEPT !.at = at] \in Frames /\ [f EXCEPT !.at = at].at = at
           /\ [f EXCEPT !.at = at].stages = f.stages
           /\ [f EXCEPT !.at = at].first = f.first /\ [f EXCEPT !.at = at].second = f.second
           /\ [f EXCEPT !.at = at, !.first = v] \in Frames
           /\ [f EXCEPT !.at = at, !.first = v].at = at
           /\ [f EXCEPT !.at = at, !.first = v].stages = f.stages
           /\ [f EXCEPT !.at = at, !.first = v].first = v
           /\ [f EXCEPT !.at = at, !.second = v] \in Frames
           /\ [f EXCEPT !.at = at, !.second = v].at = at
           /\ [f EXCEPT !.at = at, !.second = v].stages = f.stages
           /\ [f EXCEPT !.at = at, !.second = v].first = f.first
           /\ [f EXCEPT !.at = at, !.second = v].second = v
BY DEF Frames

\* A call begins with the text it is given.
LEMMA NewCall ==
    ASSUME NEW t \in Seq(Texts)
    PROVE  Call(t) \in Frames /\ Call(t).stages = t /\ Call(t).at = "start"
BY DEF Call, Frames, OK

\* A line is entered.
LEMMA ToStart ==
    ASSUME NEW ln, Parsed(ln), ln # <<>>, ln = TextFrom(ln, 1)
    PROVE  <<Call(ln)>> \in Seq(Frames) /\ Calls(<<Call(ln)>>, ln, 1, "start")
<1>1. ln \in Seq(Texts) /\ Len(ln) \in Nat \ {0}
  BY LenProperties, EmptySeq DEF Parsed
<1>2. PICK f : f = Call(ln)
  OBVIOUS
<1>3. f \in Frames /\ f.stages = ln /\ f.at = "start"
  BY <1>1, <1>2, NewCall
<1>4. <<f>> \in Seq(Frames) /\ Len(<<f>>) = 1 /\ Outer(<<f>>, 1) = f
  BY <1>3 DEF Outer
<1>5. Calls(<<f>>, ln, 1, "start")
  <2>1. \A i \in 1 .. 1 : Outer(<<f>>, i).stages = TextFrom(ln, i)
    BY <1>3, <1>4
  <2>2. \A i \in 1 .. 1 - 1 : Outer(<<f>>, i).at = "second"
    OBVIOUS
  <2>3. QED
    BY <1>1, <1>3, <1>4, <2>1, <2>2 DEF Calls, Places, Inside
<1>6. QED
  BY <1>2, <1>4, <1>5

\* The calls around call k, and call k, were told the same in two stacks.
SameFirsts(r, st, k) == \A i \in 1 .. k : Outer(r, i).first = Outer(st, i).first

\* The part before an operator is called.
LEMMA ToPart ==
    ASSUME NEW ln, Parsed(ln), NEW st \in Seq(Frames), NEW c, Calls(st, ln, c, "start"),
           c < Len(ln),
           NEW f \in Frames, f.at = "first", f.stages = Head(st).stages,
           NEW g \in Frames, g.at = "start", g.stages = Before(Head(st).stages),
           NEW r, Pushes(r, st, g, f)
    PROVE  r \in Seq(Frames) /\ Calls(r, ln, c, "part") /\ SameFirsts(r, st, c - 1)
<1>1. /\ c \in Nat \ {0} /\ Len(st) = c /\ st # <<>> /\ Head(st) \in Frames
      /\ Head(st) = Outer(st, c) /\ Head(st).stages = TextFrom(ln, c)
  BY TopIs DEF Inside
<1>2. c \in 1 .. Len(ln)
  BY DEF Calls
<1>3. Before(Head(st).stages) = TextOf(ln, c) /\ TextOf(ln, c) \in Seq(Texts)
  BY <1>1, <1>2, SplitText
<1>4. g.stages = TextOf(ln, c) /\ f.stages = TextFrom(ln, c)
  BY <1>1, <1>3
<1>9. /\ r \in Seq(Frames) /\ Len(r) = c + 1 /\ Outer(r, c + 1) = g /\ Outer(r, c) = f
      /\ \A i \in 1 .. c - 1 : Outer(r, i) = Outer(st, i)
  <2>1. /\ r \in Seq(Frames) /\ Len(r) = Len(st) + 1
        /\ Outer(r, Len(st) + 1) = g /\ Outer(r, Len(st)) = f
        /\ \A i \in 1 .. Len(st) - 1 : Outer(r, i) = Outer(st, i)
    BY <1>1, Pushed
  <2>2. QED
    BY <1>1, <2>1
<1>10. Calls(r, ln, c, "part")
  <2>1. \A i \in 1 .. c : Outer(r, i).stages = TextFrom(ln, i)
    <3>1. \A i \in 1 .. c : Outer(st, i).stages = TextFrom(ln, i)
      BY DEF Calls
    <3>2. QED
      BY <1>1, <1>4, <1>9, <3>1
  <2>2. \A i \in 1 .. c - 1 : Outer(r, i).at = "second"
    BY <1>9 DEF Calls
  <2>3. QED
    BY <1>2, <1>4, <1>9, <2>1, <2>2 DEF Calls, Places, Inside
<1>11. QED
  BY <1>9, <1>10 DEF SameFirsts

\* The file is opened.
LEMMA ToRun ==
    ASSUME NEW ln, Parsed(ln), NEW st \in Seq(Frames), NEW c, Calls(st, ln, c, "part"),
           IsPipe(ln[c].op),
           NEW f \in Frames, f.at = "run", f.stages = Head(st).stages,
           NEW r, Replaces(r, st, f)
    PROVE  r \in Seq(Frames) /\ Calls(r, ln, c, "run") /\ SameFirsts(r, st, c)
<1>1. /\ c \in Nat \ {0} /\ Len(st) = c + 1 /\ st # <<>> /\ Head(st) \in Frames
      /\ Head(st).stages = TextOf(ln, c)
  BY TopIs DEF Inside
<1>5. /\ r \in Seq(Frames) /\ Len(r) = Len(st) /\ Outer(r, Len(st)) = f
      /\ \A i \in 1 .. Len(st) - 1 : Outer(r, i) = Outer(st, i)
  BY <1>1, Replaced
<1>6. /\ Len(r) = c + 1 /\ Outer(r, c + 1) = f
      /\ \A i \in 1 .. c : Outer(r, i) = Outer(st, i)
  BY <1>1, <1>5
<1>7. Calls(r, ln, c, "run")
  <2>1. \A i \in 1 .. c : Outer(r, i).stages = TextFrom(ln, i)
    BY <1>6 DEF Calls
  <2>2. /\ \A i \in 1 .. c - 1 : Outer(r, i).at = "second"
        /\ Outer(r, c).at = "first"
    BY <1>1, <1>6 DEF Calls, Inside
  <2>3. QED
    BY <1>1, <1>6, <2>1, <2>2 DEF Calls, Places, Inside
<1>8. QED
  BY <1>5, <1>6, <1>7 DEF SameFirsts


\* Of two stacks, the calls around call k agree, and in r this call is f.
AgreesTo(r, st, k, f) ==
    Outer(r, k) = f /\ \A i \in 1 .. k - 1 : Outer(r, i) = Outer(st, i)

\* The call around the innermost one.
LEMMA AroundIs ==
    ASSUME NEW ln, Parsed(ln), NEW st \in Seq(Frames), NEW c, NEW at, Calls(st, ln, c, at)
    PROVE  /\ Tail(st) \in Seq(Frames) /\ Len(Tail(st)) = Len(st) - 1
           /\ Tail(st) = <<>> <=> at \notin Inside /\ c = 1
           /\ Tail(st) # <<>> => Head(Tail(st)) \in Frames
           /\ at \in Inside => /\ Len(Tail(st)) = c /\ Head(Tail(st)) = Outer(st, c)
                               /\ \A i \in 1 .. c : Outer(Tail(st), i) = Outer(st, i)
           /\ at \notin Inside => /\ Len(Tail(st)) = c - 1
                                  /\ c # 1 => Head(Tail(st)) = Outer(st, c - 1)
                                  /\ \A i \in 1 .. c - 1 : Outer(Tail(st), i) = Outer(st, i)
<1>1. /\ c \in Nat \ {0} /\ Len(st) \in Nat \ {0} /\ st # <<>>
      /\ at \notin Inside => Len(st) = c
      /\ at \in Inside => Len(st) = c + 1
  BY TopIs
<1>2. /\ Tail(st) \in Seq(Frames) /\ Len(Tail(st)) = Len(st) - 1
      /\ Tail(st) = <<>> <=> Len(st) = 1
      /\ \A i \in 1 .. Len(st) - 1 : Outer(Tail(st), i) = Outer(st, i)
      /\ Len(st) > 1 => Head(Tail(st)) = Outer(st, Len(st) - 1)
  BY <1>1, Popped
<1>3. Tail(st) # <<>> => Head(Tail(st)) \in Frames
  BY <1>2
<1>4. CASE at \in Inside
  BY <1>1, <1>2, <1>3, <1>4
<1>5. CASE at \notin Inside
  BY <1>1, <1>2, <1>3, <1>5
<1>6. QED
  BY <1>4, <1>5

\* The call for the part before an operator returns.
LEMMA ToDecide ==
    ASSUME NEW ln, Parsed(ln), NEW st \in Seq(Frames), NEW c, NEW at \in Inside,
           Calls(st, ln, c, at),
           NEW f \in Frames, f.at = "decide", f.stages = Head(Tail(st)).stages,
           NEW r, Replaces(r, Tail(st), f)
    PROVE  r \in Seq(Frames) /\ Calls(r, ln, c, "decide") /\ AgreesTo(r, st, c, f)
<1>1. c \in Nat \ {0} /\ Len(st) = c + 1
  BY TopIs
<1>2. /\ Tail(st) \in Seq(Frames) /\ Len(Tail(st)) = c /\ Tail(st) # <<>>
      /\ Head(Tail(st)) = Outer(st, c)
      /\ \A i \in 1 .. c : Outer(Tail(st), i) = Outer(st, i)
  BY AroundIs
<1>3. /\ r \in Seq(Frames) /\ Len(r) = Len(Tail(st)) /\ Outer(r, Len(Tail(st))) = f
      /\ \A i \in 1 .. Len(Tail(st)) - 1 : Outer(r, i) = Outer(Tail(st), i)
  <2>1. PICK t : t = Tail(st)
    OBVIOUS
  <2>2. t \in Seq(Frames) /\ t # <<>> /\ Replaces(r, t, f)
    BY <1>2, <2>1
  <2>3. /\ r \in Seq(Frames) /\ Len(r) = Len(t) /\ Outer(r, Len(t)) = f
        /\ \A i \in 1 .. Len(t) - 1 : Outer(r, i) = Outer(t, i)
    BY <2>2, Replaced
  <2>4. QED
    BY <2>1, <2>3
<1>4. /\ Len(r) = c /\ Outer(r, c) = f
      /\ \A i \in 1 .. c - 1 : Outer(r, i) = Outer(st, i)
  BY <1>1, <1>2, <1>3
<1>5. /\ c \in 1 .. Len(ln) /\ c < Len(ln)
      /\ \A i \in 1 .. c : Outer(st, i).stages = TextFrom(ln, i)
      /\ \A i \in 1 .. c - 1 : Outer(st, i).at = "second"
  BY DEF Calls, Inside
<1>6. Calls(r, ln, c, "decide")
  <2>1. \A i \in 1 .. c : Outer(r, i).stages = TextFrom(ln, i)
    BY <1>1, <1>2, <1>4, <1>5
  <2>2. \A i \in 1 .. c - 1 : Outer(r, i).at = "second"
    BY <1>4, <1>5
  <2>3. QED
    BY <1>4, <1>5, <2>1, <2>2 DEF Calls, Places, Inside
<1>7. QED
  BY <1>1, <1>3, <1>4, <1>6 DEF AgreesTo

\* The call for what is behind an operator returns.
LEMMA ToFinish ==
    ASSUME NEW ln, Parsed(ln), NEW st \in Seq(Frames), NEW c, NEW at, at \notin Inside,
           Calls(st, ln, c, at), c # 1,
           NEW f \in Frames, f.at = "finish", f.stages = Head(Tail(st)).stages,
           NEW r, Replaces(r, Tail(st), f)
    PROVE  r \in Seq(Frames) /\ Calls(r, ln, c - 1, "finish") /\ AgreesTo(r, st, c - 1, f)
<1>1. c \in Nat \ {0} /\ Len(st) = c
  BY TopIs
<1>2. /\ Tail(st) \in Seq(Frames) /\ Len(Tail(st)) = c - 1 /\ Tail(st) # <<>>
      /\ Head(Tail(st)) = Outer(st, c - 1)
      /\ \A i \in 1 .. c - 1 : Outer(Tail(st), i) = Outer(st, i)
  BY AroundIs
<1>3. /\ r \in Seq(Frames) /\ Len(r) = Len(Tail(st)) /\ Outer(r, Len(Tail(st))) = f
      /\ \A i \in 1 .. Len(Tail(st)) - 1 : Outer(r, i) = Outer(Tail(st), i)
  <2>1. PICK t : t = Tail(st)
    OBVIOUS
  <2>2. t \in Seq(Frames) /\ t # <<>> /\ Replaces(r, t, f)
    BY <1>2, <2>1
  <2>3. /\ r \in Seq(Frames) /\ Len(r) = Len(t) /\ Outer(r, Len(t)) = f
        /\ \A i \in 1 .. Len(t) - 1 : Outer(r, i) = Outer(t, i)
    BY <2>2, Replaced
  <2>4. QED
    BY <2>1, <2>3
<1>4. /\ Len(r) = c - 1 /\ Outer(r, c - 1) = f
      /\ \A i \in 1 .. (c - 1) - 1 : Outer(r, i) = Outer(st, i)
  BY <1>1, <1>2, <1>3
<1>5. /\ c \in 1 .. Len(ln) /\ Len(ln) \in Nat
      /\ \A i \in 1 .. c : Outer(st, i).stages = TextFrom(ln, i)
      /\ \A i \in 1 .. c - 1 : Outer(st, i).at = "second"
  BY LenProperties DEF Calls, Parsed
<1>6. Calls(r, ln, c - 1, "finish")
  <2>1. \A i \in 1 .. c - 1 : Outer(r, i).stages = TextFrom(ln, i)
    BY <1>1, <1>2, <1>4, <1>5
  <2>2. \A i \in 1 .. (c - 1) - 1 : Outer(r, i).at = "second"
    BY <1>1, <1>4, <1>5
  <2>3. c - 1 \in 1 .. Len(ln) /\ c - 1 < Len(ln)
    BY <1>1, <1>5
  <2>4. QED
    BY <1>4, <2>1, <2>2, <2>3 DEF Calls, Places, Inside
<1>7. QED
  BY <1>1, <1>3, <1>4, <1>6 DEF AgreesTo

\* What is behind the operator is called.
LEMMA ToNext ==
    ASSUME NEW ln, Parsed(ln), NEW st \in Seq(Frames), NEW c, Calls(st, ln, c, "decide"),
           NEW f \in Frames, f.at = "second", f.stages = Head(st).stages,
           NEW g \in Frames, g.at = "start", g.stages = Behind(Head(st).stages),
           NEW r, Pushes(r, st, g, f)
    PROVE  r \in Seq(Frames) /\ Calls(r, ln, c + 1, "start") /\ AgreesTo(r, st, c, f)
<1>1. /\ c \in Nat \ {0} /\ Len(st) = c /\ st # <<>>
      /\ Head(st).stages = TextFrom(ln, c)
  BY TopIs DEF Inside
<1>2. c \in 1 .. Len(ln) /\ c < Len(ln) /\ Len(ln) \in Nat
  BY LenProperties DEF Calls, Parsed
<1>3. g.stages = TextFrom(ln, c + 1) /\ f.stages = TextFrom(ln, c)
  BY <1>1, <1>2, SplitText
<1>4. /\ r \in Seq(Frames) /\ Len(r) = Len(st) + 1
      /\ Outer(r, Len(st) + 1) = g /\ Outer(r, Len(st)) = f
      /\ \A i \in 1 .. Len(st) - 1 : Outer(r, i) = Outer(st, i)
  BY <1>1, Pushed
<1>5. /\ Len(r) = c + 1 /\ Outer(r, c + 1) = g /\ Outer(r, c) = f
      /\ \A i \in 1 .. c - 1 : Outer(r, i) = Outer(st, i)
  BY <1>1, <1>4
<1>6. Calls(r, ln, c + 1, "start")
  <2>1. \A i \in 1 .. c + 1 : Outer(r, i).stages = TextFrom(ln, i)
    <3>1. \A i \in 1 .. c : Outer(st, i).stages = TextFrom(ln, i)
      BY DEF Calls
    <3>2. QED
      BY <1>1, <1>3, <1>5, <3>1
  <2>2. \A i \in 1 .. (c + 1) - 1 : Outer(r, i).at = "second"
    <3>1. \A i \in 1 .. c - 1 : Outer(st, i).at = "second"
      BY DEF Calls
    <3>2. QED
      BY <1>1, <1>5, <3>1
  <2>3. c + 1 \in 1 .. Len(ln)
    BY <1>2
  <2>4. QED
    BY <1>5, <2>1, <2>2, <2>3 DEF Calls, Places, Inside
<1>7. QED
  BY <1>1, <1>4, <1>5, <1>6 DEF AgreesTo


-----------------------------------------------------------------------------
(* What the operators ask for, and the value of a line. *)

\* The decision after a command is the one the line asks for.
LEMMA GoesOnIs ==
    ASSUME NEW ln, Parsed(ln), NEW c \in 1 .. Len(ln), c < Len(ln), NEW bad
    PROVE  GoesOn(ln[c].op, Own(bad, c)) <=> ~Ends(ln, bad, c)
<1>1. ln[c].op \in Ops \union {"end"} /\ ln[c].op # "end"
  <2>1. Len(ln) \in Nat
    BY LenProperties DEF Parsed
  <2>2. ln[c].op \in Ops \union {"end"} /\ (ln[c].op = "end" <=> c = Len(ln))
    BY CommandIs
  <2>3. c # Len(ln)
    BY <2>1
  <2>4. QED
    BY <2>2, <2>3
<1>2. ln[c].op \in {";", "&&", "||", "|", "|&"}
  BY <1>1, OpsAssumption
<1>3. (Own(bad, c) >= 0 <=> c \notin bad) /\ (Own(bad, c) < 0 <=> c \in bad)
  BY DEF Own, OK, ERROR
<1>4. CASE c \in bad
  BY <1>2, <1>3, <1>4 DEF GoesOn, Ends
<1>5. CASE c \notin bad
  BY <1>2, <1>3, <1>5 DEF GoesOn, Ends
<1>6. QED
  BY <1>4, <1>5

\* A line that goes on behind c - 1 commands, and then behind the next.
LEMMA GoesFurther ==
    ASSUME NEW ln, NEW bad, NEW c \in Nat \ {0}, Goes(ln, bad, c - 1), ~Ends(ln, bad, c)
    PROVE  Goes(ln, bad, c)
<1>1. \A i \in 1 .. c : i \in 1 .. c - 1 \/ i = c
  OBVIOUS
<1>2. QED
  BY <1>1 DEF Goes

\* The value of one command is its own.
LEMMA ValueIs ==
    ASSUME NEW ln, NEW bad, NEW c \in Nat \ {0}, NEW n \in Nat
    PROVE  Value(ln, bad, c, n) \in {OK, ERROR} /\ Value(ln, bad, c, c) = Own(bad, c)
<1>1. Value(ln, bad, c, n) \in {OK, ERROR}
  BY DEF Value
<1>2. c .. c - 1 = {}
  OBVIOUS
<1>3. Value(ln, bad, c, c) = Own(bad, c)
  BY <1>2 DEF Value, Own
<1>4. QED
  BY <1>1, <1>3

\* A failure before a semicolon, and any other command, of a part that is longer.
FailsBefore(ln, bad, c) == ln[c].op = ";" /\ c \in bad

\* The value of the rest, but for a failure before a semicolon.
LEMMA ValueFrom ==
    ASSUME NEW ln, NEW bad, NEW c \in Nat \ {0}, NEW n \in Nat, n > c
    PROVE  /\ FailsBefore(ln, bad, c) => Value(ln, bad, c, n) = ERROR
           /\ ~FailsBefore(ln, bad, c) => Value(ln, bad, c, n) = Value(ln, bad, c + 1, n)
<1>1. \A j \in c .. n - 1 : j = c \/ j \in c + 1 .. n - 1
  OBVIOUS
<1>2. c \in c .. n - 1 /\ \A j \in c + 1 .. n - 1 : j \in c .. n - 1
  OBVIOUS
<1>3. (\E j \in c .. n - 1 : ln[j].op = ";" /\ j \in bad)
        <=> \/ FailsBefore(ln, bad, c)
            \/ \E j \in c + 1 .. n - 1 : ln[j].op = ";" /\ j \in bad
  BY <1>1, <1>2 DEF FailsBefore
<1>4. QED
  BY <1>3 DEF Value

\* Behind a semicolon the call returns the worse of the two values.
Worse(op, first, second) == IF op = ";" /\ first < second THEN first ELSE second

\* What a call makes of its two values is the value of its text.
LEMMA Combined ==
    ASSUME NEW ln, NEW bad, NEW c \in Nat \ {0}, NEW n \in Nat, n > c,
           NEW first, first = Own(bad, c), NEW second, second = Value(ln, bad, c + 1, n)
    PROVE  Worse(ln[c].op, first, second) = Value(ln, bad, c, n)
<1>1. second \in {OK, ERROR}
  <2>1. c + 1 \in Nat \ {0}
    OBVIOUS
  <2>2. QED
    BY <2>1, ValueIs
<1>2. /\ FailsBefore(ln, bad, c) => Value(ln, bad, c, n) = ERROR
      /\ ~FailsBefore(ln, bad, c) => Value(ln, bad, c, n) = second
  BY ValueFrom
<1>3. first = IF c \in bad THEN ERROR ELSE OK
  BY DEF Own
<1>4. first < second <=> first = ERROR /\ second = OK
  BY <1>1, <1>3 DEF OK, ERROR
<1>5. CASE FailsBefore(ln, bad, c)
  BY <1>1, <1>2, <1>3, <1>4, <1>5 DEF OK, ERROR, FailsBefore, Worse
<1>6. CASE ~FailsBefore(ln, bad, c)
  BY <1>1, <1>2, <1>3, <1>4, <1>6 DEF OK, ERROR, FailsBefore, Worse
<1>7. QED
  BY <1>5, <1>6

\* There is one last command to run.
LEMMA OneLast ==
    ASSUME NEW ln, NEW bad, Parsed(ln), NEW n \in 1 .. Len(ln), Ended(ln, bad, n)
    PROVE  LastToRun(ln, bad) = n
<1>1. Len(ln) \in Nat /\ DOMAIN ln = 1 .. Len(ln)
  BY LenProperties DEF Parsed
<1> DEFINE L(i) == i \in DOMAIN ln /\ Ends(ln, bad, i) /\ \A j \in 1 .. i - 1 : ~Ends(ln, bad, j)
<1>2. L(n)
  BY <1>1 DEF Ended, Goes
<1>3. ASSUME NEW i, L(i) PROVE i = n
  <2>1. i \in 1 .. Len(ln)
    BY <1>1, <1>3
  <2>2. ~(i < n)
    <3>1. i < n => i \in 1 .. n - 1
      BY <1>1, <2>1
    <3>2. QED
      BY <1>3, <3>1 DEF Ended, Goes
  <2>3. ~(n < i)
    <3>1. n < i => n \in 1 .. i - 1
      BY <1>1, <2>1
    <3>2. QED
      BY <1>2, <1>3, <3>1
  <2>4. QED
    BY <1>1, <2>1, <2>2, <2>3
<1>4. LastToRun(ln, bad) = CHOOSE i : L(i)
  BY DEF LastToRun
<1>5. QED
  <2> HIDE DEF L
  <2>1. L(CHOOSE i : L(i))
    BY <1>2
  <2>2. QED
    BY <1>3, <1>4, <2>1


-----------------------------------------------------------------------------
(* What a step of one shell does to the others, and to what they share. *)

\* A step of one shell leaves what is said of every other shell.
LEMMA OtherShell ==
    ASSUME IInv, NEW s \in Shells, NEW u \in Shells, u # s,
           stack'[u] = stack[u], line'[u] = line[u], fails'[u] = fails[u],
           result'[u] = result[u], ran'[u] = ran[u],
           u \in shared => u \in shared',
           log' = log \/ stack[s] # <<>>
    PROVE  ShellInv(u)' /\ RanInv(u)'
<1>1. ShellInv(u) /\ RanInv(u)
  BY DEF IInv
<1>2. RanInv(u)'
  BY <1>1 DEF RanInv
<1>3. CASE Resting(u)
  <2>1. Resting(u)'
    BY <1>3 DEF Resting
  <2>2. QED
    BY <1>2, <2>1 DEF ShellInv
<1>4. ASSUME NEW c \in 1 .. Len(line[u]), NEW at \in Places, Working(u, c, at)
      PROVE  ShellInv(u)'
  <2>1. Calls(stack[u], line[u], c, at) /\ HasRun(line[u], Len(ran[u]), c, at)
    BY <1>4 DEF Working
  <2>2. ASSUME u \notin shared' PROVE log' = log
    <3>1. stack[u] # <<>>
      <4>1. Parsed(line[u]) /\ stack[u] \in Seq(Frames)
        BY DEF IInv, TypeInv
      <4>2. QED
        BY <2>1, <4>1, TopIs
    <3>2. Busy = {u}
      BY <2>2, <3>1 DEF IInv, AloneInv
    <3>3. stack[s] = <<>>
      BY <3>2 DEF Busy
    <3>4. QED
      BY <3>3
  <2>3. Calls(stack'[u], line'[u], c, at) /\ HasRun(line'[u], Len(ran'[u]), c, at)
    BY <2>1
  <2>4. ASSUME u \notin shared'
        PROVE  /\ Told(stack'[u], line'[u], fails'[u], Len(ran'[u]), c, at)
               /\ InLog(line'[u], log', c, at)
    <3>1. /\ Told(stack[u], line[u], fails[u], Len(ran[u]), c, at)
          /\ InLog(line[u], log, c, at)
      BY <1>4, <2>4 DEF Working
    <3>2. QED
      BY <2>2, <2>4, <3>1
  <2>5. Working(u, c, at)'
    BY <2>3, <2>4 DEF Working
  <2>6. c \in 1 .. Len(line'[u])
    OBVIOUS
  <2>7. QED
    BY <2>5, <2>6 DEF ShellInv
<1>5. QED
  BY <1>1, <1>2, <1>3, <1>4 DEF ShellInv

\* What a step of a shell that is in its calls has to keep.
Moved(s) ==
    /\ stack' \in [Shells -> Seq(Frames)] /\ result' \in [Shells -> {OK, ERROR}]
    /\ ran' \in [Shells -> Seq([cmd : Nat, input : Inputs])] /\ log' \in Inputs
    /\ \A u \in Shells \ {s} :
           stack'[u] = stack[u] /\ result'[u] = result[u] /\ ran'[u] = ran[u]

LogKept(s) ==
    log' # Absent =>
        \/ Piping(stack'[s], line[s])
        \/ /\ log # Absent /\ (left => left')
           /\ Piping(stack[s], line[s]) => Piping(stack'[s], line[s])

\* A step inside a call preserves IInv when it does so for its own shell.
LEMMA ExecStep ==
    ASSUME IInv, NEW s \in Shells, stack[s] # <<>>, UNCHANGED <<line, fails, shared>>,
           Moved(s), LogKept(s), ShellInv(s)', RanInv(s)'
    PROVE  IInv'
<1>1. TypeInv'
  BY DEF IInv, TypeInv, Moved
<1>2. \A u \in Shells : ShellInv(u)' /\ RanInv(u)'
  <2>1. ASSUME NEW u \in Shells, u # s PROVE ShellInv(u)' /\ RanInv(u)'
    <3>1. stack'[u] = stack[u] /\ result'[u] = result[u] /\ ran'[u] = ran[u]
      BY <2>1 DEF Moved
    <3>2. line'[u] = line[u] /\ fails'[u] = fails[u] /\ (u \in shared => u \in shared')
      OBVIOUS
    <3>3. QED
      BY <2>1, <3>1, <3>2, OtherShell
  <2>2. QED
    BY <2>1
<1>3. AloneInv'
  <2>1. ASSUME NEW u \in Shells, stack'[u] # <<>>, u \notin shared'
        PROVE  Busy' = {u}
    <3>1. Busy = {s}
      <4>1. stack[u] # <<>>
        BY <2>1 DEF Moved
      <4>2. Busy = {u}
        BY <2>1, <4>1 DEF IInv, AloneInv
      <4>3. s \in Busy
        BY DEF Busy
      <4>4. QED
        BY <4>2, <4>3
    <3>2. \A w \in Shells : w # s => stack'[w] = <<>>
      BY <3>1 DEF Busy, Moved
    <3>3. u = s
      BY <2>1, <3>2
    <3>4. QED
      BY <2>1, <3>2, <3>3 DEF Busy
  <2>2. QED
    BY <2>1 DEF AloneInv
<1>4. LogInv'
  <2>1. SUFFICES ASSUME log' # Absent, ~left'
                 PROVE  \E u \in Shells : Piping(stack'[u], line'[u])
    BY DEF LogInv
  <2>2. CASE Piping(stack'[s], line[s])
    BY <2>2
  <2>3. CASE ~Piping(stack'[s], line[s])
    <3>1. log # Absent /\ ~left /\ ~Piping(stack[s], line[s])
      BY <2>1, <2>3 DEF LogKept
    <3>2. PICK u \in Shells : Piping(stack[u], line[u])
      BY <3>1 DEF IInv, LogInv
    <3>3. stack'[u] = stack[u]
      BY <3>1, <3>2 DEF Moved
    <3>4. QED
      BY <3>2, <3>3
  <2>4. QED
    BY <2>2, <2>3
<1>5. QED
  BY <1>1, <1>2, <1>3, <1>4 DEF IInv


-----------------------------------------------------------------------------
(* Returns. *)

\* What is known of a shell that is in its calls.
LEMMA AtWork ==
    ASSUME IInv, NEW s \in Shells, stack[s] # <<>>
    PROVE  /\ stack[s] \in Seq(Frames) /\ line[s] \in Seq(Texts) /\ Parsed(line[s])
           /\ Len(line[s]) \in Nat
           /\ ran[s] \in Seq([cmd : Nat, input : Inputs])
           /\ RanInv(s)
           /\ \E c \in 1 .. Len(line[s]), at \in Places : Working(s, c, at)
<1>1. /\ stack[s] \in Seq(Frames) /\ line[s] \in Seq(Texts) /\ Parsed(line[s])
      /\ ran[s] \in Seq([cmd : Nat, input : Inputs])
  BY DEF IInv, TypeInv
<1>2. Len(line[s]) \in Nat
  BY <1>1, LenProperties
<1>3. RanInv(s) /\ ShellInv(s)
  BY DEF IInv
<1>4. ~Resting(s)
  BY DEF Resting
<1>5. QED
  BY <1>1, <1>2, <1>3, <1>4 DEF ShellInv

\* What a return changes, apart from the shell's own place.
Returns(s) ==
    /\ stack' \in [Shells -> Seq(Frames)] /\ result' \in [Shells -> {OK, ERROR}]
    /\ \A u \in Shells \ {s} : stack'[u] = stack[u] /\ result'[u] = result[u]

\* The shell's line is done, or the call for what is behind an operator returns.
LEMMA ReturnedFrom ==
    ASSUME IInv, NEW s \in Shells, NEW c, NEW at, at \notin Inside,
           Calls(stack[s], line[s], c, at), stack[s] # <<>>,
           NEW v \in {OK, ERROR}, Return(s, v), UNCHANGED <<line, fails, shared>>,
           Len(ran'[s]) \in c .. Len(line[s]),
           s \notin shared =>
               /\ \A i \in 1 .. c - 1 : Outer(stack[s], i).first = Own(fails[s], i)
               /\ Goes(line[s], fails[s], c - 1)
               /\ Ended(line[s], fails[s], Len(ran'[s]))
               /\ v = Value(line[s], fails[s], c, Len(ran'[s]))
    PROVE  /\ Returns(s) /\ ShellInv(s)'
           /\ Piping(stack[s], line[s]) => \/ Piping(stack'[s], line[s])
                                           \/ at # "start" /\ IsPipe(line[s][c].op)
<1>1. /\ stack[s] \in Seq(Frames) /\ Parsed(line[s]) /\ Len(line[s]) \in Nat
      /\ stack \in [Shells -> Seq(Frames)] /\ result \in [Shells -> {OK, ERROR}]
  BY AtWork DEF IInv, TypeInv
<1>2. c \in 1 .. Len(line[s]) /\ line[s] # <<>>
  <2>1. c \in 1 .. Len(line[s])
    BY DEF Calls
  <2>2. QED
    BY <1>1, <2>1
<1>3. /\ Tail(stack[s]) \in Seq(Frames) /\ (Tail(stack[s]) = <<>> <=> c = 1)
      /\ c # 1 => /\ Head(Tail(stack[s])) \in Frames
                  /\ Head(Tail(stack[s])) = Outer(stack[s], c - 1)
  BY <1>1, AroundIs
<1>4. Piping(stack[s], line[s]) <=> \/ \E i \in 1 .. c - 1 : IsPipe(line[s][i].op)
                                    \/ at # "start" /\ IsPipe(line[s][c].op)
  BY <1>1, PipingIs
<1>5. CASE c = 1
  <2>1. stack' = [stack EXCEPT ![s] = <<>>] /\ result' = [result EXCEPT ![s] = v]
    BY <1>3, <1>5 DEF Return
  <2>2. stack'[s] = <<>> /\ result'[s] = v
    BY <1>1, <2>1
  <2>3. Returns(s)
    BY <1>1, <2>1 DEF Returns
  <2>4. Resting(s)'
    BY <1>2, <1>5, <2>2 DEF Resting
  <2>5. Piping(stack[s], line[s]) => at # "start" /\ IsPipe(line[s][c].op)
    BY <1>4, <1>5
  <2>6. QED
    BY <2>3, <2>4, <2>5 DEF ShellInv
<1>6. CASE c # 1
  <2>1. PICK g : g = Head(Tail(stack[s]))
    OBVIOUS
  <2>2. g \in Frames /\ g = Outer(stack[s], c - 1) /\ g.at = "second"
        /\ g.stages = Head(Tail(stack[s])).stages
    <3>1. g \in Frames /\ g = Outer(stack[s], c - 1)
      BY <1>3, <1>6, <2>1
    <3>2. c - 1 \in 1 .. c - 1
      BY <1>1, <1>2, <1>6
    <3>3. Outer(stack[s], c - 1).at = "second"
      BY <3>2 DEF Calls
    <3>4. QED
      BY <2>1, <3>1, <3>3
  <2>3. PICK f : f = [g EXCEPT !.at = "finish", !.second = v]
    OBVIOUS
  <2>4. /\ f \in Frames /\ f.at = "finish" /\ f.stages = Head(Tail(stack[s])).stages
        /\ f.first = g.first /\ f.second = v
    BY <2>2, <2>3 DEF Frames
  <2>5. PICK r : r = <<f>> \o Tail(Tail(stack[s]))
    OBVIOUS
  <2>6. stack' = [stack EXCEPT ![s] = r] /\ UNCHANGED result
    BY <1>3, <1>6, <2>1, <2>2, <2>3, <2>5 DEF Return
  <2>7. Replaces(r, Tail(stack[s]), f)
    BY <2>5 DEF Replaces
  <2>8. /\ r \in Seq(Frames) /\ Calls(r, line[s], c - 1, "finish")
        /\ Outer(r, c - 1) = f
        /\ \A i \in 1 .. (c - 1) - 1 : Outer(r, i) = Outer(stack[s], i)
    <3>1. /\ r \in Seq(Frames) /\ Calls(r, line[s], c - 1, "finish")
          /\ AgreesTo(r, stack[s], c - 1, f)
      BY <1>1, <1>6, <2>4, <2>7, ToFinish
    <3>2. QED
      BY <3>1 DEF AgreesTo
  <2>9. stack'[s] = r
    BY <1>1, <2>6
  <2>10. Returns(s)
    BY <1>1, <2>6, <2>8 DEF Returns
  <2>11. ShellInv(s)'
    <3>1. HasRun(line[s], Len(ran'[s]), c - 1, "finish")
      BY <1>1, <1>2 DEF HasRun
    <3>2. ASSUME s \notin shared
          PROVE  Told(r, line[s], fails[s], Len(ran'[s]), c - 1, "finish")
      <4>1. \A i \in 1 .. c - 1 : Outer(r, i).first = Own(fails[s], i)
        <5>1. \A i \in 1 .. (c - 1) - 1 : Outer(r, i).first = Own(fails[s], i)
          BY <1>1, <1>2, <2>8, <3>2
        <5>2. c - 1 \in 1 .. c - 1
          BY <1>1, <1>2, <1>6
        <5>3. Outer(r, c - 1).first = Own(fails[s], c - 1)
          BY <2>2, <2>4, <2>8, <3>2, <5>2
        <5>4. \A i \in 1 .. c - 1 : i \in 1 .. (c - 1) - 1 \/ i = c - 1
          BY <1>1, <1>2
        <5>5. QED
          BY <5>1, <5>3, <5>4
      <4>2. Goes(line[s], fails[s], (c - 1) - 1)
        <5>1. \A i \in 1 .. (c - 1) - 1 : i \in 1 .. c - 1
          BY <1>1, <1>2
        <5>2. QED
          BY <3>2, <5>1 DEF Goes
      <4>3. (c - 1) + 1 = c
        BY <1>1, <1>2
      <4>4. Outer(r, c - 1).second = Value(line[s], fails[s], (c - 1) + 1, Len(ran'[s]))
        BY <2>4, <2>8, <3>2, <4>3
      <4>5. QED
        BY <3>2, <4>1, <4>2, <4>4 DEF Told
    <3>3. InLog(line[s], log', c - 1, "finish")
      BY DEF InLog
    <3>4. Working(s, c - 1, "finish")'
      BY <2>8, <2>9, <3>1, <3>2, <3>3 DEF Working
    <3>5. c - 1 \in 1 .. Len(line'[s]) /\ "finish" \in Places
      BY <1>1, <1>2, <1>6 DEF Places
    <3>6. QED
      BY <3>4, <3>5 DEF ShellInv
  <2>12. (\E i \in 1 .. c - 1 : IsPipe(line[s][i].op)) => Piping(stack'[s], line[s])
    <3>1. Piping(r, line[s]) <=> \/ \E i \in 1 .. (c - 1) - 1 : IsPipe(line[s][i].op)
                                 \/ "finish" # "start" /\ IsPipe(line[s][c - 1].op)
      BY <1>1, <2>8, PipingIs
    <3>2. \A i \in 1 .. c - 1 : i \in 1 .. (c - 1) - 1 \/ i = c - 1
      BY <1>1, <1>2
    <3>3. QED
      BY <2>9, <3>1, <3>2
  <2>13. QED
    BY <1>4, <2>10, <2>11, <2>12
<1>7. QED
  BY <1>5, <1>6


\* The call for the part before an operator returns.
LEMMA ReturnedBefore ==
    ASSUME IInv, NEW s \in Shells, NEW c, NEW at \in Inside,
           Calls(stack[s], line[s], c, at), stack[s] # <<>>,
           NEW v \in {OK, ERROR}, Return(s, v)
    PROVE  /\ Returns(s) /\ Calls(stack'[s], line[s], c, "decide")
           /\ Outer(stack'[s], c).first = v
           /\ SameFirsts(stack'[s], stack[s], c - 1)
<1>1. /\ stack[s] \in Seq(Frames) /\ Parsed(line[s])
      /\ stack \in [Shells -> Seq(Frames)] /\ result \in [Shells -> {OK, ERROR}]
  BY AtWork DEF IInv, TypeInv
<1>2. /\ Tail(stack[s]) # <<>> /\ Head(Tail(stack[s])) \in Frames
      /\ Head(Tail(stack[s])) = Outer(stack[s], c)
  BY <1>1, AroundIs
<1>3. PICK g : g = Head(Tail(stack[s]))
  OBVIOUS
<1>4. /\ g \in Frames /\ g = Outer(stack[s], c) /\ g.at = "first"
      /\ g.stages = Head(Tail(stack[s])).stages
  BY <1>2, <1>3 DEF Calls
<1>5. PICK f : f = [g EXCEPT !.at = "decide", !.first = v]
  OBVIOUS
<1>6. f \in Frames /\ f.at = "decide" /\ f.stages = Head(Tail(stack[s])).stages /\ f.first = v
  BY <1>4, <1>5 DEF Frames
<1>7. PICK r : r = <<f>> \o Tail(Tail(stack[s]))
  OBVIOUS
<1>8. stack' = [stack EXCEPT ![s] = r] /\ UNCHANGED result
  BY <1>2, <1>3, <1>4, <1>5, <1>7 DEF Return
<1>9. Replaces(r, Tail(stack[s]), f)
  BY <1>7 DEF Replaces
<1>10. /\ r \in Seq(Frames) /\ Calls(r, line[s], c, "decide")
       /\ AgreesTo(r, stack[s], c, f)
  BY <1>1, <1>6, <1>9, ToDecide
<1>11. stack'[s] = r
  BY <1>1, <1>8
<1>12. Returns(s)
  BY <1>1, <1>8, <1>10 DEF Returns
<1>13. QED
  BY <1>6, <1>10, <1>11, <1>12 DEF AgreesTo, SameFirsts

-----------------------------------------------------------------------------
(* The steps of a shell. *)

\* The place of a shell, by what its innermost call is at.
LEMMA PlaceIs ==
    ASSUME NEW s \in Shells, NEW c, NEW at, Parsed(line[s]), stack[s] \in Seq(Frames),
           Calls(stack[s], line[s], c, at)
    PROVE  /\ Top(s).at = "start" <=> at \in {"start", "part"}
           /\ Top(s).at = "run" <=> at = "run"
           /\ Top(s).at = "decide" <=> at = "decide"
           /\ Top(s).at = "finish" <=> at = "finish"
           /\ First(s).cmd = c /\ First(s).reads = PipeBefore(line[s], c)
           /\ Op(s) = "end" <=> at \in Inside \/ c = Len(line[s])
           /\ at \notin Inside => Op(s) = line[s][c].op
           /\ First(s).writes <=> at \in Inside /\ IsPipe(line[s][c].op)
<1>1. at \in Places /\ c \in 1 .. Len(line[s])
  BY DEF Calls
<1>2. Top(s).at = IF at \in Inside THEN (IF at = "part" THEN "start" ELSE "run") ELSE at
  BY TopIs DEF Top
<1>3. /\ Top(s).at = "start" <=> at \in {"start", "part"}
      /\ Top(s).at = "run" <=> at = "run"
      /\ Top(s).at = "decide" <=> at = "decide"
      /\ Top(s).at = "finish" <=> at = "finish"
  BY <1>1, <1>2 DEF Places, Inside
<1>4. /\ First(s).cmd = c /\ First(s).reads = PipeBefore(line[s], c)
      /\ at \in Inside => Op(s) = "end" /\ First(s).writes = IsPipe(line[s][c].op)
      /\ at \notin Inside => Op(s) = line[s][c].op /\ First(s).writes = FALSE
  <2>1. IsHead(First(s), line[s], c, at)
    BY HeadIs DEF Top, First
  <2>2. Op(s) = First(s).op
    BY DEF Op, First
  <2>3. QED
    BY <2>1, <2>2 DEF IsHead
<1>5. line[s][c].op = "end" <=> c = Len(line[s])
  BY <1>1, CommandIs
<1>6. CASE at \in Inside
  BY <1>3, <1>4, <1>6
<1>7. CASE at \notin Inside
  BY <1>3, <1>4, <1>5, <1>7
<1>8. QED
  BY <1>6, <1>7


\* Nothing but the place of the shell, and the file, has changed.
LEMMA PlaceStep ==
    ASSUME IInv, NEW s \in Shells, NEW r \in Seq(Frames), stack' = [stack EXCEPT ![s] = r],
           log' \in Inputs, UNCHANGED <<line, fails, result, ran, shared>>, LogKept(s),
           stack[s] # <<>>, NEW c \in 1 .. Len(line[s]), NEW at \in Places,
           Calls(r, line[s], c, at), HasRun(line[s], Len(ran[s]), c, at),
           s \notin shared => /\ Told(r, line[s], fails[s], Len(ran[s]), c, at)
                              /\ InLog(line[s], log', c, at)
    PROVE  IInv'
<1>1. /\ stack \in [Shells -> Seq(Frames)] /\ result \in [Shells -> {OK, ERROR}]
      /\ ran \in [Shells -> Seq([cmd : Nat, input : Inputs])] /\ RanInv(s)
  BY DEF IInv, TypeInv
<1>2. stack'[s] = r
  BY <1>1
<1>3. Moved(s)
  BY <1>1 DEF Moved
<1>4. ShellInv(s)'
  <2>1. Working(s, c, at)'
    BY <1>2 DEF Working
  <2>2. QED
    BY <2>1 DEF ShellInv
<1>5. RanInv(s)'
  BY <1>1 DEF RanInv
<1>6. QED
  BY <1>3, <1>4, <1>5, ExecStep

\* The call for the text before the operator.
LEMMA SplitStep ==
    ASSUME IInv, NEW s \in Shells, Split(s)
    PROVE  IInv'
<1>1. /\ stack[s] # <<>> /\ Top(s).at = "start" /\ Op(s) # "end"
      /\ UNCHANGED <<log, line, fails, result, ran, shared, left>>
      /\ Recurse(s, [Top(s) EXCEPT !.at = "first"], Before(Top(s).stages))
  BY DEF Split
<1>2. /\ stack[s] \in Seq(Frames) /\ Parsed(line[s]) /\ Len(line[s]) \in Nat
      /\ log \in Inputs
      /\ \E c \in 1 .. Len(line[s]), at \in Places : Working(s, c, at)
  BY <1>1, AtWork DEF IInv, TypeInv
<1>3. PICK c \in 1 .. Len(line[s]), at \in Places : Working(s, c, at)
  BY <1>2
<1>4. Calls(stack[s], line[s], c, at) /\ HasRun(line[s], Len(ran[s]), c, at)
  BY <1>3 DEF Working
<1>5. at = "start" /\ c < Len(line[s])
  <2>1. at \in {"start", "part"} /\ at \notin Inside /\ c # Len(line[s])
    BY <1>1, <1>2, <1>4, PlaceIs
  <2>2. QED
    BY <1>2, <2>1 DEF Inside
<1>6. Calls(stack[s], line[s], c, "start")
  BY <1>4, <1>5
<1>7. /\ Top(s) \in Frames /\ Top(s).stages = TextFrom(line[s], c)
      /\ Before(Top(s).stages) = TextOf(line[s], c) /\ TextOf(line[s], c) \in Seq(Texts)
  <2>1. Top(s) \in Frames /\ Top(s).stages = TextFrom(line[s], c)
    BY <1>2, <1>6, TopIs DEF Top, Inside
  <2>2. QED
    BY <1>2, <2>1, SplitText
<1>8. PICK t : t = Top(s)
  OBVIOUS
<1>9. PICK f : f = [t EXCEPT !.at = "first"]
  OBVIOUS
<1>10. t \in Frames /\ f \in Frames /\ f.at = "first" /\ f.stages = t.stages
  BY <1>7, <1>8, <1>9 DEF Frames
<1>11. PICK g : g = Call(Before(t.stages))
  OBVIOUS
<1>12. g \in Frames /\ g.at = "start" /\ g.stages = Before(t.stages)
  BY <1>7, <1>8, <1>11, NewCall
<1>13. PICK r : Pushes(r, stack[s], g, f)
  BY DEF Pushes
<1>14. stack' = [stack EXCEPT ![s] = r]
  BY <1>1, <1>8, <1>9, <1>11, <1>13 DEF Recurse, Pushes
<1>15. r \in Seq(Frames) /\ Calls(r, line[s], c, "part") /\ SameFirsts(r, stack[s], c - 1)
  <2>1. f.stages = Head(stack[s]).stages /\ g.stages = Before(Head(stack[s]).stages)
    BY <1>8, <1>10, <1>12 DEF Top
  <2>2. QED
    BY <1>2, <1>5, <1>6, <1>10, <1>12, <1>13, <2>1, ToPart
<1>16. LogKept(s)
  <2>1. /\ Piping(stack[s], line[s]) => \E i \in 1 .. c - 1 : IsPipe(line[s][i].op)
        /\ (\E i \in 1 .. c - 1 : IsPipe(line[s][i].op)) => Piping(r, line[s])
    BY <1>2, <1>6, <1>15, PipingIs
  <2>2. stack'[s] = r
    BY <1>14 DEF IInv, TypeInv
  <2>3. QED
    BY <1>1, <2>1, <2>2 DEF LogKept
<1>17. HasRun(line[s], Len(ran[s]), c, "part")
  BY <1>4, <1>5 DEF HasRun
<1>18. ASSUME s \notin shared
       PROVE  /\ Told(r, line[s], fails[s], Len(ran[s]), c, "part")
              /\ InLog(line[s], log', c, "part")
  <2>1. /\ Told(stack[s], line[s], fails[s], Len(ran[s]), c, "start")
        /\ InLog(line[s], log, c, "start")
    BY <1>3, <1>5, <1>18 DEF Working
  <2>2. InLog(line[s], log', c, "part")
    BY <1>1, <2>1 DEF InLog
  <2>3. \A i \in 1 .. c - 1 : Outer(r, i).first = Own(fails[s], i)
    BY <1>2, <1>15, <2>1 DEF Told, SameFirsts
  <2>4. QED
    BY <1>2, <2>1, <2>2, <2>3 DEF Told
<1>19. QED
  BY <1>1, <1>2, <1>14, <1>15, <1>16, <1>17, <1>18, PlaceStep DEF Places


\* The file is opened and emptied.
LEMMA RedirStep ==
    ASSUME IInv, NEW s \in Shells, Redir(s)
    PROVE  IInv'
<1>1. /\ stack[s] # <<>> /\ Top(s).at = "start" /\ Op(s) = "end" /\ First(s).writes
      /\ log' = Nothing /\ UNCHANGED <<line, fails, result, ran, shared>>
      /\ Goto(s, [Top(s) EXCEPT !.at = "run"])
  BY DEF Redir
<1>2. /\ stack[s] \in Seq(Frames) /\ Parsed(line[s]) /\ Len(line[s]) \in Nat
      /\ \E c \in 1 .. Len(line[s]), at \in Places : Working(s, c, at)
  BY <1>1, AtWork
<1>3. PICK c \in 1 .. Len(line[s]), at \in Places : Working(s, c, at)
  BY <1>2
<1>4. Calls(stack[s], line[s], c, at) /\ HasRun(line[s], Len(ran[s]), c, at)
  BY <1>3 DEF Working
<1>5. at = "part" /\ IsPipe(line[s][c].op)
  <2>1. at \in {"start", "part"} /\ at \in Inside /\ IsPipe(line[s][c].op)
    BY <1>1, <1>2, <1>4, PlaceIs
  <2>2. QED
    BY <2>1 DEF Inside
<1>6. Calls(stack[s], line[s], c, "part")
  BY <1>4, <1>5
<1>7. Top(s) \in Frames
  BY <1>2, <1>6, TopIs DEF Top
<1>8. PICK t : t = Top(s)
  OBVIOUS
<1>9. PICK f : f = [t EXCEPT !.at = "run"]
  OBVIOUS
<1>10. f \in Frames /\ f.at = "run" /\ f.stages = t.stages
  BY <1>7, <1>8, <1>9 DEF Frames
<1>11. PICK r : Replaces(r, stack[s], f)
  BY DEF Replaces
<1>12. stack' = [stack EXCEPT ![s] = r]
  BY <1>1, <1>8, <1>9, <1>11 DEF Goto, Replaces
<1>13. r \in Seq(Frames) /\ Calls(r, line[s], c, "run") /\ SameFirsts(r, stack[s], c)
  <2>1. f.stages = Head(stack[s]).stages
    BY <1>8, <1>10 DEF Top
  <2>2. QED
    BY <1>2, <1>5, <1>6, <1>10, <1>11, <2>1, ToRun
<1>14. LogKept(s)
  <2>1. Piping(r, line[s])
    BY <1>2, <1>5, <1>13, PipingIs
  <2>2. stack'[s] = r
    BY <1>12 DEF IInv, TypeInv
  <2>3. QED
    BY <2>1, <2>2 DEF LogKept
<1>15. HasRun(line[s], Len(ran[s]), c, "run")
  BY <1>4, <1>5 DEF HasRun
<1>16. ASSUME s \notin shared
       PROVE  /\ Told(r, line[s], fails[s], Len(ran[s]), c, "run")
              /\ InLog(line[s], log', c, "run")
  <2>1. Told(stack[s], line[s], fails[s], Len(ran[s]), c, "part")
    BY <1>3, <1>5, <1>16 DEF Working
  <2>2. InLog(line[s], log', c, "run")
    BY <1>1 DEF InLog
  <2>3. \A i \in 1 .. c - 1 : Outer(r, i).first = Own(fails[s], i)
    BY <1>2, <1>13, <2>1 DEF Told, SameFirsts
  <2>4. QED
    BY <1>2, <2>1, <2>2, <2>3 DEF Told
<1>17. log' \in Inputs
  BY <1>1 DEF Nothing, Inputs
<1>18. QED
  BY <1>1, <1>2, <1>12, <1>13, <1>14, <1>15, <1>16, <1>17, PlaceStep DEF Places

\* The part behind the operator is called.
LEMMA GoOnStep ==
    ASSUME IInv, NEW s \in Shells, stack[s] # <<>>, Top(s).at = "decide",
           GoesOn(Op(s), Top(s).first), UNCHANGED <<log, line, fails, result, ran, shared, left>>,
           Recurse(s, [Top(s) EXCEPT !.at = "second"], Behind(Top(s).stages))
    PROVE  IInv'
<1>2. /\ stack[s] \in Seq(Frames) /\ Parsed(line[s]) /\ Len(line[s]) \in Nat
      /\ log \in Inputs
      /\ \E c \in 1 .. Len(line[s]), at \in Places : Working(s, c, at)
  BY AtWork DEF IInv, TypeInv
<1>3. PICK c \in 1 .. Len(line[s]), at \in Places : Working(s, c, at)
  BY <1>2
<1>4. Calls(stack[s], line[s], c, at) /\ HasRun(line[s], Len(ran[s]), c, at)
  BY <1>3 DEF Working
<1>5. at = "decide" /\ Op(s) = line[s][c].op
  <2>1. at = "decide" /\ (at \notin Inside => Op(s) = line[s][c].op)
    BY <1>2, <1>4, PlaceIs
  <2>2. QED
    BY <2>1 DEF Inside
<1>6. Calls(stack[s], line[s], c, "decide") /\ c < Len(line[s]) /\ Len(ran[s]) = c
  BY <1>4, <1>5 DEF Calls, HasRun
<1>7. /\ Top(s) \in Frames /\ Top(s).stages = TextFrom(line[s], c)
      /\ Top(s) = Outer(stack[s], c)
      /\ Behind(Top(s).stages) = TextFrom(line[s], c + 1)
      /\ TextFrom(line[s], c + 1) \in Seq(Texts)
  <2>1. /\ Top(s) \in Frames /\ Top(s).stages = TextFrom(line[s], c)
        /\ Top(s) = Outer(stack[s], c)
    BY <1>2, <1>6, TopIs DEF Top, Inside
  <2>2. Behind(Top(s).stages) = TextFrom(line[s], c + 1)
    BY <1>2, <1>6, <2>1, SplitText
  <2>3. IsTextFrom(TextFrom(line[s], c + 1), line[s], c + 1)
    <3>1. c + 1 \in 1 .. Len(line[s])
      BY <1>2, <1>6
    <3>2. QED
      BY <1>2, <3>1, TextFacts
  <2>4. QED
    BY <2>1, <2>2, <2>3 DEF IsTextFrom
<1>8. PICK t : t = Top(s)
  OBVIOUS
<1>9. PICK f : f = [t EXCEPT !.at = "second"]
  OBVIOUS
<1>10. /\ t \in Frames /\ f \in Frames /\ f.at = "second" /\ f.stages = t.stages
       /\ f.first = t.first
  BY <1>7, <1>8, <1>9 DEF Frames
<1>11. PICK g : g = Call(Behind(t.stages))
  OBVIOUS
<1>12. g \in Frames /\ g.at = "start" /\ g.stages = Behind(t.stages)
  BY <1>7, <1>8, <1>11, NewCall
<1>13. PICK r : Pushes(r, stack[s], g, f)
  BY DEF Pushes
<1>14. stack' = [stack EXCEPT ![s] = r]
  BY <1>8, <1>9, <1>11, <1>13 DEF Recurse, Pushes
<1>15. r \in Seq(Frames) /\ Calls(r, line[s], c + 1, "start") /\ AgreesTo(r, stack[s], c, f)
  <2>1. f.stages = Head(stack[s]).stages /\ g.stages = Behind(Head(stack[s]).stages)
    BY <1>8, <1>10, <1>12 DEF Top
  <2>2. QED
    BY <1>2, <1>6, <1>10, <1>12, <1>13, <2>1, ToNext
<1>16. LogKept(s)
  <2>1. /\ Piping(stack[s], line[s]) =>
              (\E i \in 1 .. c - 1 : IsPipe(line[s][i].op)) \/ IsPipe(line[s][c].op)
        /\ (\E i \in 1 .. (c + 1) - 1 : IsPipe(line[s][i].op)) => Piping(r, line[s])
    BY <1>2, <1>6, <1>15, PipingIs
  <2>2. stack'[s] = r
    BY <1>14 DEF IInv, TypeInv
  <2>3. c \in 1 .. (c + 1) - 1 /\ \A i \in 1 .. c - 1 : i \in 1 .. (c + 1) - 1
    BY <1>2
  <2>4. QED
    BY <2>1, <2>2, <2>3 DEF LogKept
<1>17. HasRun(line[s], Len(ran[s]), c + 1, "start")
  BY <1>2, <1>6 DEF HasRun
<1>18. ASSUME s \notin shared
       PROVE  /\ Told(r, line[s], fails[s], Len(ran[s]), c + 1, "start")
              /\ InLog(line[s], log', c + 1, "start")
  <2>1. /\ Told(stack[s], line[s], fails[s], Len(ran[s]), c, "decide")
        /\ InLog(line[s], log, c, "decide")
    BY <1>3, <1>5, <1>18 DEF Working
  <2>2. /\ \A i \in 1 .. c : Outer(stack[s], i).first = Own(fails[s], i)
        /\ Goes(line[s], fails[s], c - 1)
    BY <2>1 DEF Told
  <2>3. InLog(line[s], log', c + 1, "start")
    <3>1. IsPipe(line[s][c].op) => log' = <<c>>
      BY <2>1 DEF InLog
    <3>2. (c + 1) - 1 = c
      BY <1>2
    <3>3. QED
      BY <3>1, <3>2 DEF InLog, PipeBefore
  <2>4. f.first = Own(fails[s], c)
    BY <1>2, <1>7, <1>8, <1>10, <2>2
  <2>5. Goes(line[s], fails[s], c)
    <3>1. ~Ends(line[s], fails[s], c)
      <4>1. GoesOn(line[s][c].op, Own(fails[s], c))
        BY <1>5, <1>8, <1>10, <2>4
      <4>2. QED
        BY <1>2, <1>6, <4>1, GoesOnIs
    <3>2. QED
      BY <1>2, <2>2, <3>1, GoesFurther
  <2>6. \A i \in 1 .. c : Outer(r, i).first = Own(fails[s], i)
    <3>1. Outer(r, c) = f /\ \A i \in 1 .. c - 1 : Outer(r, i) = Outer(stack[s], i)
      BY <1>15 DEF AgreesTo
    <3>2. \A i \in 1 .. c : i \in 1 .. c - 1 \/ i = c
      BY <1>2
    <3>3. QED
      BY <2>2, <2>4, <3>1, <3>2
  <2>7. \A i \in 1 .. c + 1 : i < c + 1 => i \in 1 .. c
    BY <1>2
  <2>8. Goes(line[s], fails[s], (c + 1) - 1)
    BY <1>2, <2>5
  <2>9. QED
    BY <2>3, <2>6, <2>7, <2>8 DEF Told
<1>19. c + 1 \in 1 .. Len(line[s]) /\ log' \in Inputs
  BY <1>2, <1>6
<1>20. QED
  BY <1>2, <1>14, <1>15, <1>16, <1>17, <1>18, <1>19, PlaceStep DEF Places


\* A call whose operator's commands have run returns, and removes the file.
LEMMA OutStep ==
    ASSUME IInv, NEW s \in Shells, stack[s] # <<>>, NEW c, NEW at \in {"decide", "finish"},
           Working(s, c, at), NEW v \in {OK, ERROR}, Return(s, v),
           RemoveLog(Op(s)),
           UNCHANGED <<line, fails, ran, shared>>,
           s \notin shared => /\ Ended(line[s], fails[s], Len(ran[s]))
                              /\ v = Value(line[s], fails[s], c, Len(ran[s]))
    PROVE  IInv'
<1>1. /\ stack[s] \in Seq(Frames) /\ Parsed(line[s]) /\ Len(line[s]) \in Nat
      /\ log \in Inputs /\ ran \in [Shells -> Seq([cmd : Nat, input : Inputs])] /\ RanInv(s)
  BY AtWork DEF IInv, TypeInv
<1>2. Calls(stack[s], line[s], c, at) /\ HasRun(line[s], Len(ran[s]), c, at)
  BY DEF Working
<1>3. at \notin Inside /\ at # "start"
  BY DEF Inside
<1>4. c \in 1 .. Len(line[s]) /\ c < Len(line[s]) /\ Len(ran[s]) \in c .. Len(line[s])
  <2>1. c \in 1 .. Len(line[s]) /\ c < Len(line[s])
    BY <1>2, <1>3 DEF Calls
  <2>2. Len(ran[s]) = c \/ Len(ran[s]) \in c + 1 .. Len(line[s])
    BY <1>2 DEF HasRun
  <2>3. QED
    BY <1>1, <2>1, <2>2
<1>5. Op(s) = line[s][c].op
  BY <1>1, <1>2, <1>3, PlaceIs
<1>6. ASSUME s \notin shared
      PROVE  /\ \A i \in 1 .. c - 1 : Outer(stack[s], i).first = Own(fails[s], i)
             /\ Goes(line[s], fails[s], c - 1)
  <2>1. Told(stack[s], line[s], fails[s], Len(ran[s]), c, at)
    BY <1>6 DEF Working
  <2>2. \A i \in 1 .. c - 1 : i \in 1 .. c
    BY <1>1, <1>4
  <2>3. QED
    BY <2>1, <2>2 DEF Told
<1>7. ran'[s] = ran[s] /\ Len(ran'[s]) \in c .. Len(line[s])
  BY <1>4
<1>8. /\ Returns(s) /\ ShellInv(s)'
      /\ Piping(stack[s], line[s]) => \/ Piping(stack'[s], line[s])
                                      \/ at # "start" /\ IsPipe(line[s][c].op)
  BY <1>2, <1>3, <1>6, <1>7, ReturnedFrom
<1>9. CASE IsPipe(Op(s))
  <2>1. log' = Absent
    BY <1>9 DEF RemoveLog
  <2>2. LogKept(s)
    BY <2>1 DEF LogKept
  <2>3. Moved(s)
    BY <1>1, <1>8, <2>1 DEF Moved, Returns, Inputs
  <2>4. RanInv(s)'
    BY <1>1 DEF RanInv
  <2>5. QED
    BY <1>8, <2>2, <2>3, <2>4, ExecStep
<1>10. CASE ~IsPipe(Op(s))
  <2>1. log' = log /\ (left => left')
    BY <1>10 DEF RemoveLog
  <2>2. LogKept(s)
    BY <1>5, <1>8, <1>10, <2>1 DEF LogKept
  <2>3. Moved(s)
    BY <1>1, <1>8, <2>1 DEF Moved, Returns
  <2>4. RanInv(s)'
    BY <1>1 DEF RanInv
  <2>5. QED
    BY <1>8, <2>2, <2>3, <2>4, ExecStep
<1>11. QED
  BY <1>9, <1>10

\* The rest is called or skipped.
LEMMA DecideStep ==
    ASSUME IInv, NEW s \in Shells, Decide(s)
    PROVE  IInv'
<1>1. stack[s] # <<>> /\ Top(s).at = "decide" /\ UNCHANGED <<line, fails, ran, shared>>
  BY DEF Decide
<1>2. CASE /\ GoesOn(Op(s), Top(s).first)
           /\ Recurse(s, [Top(s) EXCEPT !.at = "second"], Behind(Top(s).stages))
           /\ UNCHANGED <<log, result, left>>
  BY <1>1, <1>2, GoOnStep
<1>3. CASE /\ ~GoesOn(Op(s), Top(s).first)
           /\ RemoveLog(Op(s))
           /\ Return(s, Top(s).first)
  <2>1. /\ stack[s] \in Seq(Frames) /\ Parsed(line[s]) /\ Len(line[s]) \in Nat
        /\ \E c \in 1 .. Len(line[s]), at \in Places : Working(s, c, at)
    BY <1>1, AtWork
  <2>2. PICK c \in 1 .. Len(line[s]), at \in Places : Working(s, c, at)
    BY <2>1
  <2>3. Calls(stack[s], line[s], c, at) /\ HasRun(line[s], Len(ran[s]), c, at)
    BY <2>2 DEF Working
  <2>4. at = "decide"
    BY <1>1, <2>1, <2>3, PlaceIs
  <2>5. /\ Op(s) = line[s][c].op /\ c < Len(line[s]) /\ Len(ran[s]) = c
        /\ Top(s) \in Frames /\ Top(s) = Outer(stack[s], c)
    <3>1. at \notin Inside
      BY <2>4 DEF Inside
    <3>2. Op(s) = line[s][c].op
      BY <2>1, <2>3, <3>1, PlaceIs
    <3>3. Top(s) \in Frames /\ Top(s) = Outer(stack[s], c)
      BY <2>1, <2>3, <3>1, TopIs DEF Top
    <3>4. QED
      BY <2>3, <2>4, <3>2, <3>3 DEF Calls, HasRun
  <2>6. PICK v : v = Top(s).first
    OBVIOUS
  <2>7. v \in {OK, ERROR} /\ Return(s, v)
    BY <1>3, <2>5, <2>6 DEF Frames
  <2>8. ASSUME s \notin shared
        PROVE  /\ Ended(line[s], fails[s], Len(ran[s]))
               /\ v = Value(line[s], fails[s], c, Len(ran[s]))
    <3>1. Told(stack[s], line[s], fails[s], Len(ran[s]), c, "decide")
      BY <2>2, <2>4, <2>8 DEF Working
    <3>2. v = Own(fails[s], c) /\ Goes(line[s], fails[s], c - 1)
      BY <2>1, <2>5, <2>6, <3>1 DEF Told
    <3>3. Ends(line[s], fails[s], c)
      <4>1. ~GoesOn(line[s][c].op, Own(fails[s], c))
        BY <1>3, <2>5, <2>6, <3>2
      <4>2. QED
        BY <2>1, <2>5, <4>1, GoesOnIs
    <3>4. Value(line[s], fails[s], c, c) = Own(fails[s], c)
      BY <2>1, ValueIs
    <3>5. QED
      BY <2>5, <3>2, <3>3, <3>4 DEF Ended
  <2>9. QED
    BY <1>1, <1>3, <2>2, <2>4, <2>7, <2>8, OutStep
<1>4. QED
  BY <1>2, <1>3 DEF Decide

\* Both calls have returned.
LEMMA FinishStep ==
    ASSUME IInv, NEW s \in Shells, Finish(s)
    PROVE  IInv'
<1>1. /\ stack[s] # <<>> /\ Top(s).at = "finish" /\ UNCHANGED <<line, fails, ran, shared>>
      /\ RemoveLog(Op(s))
      /\ Return(s, IF Op(s) = ";" /\ Top(s).first < Top(s).second
                   THEN Top(s).first ELSE Top(s).second)
  BY DEF Finish
<1>2. /\ stack[s] \in Seq(Frames) /\ Parsed(line[s]) /\ Len(line[s]) \in Nat
      /\ \E c \in 1 .. Len(line[s]), at \in Places : Working(s, c, at)
  BY <1>1, AtWork
<1>3. PICK c \in 1 .. Len(line[s]), at \in Places : Working(s, c, at)
  BY <1>2
<1>4. Calls(stack[s], line[s], c, at) /\ HasRun(line[s], Len(ran[s]), c, at)
  BY <1>3 DEF Working
<1>5. at = "finish"
  BY <1>1, <1>2, <1>4, PlaceIs
<1>6. /\ Op(s) = line[s][c].op /\ Len(ran[s]) \in c + 1 .. Len(line[s])
      /\ Top(s) \in Frames /\ Top(s) = Outer(stack[s], c)
  <2>1. at \notin Inside
    BY <1>5 DEF Inside
  <2>2. Op(s) = line[s][c].op
    BY <1>2, <1>4, <2>1, PlaceIs
  <2>3. Top(s) \in Frames /\ Top(s) = Outer(stack[s], c)
    BY <1>2, <1>4, <2>1, TopIs DEF Top
  <2>4. QED
    BY <1>4, <1>5, <2>2, <2>3 DEF HasRun
<1>7. PICK first : first = Top(s).first
  OBVIOUS
<1>8. PICK second : second = Top(s).second
  OBVIOUS
<1>9. first \in {OK, ERROR} /\ second \in {OK, ERROR}
  BY <1>6, <1>7, <1>8 DEF Frames
<1>10. PICK v : v = IF Op(s) = ";" /\ first < second THEN first ELSE second
  OBVIOUS
<1>11. v \in {OK, ERROR} /\ Return(s, v)
  BY <1>1, <1>7, <1>8, <1>9, <1>10
<1>12. ASSUME s \notin shared
       PROVE  /\ Ended(line[s], fails[s], Len(ran[s]))
              /\ v = Value(line[s], fails[s], c, Len(ran[s]))
  <2>1. Told(stack[s], line[s], fails[s], Len(ran[s]), c, "finish")
    BY <1>3, <1>5, <1>12 DEF Working
  <2>2. /\ first = Own(fails[s], c) /\ Ended(line[s], fails[s], Len(ran[s]))
        /\ second = Value(line[s], fails[s], c + 1, Len(ran[s]))
    BY <1>2, <1>6, <1>7, <1>8, <2>1 DEF Told
  <2>3. Len(ran[s]) \in Nat /\ Len(ran[s]) > c /\ c \in Nat \ {0}
    BY <1>2, <1>6
  <2>4. Worse(line[s][c].op, first, second) = Value(line[s], fails[s], c, Len(ran[s]))
    BY <2>2, <2>3, Combined
  <2>5. QED
    BY <1>6, <1>10, <2>2, <2>4 DEF Worse
<1>13. QED
  BY <1>1, <1>3, <1>5, <1>11, <1>12, OutStep


\* Where a command runs, what it reads, and what it leaves in the file.
RunsAs(s, c, at, input, v) ==
    /\ Working(s, c, at) /\ at \in {"start", "part", "run"}
    /\ at = "start" => c = Len(line[s])
    /\ at # "start" => (at = "run" <=> IsPipe(line[s][c].op))
    /\ input = IF PipeBefore(line[s], c) THEN log ELSE Nothing
    /\ v = IF c \notin fails[s] /\ input # Absent THEN OK ELSE ERROR
    /\ ran' = [ran EXCEPT ![s] = Append(@, [cmd |-> c, input |-> input])]
    /\ log' = IF at = "run" /\ log # Absent THEN Append(input, c) ELSE log

\* Where the command that runs stands, what it reads and what it returns.
LEMMA RunIs ==
    ASSUME IInv, NEW s \in Shells, Run(s)
    PROVE  \E c \in 1 .. Len(line[s]), at \in Places :
               \E input, v : RunsAs(s, c, at, input, v) /\ Return(s, v)
<1> DEFINE inp == IF First(s).reads THEN log ELSE Nothing
           val == IF First(s).cmd \notin fails[s] /\ inp # Absent THEN OK ELSE ERROR
<1>1. /\ stack[s] # <<>> /\ Op(s) = "end"
      /\ Top(s).at = (IF First(s).writes THEN "run" ELSE "start")
      /\ ran' = [ran EXCEPT ![s] = Append(@, [cmd |-> First(s).cmd, input |-> inp])]
      /\ log' = (IF First(s).writes /\ log # Absent THEN Append(inp, First(s).cmd) ELSE log)
      /\ Return(s, val)
  BY DEF Run
<1>2. /\ stack[s] \in Seq(Frames) /\ Parsed(line[s]) /\ Len(line[s]) \in Nat
      /\ \E c \in 1 .. Len(line[s]), at \in Places : Working(s, c, at)
  BY <1>1, AtWork
<1>3. PICK c \in 1 .. Len(line[s]), at \in Places : Working(s, c, at)
  BY <1>2
<1>4. Calls(stack[s], line[s], c, at)
  BY <1>3 DEF Working
<1>5. /\ Top(s).at = "start" <=> at \in {"start", "part"}
      /\ Top(s).at = "run" <=> at = "run"
      /\ First(s).cmd = c /\ First(s).reads = PipeBefore(line[s], c)
      /\ Op(s) = "end" <=> at \in Inside \/ c = Len(line[s])
      /\ First(s).writes <=> at \in Inside /\ IsPipe(line[s][c].op)
  BY <1>2, <1>4, PlaceIs
<1>6. at \in {"start", "part", "run"} /\ (First(s).writes <=> at = "run")
  BY <1>1, <1>5 DEF Inside
<1>7. /\ at = "start" => c = Len(line[s])
      /\ at # "start" => (at = "run" <=> IsPipe(line[s][c].op))
  BY <1>1, <1>5, <1>6 DEF Inside
<1> HIDE DEF val
<1>8. inp = IF PipeBefore(line[s], c) THEN log ELSE Nothing
  BY <1>5
<1> HIDE DEF inp
<1>9. val = IF c \notin fails[s] /\ inp # Absent THEN OK ELSE ERROR
  BY <1>5 DEF val
<1>10. /\ ran' = [ran EXCEPT ![s] = Append(@, [cmd |-> c, input |-> inp])]
       /\ log' = IF at = "run" /\ log # Absent THEN Append(inp, c) ELSE log
  BY <1>1, <1>5, <1>6
<1>11. RunsAs(s, c, at, inp, val)
  BY <1>3, <1>6, <1>7, <1>8, <1>9, <1>10 DEF RunsAs
<1>12. QED
  BY <1>1, <1>11

\* What a command that ran adds to the history and to the file.
LEMMA RunAdds ==
    ASSUME IInv, NEW s \in Shells, NEW c \in 1 .. Len(line[s]), NEW at \in Places,
           NEW input, NEW v, RunsAs(s, c, at, input, v), stack[s] # <<>>,
           UNCHANGED <<line, fails, shared>>
    PROVE  /\ ran' \in [Shells -> Seq([cmd : Nat, input : Inputs])] /\ log' \in Inputs
           /\ \A u \in Shells \ {s} : ran'[u] = ran[u]
           /\ Len(ran'[s]) = c /\ RanInv(s)' /\ v \in {OK, ERROR}
           /\ s \notin shared => v = Own(fails[s], c) /\ (at = "run" => log' = <<c>>)
<1>1. /\ Parsed(line[s]) /\ Len(line[s]) \in Nat /\ log \in Inputs
      /\ ran \in [Shells -> Seq([cmd : Nat, input : Inputs])] /\ RanInv(s)
  BY AtWork DEF IInv, TypeInv
<1>2. c \in Nat \ {0} /\ Len(ran[s]) = c - 1
  <2>1. HasRun(line[s], Len(ran[s]), c, at) /\ at \in {"start", "part", "run"}
    BY DEF RunsAs, Working
  <2>2. QED
    BY <1>1, <2>1 DEF HasRun
<1>3. /\ input = IF PipeBefore(line[s], c) THEN log ELSE Nothing
      /\ v = IF c \notin fails[s] /\ input # Absent THEN OK ELSE ERROR
      /\ ran' = [ran EXCEPT ![s] = Append(@, [cmd |-> c, input |-> input])]
      /\ log' = IF at = "run" /\ log # Absent THEN Append(input, c) ELSE log
  BY DEF RunsAs
<1>4. input \in Inputs /\ (log # Absent => input \in Seq(Nat))
  BY <1>1, <1>3 DEF Inputs, Nothing
<1>5. log' \in Inputs
  BY <1>1, <1>2, <1>3, <1>4 DEF Inputs
<1>6. PICK e : e = [cmd |-> c, input |-> input]
  OBVIOUS
<1>7. e \in [cmd : Nat, input : Inputs] /\ e.cmd = c /\ e.input = input
  BY <1>2, <1>4, <1>6
<1>8. ran' = [ran EXCEPT ![s] = Append(ran[s], e)]
  BY <1>3, <1>6
<1>9. /\ ran' \in [Shells -> Seq([cmd : Nat, input : Inputs])]
      /\ ran'[s] = Append(ran[s], e)
      /\ \A u \in Shells \ {s} : ran'[u] = ran[u]
  <2>1. PICK a : a = Append(ran[s], e)
    OBVIOUS
  <2>2. a \in Seq([cmd : Nat, input : Inputs])
    <3>1. ran[s] \in Seq([cmd : Nat, input : Inputs])
      BY <1>1
    <3>2. QED
      BY <1>7, <2>1, <3>1, AppendProperties
  <2>3. ran' = [ran EXCEPT ![s] = a]
    BY <1>8, <2>1
  <2>4. QED
    BY <1>1, <2>1, <2>2, <2>3
<1>10. /\ Len(ran'[s]) = c /\ ran'[s][c] = e
       /\ \A i \in 1 .. c - 1 : ran'[s][i] = ran[s][i]
  <2>1. ran[s] \in Seq([cmd : Nat, input : Inputs])
    BY <1>1
  <2>2. QED
    BY <1>2, <1>7, <1>9, <2>1, AppendProperties
<1>11. ASSUME s \notin shared
       PROVE  /\ at \in {"start", "part"} /\ PipeBefore(line[s], c) => log = <<c - 1>>
              /\ at = "run" => log = Nothing
  BY <1>11 DEF RunsAs, Working, InLog
<1>12. ASSUME s \notin shared PROVE input # Absent
  <2>1. CASE ~PipeBefore(line[s], c)
    BY <1>3, <2>1 DEF Nothing, Absent
  <2>2. CASE PipeBefore(line[s], c) /\ at = "run"
    BY <1>3, <1>11, <1>12, <2>2 DEF Nothing, Absent
  <2>3. CASE PipeBefore(line[s], c) /\ at # "run"
    <3>1. input = <<c - 1>>
      BY <1>3, <1>11, <1>12, <2>3 DEF RunsAs
    <3>2. c - 1 # -1
      BY <1>2
    <3>3. QED
      BY <1>2, <3>1, <3>2 DEF Absent
  <2>4. QED
    BY <2>1, <2>2, <2>3
<1>13. ASSUME s \notin shared
       PROVE  v = Own(fails[s], c) /\ (at = "run" => log' = <<c>>)
  <2>1. v = Own(fails[s], c)
    BY <1>3, <1>12, <1>13 DEF Own
  <2>2. ASSUME at = "run" PROVE log' = <<c>>
    <3>1. log = Nothing /\ input = Nothing /\ log # Absent
      BY <1>3, <1>11, <1>13, <2>2 DEF Nothing, Absent
    <3>2. log' = Append(Nothing, c)
      BY <1>3, <2>2, <3>1
    <3>3. QED
      BY <1>2, <3>2 DEF Nothing
  <2>3. QED
    BY <2>1, <2>2
<1>14. RanInv(s)'
  <2>1. ASSUME NEW i \in 1 .. c
        PROVE  /\ ran'[s][i].cmd = i
               /\ s \notin shared /\ PipeBefore(line[s], i) /\ ~IsPipe(line[s][i].op) =>
                     ran'[s][i].input = <<i - 1>>
    <3>1. CASE i = c
      <4>1. ran'[s][i].cmd = i /\ ran'[s][i].input = input
        BY <1>7, <1>10, <3>1
      <4>2. ASSUME s \notin shared, PipeBefore(line[s], i), ~IsPipe(line[s][i].op)
            PROVE  input = <<i - 1>>
        <5>1. at \in {"start", "part"}
          BY <3>1, <4>2 DEF RunsAs
        <5>2. QED
          BY <1>3, <1>11, <3>1, <4>2, <5>1
      <4>3. QED
        BY <4>1, <4>2
    <3>2. CASE i # c
      <4>1. i \in 1 .. c - 1 /\ i \in 1 .. Len(ran[s])
        BY <1>2, <3>2
      <4>2. ran'[s][i] = ran[s][i]
        BY <1>10, <4>1
      <4>3. QED
        BY <1>1, <4>1, <4>2 DEF RanInv
    <3>3. QED
      BY <3>1, <3>2
  <2>2. QED
    BY <1>10, <2>1 DEF RanInv
<1>15. v \in {OK, ERROR}
  BY <1>3
<1>16. QED
  BY <1>5, <1>9, <1>10, <1>13, <1>14, <1>15


\* A command runs.
LEMMA RunStep ==
    ASSUME IInv, NEW s \in Shells, Run(s)
    PROVE  IInv'
<1>0. PICK c \in 1 .. Len(line[s]), at \in Places :
         \E input, v : RunsAs(s, c, at, input, v) /\ Return(s, v)
  BY RunIs
<1>1. stack[s] # <<>> /\ UNCHANGED <<line, fails, shared, left>>
  BY DEF Run
<1>2. PICK input, v : RunsAs(s, c, at, input, v) /\ Return(s, v)
  BY <1>0
<1>3. /\ ran' \in [Shells -> Seq([cmd : Nat, input : Inputs])] /\ log' \in Inputs
      /\ \A u \in Shells \ {s} : ran'[u] = ran[u]
      /\ Len(ran'[s]) = c /\ RanInv(s)' /\ v \in {OK, ERROR}
      /\ s \notin shared => v = Own(fails[s], c) /\ (at = "run" => log' = <<c>>)
  BY <1>1, <1>2, RunAdds
<1>4. /\ stack[s] \in Seq(Frames) /\ Parsed(line[s]) /\ Len(line[s]) \in Nat
  BY <1>1, AtWork
<1>5. Working(s, c, at) /\ Calls(stack[s], line[s], c, at)
  BY <1>2 DEF RunsAs, Working
<1>6. ASSUME s \notin shared
      PROVE  /\ \A i \in 1 .. c - 1 : Outer(stack[s], i).first = Own(fails[s], i)
             /\ Goes(line[s], fails[s], c - 1)
  <2>1. Told(stack[s], line[s], fails[s], Len(ran[s]), c, at)
    BY <1>5, <1>6 DEF Working
  <2>2. \A i \in 1 .. c - 1 : i \in 1 .. c /\ i < c
    BY <1>4
  <2>3. QED
    BY <2>1, <2>2 DEF Told
<1>7. CASE at = "start"
  <2>1. c = Len(line[s]) /\ log' = log /\ at \notin Inside
    BY <1>2, <1>7 DEF RunsAs, Inside
  <2>2. ASSUME s \notin shared
        PROVE  /\ Ended(line[s], fails[s], Len(ran'[s]))
               /\ v = Value(line[s], fails[s], c, Len(ran'[s]))
    <3>1. Ends(line[s], fails[s], c)
      BY <1>4, <2>1, CommandIs DEF Ends
    <3>2. Value(line[s], fails[s], c, c) = Own(fails[s], c)
      BY <1>4, ValueIs
    <3>3. QED
      BY <1>3, <1>6, <2>2, <3>1, <3>2 DEF Ended
  <2>3. Len(ran'[s]) \in c .. Len(line[s])
    BY <1>3, <1>4, <2>1
  <2>4. /\ Returns(s) /\ ShellInv(s)'
        /\ Piping(stack[s], line[s]) => \/ Piping(stack'[s], line[s])
                                        \/ at # "start" /\ IsPipe(line[s][c].op)
    BY <1>1, <1>2, <1>3, <1>5, <1>6, <2>1, <2>2, <2>3, ReturnedFrom
  <2>5. LogKept(s)
    BY <1>1, <1>7, <2>1, <2>4 DEF LogKept
  <2>6. Moved(s)
    BY <1>3, <2>4 DEF Moved, Returns
  <2>7. QED
    BY <1>1, <1>3, <2>4, <2>5, <2>6, ExecStep
<1>8. CASE at # "start"
  <2>1. at \in Inside /\ (at = "run" <=> IsPipe(line[s][c].op))
    BY <1>2, <1>8 DEF RunsAs, Inside
  <2>2. /\ Returns(s) /\ Calls(stack'[s], line[s], c, "decide")
        /\ Outer(stack'[s], c).first = v
        /\ SameFirsts(stack'[s], stack[s], c - 1)
    BY <1>1, <1>2, <1>3, <1>5, <2>1, ReturnedBefore
  <2>3. HasRun(line[s], Len(ran'[s]), c, "decide")
    BY <1>3 DEF HasRun
  <2>4. ASSUME s \notin shared
        PROVE  /\ Told(stack'[s], line[s], fails[s], Len(ran'[s]), c, "decide")
               /\ InLog(line[s], log', c, "decide")
    <3>1. \A i \in 1 .. c : Outer(stack'[s], i).first = Own(fails[s], i)
      <4>1. \A i \in 1 .. c - 1 : Outer(stack'[s], i).first = Own(fails[s], i)
        BY <1>6, <2>2, <2>4 DEF SameFirsts
      <4>2. \A i \in 1 .. c : i \in 1 .. c - 1 \/ i = c
        BY <1>4
      <4>3. QED
        BY <1>3, <2>2, <2>4, <4>1, <4>2
    <3>2. InLog(line[s], log', c, "decide")
      BY <1>3, <2>1, <2>4 DEF InLog
    <3>3. QED
      BY <1>6, <2>4, <3>1, <3>2 DEF Told
  <2>5. ShellInv(s)'
    <3>1. Working(s, c, "decide")'
      BY <1>1, <2>2, <2>3, <2>4 DEF Working
    <3>2. c \in 1 .. Len(line'[s]) /\ "decide" \in Places
      BY <1>1 DEF Places
    <3>3. QED
      BY <3>1, <3>2 DEF ShellInv
  <2>6. LogKept(s)
    <3>1. stack'[s] \in Seq(Frames)
      BY <2>2 DEF Returns
    <3>2. /\ Piping(stack[s], line[s]) =>
                (\E i \in 1 .. c - 1 : IsPipe(line[s][i].op)) \/ IsPipe(line[s][c].op)
          /\ (\E i \in 1 .. c - 1 : IsPipe(line[s][i].op)) \/ IsPipe(line[s][c].op) =>
                Piping(stack'[s], line[s])
      BY <1>4, <1>5, <2>2, <3>1, PipingIs
    <3>3. CASE at = "run"
      BY <2>1, <3>2, <3>3 DEF LogKept
    <3>4. CASE at # "run"
      <4>1. log' = log
        BY <1>2, <3>4 DEF RunsAs
      <4>2. QED
        BY <1>1, <3>2, <4>1 DEF LogKept
    <3>5. QED
      BY <3>3, <3>4
  <2>7. Moved(s)
    BY <1>3, <2>2 DEF Moved, Returns
  <2>8. QED
    BY <1>1, <1>3, <2>5, <2>6, <2>7, ExecStep
<1>9. QED
  BY <1>7, <1>8

-----------------------------------------------------------------------------
(* A line is entered, and the prompt comes back. *)

\* A line is entered.
LEMMA EnterStep ==
    ASSUME IInv, NEW s \in Shells, NEW n \in 1 .. MaxLen, NEW ln \in Lines[n],
           NEW bad \in SUBSET (1 .. n), Enter(s, ln, bad)
    PROVE  IInv'
<1>1. /\ stack[s] = <<>> /\ line[s] = <<>>
      /\ line' = [line EXCEPT ![s] = ln] /\ fails' = [fails EXCEPT ![s] = bad]
      /\ stack' = [stack EXCEPT ![s] = <<Call(ln)>>]
      /\ shared' = (IF Busy = {} THEN shared ELSE shared \union Busy \union {s})
      /\ UNCHANGED <<log, result, ran, left>>
  BY DEF Enter
<1>2. Parsed(ln) /\ Len(ln) = n /\ ln = TextFrom(ln, 1) /\ n \in Nat \ {0} /\ ln # <<>>
  <2>1. Parsed(ln) /\ Len(ln) = n /\ ln = TextFrom(ln, 1) /\ n \in Nat \ {0}
    BY EnteredLine, MaxLenAssumption
  <2>2. ln # <<>>
    BY <2>1
  <2>3. QED
    BY <2>1, <2>2
<1>3. PICK r : r = <<Call(ln)>>
  OBVIOUS
<1>4. r \in Seq(Frames) /\ Calls(r, ln, 1, "start") /\ r # <<>>
  <2>1. r \in Seq(Frames) /\ Calls(r, ln, 1, "start")
    BY <1>2, <1>3, ToStart
  <2>2. QED
    BY <1>3, <2>1
<1>5. stack' = [stack EXCEPT ![s] = r]
  BY <1>1, <1>3
<1>6. TypeInv
  BY DEF IInv
<1>7. /\ stack'[s] = r /\ line'[s] = ln /\ fails'[s] = bad /\ ran'[s] = <<>>
      /\ \A u \in Shells \ {s} :
            /\ stack'[u] = stack[u] /\ line'[u] = line[u] /\ fails'[u] = fails[u]
            /\ result'[u] = result[u] /\ ran'[u] = ran[u]
  <2>1. ran[s] = <<>>
    <3>1. ShellInv(s)
      BY DEF IInv
    <3>2. Len(line[s]) = 0
      BY <1>1
    <3>3. QED
      BY <1>1, <3>1, <3>2 DEF ShellInv, Resting
  <2>2. QED
    BY <1>1, <1>5, <1>6, <2>1 DEF TypeInv
<1>8. shared \subseteq shared' /\ shared' \subseteq Shells
  BY <1>1, <1>6 DEF Busy, TypeInv
<1>9. TypeInv'
  <2>1. ln \in Seq(Texts) /\ bad \in SUBSET Nat
    BY <1>2 DEF Parsed
  <2>2. line' \in [Shells -> Seq(Texts)] /\ \A u \in Shells : Parsed(line'[u])
    BY <1>1, <1>2, <1>6, <1>7, <2>1 DEF TypeInv
  <2>3. stack' \in [Shells -> Seq(Frames)] /\ fails' \in [Shells -> SUBSET Nat]
    BY <1>1, <1>4, <1>5, <1>6, <2>1 DEF TypeInv
  <2>4. QED
    BY <1>1, <1>6, <1>8, <2>2, <2>3 DEF TypeInv
<1>10. ASSUME NEW u \in Shells PROVE ShellInv(u)' /\ RanInv(u)'
  <2>1. CASE u # s
    BY <1>1, <1>7, <1>8, <2>1, OtherShell
  <2>2. CASE u = s
    <3>1. RanInv(s)'
      BY <1>7 DEF RanInv
    <3>2. HasRun(ln, 0, 1, "start")
      BY DEF HasRun
    <3>3. Told(r, ln, bad, 0, 1, "start")
      BY DEF Told, Goes
    <3>4. InLog(ln, log', 1, "start")
      BY DEF InLog, PipeBefore
    <3>5. Len(ran'[s]) = 0
      BY <1>7
    <3>6. Working(s, 1, "start")'
      BY <1>4, <1>7, <3>2, <3>3, <3>4, <3>5 DEF Working
    <3>7. 1 \in 1 .. Len(line'[s]) /\ "start" \in Places
      BY <1>2, <1>7 DEF Places
    <3>8. QED
      BY <2>2, <3>1, <3>6, <3>7 DEF ShellInv
  <2>3. QED
    BY <2>1, <2>2
<1>11. Busy' = Busy \union {s}
  BY <1>4, <1>7 DEF Busy
<1>12. AloneInv'
  <2>1. CASE Busy = {}
    BY <1>11, <2>1 DEF AloneInv, Busy
  <2>2. CASE Busy # {}
    <3>1. Busy' \subseteq shared'
      BY <1>1, <1>11, <2>2
    <3>2. QED
      BY <3>1 DEF AloneInv, Busy
  <2>3. QED
    BY <2>1, <2>2
<1>13. LogInv'
  <2>1. SUFFICES ASSUME log' # Absent, ~left' PROVE \E u \in Shells : Piping(stack'[u], line'[u])
    BY DEF LogInv
  <2>2. PICK u \in Shells : Piping(stack[u], line[u])
    BY <1>1, <2>1 DEF IInv, LogInv
  <2>3. u # s
    BY <1>1, <2>2 DEF Piping
  <2>4. QED
    BY <1>7, <2>2, <2>3
<1>14. QED
  BY <1>9, <1>10, <1>12, <1>13 DEF IInv

\* A shell without its calls and its line.
LEMMA Forgotten ==
    ASSUME IInv, NEW s \in Shells, Forget(s), stack' = [stack EXCEPT ![s] = <<>>], log' = log
    PROVE  /\ TypeInv' /\ \A u \in Shells : ShellInv(u)' /\ RanInv(u)'
           /\ stack'[s] = <<>> /\ line'[s] = <<>>
           /\ \A u \in Shells \ {s} : stack'[u] = stack[u] /\ line'[u] = line[u]
<1>1. /\ line' = [line EXCEPT ![s] = <<>>] /\ fails' = [fails EXCEPT ![s] = {}]
      /\ ran' = [ran EXCEPT ![s] = <<>>] /\ result' = [result EXCEPT ![s] = OK]
      /\ shared' = shared \ {s}
  BY DEF Forget
<1>2. TypeInv
  BY DEF IInv
<1>3. /\ stack'[s] = <<>> /\ line'[s] = <<>> /\ ran'[s] = <<>>
      /\ \A u \in Shells \ {s} :
            /\ stack'[u] = stack[u] /\ line'[u] = line[u] /\ fails'[u] = fails[u]
            /\ result'[u] = result[u] /\ ran'[u] = ran[u]
  BY <1>1, <1>2 DEF TypeInv
<1>4. TypeInv'
  <2>1. Parsed(<<>>)
    BY DEF Parsed
  <2>2. line' \in [Shells -> Seq(Texts)] /\ \A u \in Shells : Parsed(line'[u])
    BY <1>1, <1>2, <1>3, <2>1 DEF TypeInv
  <2>3. /\ fails' \in [Shells -> SUBSET Nat] /\ result' \in [Shells -> {OK, ERROR}]
        /\ ran' \in [Shells -> Seq([cmd : Nat, input : Inputs])]
    <3>1. fails' \in [Shells -> SUBSET Nat] /\ result' \in [Shells -> {OK, ERROR}]
      BY <1>1, <1>2 DEF TypeInv
    <3>2. PICK R : R = Seq([cmd : Nat, input : Inputs])
      OBVIOUS
    <3>3. <<>> \in R
      BY <3>2
    <3>4. ran \in [Shells -> R]
      BY <1>2, <3>2 DEF TypeInv
    <3>5. ran' \in [Shells -> R]
      BY <1>1, <3>3, <3>4
    <3>6. QED
      BY <3>1, <3>2, <3>5
  <2>4. stack' \in [Shells -> Seq(Frames)]
    <3>1. PICK S : S = Seq(Frames)
      OBVIOUS
    <3>2. <<>> \in S
      BY <3>1
    <3>3. stack \in [Shells -> S]
      BY <1>2, <3>1 DEF TypeInv
    <3>4. QED
      BY <3>1, <3>2, <3>3
  <2>5. QED
    BY <1>1, <1>2, <2>2, <2>3, <2>4 DEF TypeInv
<1>5. ASSUME NEW u \in Shells PROVE ShellInv(u)' /\ RanInv(u)'
  <2>1. CASE u # s
    <3>1. u \in shared => u \in shared'
      BY <1>1, <2>1
    <3>2. QED
      BY <1>1, <1>3, <2>1, <3>1, OtherShell
  <2>2. CASE u = s
    BY <1>3, <2>2 DEF ShellInv, RanInv, Resting
  <2>3. QED
    BY <2>1, <2>2
<1>6. QED
  BY <1>3, <1>4, <1>5

\* The shell is back at its prompt.
LEMMA PromptStep ==
    ASSUME IInv, NEW s \in Shells, Prompt(s)
    PROVE  IInv'
<1>1. /\ stack[s] = <<>> /\ Forget(s) /\ UNCHANGED <<log, stack, left>>
  BY DEF Prompt
<1>2. stack' = [stack EXCEPT ![s] = <<>>]
  BY <1>1 DEF IInv, TypeInv
<1>3. /\ TypeInv' /\ \A u \in Shells : ShellInv(u)' /\ RanInv(u)'
      /\ \A u \in Shells \ {s} : stack'[u] = stack[u] /\ line'[u] = line[u]
  BY <1>1, <1>2, Forgotten
<1>4. AloneInv'
  BY <1>1 DEF IInv, AloneInv, Busy, Forget
<1>5. LogInv'
  <2>1. SUFFICES ASSUME log' # Absent, ~left' PROVE \E u \in Shells : Piping(stack'[u], line'[u])
    BY DEF LogInv
  <2>2. PICK u \in Shells : Piping(stack[u], line[u])
    BY <1>1, <2>1 DEF IInv, LogInv
  <2>3. u # s
    BY <1>1, <2>2 DEF Piping
  <2>4. QED
    BY <1>3, <2>2, <2>3
<1>6. QED
  BY <1>3, <1>4, <1>5 DEF IInv

\* A call that waits for a part of its pipe is seen in its text.
LEMMA PipingShows ==
    ASSUME IInv, NEW s \in Shells, stack[s] # <<>>, Piping(stack[s], line[s])
    PROVE  InPipe(s)
<1>1. /\ stack[s] \in Seq(Frames) /\ Parsed(line[s]) /\ Len(line[s]) \in Nat
      /\ \E c \in 1 .. Len(line[s]), at \in Places : Working(s, c, at)
  BY AtWork
<1>2. PICK c \in 1 .. Len(line[s]), at \in Places : Working(s, c, at)
  BY <1>1
<1>3. Calls(stack[s], line[s], c, at)
  BY <1>2 DEF Working
<1>4. PICK i \in 1 .. Len(stack[s]) :
         /\ i <= Len(line[s]) /\ IsPipe(line[s][i].op)
         /\ Outer(stack[s], i).at \in {"first", "decide", "second", "finish"}
  BY DEF Piping
<1>5. i \in 1 .. c
  <2>1. Len(stack[s]) = IF at \in Inside THEN c + 1 ELSE c
    BY <1>3 DEF Calls
  <2>2. CASE at \in Inside /\ i = c + 1
    <3>1. Outer(stack[s], i).at = IF at = "part" THEN "start" ELSE "run"
      BY <1>3, <2>2 DEF Calls
    <3>2. QED
      BY <1>4, <3>1
  <2>3. QED
    BY <1>1, <2>1, <2>2
<1>6. Outer(stack[s], i).stages = TextFrom(line[s], i)
  BY <1>3, <1>5 DEF Calls
<1>7. Head(TextFrom(line[s], i)).op = line[s][i].op
  <2>1. i \in 1 .. Len(line[s])
    BY <1>1, <1>5
  <2>2. IsTextFrom(TextFrom(line[s], i), line[s], i)
    BY <1>1, <2>1, TextFacts
  <2>3. PICK t : t = TextFrom(line[s], i)
    OBVIOUS
  <2>4. QED
    BY <2>2, <2>3 DEF IsTextFrom
<1>8. PICK k : k = Len(stack[s]) + 1 - i
  OBVIOUS
<1>9. k \in DOMAIN stack[s] /\ stack[s][k] = Outer(stack[s], i)
  BY <1>1, <1>4, <1>8, LenProperties DEF Outer
<1>10. IsPipe(Head(stack[s][k].stages).op) /\ stack[s][k].at # "start"
  BY <1>4, <1>6, <1>7, <1>9
<1>11. QED
  BY <1>9, <1>10 DEF InPipe

\* The shell is torn out of its calls.
LEMMA RestartStep ==
    ASSUME IInv, NEW s \in Shells, Restart(s)
    PROVE  IInv'
<1>1. /\ stack[s] # <<>> /\ stack' = [stack EXCEPT ![s] = <<>>] /\ Forget(s) /\ log' = log
      /\ left \/ (InPipe(s) /\ log # Absent) => left'
  BY DEF Restart
<1>2. /\ TypeInv' /\ \A u \in Shells : ShellInv(u)' /\ RanInv(u)'
      /\ stack'[s] = <<>>
      /\ \A u \in Shells \ {s} : stack'[u] = stack[u] /\ line'[u] = line[u]
  BY <1>1, Forgotten
<1>3. AloneInv'
  <2>1. SUFFICES ASSUME NEW u \in Shells, stack'[u] # <<>>, u \notin shared' PROVE FALSE
    BY DEF AloneInv
  <2>2. u # s /\ stack[u] # <<>> /\ u \notin shared
    BY <1>1, <1>2, <2>1 DEF Forget
  <2>3. Busy = {u}
    BY <2>2 DEF IInv, AloneInv
  <2>4. s \in Busy
    BY <1>1 DEF Busy
  <2>5. QED
    BY <2>2, <2>3, <2>4
<1>4. LogInv'
  <2>1. SUFFICES ASSUME log' # Absent, ~left' PROVE \E u \in Shells : Piping(stack'[u], line'[u])
    BY DEF LogInv
  <2>2. PICK u \in Shells : Piping(stack[u], line[u])
    BY <1>1, <2>1 DEF IInv, LogInv
  <2>3. u # s
    <3>1. ~InPipe(s)
      BY <1>1, <2>1
    <3>2. QED
      BY <1>1, <2>2, <3>1, PipingShows
  <2>4. QED
    BY <1>2, <2>2, <2>3
<1>5. QED
  BY <1>2, <1>3, <1>4 DEF IInv


-----------------------------------------------------------------------------
(* The theorems. *)

\* No shell has a line at first.
LEMMA Initially == Init => IInv
<1> SUFFICES ASSUME Init PROVE IInv
  OBVIOUS
<1>1. TypeInv
  BY DEF Init, TypeInv, Parsed, Inputs
<1>2. \A s \in Shells : ShellInv(s) /\ RanInv(s)
  BY DEF Init, ShellInv, RanInv, Resting
<1>3. AloneInv /\ LogInv
  BY DEF Init, AloneInv, LogInv
<1>4. QED
  BY <1>1, <1>2, <1>3 DEF IInv

\* Every step preserves IInv.
LEMMA Inductive == IInv /\ [Next]_vars => IInv'
<1> SUFFICES ASSUME IInv, [Next]_vars PROVE IInv'
  OBVIOUS
<1>1. ASSUME NEW s \in Shells, NEW n \in 1 .. MaxLen, NEW ln \in Lines[n],
             NEW bad \in SUBSET (1 .. n), Enter(s, ln, bad)
      PROVE  IInv'
  BY <1>1, EnterStep
<1>2. ASSUME NEW s \in Shells, Prompt(s) PROVE IInv'
  BY <1>2, PromptStep
<1>3. ASSUME NEW s \in Shells, Exec(s) PROVE IInv'
  <2>1. CASE Split(s)
    BY <2>1, SplitStep
  <2>2. CASE Redir(s)
    BY <2>2, RedirStep
  <2>3. CASE Run(s)
    BY <2>3, RunStep
  <2>4. CASE Decide(s)
    BY <2>4, DecideStep
  <2>5. CASE Finish(s)
    BY <2>5, FinishStep
  <2>6. QED
    BY <1>3, <2>1, <2>2, <2>3, <2>4, <2>5 DEF Exec
<1>4. ASSUME NEW s \in Shells, Restart(s) PROVE IInv'
  BY <1>4, RestartStep
<1>5. CASE UNCHANGED vars
  BY <1>5 DEF vars, IInv, TypeInv, ShellInv, Resting, Working, RanInv, AloneInv, Busy, LogInv
<1>6. QED
  BY <1>1, <1>2, <1>3, <1>4, <1>5 DEF Next

\* The calls of every shell are where its line puts them, whatever the lines and
\* however many shells there are (IInv is the invariant the others rest on).
THEOREM Invariance == Spec => []IInv
<1>1. QED
  BY Initially, Inductive, PTL DEF Spec

\* The commands of a line run from left to right, each at most once, whatever
\* other shells do to /etc/.log between them.
THEOREM InOrder == Spec => []RunsInOrder
<1>1. IInv => RunsInOrder
  <2> SUFFICES ASSUME IInv, NEW s \in Shells, NEW i \in DOMAIN ran[s], NEW j \in DOMAIN ran[s],
                      i < j
               PROVE  ran[s][i].cmd < ran[s][j].cmd
    BY DEF RunsInOrder
  <2>1. DOMAIN ran[s] = 1 .. Len(ran[s]) /\ RanInv(s)
    BY LenProperties DEF IInv, TypeInv
  <2>2. ran[s][i].cmd = i /\ ran[s][j].cmd = j
    BY <2>1 DEF RanInv
  <2>3. QED
    BY <2>2
<1>2. QED
  BY <1>1, Invariance, PTL

\* /etc/.log is gone when every shell is done with its line: each return out of a
\* pipe removes it, and no command brings it back behind the removal.  It is only
\* left by a shell that control-C or the command exit tore out of a pipe, and then
\* no longer than until the next pipe is completed.
THEOREM Temporary == Spec => []LogIsTemporary
<1>1. IInv => LogIsTemporary
  <2> SUFFICES ASSUME IInv, \A s \in Shells : stack[s] = <<>>, ~left, log # Absent PROVE FALSE
    BY DEF LogIsTemporary
  <2>1. PICK s \in Shells : Piping(stack[s], line[s])
    BY DEF IInv, LogInv
  <2>2. QED
    BY <2>1 DEF Piping
<1>2. QED
  BY <1>1, Invariance, PTL

\* A shell that works alone runs the commands its operators ask for, and its
\* line has the value they give it: the nested calls of __tshellExec are right
\* for a line of any length.
THEOREM Meaning == Spec => []LineHasItsMeaning
<1>1. IInv => LineHasItsMeaning
  <2> SUFFICES ASSUME IInv, NEW s \in Shells \ shared, Done(s)
               PROVE  LET last == LastToRun(line[s], fails[s])
                      IN  /\ Ran(s) = [i \in 1 .. last |-> i]
                          /\ result[s] = Value(line[s], fails[s], 1, last)
    BY DEF LineHasItsMeaning
  <2>1. stack[s] = <<>> /\ line[s] # <<>>
    BY DEF Done
  <2>2. Resting(s)
    <3>1. ASSUME NEW c \in 1 .. Len(line[s]), NEW at \in Places, Working(s, c, at) PROVE FALSE
      <4>1. Calls(stack[s], line[s], c, at) /\ Parsed(line[s]) /\ stack[s] \in Seq(Frames)
        BY <3>1 DEF Working, IInv, TypeInv
      <4>2. stack[s] # <<>>
        BY <4>1, TopIs
      <4>3. QED
        BY <2>1, <4>2
    <3>2. QED
      BY <3>1 DEF IInv, ShellInv
  <2>3. /\ Len(ran[s]) \in 1 .. Len(line[s]) /\ Ended(line[s], fails[s], Len(ran[s]))
        /\ result[s] = Value(line[s], fails[s], 1, Len(ran[s]))
    BY <2>1, <2>2 DEF Resting
  <2>4. LastToRun(line[s], fails[s]) = Len(ran[s])
    BY <2>3, OneLast DEF IInv, TypeInv
  <2>5. Ran(s) = [i \in 1 .. Len(ran[s]) |-> i]
    <3>1. DOMAIN ran[s] = 1 .. Len(ran[s]) /\ \A i \in 1 .. Len(ran[s]) : ran[s][i].cmd = i
      BY LenProperties DEF IInv, TypeInv, RanInv
    <3>2. QED
      BY <3>1 DEF Ran
  <2>6. QED
    BY <2>3, <2>4, <2>5
<1>2. QED
  BY <1>1, Invariance, PTL

\* The right command of a pipe of two reads what the left one printed, when no
\* other shell works at the same time, wherever the pipe stands in the line.
THEOREM Transmits == Spec => []PairTransmits
<1>1. IInv => PairTransmits
  <2> SUFFICES ASSUME IInv, NEW s \in Shells \ shared, NEW k \in DOMAIN ran[s],
                      Piped(s, ran[s][k].cmd), ~IsPipe(line[s][ran[s][k].cmd].op)
               PROVE  ran[s][k].input = <<ran[s][k].cmd - 1>>
    BY DEF PairTransmits
  <2>1. k \in 1 .. Len(ran[s]) /\ RanInv(s)
    BY LenProperties DEF IInv, TypeInv
  <2>2. ran[s][k].cmd = k
    BY <2>1 DEF RanInv
  <2>3. PipeBefore(line[s], k) /\ ~IsPipe(line[s][k].op)
    BY <2>2 DEF Piped, PipeBefore
  <2>4. QED
    BY <2>1, <2>2, <2>3 DEF RanInv
<1>2. QED
  BY <1>1, Invariance, PTL
=============================================================================
