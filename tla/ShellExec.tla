------------------------------ MODULE ShellExec ------------------------------
(***************************************************************************)
(* __tshellExec on a line with the operators ; && || | and |&: the calls   *)
(* it makes to itself, and the file /etc/.log it makes pipes with, which   *)
(* is the same file for every shell of the system.                         *)
(*                                                                         *)
(* A line is the sequence of its simple commands, each with the operator   *)
(* that follows it ("end" after the last one).  __tshellExec looks for the *)
(* first operator of the text it is given, calls itself with what stands   *)
(* before it, and then with everything behind it.                          *)
(***************************************************************************)
EXTENDS Integers, SequencesExt, FiniteSetsExt

CONSTANTS
    Shells,     \* the threads that run __tshellExec
    Ops,        \* the operators users type
    MaxLen,     \* bound: simple commands in a line
    MaxTotal    \* bound: simple commands in the lines that run at once

ASSUME OpsAssumption == Ops \subseteq {";", "&&", "||", "|", "|&"}
ASSUME MaxLenAssumption == MaxLen \in Nat \ {0}
ASSUME MaxTotalAssumption == MaxTotal \in Nat \ {0}

\* A command of the line: its place in the line is its name; reads and writes
\* say that " /etc/.log" and " >/etc/.log" have been put behind it.
Stage(i, op) == [cmd |-> i, op |-> op, reads |-> FALSE, writes |-> FALSE]

\* The lines of each length.
Lines ==
    [n \in 1 .. MaxLen |->
        {[i \in 1 .. n |-> Stage(i, IF i = n THEN "end" ELSE ops[i])] :
            ops \in [1 .. n - 1 -> Ops]}]

VARIABLES
    log,    \* /etc/.log: what it holds, or Absent
    stack,  \* the calls of __tshellExec each shell is in, the innermost first
    line,   \* the line each shell runs or has run last
    fails,  \* the commands of this line that return a negative value
    result, \* what the outermost call returned, until the next prompt
    \* history
    ran,    \* the commands that ran, and what each of them read
    shared, \* the shells that were not alone while they ran their line
    left    \* the file was there when a shell was torn out of a pipe, and has
            \* not been removed since

vars == <<log, stack, line, fails, result, ran, shared, left>>

\* What a command prints is what it read, and its own name behind it.
Absent  == <<-1>>
Nothing == <<>>

OK    == 0
ERROR == -1

Call(stages) == [stages |-> stages, at |-> "start", first |-> OK, second |-> OK]

-----------------------------------------------------------------------------
Top(s)   == Head(stack[s])
Op(s)    == Head(Top(s).stages).op
First(s) == Head(Top(s).stages)

\* The innermost call goes on at a place of its text.
Goto(s, frame) == stack' = [stack EXCEPT ![s] = <<frame>> \o Tail(@)]

\* It calls itself with some stages, and goes on at the place given.
Recurse(s, frame, stages) ==
    stack' = [stack EXCEPT ![s] = <<Call(stages), frame>> \o Tail(@)]

\* It returns a value to the call around it, or to the shell.
Return(s, value) ==
    LET around == Tail(stack[s])
    IN  IF around = <<>>
        THEN /\ stack' = [stack EXCEPT ![s] = <<>>]
             /\ result' = [result EXCEPT ![s] = value]
        ELSE LET frame == Head(around)
                 back  == IF frame.at = "first"
                          THEN [frame EXCEPT !.at = "decide", !.first = value]
                          ELSE [frame EXCEPT !.at = "finish", !.second = value]
             IN  /\ stack' = [stack EXCEPT ![s] = <<back>> \o Tail(around)]
                 /\ UNCHANGED result

IsPipe(op) == op \in {"|", "|&"}

\* The text before the first operator.  Before a pipe it gets a redirection,
\* which the code writes over the operator.
Before(stages) ==
    <<[Head(stages) EXCEPT !.op = "end", !.writes = IsPipe(Head(stages).op)]>>

\* The text behind it.  Behind a pipe the name of the file is put after the
\* first command, so that it reads the file.
BehindReadsNothing(stages) == Tail(stages)

BehindFromStart(stages) ==
    IF IsPipe(Head(stages).op)
    THEN [stages EXCEPT ![2].reads = TRUE]
    ELSE stages

Behind(stages) ==
    IF IsPipe(Head(stages).op)
    THEN [Tail(stages) EXCEPT ![1].reads = TRUE]
    ELSE Tail(stages)

-----------------------------------------------------------------------------
Busy == {s \in Shells : stack[s] # <<>>}

(* A shell has read a line; which commands will fail is open. *)
Enter(s, ln, bad) ==
    /\ stack[s] = <<>>
    /\ line[s] = <<>>
    /\ line' = [line EXCEPT ![s] = ln]
    /\ fails' = [fails EXCEPT ![s] = bad]
    /\ stack' = [stack EXCEPT ![s] = <<Call(ln)>>]
    /\ shared' = IF Busy = {} THEN shared ELSE shared \union Busy \union {s}
    /\ UNCHANGED <<log, result, ran, left>>

\* What goes with a line when its shell is at the prompt.
Forget(s) ==
    /\ line' = [line EXCEPT ![s] = <<>>]
    /\ fails' = [fails EXCEPT ![s] = {}]
    /\ ran' = [ran EXCEPT ![s] = <<>>]
    /\ result' = [result EXCEPT ![s] = OK]
    /\ shared' = shared \ {s}

\* The shell is back at its prompt.
Prompt(s) ==
    /\ stack[s] = <<>>
    /\ line[s] # <<>>
    /\ Forget(s)
    /\ UNCHANGED <<log, stack, left>>

\* A call waits for a part of its pipe, and is to remove the file behind it.
InPipe(s) ==
    \E i \in DOMAIN stack[s] :
        IsPipe(Head(stack[s][i].stages).op) /\ stack[s][i].at # "start"

\* Control-C restarts the thread of the shell (API_ThreadRestart), wherever it is:
\* all its calls are gone at once, with what they would have done.  The command
\* exit ends the thread in the same way, and a new shell takes its place.
Restart(s) ==
    /\ stack[s] # <<>>
    /\ stack' = [stack EXCEPT ![s] = <<>>]
    /\ Forget(s)
    /\ left' = (left \/ (InPipe(s) /\ log # Absent))
    /\ UNCHANGED log

\* There is an operator: the part before the first one is called.
Split(s) ==
    /\ stack[s] # <<>>
    /\ Top(s).at = "start"
    /\ Op(s) # "end"
    /\ Recurse(s, [Top(s) EXCEPT !.at = "first"], Before(Top(s).stages))
    /\ UNCHANGED <<log, line, fails, result, ran, shared, left>>

\* __tshellRedir opens the file before the command runs, with O_TRUNC.
Redir(s) ==
    /\ stack[s] # <<>>
    /\ Top(s).at = "start"
    /\ Op(s) = "end"
    /\ First(s).writes
    /\ log' = Nothing
    /\ Goto(s, [Top(s) EXCEPT !.at = "run"])
    /\ UNCHANGED <<line, fails, result, ran, shared, left>>

\* The command runs.  What it prints reaches a file that another shell has
\* not removed since, and it fails when the file it is to read is not there.
Run(s) ==
    /\ stack[s] # <<>>
    /\ Op(s) = "end"
    /\ Top(s).at = IF First(s).writes THEN "run" ELSE "start"
    /\ LET input == IF First(s).reads THEN log ELSE Nothing
           ok    == First(s).cmd \notin fails[s] /\ input # Absent
       IN  /\ ran' = [ran EXCEPT ![s] =
                         Append(@, [cmd |-> First(s).cmd, input |-> input])]
           /\ log' = IF First(s).writes /\ log # Absent
                     THEN Append(input, First(s).cmd)
                     ELSE log
           /\ Return(s, IF ok THEN OK ELSE ERROR)
    /\ UNCHANGED <<line, fails, shared, left>>

\* Is the part behind the operator called, given what the first returned?
GoesOnAlways(op, first) == TRUE

GoesOn(op, first) ==
    \/ op \in {";", "|&"}
    \/ op \in {"&&", "|"} /\ first >= 0
    \/ op = "||" /\ first < 0

\* Behind a pipe: rm /etc/.log.
RemoveLog(op) ==
    /\ log' = IF IsPipe(op) THEN Absent ELSE log
    /\ left' = (left /\ ~IsPipe(op))

Decide(s) ==
    /\ stack[s] # <<>>
    /\ Top(s).at = "decide"
    /\ \/ /\ GoesOn(Op(s), Top(s).first)
          /\ Recurse(s, [Top(s) EXCEPT !.at = "second"], Behind(Top(s).stages))
          /\ UNCHANGED <<log, result, left>>
       \/ /\ ~GoesOn(Op(s), Top(s).first)
          /\ RemoveLog(Op(s))
          /\ Return(s, Top(s).first)
    /\ UNCHANGED <<line, fails, ran, shared>>

FinishKeepsLog(s) ==
    /\ stack[s] # <<>>
    /\ Top(s).at = "finish"
    /\ Return(s, IF Op(s) = ";" /\ Top(s).first < Top(s).second
                 THEN Top(s).first ELSE Top(s).second)
    /\ UNCHANGED <<log, line, fails, ran, shared, left>>

Finish(s) ==
    /\ stack[s] # <<>>
    /\ Top(s).at = "finish"
    /\ RemoveLog(Op(s))
    /\ Return(s, IF Op(s) = ";" /\ Top(s).first < Top(s).second
                 THEN Top(s).first ELSE Top(s).second)
    /\ UNCHANGED <<line, fails, ran, shared>>

-----------------------------------------------------------------------------
Init ==
    /\ log = Absent
    /\ stack = [s \in Shells |-> <<>>]
    /\ line = [s \in Shells |-> <<>>]
    /\ fails = [s \in Shells |-> {}]
    /\ result = [s \in Shells |-> OK]
    /\ ran = [s \in Shells |-> <<>>]
    /\ shared = {}
    /\ left = FALSE

Exec(s) == Split(s) \/ Redir(s) \/ Run(s) \/ Decide(s) \/ Finish(s)

Next ==
    \E s \in Shells :
        \/ \E n \in 1 .. MaxLen :
              /\ n + MapThenSumSet(LAMBDA x : Len(line[x]), Shells) <= MaxTotal
              /\ \E ln \in Lines[n], bad \in SUBSET (1 .. n) : Enter(s, ln, bad)
        \/ Prompt(s)
        \/ Restart(s)
        \/ Exec(s)

Spec == Init /\ [][Next]_vars

-----------------------------------------------------------------------------
Done(s) == stack[s] = <<>> /\ line[s] # <<>>

Ran(s) == [i \in DOMAIN ran[s] |-> ran[s][i].cmd]

\* What a line does, said of the whole line at once.  The commands run from left
\* to right, up to the first whose operator does not go on after it; the value
\* is the one of this last command, or that of a failure before a semicolon.
Ends(ln, bad, i) ==
    \/ ln[i].op = "end"
    \/ ln[i].op \in {"&&", "|"} /\ i \in bad
    \/ ln[i].op = "||" /\ i \notin bad

LastToRun(ln, bad) ==
    CHOOSE i \in DOMAIN ln :
        Ends(ln, bad, i) /\ \A j \in 1 .. i - 1 : ~Ends(ln, bad, j)

Value(ln, bad, i, last) ==
    IF last \in bad \/ \E j \in i .. last - 1 : ln[j].op = ";" /\ j \in bad
    THEN ERROR ELSE OK

\* With no other shell at work, the nested calls run the commands the operators
\* ask for, each once and in order, and give the line its value, for every line
\* and every choice of failing commands; what pipes do to the file does not
\* make a command fail.
LineHasItsMeaning ==
    \A s \in Shells \ shared :
        Done(s) => LET last == LastToRun(line[s], fails[s])
                   IN  /\ Ran(s) = [i \in 1 .. last |-> i]
                       /\ result[s] = Value(line[s], fails[s], 1, last)

\* Other shells' pipes can change what a line's commands read and return, but
\* not the order of the commands, nor let one run twice.
RunsInOrder ==
    \A s \in Shells : \A i, j \in DOMAIN ran[s] :
        i < j => ran[s][i].cmd < ran[s][j].cmd

\* Pipes leave no file behind, but when a shell is torn out of one: when every
\* shell is done with its line, each return out of a pipe (on failure of the
\* first command too) has removed /etc/.log.  Control-C and the command exit
\* leave the file where it is, until the next pipe that any shell completes.
LogIsTemporary ==
    (\A s \in Shells : stack[s] = <<>>) /\ ~left => log = Absent

Piped(s, i) == i > 1 /\ IsPipe(line[s][i - 1].op)

\* With no other shell at work, the right command of a pipe of two reads what
\* the left one printed in the same line, also when it fails, and never what
\* an earlier pipe left in the file.
PairTransmits ==
    \A s \in Shells \ shared : \A k \in DOMAIN ran[s] :
        LET i == ran[s][k].cmd
        IN  line[s] # <<>> /\ Piped(s, i) /\ ~Piped(s, i - 1)
                /\ ~IsPipe(line[s][i].op) => ran[s][k].input = <<i - 1>>

\* "Use | to call the pipe to transmit the standard output left command to the
\* right command" (Final_Report.md), along a chain of pipes too.
PipeTransmits ==
    \A s \in Shells : \A k \in DOMAIN ran[s] :
        line[s] # <<>> /\ Piped(s, ran[s][k].cmd) =>
            /\ ran[s][k].input \notin {Absent, Nothing}
            /\ Last(ran[s][k].input) = ran[s][k].cmd - 1
=============================================================================
