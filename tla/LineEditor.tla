------------------------------ MODULE LineEditor ------------------------------
(***************************************************************************)
(* The line editor of the shell, ttinyShellReadline.c: the keys, the ring  *)
(* of entered lines behind Up and Down, the suggestion from the history    *)
(* trie that is printed in grey behind the line and taken by Right, and    *)
(* how all this is set up for the first line of a shell, kept over a       *)
(* restart (control-C) and cleaned up at the end of the shell.             *)
(*                                                                         *)
(* It is composed with HistoryTrie: one trie, one file and one suggestion  *)
(* (_historyTrieRoot, _lastMatch) serve all shells.  The terminal is the   *)
(* row the line is on, as the bytes written to it leave it.                *)
(***************************************************************************)
EXTENDS HistoryTrie, FiniteSets

CONSTANTS
    Shells,     \* the shell threads
    NoShell,    \* none of them
    Chars,      \* the characters users type
    Names,      \* what Tab completes to: keywords (first word), file names
    MaxLen,     \* LW_CFG_SHELL_MAX_COMMANDLEN (512)
    MaxRing,    \* __INPUT_SAVE_MAX (20)
    MaxEntered  \* bound: lines entered, in all shells

ASSUME EditorAssumption ==
    /\ NoShell \notin Shells
    /\ Chars \subseteq 1 .. (Byte \div 2) - 1
    /\ MaxLen \in Nat \ {0, 1} /\ MaxRing \in Nat \ {0} /\ MaxEntered \in Nat
    \* a completion and a command that succeeds fit the line with its zero
    /\ \A word \in Names \union Commands : Len(word) < MaxLen

VARIABLES
    at,         \* where each shell is: "off", "start" (of the loop), "edit", "run"
    ctx,        \* of each shell: CTX_BUFFER as a line, CTX_CURSOR, pvCookie
    ring,       \* SIHC_pringHeader: lines, the latest first; NoRing without psihc
    kept,       \* the ring in _K_plineShellHisc for a shell that restarts
    tty,        \* of each shell: the cells of the row and the column
    match,      \* _lastMatch: a string, Null, or Freed when it dangles
    matchLen,   \* _lastMatchLength
    buffers,    \* _spaceBuffer and _backspaceBuffer are allocated
    \* history
    entered,    \* of each shell: the lines entered since its ring is there
    fresh,      \* the shell behind whose line match is printed
    blind       \* Right took a character of a match that was not printed

trieVars   == <<trie, file, uses, intact, exact, saved>>
matchVars  == <<match, matchLen, fresh>>
shellVars  == <<at, ring, kept, buffers, entered>>
editorVars == <<trieVars, matchVars, shellVars, ctx, tty, blind>>

NoRing == << <<-1>> >>
Freed  == <<-3>>
Blank  == 0

-----------------------------------------------------------------------------
(* The row of the terminal. *)

Width    == 2 * MaxLen
EmptyRow == [cells |-> [i \in 1 .. Width |-> Blank], col |-> 0]

\* Characters written at the column, which moves behind them.
Put(t, str) ==
    [cells |-> [i \in 1 .. Width |->
                   IF i - t.col \in DOMAIN str THEN str[i - t.col] ELSE t.cells[i]],
     col   |-> t.col + Len(str)]

\* ESC [ n D, a backspace for n = 1, and ESC [ n C.
Move(t, n) == [t EXCEPT !.col = @ + n]

Blanks(n) == [i \in 1 .. n |-> Blank]

\* ESC [ K
ClearEndLine(t) == [t EXCEPT !.cells = Put(t, Blanks(Width - t.col)).cells]

\* Written, and the column back where it was.
Behind(t, str) == Move(Put(t, str), -Len(str))

-----------------------------------------------------------------------------
(* The suggestion. *)

\* What C sees of characters that may hold a zero.
CString(str) == SubSeq(str, 1, SelectInSeq(Append(str, 0), LAMBDA c : c = 0) - 1)

\* What __trieSearch returns for a line.
Suggestion(line) ==
    LET found == Search(trie, line)
    IN  IF found = Null THEN Null
        ELSE CString(SubSeq(found, Len(line) + 1, Len(found)))

\* __tshellClearHistorySuggestion
ClearHistorySuggestion(t) == Behind(t, Blanks(matchLen))

\* The length kept with a match.
LengthOf(m) == IF m = Null THEN 0 ELSE Len(m)

\* __tshellPrintHistorySuggestion, the last step of a key that has brought
\* shell s to this line and cursor, and its row to t.
PrintHistorySuggestion(s, line, cursor, t) ==
    IF line # <<>> /\ cursor = Len(line)
    THEN /\ match' = Suggestion(line)
         /\ matchLen' = LengthOf(match')
         /\ tty' = [tty EXCEPT ![s] = IF match' = Null THEN t ELSE Behind(t, match')]
         /\ fresh' = s
    ELSE /\ tty' = [tty EXCEPT ![s] = t]
         /\ fresh' = NoShell
         /\ UNCHANGED <<match, matchLen>>

-----------------------------------------------------------------------------
(* The ring of entered lines. *)

Take(seq, n) == SubSeq(seq, 1, IF Len(seq) < n THEN Len(seq) ELSE n)

\* __tshellHistorySave: a line that is there moves to the head, a new one may
\* push out the oldest.
HistorySaveNoMove(r, line) ==
    IF line \in ToSet(r) THEN r ELSE Take(<<line>> \o r, MaxRing)

HistorySave(r, line) ==
    LET others == SelectSeq(r, LAMBDA l : l # line)
    IN  Take(<<line>> \o others, MaxRing)

\* __tshellHistoryGet: the place in the ring behind or before the cookie.
HistoryGet(r, cookie, next) ==
    CASE cookie = 0         -> 1
      [] cookie # 0 /\ next -> IF cookie = Len(r) THEN 1 ELSE cookie + 1
      [] OTHER              -> IF cookie = 1 THEN Len(r) ELSE cookie - 1

-----------------------------------------------------------------------------
(* The life of a shell. *)

Start(s) ==
    /\ at[s] = "off"
    /\ at' = [at EXCEPT ![s] = "start"]
    /\ UNCHANGED <<trieVars, matchVars, ring, kept, buffers, entered, ctx, tty, blind>>

\* The locals of __tshellReadline and the row of a new line.
FreshLine(s) ==
    /\ ctx' = [ctx EXCEPT ![s] = [line |-> <<>>, cursor |-> 0, cookie |-> 0]]
    /\ tty' = [tty EXCEPT ![s] = EmptyRow]
    /\ blind' = [blind EXCEPT ![s] = FALSE]

\* __tshellReadlineInit without the trie: the first line of a shell takes the
\* ring that a restart has kept, or an empty one, and allocates the buffers.
ReadlineInit(s) ==
    IF ring[s] = NoRing
    THEN /\ ring' = [ring EXCEPT ![s] = IF kept[s] = NoRing THEN <<>> ELSE kept[s]]
         /\ kept' = [kept EXCEPT ![s] = NoRing]
         /\ buffers' = TRUE
    ELSE UNCHANGED <<ring, kept, buffers>>

Entered == FoldFunction(LAMBDA e, n : Len(e) + n, 0, entered)

\* The prompt and the start of __tshellReadline.  A trie is only read, and the
\* suggestion only reset, when there is no trie.
Readline(s) ==
    /\ at[s] = "start"
    /\ Entered < MaxEntered
    /\ at' = [at EXCEPT ![s] = "edit"]
    /\ FreshLine(s)
    /\ ReadlineInit(s)
    /\ \/ /\ InitHistoryTrie
          /\ match' = Null /\ matchLen' = 0
       \/ /\ trie # NoTrie
          /\ UNCHANGED <<trieVars, match, matchLen>>
    /\ fresh' = NoShell
    /\ UNCHANGED entered

\* __tshellReadlineClean, the hook for the deletion and for the restart of a
\* thread: the ring is kept or freed, what is global is freed for all shells.
ReadlineCleanKeepsContext(s, backup) ==
    IF ring[s] = NoRing
    THEN UNCHANGED <<trieVars, ring, kept, buffers>>
    ELSE /\ ring' = [ring EXCEPT ![s] = IF backup THEN @ ELSE NoRing]
         /\ buffers' = FALSE
         /\ BackupHistoryTrie \/ (trie = NoTrie /\ UNCHANGED trieVars)
         /\ UNCHANGED kept

ReadlineClean(s, backup) ==
    IF ring[s] = NoRing
    THEN UNCHANGED <<trieVars, ring, kept, buffers>>
    ELSE /\ kept' = [kept EXCEPT ![s] = IF backup THEN ring[s] ELSE NoRing]
         /\ ring' = [ring EXCEPT ![s] = NoRing]
         /\ buffers' = FALSE
         /\ BackupHistoryTrie \/ (trie = NoTrie /\ UNCHANGED trieVars)

\* __tshellRestartEx (control-C): __tshellHistoryBackup and the restart.
Restart(s) ==
    /\ at[s] # "off"
    /\ at' = [at EXCEPT ![s] = "start"]
    /\ ReadlineClean(s, TRUE)
    /\ FreshLine(s)
    /\ fresh' = NoShell
    /\ UNCHANGED <<match, matchLen, entered>>

\* The loop of __tshellReadline reads a key while there is room in the line.
Editing(s) == at[s] = "edit" /\ Len(ctx[s].line) < MaxLen

\* Control-D: the loop of the shell ends.  The line that stands for it is
\* saved in the ring, which goes with the shell.
Exit(s) ==
    /\ Editing(s)
    /\ at' = [at EXCEPT ![s] = "off"]
    /\ ReadlineClean(s, FALSE)
    /\ entered' = [entered EXCEPT ![s] = <<>>]
    /\ FreshLine(s)
    /\ fresh' = NoShell
    /\ UNCHANGED <<match, matchLen>>

\* __tshellBeforeExecution
BeforeExecution == match' = Null /\ matchLen' = 0

\* The line ends, with Enter or because it is full: it is saved in the ring,
\* and __tshellBeforeExecution drops the suggestion.  An empty line leads to
\* the next prompt and leaves the suggestion alone.
Enter(s) ==
    /\ at[s] = "edit"
    /\ IF ctx[s].line = <<>>
       THEN /\ at' = [at EXCEPT ![s] = "start"]
            /\ FreshLine(s)
            /\ UNCHANGED <<ring, entered, match, matchLen>>
       ELSE /\ at' = [at EXCEPT ![s] = "run"]
            /\ ring' = [ring EXCEPT ![s] = HistorySave(@, ctx[s].line)]
            /\ entered' = [entered EXCEPT ![s] = Append(@, ctx[s].line)]
            /\ BeforeExecution
            /\ ctx' = [ctx EXCEPT ![s].cursor = 0, ![s].cookie = 0]
            /\ tty' = [tty EXCEPT ![s] = EmptyRow]
            /\ blind' = [blind EXCEPT ![s] = FALSE]
    /\ fresh' = NoShell
    /\ UNCHANGED <<trieVars, kept, buffers>>

\* The command ends.  __tshellAfterExecution records it when it returned 0.
Succeeded(s) ==
    /\ at[s] = "run"
    /\ ctx[s].line \in Commands /\ AfterExecution(ctx[s].line)
    /\ at' = [at EXCEPT ![s] = "start"]
    /\ FreshLine(s)
    /\ UNCHANGED <<matchVars, ring, kept, buffers, entered>>

Failed(s) ==
    /\ at[s] = "run"
    /\ at' = [at EXCEPT ![s] = "start"]
    /\ FreshLine(s)
    /\ UNCHANGED <<trieVars, matchVars, ring, kept, buffers, entered>>

\* __SHEAP_FREE(_lastMatch), which leaves the pointer as it is.
FreeMatch ==
    /\ match' = IF match = Null THEN Null ELSE Freed
    /\ matchLen' = 0
    /\ fresh' = NoShell

\* The commands clearhistory and loadhistory, while they run: the trie as in
\* HistoryTrie, and the suggestion.
RefreshHistoryTrie(s) ==
    /\ at[s] = "run"
    /\ Clearhistory
    /\ FreeMatch
    /\ UNCHANGED <<shellVars, ctx, tty, blind>>

LoadHistoryTrie(s) ==
    /\ at[s] = "run"
    /\ Loadhistory
    /\ FreeMatch
    /\ UNCHANGED <<shellVars, ctx, tty, blind>>

-----------------------------------------------------------------------------
(* The keys. *)

Line(s)   == ctx[s].line
Cursor(s) == ctx[s].cursor
AtEnd(s)  == Cursor(s) = Len(Line(s))
Prior(s)  == SubSeq(Line(s), 1, Cursor(s))
Rest(s)   == SubSeq(Line(s), Cursor(s) + 1, Len(Line(s)))

Edited(s, line, cursor) ==
    ctx' = [ctx EXCEPT ![s].line = line, ![s].cursor = cursor]

\* The cursor and the column move by n.
CursorMoves(s, n) ==
    /\ Edited(s, Line(s), Cursor(s) + n)
    /\ tty' = [tty EXCEPT ![s] = Move(@, n)]
    /\ UNCHANGED <<matchVars, blind>>

\* The line changes in the middle: no new suggestion is made, the old one
\* stays in memory.
ChangedInside(s, line, cursor, t) ==
    /\ Edited(s, line, cursor)
    /\ tty' = [tty EXCEPT ![s] = t]
    /\ fresh' = NoShell
    /\ UNCHANGED <<match, matchLen, blind>>

CharLeft(s) == Cursor(s) > 0 /\ CursorMoves(s, -1)

CharHome(s) == Cursor(s) > 0 /\ CursorMoves(s, -Cursor(s))

CharEnd(s) == ~AtEnd(s) /\ CursorMoves(s, Len(Rest(s)))

\* __tshellCharRight: at the end of the line it takes the next character of
\* the suggestion, which the terminal already shows.
CharRight(s) ==
    \/ /\ ~AtEnd(s)
       /\ CursorMoves(s, 1)
    \/ /\ AtEnd(s) /\ match \notin {Null, Freed, <<>>}
       /\ Edited(s, Append(Line(s), Head(match)), Cursor(s) + 1)
       /\ match' = Tail(match)
       /\ matchLen' = matchLen - 1
       /\ tty' = [tty EXCEPT ![s] = Move(@, 1)]
       /\ blind' = [blind EXCEPT ![s] = @ \/ fresh # s]
       /\ UNCHANGED fresh

\* __tshellCharUp and __tshellCharDown: the recalled line, cut to what
\* lib_strlcpy copies, replaces the line.  The suggestion is left alone.
CharUpDown(s, next) ==
    LET i    == HistoryGet(ring[s], ctx[s].cookie, next)
        line == Take(ring[s][i], MaxLen - 1)
    IN  /\ ring[s] # <<>>
        /\ ctx' = [ctx EXCEPT ![s] = [line |-> line, cursor |-> Len(line), cookie |-> i]]
        /\ tty' = [tty EXCEPT ![s] = Put(ClearEndLine(Move(@, -Cursor(s))), line)]
        /\ fresh' = NoShell
        /\ blind' = [blind EXCEPT ![s] = FALSE]
        /\ UNCHANGED <<match, matchLen>>

\* __tshellCharBackspace
CharBackspace(s) ==
    /\ Cursor(s) > 0
    /\ LET line   == Front(Prior(s)) \o Rest(s)
           cursor == Cursor(s) - 1
       IN  IF AtEnd(s)
           THEN /\ Edited(s, line, cursor)
                /\ PrintHistorySuggestion(s, line, cursor,
                       Behind(Move(ClearHistorySuggestion(tty[s]), -1), Blanks(1)))
                /\ UNCHANGED blind
           ELSE ChangedInside(s, line, cursor,
                    Behind(Move(tty[s], -1), Append(Rest(s), Blank)))

\* __tshellCharDelete
CharDelete(s) ==
    /\ ~AtEnd(s)
    /\ ChangedInside(s, Prior(s) \o Tail(Rest(s)), Cursor(s),
           Behind(tty[s], Append(Tail(Rest(s)), Blank)))

\* __tshellCharInster
CharInsterLeavesCursor(s, c) ==
    LET line == Prior(s) \o <<c>> \o Rest(s)
        t    == Put(ClearHistorySuggestion(tty[s]), <<c>>)
    IN  /\ Edited(s, line, Cursor(s) + 1)
        /\ PrintHistorySuggestion(s, line, Cursor(s) + 1, Put(t, Rest(s)))
        /\ UNCHANGED blind

CharInster(s, c) ==
    LET line == Prior(s) \o <<c>> \o Rest(s)
        t    == Put(ClearHistorySuggestion(tty[s]), <<c>>)
    IN  /\ Edited(s, line, Cursor(s) + 1)
        /\ PrintHistorySuggestion(s, line, Cursor(s) + 1, Behind(t, Rest(s)))
        /\ UNCHANGED blind

\* The names that __tshellKeywordMatch and __tshellFileMatch find for a line,
\* and the line they complete it to: what the names have in common, which for
\* one name is all of it.
Matching(line) == {name \in Names : IsPrefix(line, name)}

Completed(line) ==
    IF Matching(line) = {} THEN line ELSE LongestCommonPrefix(Matching(line))

\* __tshellCharTab: several names are listed above a new prompt.
CharTab(s) ==
    LET end == Move(tty[s], Len(Rest(s)))
        t   == ClearHistorySuggestion(end)
        new == Completed(Line(s))
    IN  IF Line(s) = <<>>
        THEN UNCHANGED <<ctx, tty, matchVars, blind>>
        ELSE /\ Edited(s, new, Len(new))
             /\ PrintHistorySuggestion(s, new, Len(new),
                    IF \E a, b \in Matching(Line(s)) : a # b
                    THEN Put(EmptyRow, new)
                    ELSE Put(t, SubSeq(new, Len(Line(s)) + 1, Len(new))))
             /\ UNCHANGED blind

Key(s) ==
    /\ Editing(s)
    /\ \/ CharLeft(s)
       \/ CharRight(s)
       \/ \E next \in BOOLEAN : CharUpDown(s, next)
       \/ CharHome(s)
       \/ CharEnd(s)
       \/ CharDelete(s)
       \/ CharTab(s)
       \/ CharBackspace(s)
       \/ \E c \in Chars : CharInster(s, c)
    /\ UNCHANGED <<trieVars, shellVars>>

-----------------------------------------------------------------------------
EditorInit ==
    /\ Init
    /\ at = [s \in Shells |-> "off"]
    /\ ctx = [s \in Shells |-> [line |-> <<>>, cursor |-> 0, cookie |-> 0]]
    /\ ring = [s \in Shells |-> NoRing]
    /\ kept = [s \in Shells |-> NoRing]
    /\ tty = [s \in Shells |-> EmptyRow]
    /\ match = Null
    /\ matchLen = 0
    /\ buffers = FALSE
    /\ entered = [s \in Shells |-> <<>>]
    /\ fresh = NoShell
    /\ blind = [s \in Shells |-> FALSE]

EditorNext ==
    \E s \in Shells :
        \/ Start(s)
        \/ Readline(s)
        \/ Restart(s)
        \/ Exit(s)
        \/ Enter(s)
        \/ Succeeded(s)
        \/ Failed(s)
        \/ RefreshHistoryTrie(s)
        \/ LoadHistoryTrie(s)
        \/ Key(s)

EditorSpec == EditorInit /\ [][EditorNext]_editorVars

-----------------------------------------------------------------------------
\* The lines entered after the latest entry of line.
EnteredAfter(e, line) ==
    {e[i] : i \in {j \in DOMAIN e : line \notin {e[k] : k \in j .. Len(e)}}}

\* Up and Down walk over the lines last entered: the ring holds each line once,
\* in the order of its latest entry, the latest first, and all lines as long as
\* they are not more than __INPUT_SAVE_MAX, also over restarts of the shell.
RingIsRecent ==
    \A s \in Shells :
        LET r     == IF ring[s] = NoRing THEN kept[s] ELSE ring[s]
            lines == ToSet(entered[s])
        IN  r # NoRing =>
                /\ Len(r) = IF Cardinality(lines) < MaxRing
                            THEN Cardinality(lines) ELSE MaxRing
                /\ \A i \in DOMAIN r :
                      /\ r[i] \in lines
                      /\ Cardinality(EnteredAfter(entered[s], r[i])) = i - 1

\* The memory that the keys and the end of a shell use without a check is
\* there, through any sequence of lines, restarts and ends of the shell: a
\* shell with a history context has the trie and the buffers, the suggestion
\* does not dangle, and its length, which sizes the copy that Right makes and
\* the blanks that erase it, is the one in memory.
EditorMemory ==
    /\ \A s \in Shells : ring[s] # NoRing => trie # NoTrie /\ buffers
    /\ match # Freed
    /\ matchLen = LengthOf(match)

\* What is executed is what the terminal shows: the row begins with the line
\* and the column is the cursor's, whatever keys were pressed, suggestions
\* printed, erased and taken; and a suggestion that is printed for the line
\* stands behind it and continues it to a command that was used.  The one
\* exception: Right took a character of a suggestion that was not printed
\* behind this line.
ScreenShowsLine ==
    \A s \in Shells :
        at[s] = "edit" /\ ~blind[s] =>
            /\ tty[s].col = Cursor(s)
            /\ \A i \in DOMAIN Line(s) : tty[s].cells[i] = Line(s)[i]
            /\ fresh = s /\ match # Null =>
                 /\ \A i \in DOMAIN match : tty[s].cells[Len(Line(s)) + i] = match[i]
                 /\ \E cmd \in Used(Line(s)) : IsPrefix(Line(s) \o match, cmd)
=============================================================================
