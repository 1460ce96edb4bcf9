----------------------------- MODULE HistoryTrie -----------------------------
(***************************************************************************)
(* The history trie of the shell: trie.c, and how readline loads it when a *)
(* shell starts, feeds it with the lines that succeed, searches it for     *)
(* suggestions and writes it to the user's history file when a shell ends. *)
(*                                                                         *)
(* A trie is the function from the paths of its valid nodes (isValid) to   *)
(* their fields.  A character is its code, the index of the child; a       *)
(* command line is the sequence of its characters.                         *)
(***************************************************************************)
EXTENDS Integers, SequencesExt

CONSTANTS
    Commands,   \* the command lines users type
    Semicolon,  \* the code of ';'
    Byte,       \* values of a byte (256 in the code)
    MaxUses,    \* bound: uses of commands the trie in memory counts
    MaxBadUses, \* bound: those of a trie that was read with a wrong counter
    MaxCutUses  \* bound: those of a trie that is written in part, or was read
                \* from such a file

ASSUME CommandsAssumption ==
    \A cmd \in Commands :
        cmd # <<>> /\ cmd \in Seq(1 .. (Byte \div 2) - 1)
ASSUME WidthAssumption == Byte \in Nat \ {0} /\ Byte % 2 = 0
ASSUME MaxUsesAssumption == {MaxUses, MaxBadUses, MaxCutUses} \subseteq Nat

Root == <<>>

\* The largest value of the bit fields frequence and maxFrequence: one bit less
\* than two bytes (32767).
FreqMax == Byte * (Byte \div 2) - 1

VARIABLES
    trie,   \* _historyTrieRoot: the fields of the valid nodes, or NoTrie
    file,   \* /etc/.<user>_shell_history: its bytes, or NoFile
    \* history
    uses,   \* how often each command recorded in the trie has succeeded
    intact, \* no cut file is behind the trie
    exact,  \* no counter of the trie was read from bytes it is not read back from
    saved   \* the three of the trie that was last written to the file

vars == <<trie, file, uses, intact, exact, saved>>

NoTrie == [p \in {} |-> 0]
NoFile == <<-1>>
NoUses == [cmd \in Commands |-> 0]

-----------------------------------------------------------------------------
(* trie.c *)

\* INITIALIZE_TRIE_NODE; mostFrequentlyUsedChar is not set.  It is only read
\* on the way to a child, and the first child sets it: any value will do.
FreshNode == [isEnd |-> FALSE, frequence |-> 0, maxFrequence |-> 0, most |-> 0]

\* __trieGetRoot
GetRoot == Root :> FreshNode

Node(tr, p) == IF p \in DOMAIN tr THEN tr[p] ELSE FreshNode

\* The 15-bit counter stops at its maximum.
BumpedWraps(n) == (n + 1) % (FreqMax + 1)

Bumped(n) == IF n = FreqMax THEN FreqMax ELSE n + 1

\* The node at p, a prefix of cmd, after __trieInsert of cmd went through it.
PassedIgnoresMax(tr, p, cmd) ==
    LET node == [Node(tr, p) EXCEPT !.frequence = Bumped(@)]
        next  == cmd[Len(p) + 1]
        child == Bumped(Node(tr, Append(p, next)).frequence)
    IN  IF p = cmd
        THEN [node EXCEPT !.isEnd = TRUE]
        ELSE [node EXCEPT !.maxFrequence = child, !.most = next]

Passed(tr, p, cmd) ==
    LET node  == [Node(tr, p) EXCEPT !.frequence = Bumped(@)]
        next  == cmd[Len(p) + 1]
        child == Bumped(Node(tr, Append(p, next)).frequence)
    IN  IF p = cmd
        THEN [node EXCEPT !.isEnd = TRUE]
        ELSE IF child >= node.maxFrequence
             THEN [node EXCEPT !.maxFrequence = child, !.most = next]
             ELSE node

\* __trieInsert
Insert(tr, cmd) ==
    [p \in Prefixes(cmd) |-> Passed(tr, p, cmd)] @@ tr

\* __trieSearch: from the node of the prefix down the most used children to
\* the first end of a command.  The answer is this command, Null when the
\* prefix is not in the trie, and Fault when the walk leaves the valid nodes:
\* there it follows a child pointer that was never set.
Null  == <<-1>>
Fault == <<-2>>

SearchGoesOn(tr, prefix) ==
    LET walk[p \in DOMAIN tr] ==
            IF Append(p, tr[p].most) \in DOMAIN tr
            THEN walk[Append(p, tr[p].most)]
            ELSE p
    IN  IF prefix \in DOMAIN tr THEN walk[prefix] ELSE Null

Search(tr, prefix) ==
    LET walk[p \in DOMAIN tr] ==
            IF tr[p].isEnd
            THEN p
            ELSE IF Append(p, tr[p].most) \in DOMAIN tr
                 THEN walk[Append(p, tr[p].most)]
                 ELSE Fault
    IN  IF prefix \in DOMAIN tr THEN walk[prefix] ELSE Null

\* p is visited before q: level by level, by index within a level.
Before(p, q) ==
    \/ Len(p) < Len(q)
    \/ /\ Len(p) = Len(q)
       /\ \E i \in 1 .. Len(p) :
             p[i] < q[i] /\ \A j \in 1 .. i - 1 : p[j] = q[j]

\* The seven bytes written for a node: its index and its fields, the counters
\* with the low byte first.
Entry(tr, p) ==
    <<Last(p), IF tr[p].isEnd THEN 1 ELSE 0,
      tr[p].frequence % Byte, tr[p].frequence \div Byte,
      tr[p].maxFrequence % Byte, tr[p].maxFrequence \div Byte, tr[p].most>>

Children(tr, p) == {q \in DOMAIN tr : q # Root /\ Front(q) = p}

\* __trieToFile: breadth first, for each node its children and a zero.  The
\* fields of the root are not written.
ToFile(tr) ==
    LET Written(p) ==
            LET children == SetToSortSeq(Children(tr, p), Before)
            IN  Append(FlattenSeq([i \in DOMAIN children |->
                                      Entry(tr, children[i])]), 0)
        nodes == SetToSortSeq(DOMAIN tr, Before)
    IN  FlattenSeq([i \in DOMAIN nodes |-> Written(nodes[i])])

\* A byte read into a CHAR, which is signed; a counter from its two bytes,
\* as the unsigned bit field keeps it.
Signed(b) == IF b >= Byte \div 2 THEN b - Byte ELSE b

Counter(low, high) == (Signed(low) + Signed(high) * Byte) % (FreqMax + 1)

\* The node __trieFromFile fills from the six bytes after the index.
Fields(b) ==
    [isEnd |-> b[1] % 2 = 1, frequence |-> Counter(b[2], b[3]),
     maxFrequence |-> Counter(b[4], b[5]), most |-> Signed(b[6])]

\* A zero ends the children of the node at the head of the queue.
NextNodeStays(todo) == todo

NextNode(todo) == Tail(todo)

\* One byte of the loop of __trieFromFile.  s.todo holds the nodes whose
\* children follow, s.buffer what has been read of the fields of s.child.
ReadByte(s, b) ==
    CASE s.todo = <<>> -> s
      [] s.todo # <<>> /\ s.child # Root /\ Len(s.buffer) < 5 ->
            [s EXCEPT !.buffer = Append(@, b)]
      [] s.todo # <<>> /\ s.child # Root /\ Len(s.buffer) = 5 ->
            [s EXCEPT !.tr = s.child :> Fields(Append(s.buffer, b)) @@ @,
                      !.todo = Append(@, s.child),
                      !.child = Root, !.buffer = <<>>]
      [] s.todo # <<>> /\ s.child = Root /\ b = Byte - 1 ->  \* read as EOF
            [s EXCEPT !.todo = <<>>]
      [] s.todo # <<>> /\ s.child = Root /\ b = 0 ->
            [s EXCEPT !.todo = NextNode(@)]
      [] OTHER ->
            LET child == Append(Head(s.todo), Signed(b))
            IN  [s EXCEPT !.child = child, !.tr = child :> FreshNode @@ @]

\* __trieFromFile.  Where the bytes end, within an entry too, it returns what
\* it has.
FromFile(bytes) ==
    FoldLeft(ReadByte,
             [tr |-> GetRoot, todo |-> <<Root>>, child |-> Root, buffer |-> <<>>],
             bytes).tr

-----------------------------------------------------------------------------
(* ttinyShellReadline.c and the commands of ttinyShellSysCmd.c *)

\* __tshellInitHistoryTrie, called at the start of every line that is read.
InitHistoryTrie ==
    /\ trie = NoTrie
    /\ trie' = IF file = NoFile THEN GetRoot ELSE FromFile(file)
    /\ uses' = saved.uses
    /\ intact' = saved.intact
    /\ exact' = saved.exact
    /\ UNCHANGED <<file, saved>>

\* What __tshellExec leaves of the line: it ends the first command of a
\* sequence by writing a zero over the semicolon, in the caller's buffer.
Executed(cmd) == [i \in DOMAIN cmd |-> IF cmd[i] = Semicolon THEN 0 ELSE cmd[i]]

MayCount == IF ~intact THEN MaxCutUses ELSE IF exact THEN MaxUses ELSE MaxBadUses

\* __tshellAfterExecution, for a line that returned 0; the others change
\* nothing.
AfterExecution(cmd) ==
    /\ trie # NoTrie
    /\ FoldFunction(+, 0, uses) < MayCount
    /\ trie' = Insert(trie, Executed(cmd))
    /\ uses' = [uses EXCEPT ![cmd] = @ + 1]
    /\ UNCHANGED <<file, intact, exact, saved>>

\* For the history: the low byte of no counter has its highest bit set, so that
\* Counter gives back what Entry wrote.
LowBytesPositive(tr) ==
    \A p \in DOMAIN tr \ {Root} :
        \A n \in {tr[p].frequence, tr[p].maxFrequence} : n % Byte < Byte \div 2

\* __tshellBackupHistoryTrie, when a shell ends.
BackupHistoryTrie ==
    /\ trie # NoTrie
    /\ file' = ToFile(trie)
    /\ saved' = [uses |-> uses, intact |-> intact,
                 exact |-> exact /\ LowBytesPositive(trie)]
    /\ trie' = NoTrie
    /\ uses' = NoUses
    /\ UNCHANGED <<intact, exact>>

\* The power fails while a shell runs: the trie is gone.
PowerFails ==
    /\ trie # NoTrie
    /\ trie' = NoTrie
    /\ uses' = NoUses
    /\ UNCHANGED <<file, intact, exact, saved>>

\* The power fails while __tshellBackupHistoryTrie writes: the old file is
\* gone (fopen "wb"), the new one ends anywhere.
PowerFailsInBackup ==
    /\ trie # NoTrie
    /\ FoldFunction(+, 0, uses) <= MaxCutUses
    /\ \E n \in 0 .. Len(ToFile(trie)) - 1 : file' = SubSeq(ToFile(trie), 1, n)
    /\ saved' = [uses |-> uses, intact |-> FALSE, exact |-> FALSE]
    /\ trie' = NoTrie
    /\ uses' = NoUses
    /\ UNCHANGED <<intact, exact>>

\* The command clearhistory: __tshellRefreshHistoryTrie.
Clearhistory ==
    /\ trie # NoTrie
    /\ file' = NoFile
    /\ saved' = [uses |-> NoUses, intact |-> TRUE, exact |-> TRUE]
    /\ trie' = GetRoot
    /\ uses' = NoUses
    /\ intact' = TRUE
    /\ exact' = TRUE

\* The command loadhistory, given the file of the shell.
Loadhistory ==
    /\ trie # NoTrie
    /\ file # NoFile
    /\ trie' = FromFile(file)
    /\ uses' = saved.uses
    /\ intact' = saved.intact
    /\ exact' = saved.exact
    /\ UNCHANGED <<file, saved>>

Init ==
    /\ trie = NoTrie
    /\ file = NoFile
    /\ uses = NoUses
    /\ intact = TRUE
    /\ exact = TRUE
    /\ saved = [uses |-> NoUses, intact |-> TRUE, exact |-> TRUE]

Next ==
    \/ InitHistoryTrie
    \/ \E cmd \in Commands : AfterExecution(cmd)
    \/ BackupHistoryTrie
    \/ PowerFails
    \/ PowerFailsInBackup
    \/ Clearhistory
    \/ Loadhistory

Spec == Init /\ [][Next]_vars

-----------------------------------------------------------------------------
Used(prefix) == {cmd \in Commands : uses[cmd] > 0 /\ IsPrefix(prefix, cmd)}

Inner == DOMAIN trie \ {Root}

\* Through any number of sessions and reloads a node is the end of a command when
\* this command was used, and its counter is the number of uses of the commands
\* that pass it (or the largest number it can hold).  The counters are given up
\* once one was written whose low byte is 128 or more: __trieFromFile adds that
\* byte as a negative CHAR, and the counter comes back smaller by 256.
FrequenceCountsUses ==
    intact /\ trie # NoTrie =>
        \A p \in Inner :
            LET n == FoldFunctionOnSet(+, 0, uses, Used(p))
            IN  /\ trie[p].isEnd <=> p \in Used(p)
                /\ exact => trie[p].frequence = IF n > FreqMax THEN FreqMax ELSE n

\* The child a search descends to is there, and maxFrequence is its counter, in
\* tries that were read from a file too, with whatever counters.  It is a most
\* used child by the counters of the children, as long as none was read back
\* wrong: 130 comes back as 32642, which is more than the 256 of its sibling.
FavouriteIsMostUsed ==
    intact /\ trie # NoTrie =>
        \A p \in Inner : \A q \in Children(trie, p) :
            /\ Append(p, trie[p].most) \in DOMAIN trie
            /\ trie[Append(p, trie[p].most)].frequence = trie[p].maxFrequence
            /\ exact => trie[q].frequence <= trie[p].maxFrequence

\* A suggestion continues the typed line to a command that was used, and one
\* is made whenever there is such a command.  After a cut file there may be
\* less to suggest, and the search may fault at the node where the file ended,
\* but what is suggested still was used.
SearchAnswers ==
    trie # NoTrie =>
        \A prefix \in UNION {Prefixes(cmd) : cmd \in Commands} \ {Root} :
            LET found == Search(trie, prefix)
            IN  /\ found \in Used(prefix) \union {Null, Fault}
                /\ intact => (found = Null <=> Used(prefix) = {}) /\ found # Fault

\* A cut file invents nothing: each node __trieFromFile builds from it lies on
\* the way to a command that was used when the file was written.
NothingInvented == \A p \in DOMAIN trie : p # Root => Used(p) # {}
=============================================================================
