---------------------------- MODULE MCHistoryTrie ----------------------------
(* Small instances of HistoryTrie for TLC; the character 3 is the semicolon. *)
EXTENDS HistoryTrie

\* A command that is a prefix of others, and a fork below it.
Forked == {<<1>>, <<1, 2, 1>>, <<1, 2, 2>>}

Single == {<<1, 1>>}

Sequence == {<<1, 3, 2>>}
=============================================================================
