---------------------------- MODULE MCLineEditor ----------------------------
(* Small instances of LineEditor for TLC. *)
EXTENDS LineEditor

\* A command and one that it is a prefix of.
MCCommands == {<<1>>, <<1, 2>>}

\* Names with something in common, and one alone.
MCNames == {<<1, 1>>, <<1, 2>>, <<2, 1>>}
=============================================================================
