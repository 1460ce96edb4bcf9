------------------------------ MODULE MCHTimer ------------------------------
(* Instances of HTimer for TLC: the timers are interchangeable. *)
EXTENDS HTimer

Symmetry == Permutations(Timers)
=============================================================================
