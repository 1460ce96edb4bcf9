------------------------------ MODULE MCITimer ------------------------------
(* Instances of ITimer for TLC: the timers are interchangeable. *)
EXTENDS ITimer

Symmetry == Permutations(Timers)
=============================================================================
