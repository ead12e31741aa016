------------------------------ MODULE MCSession ------------------------------
(* Session for TLC: interchangeable names of bufferevents and timers.      *)
EXTENDS Session, TLC

Symmetry == Permutations(Bevs) \cup Permutations(Timers)
=============================================================================
