------------------------------- MODULE MCLoop -------------------------------
(* A small instance of Loop for TLC.  Threads are interchangeable; the     *)
(* runs with liveness use no symmetry.                                     *)
EXTENDS Loop, TLC

Symmetry == Permutations(Threads)
=============================================================================
