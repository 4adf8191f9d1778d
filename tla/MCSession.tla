----------------------------- MODULE MCSession -----------------------------
(* Small instances of Session for TLC. *)
EXTENDS Session, TLC

\* User threads are interchangeable, and so are calls.
Symmetry == Permutations(Threads) \cup Permutations(Calls)
=============================================================================
