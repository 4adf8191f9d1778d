---------------------------- MODULE MCTcpClient ----------------------------
(* Small instances of TcpClient for TLC. *)
EXTENDS TcpClient, TLC

\* User threads are interchangeable.
Symmetry == Permutations(Threads)
=============================================================================
