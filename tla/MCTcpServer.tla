---------------------------- MODULE MCTcpServer ----------------------------
(* Small instances of TcpServer for TLC. *)
EXTENDS TcpServer, TLC

\* Threads and connections are interchangeable.
Symmetry == Permutations(Threads) \cup Permutations(Conns)
=============================================================================
