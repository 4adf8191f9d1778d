---------------------------- MODULE MCUdpServer ----------------------------
(* A small instance of UdpServer for TLC. *)
EXTENDS UdpServer, TLC

\* Threads and clients are interchangeable.
Symmetry == Permutations(Threads) \cup Permutations(Clients)
=============================================================================
