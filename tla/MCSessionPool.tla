--------------------------- MODULE MCSessionPool ---------------------------
(* A small instance of SessionPool for TLC. *)
EXTENDS SessionPool
=============================================================================
