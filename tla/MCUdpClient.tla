---------------------------- MODULE MCUdpClient ----------------------------
(* A small instance of UdpClient for TLC.  Its property is a liveness one, *)
(* so that no symmetry is used.                                            *)
EXTENDS UdpClient, TLC
=============================================================================
