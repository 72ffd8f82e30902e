---------------------------- MODULE MCTCPForward ----------------------------
(* TCPForward for TLC: the values of its constants are in the .cfg. *)
EXTENDS TCPForward
=============================================================================
