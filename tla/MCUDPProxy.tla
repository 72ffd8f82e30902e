----------------------------- MODULE MCUDPProxy -----------------------------
(* UDPProxy for TLC: the instances differ only in their constants. *)
EXTENDS UDPProxy
=============================================================================
