---------------------------- MODULE MCLifecycle ----------------------------
(* Lifecycle for TLC: the instances differ only in their constants. *)
EXTENDS Lifecycle
=============================================================================
