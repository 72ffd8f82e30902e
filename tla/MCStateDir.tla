----------------------------- MODULE MCStateDir -----------------------------
(* StateDir for TLC: the instances differ only in their constants. *)
EXTENDS StateDir
=============================================================================
