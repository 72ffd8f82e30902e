------------------------------ MODULE MCReaper ------------------------------
(* Reaper for TLC: two orphans, so that signals merge, and a channel of    *)
(* one, so that they are dropped; two requests meet in routingSetup.       *)
EXTENDS Reaper
=============================================================================
