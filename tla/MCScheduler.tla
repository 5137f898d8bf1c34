---------------------------- MODULE MCScheduler ----------------------------
(* Three requests for two slots: one parks while the others hold slots. *)
EXTENDS Scheduler
=============================================================================
