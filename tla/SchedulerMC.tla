----------------------------- MODULE SchedulerMC -----------------------------
(***************************************************************************)
(* Instances of Scheduler for TLC.                                         *)
(***************************************************************************)
EXTENDS Scheduler
=============================================================================
