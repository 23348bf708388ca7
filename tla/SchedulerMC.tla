----------------------------- MODULE SchedulerMC ------------------------------
(* The instance of Scheduler that TLC checks; its constants are in SchedulerMC.cfg:
   two callers and three events on two identifiers. *)
EXTENDS Scheduler, TLC
===============================================================================
