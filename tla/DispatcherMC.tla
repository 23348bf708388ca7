----------------------------- MODULE DispatcherMC -----------------------------
(* The instance of Dispatcher that TLC checks; its constants are in DispatcherMC.cfg:
   two client threads, three tasks and one stop task. *)
EXTENDS Dispatcher, TLC
===============================================================================
