--------------------------- MODULE DatabaseTasksMC ----------------------------
(* The instance of DatabaseTasks that TLC checks; its constants are in DatabaseTasksMC.cfg:
   two clients and three statements. *)
EXTENDS DatabaseTasks, TLC
===============================================================================
