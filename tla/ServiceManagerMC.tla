--------------------------- MODULE ServiceManagerMC ---------------------------
(* The instance of ServiceManager that TLC checks; its constants are in ServiceManagerMC.cfg:
   two ports and three protocols. *)
EXTENDS ServiceManager, TLC
===============================================================================
