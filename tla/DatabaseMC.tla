------------------------------ MODULE DatabaseMC -------------------------------
(* The instance of Database, and of the batches of Inserts, that TLC checks;
   its constants are in DatabaseMC.cfg.  A behaviour follows either the handle
   or a batch. *)
EXTENDS Database, Inserts, TLC

VARIABLE part

PartInit ==
  /\ part \in {"handle", "batch"}
  /\ Init
  /\ InsertsInit

PartNext ==
  /\ UNCHANGED part
  /\ \/ part = "handle" /\ Next /\ UNCHANGED insertVars
     \/ part = "batch" /\ InsertsNext /\ UNCHANGED vars

PartSpec ==
  /\ PartInit
  /\ [][PartNext]_<<part, vars, insertVars>>
  /\ Fairness
===============================================================================
