------------------------------ MODULE AutosendMC -------------------------------
(* The instance of Autosend that TLC checks; its constants are in
   AutosendMC.cfg. *)
EXTENDS Autosend, TLC
===============================================================================
