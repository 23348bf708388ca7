----------------------------- MODULE ConnectionMC -----------------------------
(* The instance of Connection that TLC checks; its constants are in ConnectionMC.cfg:
   two messages and two packets. *)
EXTENDS Connection, TLC
===============================================================================
