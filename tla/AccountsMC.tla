------------------------------ MODULE AccountsMC -------------------------------
(* The instance of Accounts that TLC checks; its constants are in
   AccountsMC.cfg. *)
EXTENDS Accounts, TLC
===============================================================================
