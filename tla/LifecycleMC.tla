------------------------------ MODULE LifecycleMC ------------------------------
(* The instance of Lifecycle that TLC checks; its constant is in
   LifecycleMC.cfg. *)
EXTENDS Lifecycle, TLC
===============================================================================
