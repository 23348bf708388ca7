----------------------------- MODULE TimerService -----------------------------
(***************************************************************************)
(* What the scheduler promises to those who arm events: an event fires at  *)
(* most once and never before it is due; one that was cancelled in time    *)
(* never fires; and an armed event disappears without firing only when it  *)
(* is cancelled or the whole service is closed.                            *)
(*                                                                         *)
(* Scheduler.tla implements this specification with a priority queue, a    *)
(* set of active identifiers and a thread that sleeps.                     *)
(***************************************************************************)
EXTENDS Naturals

CONSTANT Events

VARIABLES
  status,  \* status[e]: where event e is in its life
  due,     \* due[e]: when e may fire
  now

vars == <<status, due, now>>

Init ==
  /\ status = [e \in Events |-> "idle"]
  /\ due = [e \in Events |-> 0]
  /\ now = 0

(* Some due time, possibly in the past. *)
Arm(e) ==
  /\ status[e] = "idle"
  /\ status' = [status EXCEPT ![e] = "armed"]
  /\ due'[e] \in Nat
  /\ due' = [due EXCEPT ![e] = due'[e]]
  /\ UNCHANGED now

(* The service is closing and takes no more events. *)
Refuse(e) ==
  /\ status[e] = "idle"
  /\ status' = [status EXCEPT ![e] = "dropped"]
  /\ UNCHANGED <<due, now>>

Fire(e) ==
  /\ status[e] = "armed"
  /\ due[e] <= now
  /\ status' = [status EXCEPT ![e] = "fired"]
  /\ UNCHANGED <<due, now>>

Cancel(e) ==
  /\ status[e] = "armed"
  /\ status' = [status EXCEPT ![e] = "cancelled"]
  /\ UNCHANGED <<due, now>>

(* Every event that is still armed is dropped at once. *)
Close ==
  /\ status' = [e \in Events |-> IF status[e] = "armed" THEN "dropped"
                                 ELSE status[e]]
  /\ UNCHANGED <<due, now>>

Tick ==
  /\ now' = now + 1
  /\ UNCHANGED <<status, due>>

Next ==
  \/ \E e \in Events :
       \/ Arm(e)
       \/ Refuse(e)
       \/ Fire(e)
       \/ Cancel(e)
  \/ Close
  \/ Tick

Spec == Init /\ [][Next]_vars
===============================================================================
