----------------------------- MODULE TaskExecutor -----------------------------
(***************************************************************************)
(* What the dispatcher promises to the threads that hand it tasks, without *)
(* its mutex, its condition variable and its list: tasks are taken one at  *)
(* a time, each accepted task is taken at most once, and the next task to  *)
(* be taken is the most recent of the urgent ones (addTask(task, true)) or,*)
(* when there is none, the oldest of the others.                           *)
(*                                                                         *)
(* Dispatcher.tla implements this specification with a std::list.          *)
(***************************************************************************)
EXTENDS Naturals

CONSTANT Tasks

VARIABLES
  status,   \* status[t]: where task t is in its life
  urgent,   \* the tasks that were submitted as urgent
  stamp,    \* stamp[t]: the rank of t in the order of acceptance
  clock     \* the number of tasks accepted so far

vars == <<status, urgent, stamp, clock>>

Pending == {t \in Tasks : status[t] = "pending"}
Taken   == {t \in Tasks : status[t] = "taken"}

(* t is to be taken before u. *)
Precedes(t, u) ==
  \/ t \in urgent /\ u \notin urgent
  \/ t \in urgent /\ u \in urgent /\ stamp[t] > stamp[u]
  \/ t \notin urgent /\ u \notin urgent /\ stamp[t] < stamp[u]

Init ==
  /\ status = [t \in Tasks |-> "new"]
  /\ urgent = {}
  /\ stamp = [t \in Tasks |-> 0]
  /\ clock = 0

Submit(t, isUrgent) ==
  /\ status[t] = "new"
  /\ status' = [status EXCEPT ![t] = "pending"]
  /\ urgent' = IF isUrgent THEN urgent \cup {t} ELSE urgent
  /\ clock' = clock + 1
  /\ stamp' = [stamp EXCEPT ![t] = clock + 1]

(* A task that is not accepted is dropped and never taken. *)
Refuse(t) ==
  /\ status[t] = "new"
  /\ status' = [status EXCEPT ![t] = "gone"]
  /\ UNCHANGED <<urgent, stamp, clock>>

Take(t) ==
  /\ status[t] = "pending"
  /\ Taken = {}
  /\ \A u \in Pending \ {t} : Precedes(t, u)
  /\ status' = [status EXCEPT ![t] = "taken"]
  /\ UNCHANGED <<urgent, stamp, clock>>

Finish(t) ==
  /\ status[t] = "taken"
  /\ status' = [status EXCEPT ![t] = "gone"]
  /\ UNCHANGED <<urgent, stamp, clock>>

Next ==
  \E t \in Tasks :
    \/ \E isUrgent \in BOOLEAN : Submit(t, isUrgent)
    \/ Refuse(t)
    \/ Take(t)
    \/ Finish(t)

Spec == Init /\ [][Next]_vars
===============================================================================
