------------------------------ MODULE Scheduler -------------------------------
(***************************************************************************)
(* The scheduler thread (scheduler.cpp, scheduler.h): a priority queue of  *)
(* events ordered by the time they are due, the set of identifiers of the  *)
(* events that are still wanted, and one thread that sleeps until the      *)
(* earliest event is due and hands it to the dispatcher.                   *)
(*                                                                         *)
(* A critical section under eventLock is one step.  Event identifiers are  *)
(* generated modulo IdLimit (2^32 in the code), skipping 0.                *)
(***************************************************************************)
EXTENDS Naturals

CONSTANTS
  Clients,   \* the threads that call addEvent, stopEvent, stop and shutdown
  Events,    \* every SchedulerTask that may be created
  IdLimit,   \* number of values of uint32_t
  MaxTime,   \* bound on the clock and on due times
  None

ASSUME SchedulerAssumption ==
  /\ IdLimit \in Nat \ {0, 1}
  /\ MaxTime \in Nat
  /\ None \notin Events

VARIABLES
  threadState,  \* ThreadHolder::threadState
  eventList,    \* the events in Scheduler::eventList
  eventIds,     \* Scheduler::eventIds
  lastEventId,  \* Scheduler::lastEventId
  id,           \* id[e]: SchedulerTask::eventId
  cycle,        \* cycle[e]: SchedulerTask::getCycle(), when e is due
  stage,        \* stage[e]: where event e is in its life
  now,
  threadPc,     \* where the scheduler thread is in threadMain
  deadline,     \* until when it waits; MaxTime + 1 for ever
  popped,       \* the event it is about to hand to the dispatcher, or None
  callerPc,     \* callerPc[c]: what c still has to do after an unlock
  stopped       \* history: events for which stopEvent returned true

eventVars == <<eventList, eventIds, lastEventId, id, cycle, stage, stopped>>
threadVars == <<threadPc, deadline, popped>>
vars == <<threadState, eventList, eventIds, lastEventId, id, cycle, stage, now,
          threadPc, deadline, popped, callerPc, stopped>>

Forever == MaxTime + 1

Init ==
  /\ threadState = "TERMINATED"
  /\ eventList = {}
  /\ eventIds = {}
  /\ lastEventId = 0
  /\ id = [e \in Events |-> 0]
  /\ cycle = [e \in Events |-> 0]
  /\ stage = [e \in Events |-> "unborn"]
  /\ now = 0
  /\ threadPc = "unborn"
  /\ deadline = Forever
  /\ popped = None
  /\ callerPc = [c \in Clients |-> "idle"]
  /\ stopped = {}

(* The events one of which is eventList.top(). *)
TopEvents == {e \in eventList : \A f \in eventList : cycle[e] <= cycle[f]}

(* A notify_one reaches the thread only while it waits. *)
AfterNotify == IF threadPc = "waiting" THEN "woken" ELSE threadPc

-------------------------------------------------------------------------------
(* Callers *)

CanCall(c) == callerPc[c] = "idle" /\ threadPc # "unborn"

NextEventId == IF (lastEventId + 1) % IdLimit = 0 THEN 1 ELSE lastEventId + 1

(* Bound: fewer than 2^32 - 1 events are added while one is queued (the     *)
(* longest delay is 15 s), so that the next identifier is not in use.      *)
IdIsFree == \A e \in eventList : id[e] # NextEventId

(* do_signal: a new event that is not strictly the earliest stays below    *)
(* the top of the heap, and nobody is notified.                            *)
IsOnlyEvent(e, d) == eventList = {}
IsNewTop(e, d) == \A f \in eventList : d < cycle[f]

AcceptsAlways == TRUE
Accepts == threadState = "RUNNING"

Start ==
  /\ threadPc = "unborn"
  /\ threadState' = "RUNNING"
  /\ threadPc' = "check"
  /\ UNCHANGED <<eventVars, now, deadline, popped, callerPc>>

(* The time d was fixed when the task was created, some time ago.  A task  *)
(* is added once, so that its identifier is 0 when addEvent sees it.       *)
AddEvent(c, e, d) ==
  /\ CanCall(c)
  /\ stage[e] = "unborn"
  /\ \/ /\ Accepts
        /\ IdIsFree
        /\ lastEventId' = NextEventId
        /\ id' = [id EXCEPT ![e] = NextEventId]
        /\ cycle' = [cycle EXCEPT ![e] = d]
        /\ eventIds' = eventIds \cup {NextEventId}
        /\ eventList' = eventList \cup {e}
        /\ stage' = [stage EXCEPT ![e] = "queued"]
        /\ callerPc' = [callerPc EXCEPT ![c] = IF IsNewTop(e, d)
                                               THEN "signal" ELSE "idle"]
     \/ /\ ~Accepts
        /\ stage' = [stage EXCEPT ![e] = "deleted"]
        /\ UNCHANGED <<eventList, eventIds, lastEventId, id, cycle, callerPc>>
  /\ UNCHANGED <<threadState, now, threadVars, stopped>>

(* The last step of addEvent and of shutdown. *)
Notify(c) ==
  /\ callerPc[c] = "signal"
  /\ callerPc' = [callerPc EXCEPT ![c] = "idle"]
  /\ threadPc' = AfterNotify
  /\ UNCHANGED <<threadState, eventVars, now, deadline, popped>>

(* stopEvent only forgets the identifier; the event stays in the queue.    *)
StopEvent(c, i) ==
  /\ CanCall(c)
  /\ i \in eventIds
  /\ eventIds' = eventIds \ {i}
  /\ stopped' = stopped \cup {e \in eventList : id[e] = i}
  /\ UNCHANGED <<threadState, eventList, lastEventId, id, cycle, stage, now,
                 threadVars, callerPc>>

(* stop() tests nothing; the guard is that of its one call: setGameState   *)
(* makes it once, before Game::shutdown, which it queues, can end the      *)
(* scheduler's thread.                                                     *)
Stop(c) ==
  /\ CanCall(c)
  /\ threadState = "RUNNING"
  /\ threadState' = "CLOSING"
  /\ UNCHANGED <<eventVars, now, threadVars, callerPc>>

(* shutdown() sets the state before it takes the lock ... *)
Terminate(c) ==
  /\ CanCall(c)
  /\ threadState' = "TERMINATED"
  /\ callerPc' = [callerPc EXCEPT ![c] = "clearing"]
  /\ UNCHANGED <<eventVars, now, threadVars>>

(* ... then deletes the events under it, and notifies after releasing it.  *)
ClearIdsOnly ==
  /\ eventIds' = {}
  /\ UNCHANGED <<eventList, stage>>
ClearQueue ==
  /\ eventIds' = {}
  /\ eventList' = {}
  /\ stage' = [e \in Events |-> IF e \in eventList THEN "deleted" ELSE stage[e]]
Clear(c) ==
  /\ callerPc[c] = "clearing"
  /\ ClearQueue
  /\ callerPc' = [callerPc EXCEPT ![c] = "signal"]
  /\ UNCHANGED <<threadState, lastEventId, id, cycle, now, threadVars, stopped>>

-------------------------------------------------------------------------------
(* The scheduler thread *)

Check ==
  /\ threadPc = "check"
  /\ threadPc' = IF threadState = "TERMINATED" THEN "done" ELSE "lock"
  /\ UNCHANGED <<threadState, eventVars, now, deadline, popped, callerPc>>

(* wait() when there is no event, wait_until(top()->getCycle()) otherwise. *)
Wait ==
  /\ threadPc = "lock"
  /\ threadPc' = "waiting"
  /\ \/ eventList = {} /\ deadline' = Forever
     \/ \E e \in TopEvents : deadline' = cycle[e]
  /\ UNCHANGED <<threadState, eventVars, now, popped, callerPc>>

Timeout ==
  /\ threadPc = "waiting"
  /\ deadline <= now
  /\ threadPc' = "timedout"
  /\ UNCHANGED <<threadState, eventVars, now, deadline, popped, callerPc>>

SpuriousWakeup ==
  /\ threadPc = "waiting"
  /\ threadPc' = "woken"
  /\ UNCHANGED <<threadState, eventVars, now, deadline, popped, callerPc>>

(* A thread that was notified after its deadline may be told either. *)
MayReport(timeout) ==
  \/ ~timeout /\ threadPc = "woken"
  \/ timeout /\ threadPc = "timedout"
  \/ timeout /\ threadPc = "woken" /\ deadline <= now

(* Whether a popped event is still wanted: its identifier is active.       *)
IsWantedWithoutLookup(e) == TRUE
IsWanted(e) == id[e] \in eventIds

(* The lock is held again: the event that is now on top is taken, which    *)
(* need not be the one the thread went to sleep for.                       *)
PopEvent ==
  /\ threadPc \in {"woken", "timedout"}
  /\ MayReport(TRUE)
  /\ \E e \in TopEvents :
       /\ eventList' = eventList \ {e}
       /\ \/ /\ ~IsWanted(e)
             /\ stage' = [stage EXCEPT ![e] = "deleted"]
             /\ threadPc' = "check"
             /\ UNCHANGED <<eventIds, popped>>
          \/ /\ IsWanted(e)
             /\ eventIds' = eventIds \ {id[e]}
             /\ stage' = [stage EXCEPT ![e] = "popped"]
             /\ popped' = e
             /\ threadPc' = "dispatch"
  /\ UNCHANGED <<threadState, lastEventId, id, cycle, now, deadline, callerPc,
                 stopped>>

Resume ==
  /\ threadPc \in {"woken", "timedout"}
  /\ MayReport(FALSE) \/ eventList = {}
  /\ threadPc' = "check"
  /\ UNCHANGED <<threadState, eventVars, now, deadline, popped, callerPc>>

(* g_dispatcher.addTask(task, true) *)
Dispatch ==
  /\ threadPc = "dispatch"
  /\ stage' = [stage EXCEPT ![popped] = "dispatched"]
  /\ popped' = None
  /\ threadPc' = "check"
  /\ UNCHANGED <<threadState, eventList, eventIds, lastEventId, id, cycle, now,
                 deadline, callerPc, stopped>>

Tick ==
  /\ now < MaxTime
  /\ now' = now + 1
  /\ UNCHANGED <<threadState, eventVars, threadVars, callerPc>>

ThreadStep == Check \/ Wait \/ PopEvent \/ Resume \/ Dispatch

Next ==
  \/ Start
  \/ \E c \in Clients :
       \/ \E e \in Events, d \in 0..MaxTime : AddEvent(c, e, d)
       \/ Notify(c)
       \/ \E i \in 1..IdLimit - 1 : StopEvent(c, i)
       \/ Stop(c)
       \/ Terminate(c)
       \/ Clear(c)
  \/ ThreadStep
  \/ Timeout
  \/ SpuriousWakeup
  \/ Tick

(* Time passes, threads are scheduled, a call that has begun is finished,  *)
(* and a thread whose deadline has passed is not woken for no reason for   *)
(* ever.                                                                   *)
Fairness ==
  /\ WF_vars(Start)
  /\ WF_vars(ThreadStep)
  /\ SF_vars(Timeout)
  /\ WF_vars(Tick)
  /\ \A c \in Clients : WF_vars(Notify(c)) /\ WF_vars(Clear(c))

Spec == Init /\ [][Next]_vars
FairSpec == Spec /\ Fairness

-------------------------------------------------------------------------------
(* Properties *)

(* Each variable stays in its type; an event is in the queue exactly while *)
(* it is queued, and in the thread's hands exactly while it is popped.     *)
TypeOK ==
  /\ threadState \in {"RUNNING", "CLOSING", "TERMINATED"}
  /\ eventList \subseteq Events
  /\ eventIds \subseteq 1..IdLimit - 1
  /\ lastEventId \in 0..IdLimit - 1
  /\ id \in [Events -> 0..IdLimit - 1]
  /\ cycle \in [Events -> 0..MaxTime]
  /\ stage \in [Events -> {"unborn", "queued", "popped", "dispatched",
                           "deleted"}]
  /\ now \in 0..MaxTime
  /\ threadPc \in {"unborn", "check", "lock", "waiting", "woken", "timedout",
                   "dispatch", "done"}
  /\ deadline \in 0..Forever
  /\ popped \in Events \cup {None}
  /\ callerPc \in [Clients -> {"idle", "signal", "clearing"}]
  /\ stopped \subseteq Events
  /\ \A e \in Events : e \in eventList <=> stage[e] = "queued"
  /\ \A e \in Events : e = popped <=> stage[e] = "popped"
  /\ popped # None <=> threadPc = "dispatch"

(* addEvent notifies only when the new event is the earliest.  That is     *)
(* enough: while the thread sleeps past the time some event is due, a      *)
(* caller is on its way to notify it.                                      *)
NoOversleep ==
  \A e \in eventList :
    threadPc = "waiting" /\ deadline > cycle[e] =>
      \E c \in Clients : callerPc[c] = "signal"

(* The active identifiers are exactly those of the queued events that      *)
(* nobody stopped, also after lastEventId has wrapped around.              *)
ActiveIdsMatchQueue ==
  /\ TypeOK
  /\ eventIds = {id[e] : e \in eventList \ stopped}

(* An event that is due leaves the queue: it is handed over, found stopped *)
(* or deleted by shutdown.  shutdown() sets the state before it takes the  *)
(* lock and addEvent tests it under the lock, so that none slips in when   *)
(* the queue has been emptied and the thread has ended.                    *)
DueEventLeavesQueue ==
  \A e \in Events : stage[e] = "queued" ~> stage[e] # "queued"

(* shutdown() ends the thread; main() and the signal handler join it.      *)
ShutdownEndsThread ==
  threadState = "TERMINATED" /\ threadPc # "unborn" ~> threadPc = "done"

(* The life of an event as its owner sees it. *)
Status ==
  [e \in Events |-> CASE stage[e] = "unborn" -> "idle"
                      [] stage[e] \in {"popped", "dispatched"} -> "fired"
                      [] stage[e] = "queued" /\ e \notin stopped -> "armed"
                      [] stage[e] = "deleted" /\ e \notin stopped -> "dropped"
                      [] OTHER -> "cancelled"]
Timers == INSTANCE TimerService WITH status <- Status, due <- cycle

(* Stopping by identifier, sleeping and clearing at shutdown together give *)
(* the timers TimerService promises: never early, never after a successful *)
(* stopEvent, lost only at shutdown.                                       *)
TimerSpec == Timers!Spec
===============================================================================
