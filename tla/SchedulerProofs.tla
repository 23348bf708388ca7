--------------------------- MODULE SchedulerProofs ----------------------------
(***************************************************************************)
(* Proofs about Scheduler for any number of clients, events, identifiers   *)
(* and due times.                                                          *)
(***************************************************************************)
EXTENDS Scheduler, TLAPS

-------------------------------------------------------------------------------
(* Types *)

(* Identifiers wrap around and skip 0. *)
LEMMA NextEventIdType ==
  ASSUME lastEventId \in 0..IdLimit - 1
  PROVE  NextEventId \in 1..IdLimit - 1
<1>1. IdLimit \in Nat /\ IdLimit >= 2
  BY SchedulerAssumption
<1>2. CASE lastEventId + 1 = IdLimit
  <2>1. (lastEventId + 1) % IdLimit = 0
    BY <1>1, <1>2
  <2> QED
    BY <1>1, <2>1 DEF NextEventId
<1>3. CASE lastEventId + 1 # IdLimit
  BY <1>1, <1>3 DEF NextEventId
<1> QED
  BY <1>2, <1>3

(* Every step keeps the types. *)
LEMMA TypeInductive == TypeOK /\ [Next]_vars => TypeOK'
<1> SUFFICES ASSUME TypeOK, [Next]_vars PROVE TypeOK'
  OBVIOUS
<1> USE SchedulerAssumption
<1>1. CASE Start
  BY <1>1 DEF TypeOK, Start, eventVars
<1>2. ASSUME NEW c \in Clients, NEW e \in Events, NEW d \in 0..MaxTime,
             AddEvent(c, e, d)
      PROVE  TypeOK'
  <2>1. NextEventId \in 1..IdLimit - 1
    BY NextEventIdType DEF TypeOK
  <2>2. CASE Accepts
    <3>1. /\ stage[e] = "unborn"
          /\ lastEventId' = NextEventId
          /\ id' = [id EXCEPT ![e] = NextEventId]
          /\ cycle' = [cycle EXCEPT ![e] = d]
          /\ eventIds' = eventIds \cup {NextEventId}
          /\ eventList' = eventList \cup {e}
          /\ stage' = [stage EXCEPT ![e] = "queued"]
          /\ UNCHANGED <<threadState, now, threadPc, deadline, popped, stopped>>
      BY <1>2, <2>2 DEF AddEvent, threadVars
    <3>2. callerPc' \in [Clients -> {"idle", "signal", "clearing"}]
      <4>1. callerPc' = [callerPc EXCEPT ![c] = IF IsNewTop(e, d)
                                                THEN "signal" ELSE "idle"]
        BY <1>2, <2>2 DEF AddEvent
      <4> QED
        BY <4>1 DEF TypeOK
    <3>3. /\ lastEventId' \in 0..IdLimit - 1
          /\ id' \in [Events -> 0..IdLimit - 1]
          /\ cycle' \in [Events -> 0..MaxTime]
          /\ eventIds' \subseteq 1..IdLimit - 1
      BY <2>1, <3>1 DEF TypeOK
    <3>4. /\ stage' \in [Events -> {"unborn", "queued", "popped", "dispatched",
                                  "deleted"}]
          /\ eventList' \subseteq Events
          /\ \A f \in Events : f \in eventList' <=> stage'[f] = "queued"
      BY <3>1 DEF TypeOK
    <3>5. \A f \in Events : f = popped' <=> stage'[f] = "popped"
      BY <3>1 DEF TypeOK
    <3>6. /\ threadState' \in {"RUNNING", "CLOSING", "TERMINATED"}
          /\ now' \in 0..MaxTime
          /\ threadPc' \in {"unborn", "check", "lock", "waiting", "woken",
                            "timedout", "dispatch", "done"}
          /\ deadline' \in 0..Forever
          /\ popped' \in Events \cup {None}
          /\ stopped' \subseteq Events
          /\ popped' # None <=> threadPc' = "dispatch"
      BY <3>1 DEF TypeOK, Forever
    <3> QED
      BY <3>2, <3>3, <3>4, <3>5, <3>6 DEF TypeOK, Forever
  <2>3. CASE ~Accepts
    BY <1>2, <2>3 DEF TypeOK, AddEvent, threadVars
  <2> QED
    BY <2>2, <2>3
<1>3. ASSUME NEW c \in Clients, Notify(c) PROVE TypeOK'
  BY <1>3 DEF TypeOK, Notify, AfterNotify, eventVars
<1>4. ASSUME NEW c \in Clients, NEW i \in 1..IdLimit - 1, StopEvent(c, i)
      PROVE  TypeOK'
  BY <1>4 DEF TypeOK, StopEvent, threadVars
<1>5. ASSUME NEW c \in Clients, Stop(c) PROVE TypeOK'
  BY <1>5 DEF TypeOK, Stop, eventVars, threadVars
<1>6. ASSUME NEW c \in Clients, Terminate(c) PROVE TypeOK'
  BY <1>6 DEF TypeOK, Terminate, eventVars, threadVars
<1>7. ASSUME NEW c \in Clients, Clear(c) PROVE TypeOK'
  BY <1>7 DEF TypeOK, Clear, ClearQueue, threadVars
<1>8. CASE Check
  BY <1>8 DEF TypeOK, Check, eventVars
<1>9. CASE Wait
  BY <1>9 DEF TypeOK, Wait, TopEvents, Forever, eventVars
<1>10. CASE PopEvent
  <2> PICK e \in TopEvents :
        /\ eventList' = eventList \ {e}
        /\ \/ /\ ~IsWanted(e)
              /\ stage' = [stage EXCEPT ![e] = "deleted"]
              /\ threadPc' = "check"
              /\ UNCHANGED <<eventIds, popped>>
           \/ /\ IsWanted(e)
              /\ eventIds' = eventIds \ {id[e]}
              /\ stage' = [stage EXCEPT ![e] = "popped"]
              /\ popped' = e
              /\ threadPc' = "dispatch"
    BY <1>10 DEF PopEvent
  <2>1. e \in eventList /\ e \in Events /\ popped = None
    BY <1>10 DEF TypeOK, TopEvents, PopEvent
  <2>2. UNCHANGED <<threadState, lastEventId, id, cycle, now, deadline,
                    callerPc, stopped>>
    BY <1>10 DEF PopEvent
  <2>3. /\ stage' \in [Events -> {"unborn", "queued", "popped", "dispatched",
                                  "deleted"}]
        /\ eventIds' \subseteq 1..IdLimit - 1
        /\ eventList' \subseteq Events
        /\ popped' \in Events \cup {None}
        /\ threadPc' \in {"check", "dispatch"}
        /\ popped' # None <=> threadPc' = "dispatch"
    BY <2>1 DEF TypeOK
  <2>4. \A f \in Events : f \in eventList' <=> stage'[f] = "queued"
    BY <2>1 DEF TypeOK
  <2>5. \A f \in Events : f = popped' <=> stage'[f] = "popped"
    BY <2>1 DEF TypeOK
  <2> QED
    BY <2>2, <2>3, <2>4, <2>5 DEF TypeOK, Forever
<1>11. CASE Resume
  BY <1>11 DEF TypeOK, Resume, eventVars
<1>12. CASE Dispatch
  <2>1. popped \in Events /\ popped # None
    BY <1>12 DEF TypeOK, Dispatch
  <2>2. stage' \in [Events -> {"unborn", "queued", "popped", "dispatched",
                               "deleted"}]
    BY <1>12, <2>1 DEF TypeOK, Dispatch
  <2>3. /\ \A e \in Events : e \in eventList' <=> stage'[e] = "queued"
        /\ \A e \in Events : e = popped' <=> stage'[e] = "popped"
    BY <1>12, <2>1 DEF TypeOK, Dispatch
  <2> QED
    BY <1>12, <2>2, <2>3 DEF TypeOK, Dispatch
<1>13. CASE Timeout
  BY <1>13 DEF TypeOK, Timeout, eventVars
<1>14. CASE SpuriousWakeup
  BY <1>14 DEF TypeOK, SpuriousWakeup, eventVars
<1>15. CASE Tick
  BY <1>15 DEF TypeOK, Tick, eventVars, threadVars
<1>16. CASE UNCHANGED vars
  BY <1>16 DEF TypeOK, vars
<1> QED
  BY <1>1, <1>2, <1>3, <1>4, <1>5, <1>6, <1>7, <1>8, <1>9, <1>10, <1>11, <1>12,
     <1>13, <1>14, <1>15, <1>16 DEF Next, ThreadStep

(* The variables of the scheduler keep their types; an event is in the     *)
(* queue, or in the thread's hands, exactly while its stage says so.       *)
THEOREM SchedulerTypes == Spec => []TypeOK
<1>1. Init => TypeOK
  BY SchedulerAssumption DEF Init, TypeOK, Forever
<1> QED
  BY <1>1, TypeInductive, PTL DEF Spec

-------------------------------------------------------------------------------
(* Sleeping *)

(* A new event that does not beat every other is due no earlier than one   *)
(* that is in the queue already, for which the claim holds by assumption.  *)
LEMMA NoOversleepInductive ==
  TypeOK /\ NoOversleep /\ [Next]_vars => NoOversleep'
<1> SUFFICES ASSUME TypeOK, NoOversleep, [Next]_vars PROVE NoOversleep'
  OBVIOUS
<1> USE SchedulerAssumption
<1>1. CASE Start
  BY <1>1 DEF NoOversleep, Start
<1>2. ASSUME NEW c \in Clients, NEW e \in Events, NEW d \in 0..MaxTime,
             AddEvent(c, e, d)
      PROVE  NoOversleep'
  <2> SUFFICES ASSUME NEW f \in eventList',
                      (threadPc = "waiting" /\ deadline > cycle[f])'
               PROVE  \E b \in Clients : callerPc'[b] = "signal"
    BY DEF NoOversleep
  <2>1. /\ callerPc[c] = "idle"
        /\ e \notin eventList
        /\ threadPc = "waiting" /\ deadline' = deadline
    BY <1>2 DEF AddEvent, CanCall, TypeOK, threadVars
  <2>2. CASE Accepts
    <3>1. /\ cycle' = [cycle EXCEPT ![e] = d]
          /\ eventList' = eventList \cup {e}
          /\ callerPc' = [callerPc EXCEPT ![c] = IF IsNewTop(e, d)
                                                 THEN "signal" ELSE "idle"]
      BY <1>2, <2>2 DEF AddEvent
    <3>2. CASE IsNewTop(e, d)
      BY <3>1, <3>2 DEF TypeOK
    <3>3. CASE ~IsNewTop(e, d)
      <4>1. PICK g \in eventList : ~(d < cycle[g])
        BY <3>3 DEF IsNewTop
      <4>2. \E h \in eventList : deadline > cycle[h]
        <5>1. CASE f = e
          BY <2>1, <3>1, <4>1, <5>1 DEF TypeOK, Forever
        <5>2. CASE f # e
          BY <2>1, <3>1, <5>2 DEF TypeOK
        <5> QED
          BY <5>1, <5>2
      <4>3. PICK b \in Clients : callerPc[b] = "signal"
        BY <2>1, <4>2 DEF NoOversleep
      <4> QED
        BY <2>1, <3>1, <4>3 DEF TypeOK
    <3> QED
      BY <3>2, <3>3
  <2>3. CASE ~Accepts
    BY <1>2, <2>1, <2>3 DEF AddEvent, NoOversleep
  <2> QED
    BY <2>2, <2>3
<1>3. ASSUME NEW c \in Clients, Notify(c) PROVE NoOversleep'
  BY <1>3 DEF NoOversleep, Notify, AfterNotify
<1>4. ASSUME NEW c \in Clients, NEW i \in 1..IdLimit - 1, StopEvent(c, i)
      PROVE  NoOversleep'
  BY <1>4 DEF NoOversleep, StopEvent, threadVars
<1>5. ASSUME NEW c \in Clients, Stop(c) PROVE NoOversleep'
  BY <1>5 DEF NoOversleep, Stop, eventVars, threadVars
<1>6. ASSUME NEW c \in Clients, Terminate(c) PROVE NoOversleep'
  BY <1>6 DEF TypeOK, NoOversleep, Terminate, CanCall, eventVars, threadVars
<1>7. ASSUME NEW c \in Clients, Clear(c) PROVE NoOversleep'
  BY <1>7 DEF NoOversleep, Clear, ClearQueue
<1>8. CASE Check
  BY <1>8 DEF NoOversleep, Check
<1>9. CASE Wait
  <2>1. CASE eventList = {}
    BY <1>9, <2>1 DEF NoOversleep, Wait, eventVars
  <2>2. CASE eventList # {}
    <3>1. PICK e \in TopEvents : deadline' = cycle[e]
      BY <1>9, <2>2 DEF Wait
    <3>2. \A f \in eventList : ~(deadline' > cycle[f])
      BY <3>1 DEF TopEvents, TypeOK
    <3> QED
      BY <1>9, <3>2 DEF NoOversleep, Wait, eventVars
  <2> QED
    BY <2>1, <2>2
<1>10. CASE PopEvent
  BY <1>10 DEF NoOversleep, PopEvent
<1>11. CASE Resume
  BY <1>11 DEF NoOversleep, Resume
<1>12. CASE Dispatch
  BY <1>12 DEF NoOversleep, Dispatch
<1>13. CASE Timeout
  BY <1>13 DEF NoOversleep, Timeout
<1>14. CASE SpuriousWakeup
  BY <1>14 DEF NoOversleep, SpuriousWakeup
<1>15. CASE Tick
  BY <1>15 DEF NoOversleep, Tick, eventVars, threadVars
<1>16. CASE UNCHANGED vars
  BY <1>16 DEF NoOversleep, vars
<1> QED
  BY <1>1, <1>2, <1>3, <1>4, <1>5, <1>6, <1>7, <1>8, <1>9, <1>10, <1>11, <1>12,
     <1>13, <1>14, <1>15, <1>16 DEF Next, ThreadStep

(* While the thread sleeps past the time some event is due, a caller is on *)
(* its way to notify it, although addEvent notifies only for an event that *)
(* is earlier than all others.                                             *)
THEOREM NoOversleepHolds == Spec => []NoOversleep
<1>1. Init => NoOversleep
  BY DEF Init, NoOversleep
<1> QED
  BY <1>1, NoOversleepInductive, SchedulerTypes, PTL DEF Spec

-------------------------------------------------------------------------------
(* Identifiers *)

(* Events in the queue have different identifiers, and an event that was   *)
(* stopped had been added before.                                          *)
IdsInv ==
  /\ \A e \in stopped : stage[e] # "unborn"
  /\ \A e, f \in eventList : id[e] = id[f] => e = f
  /\ eventIds = {id[e] : e \in eventList \ stopped}

(* The event that a successful stopEvent is about. *)
LEMMA ActiveEvent ==
  ASSUME IdsInv, NEW i \in eventIds
  PROVE  \E e \in eventList \ stopped :
           id[e] = i /\ \A f \in eventList : id[f] = i => f = e
BY DEF IdsInv

(* An event is wanted when it is popped exactly if it was not stopped.     *)
LEMMA WantedIsNotStopped ==
  ASSUME IdsInv, NEW e \in eventList
  PROVE  IsWanted(e) <=> e \notin stopped
BY DEF IdsInv, IsWanted

(* What a step does to the queue keeps the identifiers in order. *)
LEMMA IdsInductive == TypeOK /\ IdsInv /\ [Next]_vars => IdsInv'
<1> SUFFICES ASSUME TypeOK, IdsInv, [Next]_vars PROVE IdsInv'
  OBVIOUS
<1>1. CASE Start
  BY <1>1 DEF IdsInv, Start, eventVars
<1>2. ASSUME NEW c \in Clients, NEW e \in Events, NEW d \in 0..MaxTime,
             AddEvent(c, e, d)
      PROVE  IdsInv'
  <2>1. e \notin eventList /\ e \notin stopped /\ stopped' = stopped
    BY <1>2 DEF AddEvent, TypeOK, IdsInv
  <2>2. CASE Accepts
    <3>1. /\ id' = [id EXCEPT ![e] = NextEventId]
          /\ eventIds' = eventIds \cup {NextEventId}
          /\ eventList' = eventList \cup {e}
          /\ stage' = [stage EXCEPT ![e] = "queued"]
          /\ \A f \in eventList : id[f] # NextEventId
      BY <1>2, <2>2 DEF AddEvent, IdIsFree
    <3>2. /\ id'[e] = NextEventId
          /\ \A f \in eventList : f \in Events /\ f # e /\ id'[f] = id[f]
      BY <2>1, <3>1 DEF TypeOK
    <3>3. \A f \in stopped' : stage'[f] # "unborn"
      BY <2>1, <3>1 DEF TypeOK, IdsInv
    <3>4. \A f, g \in eventList' : id'[f] = id'[g] => f = g
      BY <3>1, <3>2 DEF IdsInv
    <3>5. eventIds' = {id'[f] : f \in eventList' \ stopped'}
      BY <2>1, <3>1, <3>2 DEF IdsInv
    <3> QED
      BY <3>3, <3>4, <3>5 DEF IdsInv
  <2>3. CASE ~Accepts
    BY <1>2, <2>1, <2>3 DEF AddEvent, TypeOK, IdsInv
  <2> QED
    BY <2>2, <2>3
<1>3. ASSUME NEW c \in Clients, Notify(c) PROVE IdsInv'
  BY <1>3 DEF IdsInv, Notify, eventVars
<1>4. ASSUME NEW c \in Clients, NEW i \in 1..IdLimit - 1, StopEvent(c, i)
      PROVE  IdsInv'
  <2>1. /\ eventIds' = eventIds \ {i}
        /\ stopped' = stopped \cup {e \in eventList : id[e] = i}
        /\ UNCHANGED <<id, eventList, stage>>
    BY <1>4 DEF StopEvent
  <2>2. \A e \in stopped' : stage'[e] # "unborn"
    BY <2>1 DEF IdsInv, TypeOK
  <2>3. eventIds' = {id'[e] : e \in eventList' \ stopped'}
    BY <2>1 DEF IdsInv
  <2> QED
    BY <2>1, <2>2, <2>3 DEF IdsInv
<1>5. ASSUME NEW c \in Clients, Stop(c) PROVE IdsInv'
  BY <1>5 DEF IdsInv, Stop, eventVars
<1>6. ASSUME NEW c \in Clients, Terminate(c) PROVE IdsInv'
  BY <1>6 DEF IdsInv, Terminate, eventVars
<1>7. ASSUME NEW c \in Clients, Clear(c) PROVE IdsInv'
  <2>1. /\ eventIds' = {} /\ eventList' = {} /\ stopped' = stopped
        /\ stage' = [e \in Events |-> IF e \in eventList THEN "deleted"
                                      ELSE stage[e]]
    BY <1>7 DEF Clear, ClearQueue
  <2>2. \A e \in stopped' : stage'[e] # "unborn"
    BY <2>1 DEF IdsInv, TypeOK
  <2> QED
    BY <2>1, <2>2 DEF IdsInv
<1>8. CASE Check
  BY <1>8 DEF IdsInv, Check, eventVars
<1>9. CASE Wait
  BY <1>9 DEF IdsInv, Wait, eventVars
<1>10. CASE PopEvent
  <2>1. PICK e \in TopEvents :
          /\ eventList' = eventList \ {e}
          /\ \/ /\ ~IsWanted(e)
                /\ stage' = [stage EXCEPT ![e] = "deleted"]
                /\ eventIds' = eventIds
             \/ /\ IsWanted(e)
                /\ eventIds' = eventIds \ {id[e]}
                /\ stage' = [stage EXCEPT ![e] = "popped"]
    BY <1>10 DEF PopEvent
  <2>2. e \in eventList /\ e \in Events /\ UNCHANGED <<id, stopped>>
    BY <1>10 DEF PopEvent, TopEvents, TypeOK
  <2>3. IsWanted(e) <=> e \notin stopped
    BY <2>2, WantedIsNotStopped
  <2>4. \A f \in stopped' : stage'[f] # "unborn"
    BY <2>1, <2>2 DEF IdsInv, TypeOK
  <2>5. eventIds' = {id'[f] : f \in eventList' \ stopped'}
    <3>1. CASE IsWanted(e)
      BY <2>1, <2>2, <3>1 DEF IdsInv
    <3>2. CASE ~IsWanted(e)
      <4>1. eventList' \ stopped' = eventList \ stopped
        BY <2>1, <2>2, <2>3, <3>2
      <4> QED
        BY <2>1, <2>2, <3>2, <4>1 DEF IdsInv
    <3> QED
      BY <3>1, <3>2
  <2> QED
    BY <2>1, <2>2, <2>4, <2>5 DEF IdsInv
<1>11. CASE Resume
  BY <1>11 DEF IdsInv, Resume, eventVars
<1>12. CASE Dispatch
  <2>1. /\ stage' = [stage EXCEPT ![popped] = "dispatched"]
        /\ UNCHANGED <<id, eventIds, eventList, stopped>>
    BY <1>12 DEF Dispatch
  <2> QED
    BY <2>1 DEF IdsInv, TypeOK
<1>13. CASE Timeout
  BY <1>13 DEF IdsInv, Timeout, eventVars
<1>14. CASE SpuriousWakeup
  BY <1>14 DEF IdsInv, SpuriousWakeup, eventVars
<1>15. CASE Tick
  BY <1>15 DEF IdsInv, Tick, eventVars
<1>16. CASE UNCHANGED vars
  BY <1>16 DEF IdsInv, vars
<1> QED
  BY <1>1, <1>2, <1>3, <1>4, <1>5, <1>6, <1>7, <1>8, <1>9, <1>10, <1>11, <1>12,
     <1>13, <1>14, <1>15, <1>16 DEF Next, ThreadStep

(* Identifiers stay in order for ever. *)
LEMMA IdsInvariant == Spec => []IdsInv
<1>1. Init => IdsInv
  BY DEF Init, IdsInv
<1> QED
  BY <1>1, IdsInductive, SchedulerTypes, PTL DEF Spec

(* The active identifiers are exactly those of the queued events that      *)
(* nobody stopped, also after lastEventId has wrapped around.              *)
THEOREM ActiveIdsHold == Spec => []ActiveIdsMatchQueue
<1>1. TypeOK /\ IdsInv => ActiveIdsMatchQueue
  BY DEF IdsInv, ActiveIdsMatchQueue
<1> QED
  BY <1>1, SchedulerTypes, IdsInvariant, PTL

-------------------------------------------------------------------------------
(* Refinement of TimerService *)

Asleep == threadPc \in {"waiting", "woken", "timedout"}

(* A thread that went to sleep for an event keeps an event that is due no  *)
(* later, until shutdown() has emptied the queue for good; it wakes up     *)
(* without being notified only when its deadline has passed.               *)
DeadlineInv ==
  /\ threadPc = "unborn" => \A c \in Clients : callerPc[c] # "clearing"
  /\ \A c \in Clients : callerPc[c] = "clearing" => threadState = "TERMINATED"
  /\ Asleep =>
       \/ deadline = Forever
       \/ threadState = "TERMINATED" /\ eventList = {}
       \/ \E e \in eventList : cycle[e] <= deadline
  /\ threadPc = "timedout" => deadline <= now

(* Every step keeps what the thread's deadline stands for. *)
LEMMA DeadlineInductive == TypeOK /\ DeadlineInv /\ [Next]_vars => DeadlineInv'
<1> SUFFICES ASSUME TypeOK, DeadlineInv, [Next]_vars PROVE DeadlineInv'
  OBVIOUS
<1> USE SchedulerAssumption
<1>1. CASE Start
  BY <1>1 DEF DeadlineInv, Asleep, Start, eventVars
<1>2. ASSUME NEW c \in Clients, NEW e \in Events, NEW d \in 0..MaxTime,
             AddEvent(c, e, d)
      PROVE  DeadlineInv'
  <2>1. /\ threadPc # "unborn" /\ e \notin eventList
        /\ UNCHANGED <<threadState, threadPc, deadline, now>>
    BY <1>2 DEF AddEvent, CanCall, TypeOK, threadVars
  <2>2. CASE Accepts
    <3>1. /\ cycle' = [cycle EXCEPT ![e] = d]
          /\ eventList' = eventList \cup {e}
          /\ callerPc' = [callerPc EXCEPT ![c] = IF IsNewTop(e, d)
                                                 THEN "signal" ELSE "idle"]
      BY <1>2, <2>2 DEF AddEvent
    <3>2. threadState = "RUNNING"
      BY <2>2 DEF Accepts
    <3>3. \A b \in Clients : callerPc'[b] # "clearing"
      BY <3>1, <3>2 DEF DeadlineInv, TypeOK
    <3>4. \A f \in eventList : f \in eventList' /\ cycle'[f] = cycle[f]
      BY <2>1, <3>1 DEF TypeOK
    <3>5. Asleep => \/ deadline = Forever
                    \/ \E f \in eventList' : cycle'[f] <= deadline
      BY <3>2, <3>4 DEF DeadlineInv
    <3> QED
      BY <2>1, <3>3, <3>5 DEF DeadlineInv, Asleep, Forever
  <2>3. CASE ~Accepts
    BY <1>2, <2>1, <2>3 DEF AddEvent, DeadlineInv, Asleep, Forever
  <2> QED
    BY <2>2, <2>3
<1>3. ASSUME NEW c \in Clients, Notify(c) PROVE DeadlineInv'
  BY <1>3 DEF TypeOK, DeadlineInv, Asleep, Notify, AfterNotify, Forever, eventVars
<1>4. ASSUME NEW c \in Clients, NEW i \in 1..IdLimit - 1, StopEvent(c, i)
      PROVE  DeadlineInv'
  BY <1>4 DEF DeadlineInv, Asleep, StopEvent, Forever, threadVars
<1>5. ASSUME NEW c \in Clients, Stop(c) PROVE DeadlineInv'
  BY <1>5 DEF DeadlineInv, Asleep, Stop, Forever, eventVars, threadVars
<1>6. ASSUME NEW c \in Clients, Terminate(c) PROVE DeadlineInv'
  BY <1>6 DEF TypeOK, DeadlineInv, Asleep, Terminate, CanCall, Forever, eventVars,
              threadVars
<1>7. ASSUME NEW c \in Clients, Clear(c) PROVE DeadlineInv'
  <2>1. /\ threadState = "TERMINATED" /\ threadPc # "unborn"
        /\ eventList' = {}
        /\ callerPc' = [callerPc EXCEPT ![c] = "signal"]
        /\ UNCHANGED <<threadState, threadPc, deadline, now>>
    BY <1>7 DEF DeadlineInv, Clear, ClearQueue, threadVars
  <2> QED
    BY <2>1 DEF DeadlineInv, Asleep, Forever
<1>8. CASE Check
  BY <1>8 DEF DeadlineInv, Asleep, Check
<1>9. CASE Wait
  <2>1. \/ deadline' = Forever
        \/ \E e \in eventList : cycle[e] <= deadline'
    BY <1>9 DEF Wait, TopEvents, TypeOK
  <2> QED
    BY <1>9, <2>1 DEF DeadlineInv, Asleep, Wait, Forever, eventVars
<1>10. CASE PopEvent
  <2>1. /\ threadPc \in {"woken", "timedout"}
        /\ threadPc' \in {"check", "dispatch"}
        /\ UNCHANGED <<threadState, callerPc>>
    BY <1>10 DEF PopEvent
  <2> QED
    BY <2>1 DEF DeadlineInv, Asleep
<1>11. CASE Resume
  BY <1>11 DEF DeadlineInv, Asleep, Resume
<1>12. CASE Dispatch
  BY <1>12 DEF DeadlineInv, Asleep, Dispatch
<1>13. CASE Timeout
  BY <1>13 DEF DeadlineInv, Asleep, Timeout, Forever, eventVars
<1>14. CASE SpuriousWakeup
  BY <1>14 DEF DeadlineInv, Asleep, SpuriousWakeup, Forever, eventVars
<1>15. CASE Tick
  BY <1>15 DEF TypeOK, DeadlineInv, Asleep, Tick, Forever, eventVars, threadVars
<1>16. CASE UNCHANGED vars
  BY <1>16 DEF DeadlineInv, Asleep, Forever, vars
<1> QED
  BY <1>1, <1>2, <1>3, <1>4, <1>5, <1>6, <1>7, <1>8, <1>9, <1>10, <1>11, <1>12,
     <1>13, <1>14, <1>15, <1>16 DEF Next, ThreadStep

(* The deadline stands for what it should for ever. *)
LEMMA DeadlineInvariant == Spec => []DeadlineInv
<1>1. Init => DeadlineInv
  BY DEF Init, DeadlineInv, Asleep
<1> QED
  BY <1>1, DeadlineInductive, SchedulerTypes, PTL DEF Spec

(* An event is popped only when it is due, although the thread may have    *)
(* gone to sleep for another.                                              *)
LEMMA PoppedIsDue ==
  ASSUME TypeOK, DeadlineInv, PopEvent, NEW e \in TopEvents
  PROVE  cycle[e] <= now
<1> USE SchedulerAssumption
<1>1. e \in eventList /\ \A f \in eventList : cycle[e] <= cycle[f]
  BY DEF TopEvents
<1>2. deadline <= now /\ Asleep
  BY DEF PopEvent, MayReport, DeadlineInv, Asleep
<1>3. PICK f \in eventList : cycle[f] <= deadline
  BY <1>1, <1>2 DEF DeadlineInv, TypeOK, Forever
<1> QED
  BY <1>1, <1>2, <1>3 DEF TypeOK, Forever

(* Each step of the scheduler is a step of TimerService or none at all:    *)
(* adding arms or is refused, stopping cancels, popping a wanted event     *)
(* fires it, clearing closes.                                              *)
LEMMA StepRefines ==
  ASSUME TypeOK, IdsInv, DeadlineInv, [Next]_vars
  PROVE  [Timers!Next]_(Timers!vars)
<1> USE SchedulerAssumption
<1>1. CASE Start
  BY <1>1 DEF Start, eventVars, Timers!vars, Status
<1>2. ASSUME NEW c \in Clients, NEW e \in Events, NEW d \in 0..MaxTime,
             AddEvent(c, e, d)
      PROVE  Timers!Next
  <2>1. /\ stage[e] = "unborn" /\ e \notin stopped
        /\ UNCHANGED <<stopped, now>>
    BY <1>2 DEF AddEvent, IdsInv
  <2>2. Status[e] = "idle"
    BY <2>1 DEF Status
  <2>3. CASE Accepts
    <3>1. /\ stage' = [stage EXCEPT ![e] = "queued"]
          /\ cycle' = [cycle EXCEPT ![e] = d]
      BY <1>2, <2>3 DEF AddEvent
    <3>2. Status' = [Status EXCEPT ![e] = "armed"]
      BY <2>1, <3>1 DEF Status, TypeOK
    <3>3. cycle'[e] \in Nat /\ cycle' = [cycle EXCEPT ![e] = cycle'[e]]
      BY <3>1 DEF TypeOK
    <3> QED
      BY <2>1, <2>2, <3>2, <3>3 DEF Timers!Arm, Timers!Next
  <2>4. CASE ~Accepts
    <3>1. stage' = [stage EXCEPT ![e] = "deleted"] /\ cycle' = cycle
      BY <1>2, <2>4 DEF AddEvent
    <3>2. Status' = [Status EXCEPT ![e] = "dropped"]
      BY <2>1, <3>1 DEF Status, TypeOK
    <3> QED
      BY <2>1, <2>2, <3>1, <3>2 DEF Timers!Refuse, Timers!Next
  <2> QED
    BY <2>3, <2>4
<1>3. ASSUME NEW c \in Clients, Notify(c) PROVE UNCHANGED Timers!vars
  BY <1>3 DEF Notify, eventVars, Timers!vars, Status
<1>4. ASSUME NEW c \in Clients, NEW i \in 1..IdLimit - 1, StopEvent(c, i)
      PROVE  Timers!Next
  <2>1. i \in eventIds
    BY <1>4 DEF StopEvent
  <2>2. PICK e \in eventList \ stopped :
          id[e] = i /\ \A f \in eventList : id[f] = i => f = e
    BY <2>1, ActiveEvent
  <2>3. e \in Events /\ stage[e] = "queued"
    BY <2>2 DEF TypeOK
  <2>4. stopped' = stopped \cup {e} /\ UNCHANGED <<stage, cycle, now>>
    BY <1>4, <2>2 DEF StopEvent
  <2>5. Status[e] = "armed" /\ Status' = [Status EXCEPT ![e] = "cancelled"]
    BY <2>2, <2>3, <2>4 DEF Status
  <2> QED
    BY <2>3, <2>4, <2>5 DEF Timers!Cancel, Timers!Next
<1>5. ASSUME NEW c \in Clients, Stop(c) PROVE UNCHANGED Timers!vars
  BY <1>5 DEF Stop, eventVars, Timers!vars, Status
<1>6. ASSUME NEW c \in Clients, Terminate(c) PROVE UNCHANGED Timers!vars
  BY <1>6 DEF Terminate, eventVars, Timers!vars, Status
<1>7. ASSUME NEW c \in Clients, Clear(c) PROVE Timers!Next
  <2>1. /\ stage' = [e \in Events |-> IF e \in eventList THEN "deleted"
                                      ELSE stage[e]]
        /\ UNCHANGED <<stopped, cycle, now>>
    BY <1>7 DEF Clear, ClearQueue
  <2>2. \A e \in Events : e \in eventList <=> stage[e] = "queued"
    BY DEF TypeOK
  <2>3. Status' = [e \in Events |-> IF Status[e] = "armed" THEN "dropped"
                                    ELSE Status[e]]
    BY <2>1, <2>2 DEF Status
  <2> QED
    BY <2>1, <2>3 DEF Timers!Close, Timers!Next
<1>8. CASE Check
  BY <1>8 DEF Check, eventVars, Timers!vars, Status
<1>9. CASE Wait
  BY <1>9 DEF Wait, eventVars, Timers!vars, Status
<1>10. CASE PopEvent
  <2>1. PICK e \in TopEvents :
          \/ ~IsWanted(e) /\ stage' = [stage EXCEPT ![e] = "deleted"]
          \/ IsWanted(e) /\ stage' = [stage EXCEPT ![e] = "popped"]
    BY <1>10 DEF PopEvent
  <2>2. /\ e \in eventList /\ e \in Events /\ stage[e] = "queued"
        /\ UNCHANGED <<stopped, cycle, now>>
    BY <1>10 DEF PopEvent, TopEvents, TypeOK
  <2>3. CASE IsWanted(e)
    <3>1. e \notin stopped
      BY <2>2, <2>3, WantedIsNotStopped
    <3>2. Status[e] = "armed" /\ Status' = [Status EXCEPT ![e] = "fired"]
      BY <2>1, <2>2, <2>3, <3>1 DEF Status, TypeOK
    <3>3. cycle[e] <= now
      BY <1>10, PoppedIsDue
    <3> QED
      BY <2>2, <3>2, <3>3 DEF Timers!Fire, Timers!Next
  <2>4. CASE ~IsWanted(e)
    <3>1. e \in stopped
      BY <2>2, <2>4, WantedIsNotStopped
    <3>2. Status' = Status
      BY <2>1, <2>2, <2>4, <3>1 DEF Status, TypeOK
    <3> QED
      BY <2>2, <3>2 DEF Timers!vars
  <2> QED
    BY <2>3, <2>4
<1>11. CASE Resume
  BY <1>11 DEF Resume, eventVars, Timers!vars, Status
<1>12. CASE Dispatch
  <2>1. /\ popped \in Events /\ stage[popped] = "popped"
        /\ stage' = [stage EXCEPT ![popped] = "dispatched"]
        /\ UNCHANGED <<stopped, cycle, now>>
    BY <1>12 DEF Dispatch, TypeOK
  <2>2. Status' = Status
    BY <2>1 DEF Status, TypeOK
  <2> QED
    BY <2>1, <2>2 DEF Timers!vars
<1>13. CASE Timeout
  BY <1>13 DEF Timeout, eventVars, Timers!vars, Status
<1>14. CASE SpuriousWakeup
  BY <1>14 DEF SpuriousWakeup, eventVars, Timers!vars, Status
<1>15. CASE Tick
  BY <1>15 DEF Tick, eventVars, Timers!Tick, Timers!Next, Status
<1>16. CASE UNCHANGED vars
  BY <1>16 DEF vars, Timers!vars, Status
<1> QED
  BY <1>1, <1>2, <1>3, <1>4, <1>5, <1>6, <1>7, <1>8, <1>9, <1>10, <1>11, <1>12,
     <1>13, <1>14, <1>15, <1>16 DEF Next, ThreadStep

(* The scheduler gives the timers TimerService promises: never early,      *)
(* never after a successful stopEvent, lost only at shutdown.              *)
THEOREM SchedulerImplementsTimers == Spec => TimerSpec
<1>1. Init => Timers!Init
  BY DEF Init, Timers!Init, Status
<1> QED
  BY <1>1, StepRefines, SchedulerTypes, IdsInvariant, DeadlineInvariant, PTL
  DEF Spec, TimerSpec, Timers!Spec
===============================================================================
