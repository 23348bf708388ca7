--------------------------- MODULE DispatcherProofs ---------------------------
(***************************************************************************)
(* Proofs about Dispatcher for any number of clients and tasks.            *)
(***************************************************************************)
EXTENDS Dispatcher, SequenceTheorems, TLAPS

-------------------------------------------------------------------------------
(* Lemmas about the list. *)

(* What push_front and push_back do to the elements of the list. *)
LEMMA PushFrontProperties ==
  ASSUME NEW S, NEW list \in Seq(S), NEW t \in S
  PROVE  /\ <<t>> \o list \in Seq(S)
         /\ Len(<<t>> \o list) = Len(list) + 1
         /\ (<<t>> \o list)[1] = t
         /\ \A i \in 2..Len(list) + 1 : (<<t>> \o list)[i] = list[i - 1]
<1>1. /\ <<t>> \in Seq(S)
      /\ Len(<<t>>) = 1
      /\ <<t>>[1] = t
  OBVIOUS
<1>2. /\ <<t>> \o list \in Seq(S)
      /\ Len(<<t>> \o list) = 1 + Len(list)
      /\ \A i \in 1..1 + Len(list) :
           (<<t>> \o list)[i] = IF i <= 1 THEN <<t>>[i] ELSE list[i - 1]
  BY <1>1, ConcatProperties, LenProperties
<1> QED
  BY <1>1, <1>2, LenProperties

(* What appending at the end of the list does. *)
LEMMA PushBackProperties ==
  ASSUME NEW S, NEW list \in Seq(S), NEW t \in S
  PROVE  /\ Append(list, t) \in Seq(S)
         /\ Len(Append(list, t)) = Len(list) + 1
         /\ Append(list, t)[Len(list) + 1] = t
         /\ \A i \in 1..Len(list) : Append(list, t)[i] = list[i]
BY LenProperties

(* What pop_front does to the elements of the list. *)
LEMMA PopProperties ==
  ASSUME NEW S, NEW list \in Seq(S), list # <<>>
  PROVE  /\ Head(list) = list[1]
         /\ Head(list) \in S
         /\ Tail(list) \in Seq(S)
         /\ Len(list) \in Nat \ {0}
         /\ Len(Tail(list)) = Len(list) - 1
         /\ \A i \in 1..Len(list) - 1 : Tail(list)[i] = list[i + 1]
BY HeadTailProperties, EmptySeq

(* Pop and Accept keep the types of what they change. *)
LEMMA PopTypes ==
  ASSUME TypeOK, Pop
  PROVE  /\ taskList' \in Seq(Tasks)
         /\ current' \in Tasks
BY PopProperties DEF TypeOK, Pop

(* Accepting a task keeps every variable in its type. *)
LEMMA AcceptTypes ==
  ASSUME TypeOK, NEW t \in Tasks, NEW front \in BOOLEAN, Accept(t, front)
  PROVE  /\ taskList' \in Seq(Tasks)
         /\ heap' \in [Tasks -> {"unborn", "live", "deleted"}]
         /\ urgent' \subseteq Tasks
         /\ stamp' \in [Tasks -> Nat]
         /\ clock' \in Nat
<1>1. Push(taskList, t, front) \in Seq(Tasks)
  BY PushFrontProperties, PushBackProperties DEF TypeOK, Push
<1> QED
  BY <1>1 DEF TypeOK, Accept

-------------------------------------------------------------------------------
(* Type correctness *)

(* Every variable keeps its type, and the worker holds a task exactly      *)
(* between its pop_front and its delete in threadMain.                     *)
THEOREM TypeCorrect == Spec => []TypeOK
<1>1. Init => TypeOK
  <2> SUFFICES ASSUME Init PROVE TypeOK
    OBVIOUS
  <2>1. taskList \in Seq(Tasks)
    BY EmptySeq DEF Init
  <2>2. current # None <=> workerPc \in {"popped", "running"}
    BY DEF Init
  <2> QED
    BY <2>1, <2>2 DEF Init, TypeOK
<1>2. TypeOK /\ [Next]_vars => TypeOK'
  <2> SUFFICES ASSUME TypeOK, [Next]_vars PROVE TypeOK'
    OBVIOUS
  <2> USE DispatcherAssumption
  <2>1. CASE Start
    BY <2>1 DEF TypeOK, Start, queueVars
  <2>2. ASSUME NEW c \in Callers, NEW t \in Tasks \ StopTasks,
               NEW front \in BOOLEAN, AddTask(c, t, front)
        PROVE  TypeOK'
    <3>1. CASE Accept(t, front)
      BY <2>2, <3>1, AcceptTypes DEF TypeOK, AddTask
    <3>2. CASE ~Accepts
      BY <2>2, <3>2 DEF TypeOK, AddTask
    <3> QED
      BY <2>2, <3>1, <3>2 DEF AddTask
  <2>3. ASSUME NEW c \in Callers, NEW s \in StopTasks, Shutdown(c, s)
        PROVE  TypeOK'
    <3>1. s \in Tasks /\ Accept(s, FALSE)
      BY <2>3 DEF Shutdown
    <3> QED
      BY <2>3, <3>1, AcceptTypes DEF TypeOK, Shutdown, AfterNotify
  <2>4. ASSUME NEW c \in Callers, Notify(c) PROVE TypeOK'
    BY <2>4 DEF TypeOK, Notify, AfterNotify, queueVars
  <2>5. CASE Stop
    BY <2>5 DEF TypeOK, Stop, queueVars
  <2>6. CASE Check
    BY <2>6 DEF TypeOK, Check, queueVars
  <2>7. CASE Lock
    BY <2>7, PopTypes DEF TypeOK, Lock, Pop
  <2>8. CASE Relock
    BY <2>8, PopTypes DEF TypeOK, Relock, Pop
  <2>9. CASE Execute
    BY <2>9 DEF TypeOK, Execute, queueVars
  <2>10. CASE DropExpired
    BY <2>10 DEF TypeOK, DropExpired, Delete
  <2>11. CASE Return
    BY <2>11 DEF TypeOK, Return, Delete
  <2>12. CASE RunStopTask
    BY <2>12 DEF TypeOK, RunStopTask, StateAfterStopTask, Delete
  <2>13. CASE SpuriousWakeup
    BY <2>13 DEF TypeOK, SpuriousWakeup, queueVars
  <2>14. ASSUME NEW t \in Expirable, Expire(t) PROVE TypeOK'
    BY <2>14 DEF TypeOK, Expire, queueVars
  <2>15. CASE UNCHANGED vars
    BY <2>15 DEF TypeOK, vars
  <2> QED
    BY <2>1, <2>2, <2>3, <2>4, <2>5, <2>6, <2>7, <2>8, <2>9, <2>10, <2>11,
       <2>12, <2>13, <2>14, <2>15 DEF Next, WorkerStep
<1> QED
  BY <1>1, <1>2, PTL DEF Spec

-------------------------------------------------------------------------------
(* The wake-up protocol *)

(* addTask notifies after it has released the mutex and only when it found *)
(* the list empty.  For any number of clients, a worker waiting on         *)
(* taskSignal although there is a task is about to be notified.            *)
THEOREM NoLostWakeupHolds == Spec => []NoLostWakeup
<1>1. Init => NoLostWakeup
  BY DEF Init, NoLostWakeup
<1>2. TypeOK /\ NoLostWakeup /\ [Next]_vars => NoLostWakeup'
  <2> SUFFICES ASSUME TypeOK, NoLostWakeup, [Next]_vars PROVE NoLostWakeup'
    OBVIOUS
  <2>1. CASE Start
    BY <2>1 DEF NoLostWakeup, Start, queueVars
  <2>2. ASSUME NEW c \in Callers, NEW t \in Tasks \ StopTasks,
               NEW front \in BOOLEAN, AddTask(c, t, front)
        PROVE  NoLostWakeup'
    <3>1. CASE taskList = <<>>
      BY <2>2, <3>1 DEF NoLostWakeup, AddTask, MustSignal
    <3>2. CASE taskList # <<>>
      BY <2>2, <3>2 DEF NoLostWakeup, AddTask, MustSignal
    <3> QED
      BY <3>1, <3>2
  <2>3. ASSUME NEW c \in Callers, NEW s \in StopTasks, Shutdown(c, s)
        PROVE  NoLostWakeup'
    BY <2>3 DEF NoLostWakeup, Shutdown, AfterNotify
  <2>4. ASSUME NEW c \in Callers, Notify(c) PROVE NoLostWakeup'
    BY <2>4 DEF NoLostWakeup, Notify, AfterNotify
  <2>5. CASE Stop
    BY <2>5 DEF NoLostWakeup, Stop, queueVars
  <2>6. CASE WorkerStep
    BY <2>6 DEF NoLostWakeup, WorkerStep, Check, Lock, Relock, Pop, Execute,
                DropExpired, Return, RunStopTask, Delete
  <2>7. CASE SpuriousWakeup
    BY <2>7 DEF NoLostWakeup, SpuriousWakeup
  <2>8. ASSUME NEW t \in Expirable, Expire(t) PROVE NoLostWakeup'
    BY <2>8 DEF NoLostWakeup, Expire, queueVars
  <2>9. CASE UNCHANGED vars
    BY <2>9 DEF NoLostWakeup, vars
  <2> QED
    BY <2>1, <2>2, <2>3, <2>4, <2>5, <2>6, <2>7, <2>8, <2>9 DEF Next
<1> QED
  BY <1>1, <1>2, TypeCorrect, PTL DEF Spec

-------------------------------------------------------------------------------
(* Ownership of task objects *)

Distinct == \A i, j \in 1..Len(taskList) : taskList[i] = taskList[j] => i = j

(* Where the elements of the list are after a task was accepted. *)
LEMMA AcceptElements ==
  ASSUME TypeOK, NEW t \in Tasks, NEW front \in BOOLEAN, Accept(t, front)
  PROVE  /\ Len(taskList) \in Nat
         /\ Len(taskList') = Len(taskList) + 1
         /\ front => /\ taskList'[1] = t
                     /\ \A i \in 2..Len(taskList) + 1 :
                          taskList'[i] = taskList[i - 1]
         /\ ~front => /\ taskList'[Len(taskList) + 1] = t
                      /\ \A i \in 1..Len(taskList) : taskList'[i] = taskList[i]
<1>1. taskList \in Seq(Tasks) /\ taskList' = Push(taskList, t, front)
  BY DEF TypeOK, Accept
<1>2. Len(taskList) \in Nat
  BY <1>1, LenProperties
<1>3. CASE front
  <2>1. taskList' = <<t>> \o taskList
    BY <1>1, <1>3 DEF Push
  <2>2. /\ Len(<<t>> \o taskList) = Len(taskList) + 1
        /\ (<<t>> \o taskList)[1] = t
        /\ \A i \in 2..Len(taskList) + 1 :
             (<<t>> \o taskList)[i] = taskList[i - 1]
    BY <1>1, PushFrontProperties
  <2> QED
    BY <1>2, <1>3, <2>1, <2>2, Zenon
<1>4. CASE ~front
  <2>1. taskList' = Append(taskList, t)
    BY <1>1, <1>4 DEF Push
  <2> QED
    BY <1>1, <1>2, <1>4, <2>1, PushBackProperties
<1> QED
  BY <1>3, <1>4

(* Accepting adds one task to the list, and only once. *)
LEMMA AcceptListed ==
  ASSUME TypeOK, NEW t \in Tasks, NEW front \in BOOLEAN, Accept(t, front)
  PROVE  /\ Listed' = Listed \cup {t}
         /\ Distinct /\ t \notin Listed => Distinct'
<1>1. /\ Len(taskList) \in Nat
      /\ Len(taskList') = Len(taskList) + 1
  BY AcceptElements
<1>2. CASE front
  <2>1. /\ taskList'[1] = t
        /\ \A i \in 2..Len(taskList) + 1 : taskList'[i] = taskList[i - 1]
    BY <1>2, AcceptElements
  <2>2. Listed' = Listed \cup {t}
    <3>1. Listed' \subseteq Listed \cup {t}
      BY <1>1, <2>1 DEF Listed
    <3>2. ASSUME NEW i \in 1..Len(taskList) PROVE taskList[i] \in Listed'
      <4>1. i + 1 \in 2..Len(taskList) + 1 /\ (i + 1) - 1 = i
        BY <1>1
      <4>2. taskList'[i + 1] = taskList[i]
        BY <2>1, <4>1
      <4> QED
        BY <1>1, <4>1, <4>2 DEF Listed
    <3>3. t \in Listed'
      BY <1>1, <2>1 DEF Listed
    <3> QED
      BY <3>1, <3>2, <3>3 DEF Listed
  <2>3. ASSUME Distinct, t \notin Listed PROVE Distinct'
    <3> SUFFICES ASSUME NEW i \in 1..Len(taskList) + 1,
                        NEW j \in 1..Len(taskList) + 1,
                        taskList'[i] = taskList'[j]
                 PROVE  i = j
      BY <1>1 DEF Distinct
    <3>1. \A k \in 2..Len(taskList) + 1 :
            k - 1 \in 1..Len(taskList) /\ taskList'[k] = taskList[k - 1]
      BY <1>1, <2>1
    <3>2. \A k \in 2..Len(taskList) + 1 : taskList'[k] # t
      BY <2>3, <3>1 DEF Listed
    <3>3. CASE i = 1 \/ j = 1
      BY <1>1, <2>1, <3>2, <3>3
    <3>4. CASE i # 1 /\ j # 1
      <4>1. /\ i - 1 \in 1..Len(taskList) /\ j - 1 \in 1..Len(taskList)
            /\ taskList[i - 1] = taskList[j - 1]
        BY <1>1, <3>1, <3>4
      <4>2. i - 1 = j - 1
        BY <2>3, <4>1 DEF Distinct
      <4> QED
        BY <1>1, <4>2
    <3> QED
      BY <3>3, <3>4
  <2> QED
    BY <2>2, <2>3
<1>3. CASE ~front
  <2>1. /\ taskList'[Len(taskList) + 1] = t
        /\ \A i \in 1..Len(taskList) : taskList'[i] = taskList[i]
    BY <1>1, <1>3, AcceptElements
  <2>2. Listed' = Listed \cup {t}
    BY <1>1, <2>1 DEF Listed
  <2>3. Distinct /\ t \notin Listed => Distinct'
    BY <1>1, <2>1 DEF Listed, Distinct
  <2> QED
    BY <2>2, <2>3
<1> QED
  BY <1>2, <1>3

(* Popping takes one task off the list, and with it all of its copies. *)
LEMMA PopListed ==
  ASSUME TypeOK, Pop, Distinct
  PROVE  /\ current' \in Listed
         /\ Listed' = Listed \ {current'}
         /\ Distinct'
<1> DEFINE n == Len(taskList)
           new == Tail(taskList)
<1>1. /\ taskList' = new
      /\ current' = taskList[1]
      /\ n \in Nat \ {0}
      /\ Len(new) = n - 1
      /\ \A i \in 1..n - 1 : new[i] = taskList[i + 1]
  BY PopProperties DEF TypeOK, Pop
<1> HIDE DEF new, n
<1>2. current' \in Listed
  BY <1>1 DEF Listed, n
<1>3. Listed' = Listed \ {current'}
  <2>1. \A t : t \in Listed' => t \in Listed \ {current'}
    BY <1>1 DEF Listed, Distinct, n
  <2>2. ASSUME NEW t \in Listed \ {current'} PROVE t \in Listed'
    <3>1. PICK i \in 1..n : taskList[i] = t
      BY DEF Listed, n
    <3>2. i - 1 \in 1..n - 1 /\ new[i - 1] = t
      BY <1>1, <3>1
    <3> QED
      BY <1>1, <3>2 DEF Listed
  <2> QED
    BY <2>1, <2>2
<1>4. Distinct'
  BY <1>1 DEF Distinct, n
<1> QED
  BY <1>2, <1>3, <1>4

(* TaskOwnership is inductive once it is known that a popped task has not  *)
(* been executed yet.                                                      *)
OwnershipInv ==
  /\ TaskOwnership
  /\ workerPc = "popped" => starts[current] = 0

(* A task object is in the list once, held by the worker, or freed, and it *)
(* is executed at most once: no double delete and no use after delete.     *)
THEOREM TaskOwnershipHolds == Spec => []TaskOwnership
<1>1. Init => OwnershipInv
  <2> SUFFICES ASSUME Init PROVE OwnershipInv
    OBVIOUS
  <2>1. Len(taskList) = 0 /\ Listed = {}
    BY EmptySeq DEF Init, Listed
  <2> QED
    BY <2>1, DispatcherAssumption DEF Init, OwnershipInv, TaskOwnership
<1>2. TypeOK /\ OwnershipInv /\ [Next]_vars => OwnershipInv'
  <2> SUFFICES ASSUME TypeOK, OwnershipInv, [Next]_vars PROVE OwnershipInv'
    OBVIOUS
  <2> USE DispatcherAssumption
  <2>a. Distinct
    BY DEF OwnershipInv, TaskOwnership, Distinct
  <2>b. ASSUME NEW t \in Tasks, NEW front \in BOOLEAN, heap[t] = "unborn",
               Accept(t, front), UNCHANGED <<current, starts>>,
               workerPc' = "popped" => workerPc = "popped"
        PROVE  OwnershipInv'
    <3>1. t \notin Listed /\ t # current
      BY <2>b DEF OwnershipInv, TaskOwnership
    <3>2. Distinct' /\ Listed' = Listed \cup {t}
      BY <2>a, <2>b, <3>1, AcceptListed
    <3>3. heap' = [heap EXCEPT ![t] = "live"]
      BY <2>b DEF Accept
    <3>4. starts[t] = 0
      BY <2>b, <3>1 DEF OwnershipInv, TaskOwnership, TypeOK
    <3> QED
      BY <2>b, <3>1, <3>2, <3>3, <3>4
      DEF OwnershipInv, TaskOwnership, Distinct, TypeOK
  <2>c. ASSUME Pop, current = None, UNCHANGED <<heap, starts>>
        PROVE  OwnershipInv'
    <3>1. /\ Distinct'
          /\ current' \in Listed
          /\ Listed' = Listed \ {current'}
      BY <2>a, <2>c, PopListed
    <3>2. current' \in Tasks /\ heap[current'] = "live"
      BY <2>c, <3>1, PopTypes DEF OwnershipInv, TaskOwnership
    <3>3. starts[current'] = 0
      BY <2>c, <3>2 DEF OwnershipInv, TaskOwnership, TypeOK
    <3> QED
      BY <2>c, <3>1, <3>2, <3>3
      DEF OwnershipInv, TaskOwnership, Distinct, TypeOK
  <2>d. ASSUME UNCHANGED <<taskList, heap, current, starts>>,
               workerPc' # "popped" \/ workerPc' = workerPc
        PROVE  OwnershipInv'
    BY <2>d DEF OwnershipInv, TaskOwnership, Listed
  <2>e. ASSUME Delete, workerPc \in {"popped", "running"},
               UNCHANGED <<taskList, starts>>
        PROVE  OwnershipInv'
    <3>1. current \in Tasks /\ current' = None /\ Listed' = Listed
      BY <2>e DEF Delete, TypeOK, Listed
    <3>2. heap' = [heap EXCEPT ![current] = "deleted"]
      BY <2>e DEF Delete
    <3>3. current \notin Listed' /\ None \notin Listed'
      <4>1. Listed \subseteq Tasks
        BY ElementOfSeq DEF Listed, TypeOK
      <4> QED
        BY <3>1, <4>1 DEF OwnershipInv, TaskOwnership
    <3>4. \A t \in Tasks : heap'[t] = "live" <=> t \in Listed'
      BY <3>1, <3>2, <3>3 DEF OwnershipInv, TaskOwnership, TypeOK
    <3>5. \A t \in Tasks :
            starts[t] = 0 \/ (starts[t] = 1 /\ heap'[t] = "deleted")
      BY <3>1, <3>2 DEF OwnershipInv, TaskOwnership, TypeOK
    <3> QED
      BY <2>e, <3>1, <3>3, <3>4, <3>5 DEF OwnershipInv, TaskOwnership, Delete
  <2>1. CASE Start
    BY <2>1, <2>d DEF Start, queueVars
  <2>2. ASSUME NEW c \in Callers, NEW t \in Tasks \ StopTasks,
               NEW front \in BOOLEAN, AddTask(c, t, front)
        PROVE  OwnershipInv'
    <3>1. CASE Accept(t, front)
      BY <2>2, <3>1, <2>b DEF AddTask
    <3>2. CASE /\ heap' = [heap EXCEPT ![t] = "deleted"]
               /\ UNCHANGED taskList
      <4>1. heap[t] = "unborn" /\ UNCHANGED <<current, starts, workerPc>>
        BY <2>2 DEF AddTask
      <4>2. t \notin Listed /\ t # current /\ Listed' = Listed
        BY <3>2, <4>1 DEF OwnershipInv, TaskOwnership, Listed
      <4> QED
        BY <3>2, <4>1, <4>2 DEF OwnershipInv, TaskOwnership, TypeOK
    <3> QED
      BY <2>2, <3>1, <3>2 DEF AddTask
  <2>3. ASSUME NEW c \in Callers, NEW s \in StopTasks, Shutdown(c, s)
        PROVE  OwnershipInv'
    BY <2>3, <2>b DEF Shutdown, AfterNotify
  <2>4. ASSUME NEW c \in Callers, Notify(c) PROVE OwnershipInv'
    BY <2>4, <2>d DEF Notify, AfterNotify, queueVars
  <2>5. CASE Stop
    BY <2>5, <2>d DEF Stop, queueVars
  <2>6. CASE Check
    BY <2>6, <2>d DEF Check, queueVars
  <2>7. CASE Lock
    BY <2>7, <2>c, <2>d DEF Lock, TypeOK
  <2>8. CASE Relock
    BY <2>8, <2>c, <2>d DEF Relock, TypeOK
  <2>9. CASE Execute
    <3>1. current \in Tasks /\ starts[current] = 0
      BY <2>9 DEF Execute, OwnershipInv, TypeOK
    <3> QED
      BY <2>9, <3>1
      DEF Execute, queueVars, OwnershipInv, TaskOwnership, Listed, TypeOK
  <2>10. CASE DropExpired
    BY <2>10, <2>e DEF DropExpired
  <2>11. CASE Return
    BY <2>11, <2>e DEF Return
  <2>12. CASE RunStopTask
    BY <2>12, <2>e DEF RunStopTask
  <2>13. CASE SpuriousWakeup
    BY <2>13, <2>d DEF SpuriousWakeup, queueVars
  <2>14. ASSUME NEW t \in Expirable, Expire(t) PROVE OwnershipInv'
    BY <2>14, <2>d DEF Expire, queueVars
  <2>15. CASE UNCHANGED vars
    BY <2>15, <2>d DEF vars
  <2> QED
    BY <2>1, <2>2, <2>3, <2>4, <2>5, <2>6, <2>7, <2>8, <2>9, <2>10, <2>11,
       <2>12, <2>13, <2>14, <2>15 DEF Next, WorkerStep
<1>3. OwnershipInv => TaskOwnership
  BY DEF OwnershipInv
<1> QED
  BY <1>1, <1>2, <1>3, TypeCorrect, PTL DEF Spec

-------------------------------------------------------------------------------
(* Graceful termination *)

StopsLast ==
  \A i, j \in 1..Len(taskList) :
    i < j /\ taskList[i] \in StopTasks => taskList[j] \in StopTasks

(* Once the first shutdown() found the dispatcher CLOSING, addTask accepts *)
(* nothing, so that only stop tasks are ever behind a stop task.           *)
GracefulInv ==
  /\ workerPc = "unborn" => ~closedFirst
  /\ threadState = "TERMINATED" => workerPc \in {"unborn", "check", "done"}
  /\ workerPc = "done" => threadState = "TERMINATED"
  /\ closedFirst =>
       /\ threadState # "RUNNING"
       /\ StopsLast
       /\ current \in StopTasks \/ threadState = "TERMINATED" =>
            Listed \subseteq StopTasks

(* Every step preserves GracefulInv. *)
LEMMA GracefulInductive ==
  ASSUME TypeOK, TaskOwnership, GracefulInv, [Next]_vars
  PROVE  GracefulInv'
<1> USE DispatcherAssumption
<1>a. ASSUME UNCHANGED <<taskList, current, threadState, closedFirst>>,
             workerPc' = workerPc \/
               /\ workerPc \notin {"unborn", "done"}
               /\ workerPc' \notin {"unborn", "done"}
               /\ threadState # "TERMINATED" \/ workerPc' = "check"
      PROVE  GracefulInv'
  BY <1>a DEF GracefulInv, StopsLast, Listed
<1>b. ASSUME Pop, workerPc \in {"lock", "woken"},
             UNCHANGED <<threadState, closedFirst>>
      PROVE  GracefulInv'
  <2>1. Distinct
    BY DEF TaskOwnership, Distinct
  <2>2. /\ Listed' = Listed \ {current'}
        /\ current' \in Listed
    BY <1>b, <2>1, PopListed
  <2>3. /\ current' = taskList[1]
        /\ Len(taskList) \in Nat \ {0}
        /\ taskList' = Tail(taskList)
        /\ Len(Tail(taskList)) = Len(taskList) - 1
        /\ \A i \in 1..Len(taskList) - 1 : Tail(taskList)[i] = taskList[i + 1]
    BY <1>b, PopProperties DEF Pop, TypeOK
  <2>4. workerPc' = "popped" /\ threadState # "TERMINATED"
    BY <1>b DEF Pop, GracefulInv
  <2>5. ASSUME closedFirst PROVE StopsLast'
    BY <2>3, <2>5 DEF GracefulInv, StopsLast
  <2>6. ASSUME closedFirst, current' \in StopTasks
        PROVE  Listed' \subseteq StopTasks
    BY <2>3, <2>6 DEF GracefulInv, StopsLast, Listed
  <2> QED
    BY <1>b, <2>4, <2>5, <2>6 DEF GracefulInv
<1>c. ASSUME Delete, workerPc \in {"popped", "running"},
             UNCHANGED <<taskList, threadState, closedFirst>>
      PROVE  GracefulInv'
  BY <1>c DEF Delete, GracefulInv, StopsLast, Listed
<1>1. CASE Start
  BY <1>1 DEF Start, queueVars, GracefulInv
<1>2. ASSUME NEW c \in Callers, NEW t \in Tasks \ StopTasks,
             NEW front \in BOOLEAN, AddTask(c, t, front)
      PROVE  GracefulInv'
  <2>1. CASE Accepts
    BY <1>2, <2>1 DEF AddTask, Accepts, GracefulInv
  <2>2. CASE ~Accepts
    BY <1>2, <2>2, <1>a DEF AddTask
  <2> QED
    BY <2>1, <2>2
<1>3. ASSUME NEW c \in Callers, NEW s \in StopTasks, Shutdown(c, s)
      PROVE  GracefulInv'
  <2> DEFINE n == Len(taskList)
  <2>1. s \in Tasks /\ Accept(s, FALSE) /\ taskList \in Seq(Tasks)
    BY <1>3 DEF Shutdown, TypeOK
  <2>2. Listed' = Listed \cup {s}
    BY <2>1, AcceptListed
  <2>3. /\ Len(taskList) \in Nat
        /\ Len(taskList') = Len(taskList) + 1
        /\ taskList'[Len(taskList) + 1] = s
        /\ \A i \in 1..Len(taskList) : taskList'[i] = taskList[i]
    BY <2>1, AcceptElements
  <2>4. workerPc # "unborn" /\ workerPc' = AfterNotify
        /\ UNCHANGED <<threadState, current>>
    BY <1>3 DEF Shutdown, CanCall
  <2>5. CASE \A r \in StopTasks : heap[r] = "unborn"
    <3>1. current \notin StopTasks
      BY <2>5, DispatcherAssumption DEF TaskOwnership, TypeOK
    <3>2. \A i \in 1..n : taskList[i] \notin StopTasks
      BY <2>5 DEF TaskOwnership, Listed
    <3>3. StopsLast'
      BY <2>3, <3>2 DEF StopsLast
    <3>4. closedFirst' = (threadState = "CLOSING")
      BY <1>3, <2>5 DEF Shutdown
    <3> QED
      BY <2>4, <3>1, <3>3, <3>4 DEF GracefulInv, AfterNotify
  <2>6. CASE ~ \A r \in StopTasks : heap[r] = "unborn"
    <3>1. closedFirst' = closedFirst
      BY <1>3, <2>6 DEF Shutdown
    <3>2. ASSUME StopsLast PROVE StopsLast'
      BY <2>3, <3>2 DEF StopsLast
    <3> QED
      BY <2>2, <2>4, <3>1, <3>2 DEF GracefulInv, AfterNotify
  <2> QED
    BY <2>5, <2>6
<1>4. ASSUME NEW c \in Callers, Notify(c) PROVE GracefulInv'
  BY <1>4, <1>a DEF Notify, AfterNotify, queueVars, GracefulInv
<1>5. CASE Stop
  BY <1>5 DEF Stop, CanCall, queueVars, GracefulInv, StopsLast, Listed
<1>6. CASE Check
  BY <1>6 DEF Check, queueVars, GracefulInv, StopsLast, Listed
<1>7. CASE Lock
  BY <1>7, <1>a, <1>b DEF Lock, GracefulInv
<1>8. CASE Relock
  BY <1>8, <1>a, <1>b DEF Relock, GracefulInv
<1>9. CASE Execute
  BY <1>9, <1>a DEF Execute, queueVars, GracefulInv
<1>10. CASE DropExpired
  BY <1>10, <1>c DEF DropExpired
<1>11. CASE Return
  BY <1>11, <1>c DEF Return
<1>12. CASE RunStopTask
  BY <1>12
  DEF RunStopTask, StateAfterStopTask, Delete, GracefulInv, StopsLast, Listed
<1>13. CASE SpuriousWakeup
  BY <1>13, <1>a DEF SpuriousWakeup, queueVars, GracefulInv
<1>14. ASSUME NEW t \in Expirable, Expire(t) PROVE GracefulInv'
  BY <1>14, <1>a DEF Expire, queueVars
<1>15. CASE UNCHANGED vars
  BY <1>15, <1>a DEF vars
<1> QED
  BY <1>1, <1>2, <1>3, <1>4, <1>5, <1>6, <1>7, <1>8, <1>9, <1>10, <1>11,
     <1>12, <1>13, <1>14, <1>15 DEF Next, WorkerStep

(* When stop() precedes the first shutdown(), as in Game::setGameState and *)
(* Game::shutdown, every task that addTask accepted has left the list by   *)
(* the time the thread ends.                                               *)
THEOREM GracefulStop == Spec => []GracefulStopStrandsNothing
<1>1. Init => GracefulInv
  BY DEF Init, GracefulInv
<1>2. TypeOK /\ TaskOwnership /\ GracefulInv /\ [Next]_vars => GracefulInv'
  BY GracefulInductive
<1>3. GracefulInv => GracefulStopStrandsNothing
  BY DEF GracefulInv, GracefulStopStrandsNothing
<1> QED
  BY <1>1, <1>2, <1>3, TypeCorrect, TaskOwnershipHolds, PTL DEF Spec

-------------------------------------------------------------------------------
(* Refinement of TaskExecutor *)

Before(t, u) == Executor!Precedes(t, u)

(* The list is sorted by the order in which TaskExecutor takes tasks.      *)
OrderInv ==
  /\ \A i, j \in 1..Len(taskList) : i < j => Before(taskList[i], taskList[j])
  /\ \A t \in Tasks : stamp[t] <= clock
  /\ \A t \in Tasks : heap[t] = "unborn" => t \notin urgent

(* Accepting at either end keeps the list in the order TaskExecutor wants. *)
LEMMA OrderAccept ==
  ASSUME TypeOK, TaskOwnership, OrderInv,
         NEW t \in Tasks, NEW front \in BOOLEAN, heap[t] = "unborn",
         Accept(t, front)
  PROVE  OrderInv'
<1>1. taskList \in Seq(Tasks)
  BY DEF TypeOK
<1>2. /\ Len(taskList) \in Nat
      /\ Len(taskList') = Len(taskList) + 1
      /\ front => /\ taskList'[1] = t
                  /\ \A i \in 2..Len(taskList) + 1 :
                       taskList'[i] = taskList[i - 1]
      /\ ~front => /\ taskList'[Len(taskList) + 1] = t
                   /\ \A i \in 1..Len(taskList) : taskList'[i] = taskList[i]
  BY AcceptElements
<1>3. \A i \in 1..Len(taskList) : taskList[i] \in Tasks /\ taskList[i] # t
  BY <1>1, ElementOfSeq DEF TaskOwnership, Listed
<1>4. /\ stamp' = [stamp EXCEPT ![t] = clock + 1]
      /\ clock' = clock + 1
      /\ urgent' = IF front THEN urgent \cup {t} ELSE urgent
      /\ heap' = [heap EXCEPT ![t] = "live"]
      /\ t \notin urgent
  BY DEF Accept, OrderInv
<1>5. \A u, v \in Tasks \ {t} : Before(u, v)' <=> Before(u, v)
  BY <1>4 DEF Before, Executor!Precedes, TypeOK
<1>6. \A u \in Tasks \ {t} :
        /\ front => Before(t, u)'
        /\ ~front => Before(u, t)'
  <2> SUFFICES ASSUME NEW u \in Tasks \ {t}
               PROVE /\ front => Before(t, u)'
                     /\ ~front => Before(u, t)'
    OBVIOUS
  <2>1. /\ stamp'[t] = clock + 1
        /\ stamp'[u] = stamp[u]
        /\ stamp[u] \in Nat
        /\ clock \in Nat
        /\ stamp[u] <= clock
    BY <1>4 DEF TypeOK, OrderInv
  <2> QED
    BY <1>4, <2>1 DEF Before, Executor!Precedes
<1>7. \A i, j \in 1..Len(taskList') :
        i < j => Before(taskList[i], taskList[j])'
  <2>1. CASE front
    <3> SUFFICES ASSUME NEW i \in 1..Len(taskList) + 1,
                        NEW j \in 1..Len(taskList) + 1, i < j
                 PROVE  Before(taskList[i], taskList[j])'
      BY <1>2
    <3>1. j - 1 \in 1..Len(taskList) /\ taskList'[j] = taskList[j - 1]
      BY <1>2, <2>1
    <3>2. CASE i = 1
      BY <1>2, <1>3, <1>6, <2>1, <3>1, <3>2
    <3>3. CASE i # 1
      <4>1. /\ i - 1 \in 1..Len(taskList)
            /\ taskList'[i] = taskList[i - 1]
            /\ i - 1 < j - 1
        BY <1>2, <2>1, <3>1, <3>3
      <4>2. Before(taskList[i - 1], taskList[j - 1])
        BY <3>1, <4>1 DEF OrderInv
      <4> QED
        BY <1>3, <1>5, <3>1, <4>1, <4>2
    <3> QED
      BY <3>2, <3>3
  <2>2. CASE ~front
    <3> SUFFICES ASSUME NEW i \in 1..Len(taskList) + 1,
                        NEW j \in 1..Len(taskList) + 1, i < j
                 PROVE  Before(taskList[i], taskList[j])'
      BY <1>2
    <3>1. i \in 1..Len(taskList) /\ taskList'[i] = taskList[i]
      BY <1>2, <2>2
    <3>2. CASE j = Len(taskList) + 1
      BY <1>2, <1>3, <1>6, <2>2, <3>1, <3>2
    <3>3. CASE j # Len(taskList) + 1
      <4>1. j \in 1..Len(taskList) /\ taskList'[j] = taskList[j]
        BY <1>2, <2>2, <3>3
      <4>2. Before(taskList[i], taskList[j])
        BY <3>1, <4>1 DEF OrderInv
      <4> QED
        BY <1>3, <1>5, <3>1, <4>1, <4>2
    <3> QED
      BY <3>2, <3>3
  <2> QED
    BY <2>1, <2>2
<1>8. \A u \in Tasks : stamp'[u] <= clock'
  BY <1>4 DEF OrderInv, TypeOK
<1>9. \A u \in Tasks : heap'[u] = "unborn" => u \notin urgent'
  BY <1>4 DEF OrderInv, TypeOK
<1> QED
  BY <1>7, <1>8, <1>9 DEF OrderInv

(* So does popping. *)
LEMMA OrderPop ==
  ASSUME TypeOK, OrderInv, Pop, UNCHANGED <<heap, urgent, stamp, clock>>
  PROVE  OrderInv'
<1>1. /\ Len(taskList) \in Nat \ {0}
      /\ Len(taskList') = Len(taskList) - 1
      /\ \A i \in 1..Len(taskList) - 1 : taskList'[i] = taskList[i + 1]
  BY PopProperties DEF Pop, TypeOK
<1>2. \A t, u : Before(t, u)' <=> Before(t, u)
  BY DEF Before, Executor!Precedes
<1>3. ASSUME NEW i \in 1..Len(taskList'), NEW j \in 1..Len(taskList'), i < j
      PROVE  Before(taskList[i], taskList[j])'
  <2>1. /\ i + 1 \in 1..Len(taskList) /\ j + 1 \in 1..Len(taskList)
        /\ i + 1 < j + 1
        /\ taskList'[i] = taskList[i + 1] /\ taskList'[j] = taskList[j + 1]
    BY <1>1, <1>3
  <2>2. Before(taskList[i + 1], taskList[j + 1])
    BY <2>1 DEF OrderInv
  <2> QED
    BY <1>2, <2>1, <2>2
<1> QED
  BY <1>3 DEF OrderInv

(* And so does every other step. *)
LEMMA OrderInductive ==
  ASSUME TypeOK, TaskOwnership, OrderInv, [Next]_vars
  PROVE  OrderInv'
<1>a. ASSUME UNCHANGED <<taskList, urgent, stamp, clock>>,
             \A t \in Tasks : heap'[t] = "unborn" => heap[t] = "unborn"
      PROVE  OrderInv'
  BY <1>a DEF OrderInv, Before, Executor!Precedes
<1>b. ASSUME Delete, current \in Tasks,
             UNCHANGED <<taskList, urgent, stamp, clock>>
      PROVE  OrderInv'
  BY <1>a, <1>b DEF Delete, TypeOK
<1>1. CASE Start
  BY <1>1, <1>a DEF Start, queueVars
<1>2. ASSUME NEW c \in Callers, NEW t \in Tasks \ StopTasks,
             NEW front \in BOOLEAN, AddTask(c, t, front)
      PROVE  OrderInv'
  <2>1. CASE Accept(t, front)
    BY <1>2, <2>1, OrderAccept DEF AddTask
  <2>2. CASE /\ heap' = [heap EXCEPT ![t] = "deleted"]
             /\ UNCHANGED <<taskList, urgent, stamp, clock>>
    BY <1>a, <2>2 DEF TypeOK
  <2> QED
    BY <1>2, <2>1, <2>2 DEF AddTask
<1>3. ASSUME NEW c \in Callers, NEW s \in StopTasks, Shutdown(c, s)
      PROVE  OrderInv'
  BY <1>3, OrderAccept, DispatcherAssumption DEF Shutdown
<1>4. ASSUME NEW c \in Callers, Notify(c) PROVE OrderInv'
  BY <1>4, <1>a DEF Notify, queueVars
<1>5. CASE Stop
  BY <1>5, <1>a DEF Stop, queueVars
<1>6. CASE Check
  BY <1>6, <1>a DEF Check, queueVars
<1>7. CASE Lock
  BY <1>7, <1>a, OrderPop DEF Lock
<1>8. CASE Relock
  BY <1>8, <1>a, OrderPop DEF Relock
<1>9. CASE Execute
  BY <1>9, <1>a DEF Execute, queueVars
<1>10. CASE DropExpired
  BY <1>10, <1>b DEF DropExpired, TypeOK
<1>11. CASE Return
  BY <1>11, <1>b DEF Return, TypeOK
<1>12. CASE RunStopTask
  BY <1>12, <1>b DEF RunStopTask, TypeOK
<1>13. CASE SpuriousWakeup
  BY <1>13, <1>a DEF SpuriousWakeup, queueVars
<1>14. ASSUME NEW t \in Expirable, Expire(t) PROVE OrderInv'
  BY <1>14, <1>a DEF Expire, queueVars
<1>15. CASE UNCHANGED vars
  BY <1>15, <1>a DEF vars
<1> QED
  BY <1>1, <1>2, <1>3, <1>4, <1>5, <1>6, <1>7, <1>8, <1>9, <1>10, <1>11,
     <1>12, <1>13, <1>14, <1>15 DEF Next, WorkerStep

(* Each step of the dispatcher is a step of the executor or leaves what    *)
(* the executor sees unchanged.                                            *)
LEMMA ExecutorStep ==
  ASSUME TypeOK, TaskOwnership, OrderInv, [Next]_vars
  PROVE  [Executor!Next]_(Executor!vars)
<1> USE DispatcherAssumption
<1>a. ASSUME NEW t \in Tasks, NEW front \in BOOLEAN, heap[t] = "unborn",
             Accept(t, front), current' = current
      PROVE  Executor!Submit(t, front)
  <2>1. t # current
    BY <1>a DEF TaskOwnership
  <2>2. heap' = [heap EXCEPT ![t] = "live"]
    BY <1>a DEF Accept
  <2>3. Status' = [Status EXCEPT ![t] = "pending"]
    BY <1>a, <2>1, <2>2 DEF Status, TypeOK
  <2> QED
    BY <1>a, <2>3 DEF Executor!Submit, Status, Accept
<1>b. ASSUME Pop, current = None, UNCHANGED <<heap, urgent, stamp, clock>>
      PROVE  Executor!Take(current')
  <2>1. Distinct
    BY DEF TaskOwnership, Distinct
  <2>2. /\ current' \in Tasks
        /\ current' \in Listed
        /\ heap[current'] = "live"
    BY <1>b, <2>1, PopListed, PopTypes DEF TaskOwnership
  <2>3. Status[current'] = "pending"
    BY <1>b, <2>2 DEF Status
  <2>4. Executor!Taken = {}
    BY <1>b DEF Executor!Taken, Status, TypeOK
  <2>5. ASSUME NEW u \in Executor!Pending \ {current'}
        PROVE  Before(current', u)
    <3>1. u \in Tasks /\ heap[u] = "live" /\ u # current
      BY <1>b, <2>5 DEF Executor!Pending, Status, TypeOK
    <3>2. PICK j \in 1..Len(taskList) : taskList[j] = u
      BY <3>1 DEF TaskOwnership, Listed
    <3>3. current' = taskList[1] /\ Len(taskList) \in Nat \ {0}
      BY <1>b, PopProperties DEF Pop, TypeOK
    <3>4. 1 \in 1..Len(taskList) /\ 1 < j
      BY <2>5, <3>2, <3>3
    <3> QED
      BY <3>2, <3>3, <3>4 DEF OrderInv
  <2>6. Status' = [Status EXCEPT ![current'] = "taken"]
    BY <1>b, <2>2 DEF Status
  <2> QED
    BY <1>b, <2>3, <2>4, <2>5, <2>6 DEF Executor!Take, Before
<1>c. ASSUME Delete, current # None, UNCHANGED <<urgent, stamp, clock>>
      PROVE  Executor!Finish(current)
  <2>1. current \in Tasks /\ heap[current] = "live"
    BY <1>c DEF TypeOK, TaskOwnership
  <2>2. Status[current] = "taken"
    BY <2>1 DEF Status
  <2>3. Status' = [Status EXCEPT ![current] = "gone"]
    <3>1. /\ heap' = [heap EXCEPT ![current] = "deleted"]
          /\ current' = None
      BY <1>c DEF Delete
    <3> QED
      BY <2>1, <3>1 DEF Status, TypeOK
  <2> QED
    BY <1>c, <2>2, <2>3 DEF Executor!Finish
<1>d. ASSUME UNCHANGED <<heap, current, urgent, stamp, clock>>
      PROVE  UNCHANGED Executor!vars
  BY <1>d DEF Executor!vars, Status
<1>1. CASE Start
  BY <1>1, <1>d DEF Start, queueVars
<1>2. ASSUME NEW c \in Callers, NEW t \in Tasks \ StopTasks,
             NEW front \in BOOLEAN, AddTask(c, t, front)
      PROVE  Executor!Next
  <2>1. CASE Accept(t, front)
    BY <1>2, <2>1, <1>a DEF AddTask, Executor!Next
  <2>2. CASE /\ heap' = [heap EXCEPT ![t] = "deleted"]
             /\ UNCHANGED <<urgent, stamp, clock>>
    <3>1. heap[t] = "unborn" /\ current' = current
      BY <1>2 DEF AddTask
    <3>2. Status[t] = "new" /\ Status' = [Status EXCEPT ![t] = "gone"]
      BY <2>2, <3>1 DEF Status, TypeOK
    <3> QED
      BY <2>2, <3>2 DEF Executor!Refuse, Executor!Next
  <2> QED
    BY <1>2, <2>1, <2>2 DEF AddTask
<1>3. ASSUME NEW c \in Callers, NEW s \in StopTasks, Shutdown(c, s)
      PROVE  Executor!Next
  BY <1>3, <1>a DEF Shutdown, Executor!Next
<1>4. ASSUME NEW c \in Callers, Notify(c) PROVE UNCHANGED Executor!vars
  BY <1>4, <1>d DEF Notify, queueVars
<1>5. CASE Stop
  BY <1>5, <1>d DEF Stop, queueVars
<1>6. CASE Check
  BY <1>6, <1>d DEF Check, queueVars
<1>7. CASE Lock
  <2>1. current = None
    BY <1>7 DEF Lock, TypeOK
  <2>2. CASE Pop
    BY <1>7, <2>1, <2>2, <1>b, PopTypes DEF Lock, Executor!Next
  <2> QED
    BY <1>7, <2>2, <1>d DEF Lock
<1>8. CASE Relock
  <2>1. current = None
    BY <1>8 DEF Relock, TypeOK
  <2>2. CASE Pop
    BY <1>8, <2>1, <2>2, <1>b, PopTypes DEF Relock, Executor!Next
  <2> QED
    BY <1>8, <2>2, <1>d DEF Relock
<1>9. CASE Execute
  BY <1>9, <1>d DEF Execute, queueVars
<1>10. CASE DropExpired \/ Return \/ RunStopTask
  <2>1. current \in Tasks /\ Executor!Finish(current)
    BY <1>10, <1>c DEF DropExpired, Return, RunStopTask, TypeOK
  <2> QED
    BY <2>1 DEF Executor!Next
<1>11. CASE SpuriousWakeup
  BY <1>11, <1>d DEF SpuriousWakeup, queueVars
<1>12. ASSUME NEW t \in Expirable, Expire(t) PROVE UNCHANGED Executor!vars
  BY <1>12, <1>d DEF Expire, queueVars
<1>13. CASE UNCHANGED vars
  BY <1>13, <1>d DEF vars
<1> QED
  BY <1>1, <1>2, <1>3, <1>4, <1>5, <1>6, <1>7, <1>8, <1>9, <1>10, <1>11,
     <1>12, <1>13 DEF Next, WorkerStep

(* The dispatcher implements TaskExecutor: a std::list with push_front and *)
(* push_back gives urgent tasks newest first and the others oldest first,  *)
(* one at a time, each at most once, whatever the threads do.              *)
THEOREM DispatcherImplementsExecutor == Spec => ExecutorSpec
<1>1. Init => Executor!Init
  BY DispatcherAssumption DEF Init, Executor!Init, Status
<1>2. Init => OrderInv
  <2> SUFFICES ASSUME Init PROVE OrderInv
    OBVIOUS
  <2>1. Len(taskList) = 0
    BY EmptySeq DEF Init
  <2> QED
    BY <2>1 DEF Init, OrderInv
<1>3. TypeOK /\ TaskOwnership /\ OrderInv /\ [Next]_vars => OrderInv'
  BY OrderInductive
<1>4. TypeOK /\ TaskOwnership /\ OrderInv /\ [Next]_vars =>
        [Executor!Next]_(Executor!vars)
  BY ExecutorStep
<1> QED
  BY <1>1, <1>2, <1>3, <1>4, TypeCorrect, TaskOwnershipHolds, PTL
  DEF Spec, ExecutorSpec, Executor!Spec
===============================================================================
