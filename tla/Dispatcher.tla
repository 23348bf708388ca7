------------------------------ MODULE Dispatcher ------------------------------
(***************************************************************************)
(* The dispatcher thread (tasks.cpp, tasks.h, thread_holder_base.h): a     *)
(* list of tasks under a mutex, a condition variable, and one worker       *)
(* thread.  Every other thread of the server, and the tasks themselves,    *)
(* hand work to it with addTask.                                           *)
(*                                                                         *)
(* A critical section under taskLock is one step: what happens before or   *)
(* after the lock is held (the worker's test of the thread state, the      *)
(* notify_one of addTask) is a step of its own.  The worker waits on       *)
(* taskSignal in pc "waiting"; a notify_one that finds it elsewhere is     *)
(* lost, and it may also wake up for no reason.                            *)
(***************************************************************************)
EXTENDS Naturals, Sequences

CONSTANTS
  Clients,     \* the other threads: network, scheduler, database, main
  Worker,      \* the dispatcher's own thread
  Tasks,       \* every task that may be created
  StopTasks,   \* those that shutdown() creates, one per call
  Expirable,   \* tasks created with an expiration
  None

ASSUME DispatcherAssumption ==
  /\ Worker \notin Clients
  /\ StopTasks \subseteq Tasks
  /\ Expirable \subseteq Tasks \ StopTasks
  /\ None \notin Tasks

VARIABLES
  threadState,      \* ThreadHolder::threadState
  taskList,         \* Dispatcher::taskList
  workerPc,         \* where the worker is in threadMain
  current,          \* the task the worker has popped, or None
  signal,           \* callers of addTask between unlock and notify_one
  heap,             \* heap[t]: whether task t exists
  starts,           \* starts[t]: how often t has been executed
  expired,          \* tasks whose expiration has passed
  dispatcherCycle,  \* Dispatcher::dispatcherCycle
  urgent,           \* history: tasks accepted with push_front
  stamp,            \* history: rank of a task in the order of acceptance
  clock,            \* history: number of tasks accepted
  closedFirst       \* history: the state was CLOSING at the first shutdown()

queueVars == <<taskList, heap, urgent, stamp, clock>>
vars == <<threadState, taskList, workerPc, current, signal, heap, starts,
          expired, dispatcherCycle, urgent, stamp, clock, closedFirst>>

Callers == Clients \cup {Worker}
Listed  == {taskList[i] : i \in 1..Len(taskList)}

Init ==
  /\ threadState = "TERMINATED"
  /\ taskList = <<>>
  /\ workerPc = "unborn"
  /\ current = None
  /\ signal = {}
  /\ heap = [t \in Tasks |-> "unborn"]
  /\ starts = [t \in Tasks |-> 0]
  /\ expired = {}
  /\ dispatcherCycle = 0
  /\ urgent = {}
  /\ stamp = [t \in Tasks |-> 0]
  /\ clock = 0
  /\ closedFirst = FALSE

-------------------------------------------------------------------------------
(* Callers.  main() starts the dispatcher before anything else; a task     *)
(* calls from the worker while it runs.                                    *)

CanCall(c) ==
  /\ c \notin signal
  /\ \/ c \in Clients /\ workerPc # "unborn"
     \/ c = Worker /\ workerPc = "running" /\ current \notin StopTasks

AcceptsUntilTerminated == threadState # "TERMINATED"
Accepts == threadState = "RUNNING"

(* do_signal: only the caller that makes the list non-empty notifies. *)
SignalsWhenNonEmpty(list) == list # <<>>
MustSignal(list) == list = <<>>

PushReversed(list, t, front) == IF front THEN Append(list, t) ELSE <<t>> \o list
Push(list, t, front) == IF front THEN <<t>> \o list ELSE Append(list, t)

(* A notify_one reaches the worker only while it waits. *)
AfterNotify == IF workerPc = "waiting" THEN "woken" ELSE workerPc

Accept(t, front) ==
  /\ taskList' = Push(taskList, t, front)
  /\ heap' = [heap EXCEPT ![t] = "live"]
  /\ urgent' = IF front THEN urgent \cup {t} ELSE urgent
  /\ clock' = clock + 1
  /\ stamp' = [stamp EXCEPT ![t] = clock + 1]

Start ==
  /\ workerPc = "unborn"
  /\ threadState' = "RUNNING"
  /\ workerPc' = "check"
  /\ UNCHANGED <<queueVars, current, signal, starts, expired,
                 dispatcherCycle, closedFirst>>

AddTask(c, t, front) ==
  /\ CanCall(c)
  /\ heap[t] = "unborn"
  /\ \/ /\ Accepts
        /\ Accept(t, front)
        /\ signal' = IF MustSignal(taskList) THEN signal \cup {c} ELSE signal
     \/ /\ ~Accepts
        /\ heap' = [heap EXCEPT ![t] = "deleted"]
        /\ UNCHANGED <<taskList, urgent, stamp, clock, signal>>
  /\ UNCHANGED <<threadState, workerPc, current, starts, expired,
                 dispatcherCycle, closedFirst>>

Notify(c) ==
  /\ c \in signal
  /\ signal' = signal \ {c}
  /\ workerPc' = AfterNotify
  /\ UNCHANGED <<queueVars, threadState, current, starts, expired,
                 dispatcherCycle, closedFirst>>

(* shutdown() pushes its task whatever the state is, and notifies before   *)
(* it releases the lock.                                                   *)
Shutdown(c, s) ==
  /\ CanCall(c)
  /\ heap[s] = "unborn"
  /\ Accept(s, FALSE)
  /\ workerPc' = AfterNotify
  /\ closedFirst' = IF \A r \in StopTasks : heap[r] = "unborn"
                    THEN threadState = "CLOSING"
                    ELSE closedFirst
  /\ UNCHANGED <<threadState, current, signal, starts, expired,
                 dispatcherCycle>>

(* stop() is called by Game::setGameState, which runs in dispatcher tasks. *)
Stop ==
  /\ CanCall(Worker)
  /\ threadState' = "CLOSING"
  /\ UNCHANGED <<queueVars, workerPc, current, signal, starts, expired,
                 dispatcherCycle, closedFirst>>

-------------------------------------------------------------------------------
(* The worker. *)

Check ==
  /\ workerPc = "check"
  /\ workerPc' = IF threadState = "TERMINATED" THEN "done" ELSE "lock"
  /\ UNCHANGED <<queueVars, threadState, current, signal, starts, expired,
                 dispatcherCycle, closedFirst>>

Pop ==
  /\ taskList # <<>>
  /\ current' = Head(taskList)
  /\ taskList' = Tail(taskList)
  /\ workerPc' = "popped"

Lock ==
  /\ workerPc = "lock"
  /\ \/ Pop
     \/ /\ taskList = <<>>
        /\ workerPc' = "waiting"
        /\ UNCHANGED <<current, taskList>>
  /\ UNCHANGED <<threadState, signal, heap, starts, expired, dispatcherCycle,
                 urgent, stamp, clock, closedFirst>>

SpuriousWakeup ==
  /\ workerPc = "waiting"
  /\ workerPc' = "woken"
  /\ UNCHANGED <<queueVars, threadState, current, signal, starts, expired,
                 dispatcherCycle, closedFirst>>

(* wait() returns with the lock held; the list may be empty again. *)
Relock ==
  /\ workerPc = "woken"
  /\ \/ Pop
     \/ /\ taskList = <<>>
        /\ workerPc' = "check"
        /\ UNCHANGED <<current, taskList>>
  /\ UNCHANGED <<threadState, signal, heap, starts, expired, dispatcherCycle,
                 urgent, stamp, clock, closedFirst>>

DeleteLeaky ==
  /\ heap' = [heap EXCEPT ![current] = "deleted"]
  /\ workerPc' = "check"
  /\ UNCHANGED current
DeleteForgotten ==
  /\ current' = None
  /\ workerPc' = "check"
  /\ UNCHANGED heap
Delete ==
  /\ heap' = [heap EXCEPT ![current] = "deleted"]
  /\ current' = None
  /\ workerPc' = "check"

Execute ==
  /\ workerPc = "popped"
  /\ current \notin expired
  /\ dispatcherCycle' = dispatcherCycle + 1
  /\ starts' = [starts EXCEPT ![current] = @ + 1]
  /\ workerPc' = "running"
  /\ UNCHANGED <<queueVars, threadState, current, signal, expired, closedFirst>>

DropExpired ==
  /\ workerPc = "popped"
  /\ current \in expired
  /\ Delete
  /\ UNCHANGED <<threadState, taskList, signal, starts, expired,
                 dispatcherCycle, urgent, stamp, clock, closedFirst>>

Return ==
  /\ workerPc = "running"
  /\ current \notin StopTasks
  /\ Worker \notin signal
  /\ Delete
  /\ UNCHANGED <<threadState, taskList, signal, starts, expired,
                 dispatcherCycle, urgent, stamp, clock, closedFirst>>

(* The task of shutdown(): its notify_one finds the worker running it. *)
StateAfterStopTaskClosing == "CLOSING"
StateAfterStopTask == "TERMINATED"
RunStopTask ==
  /\ workerPc = "running"
  /\ current \in StopTasks
  /\ threadState' = StateAfterStopTask
  /\ Delete
  /\ UNCHANGED <<taskList, signal, starts, expired, dispatcherCycle, urgent,
                 stamp, clock, closedFirst>>

(* Time passes: the expiration of t is now in the past. *)
Expire(t) ==
  /\ t \notin expired
  /\ heap[t] = "live"
  /\ expired' = expired \cup {t}
  /\ UNCHANGED <<queueVars, threadState, workerPc, current, signal, starts,
                 dispatcherCycle, closedFirst>>

WorkerStep ==
  \/ Check \/ Lock \/ Relock \/ Execute \/ DropExpired \/ Return \/ RunStopTask

Next ==
  \/ Start
  \/ \E c \in Callers :
       \/ \E t \in Tasks \ StopTasks, front \in BOOLEAN : AddTask(c, t, front)
       \/ \E s \in StopTasks : Shutdown(c, s)
       \/ Notify(c)
  \/ Stop
  \/ WorkerStep
  \/ SpuriousWakeup
  \/ \E t \in Expirable : Expire(t)

(* The threads that have begun a call finish it and the worker is          *)
(* scheduled; nobody has to call, and no wake-up has to be spurious.       *)
Fairness ==
  /\ WF_vars(Start)
  /\ WF_vars(WorkerStep)
  /\ \A c \in Callers : WF_vars(Notify(c))

Spec == Init /\ [][Next]_vars
FairSpec == Spec /\ Fairness

-------------------------------------------------------------------------------
(* Properties *)

(* Each variable stays in its type, and the worker holds a task exactly    *)
(* between its pop and its delete (threadMain).                            *)
TypeOK ==
  /\ threadState \in {"RUNNING", "CLOSING", "TERMINATED"}
  /\ taskList \in Seq(Tasks)
  /\ workerPc \in {"unborn", "check", "lock", "waiting", "woken", "popped",
                   "running", "done"}
  /\ current \in Tasks \cup {None}
  /\ signal \subseteq Callers
  /\ heap \in [Tasks -> {"unborn", "live", "deleted"}]
  /\ starts \in [Tasks -> Nat]
  /\ expired \subseteq Expirable
  /\ dispatcherCycle \in Nat
  /\ urgent \subseteq Tasks
  /\ stamp \in [Tasks -> Nat]
  /\ clock \in Nat
  /\ closedFirst \in BOOLEAN
  /\ current # None <=> workerPc \in {"popped", "running"}

(* addTask notifies only when it found the list empty, and after releasing *)
(* the lock.  That is enough: whenever the worker waits although there is  *)
(* a task, some caller is still on its way to notify_one.                  *)
NoLostWakeup ==
  workerPc = "waiting" /\ taskList # <<>> => signal # {}

(* A task object is in the list once, or in the worker's hands, or freed;  *)
(* it is executed at most once and never referenced after its delete.      *)
TaskOwnership ==
  /\ \A i, j \in 1..Len(taskList) : taskList[i] = taskList[j] => i = j
  /\ current \notin Listed
  /\ \A t \in Tasks : heap[t] = "live" <=> t \in Listed \/ t = current
  /\ \A t \in Tasks :
       starts[t] = 0 \/ (starts[t] = 1 /\ (t = current \/ heap[t] = "deleted"))

(* Game::setGameState closes the dispatcher (stop) before Game::shutdown   *)
(* queues the stop task: then no accepted task is left behind in the list  *)
(* when the thread ends.                                                   *)
GracefulStopStrandsNothing ==
  workerPc = "done" /\ closedFirst => Listed \subseteq StopTasks

(* Every task addTask accepted is executed or dropped, unless the thread   *)
(* ends first.                                                             *)
AcceptedTaskCompletes ==
  \A t \in Tasks : heap[t] = "live" ~> heap[t] = "deleted" \/ workerPc = "done"

(* shutdown() makes the thread end, so that join() returns, provided the   *)
(* tasks themselves return.                                                *)
ShutdownEndsThread ==
  \A s \in StopTasks : heap[s] # "unborn" ~> workerPc = "done"

(* What the dispatcher promises, TaskExecutor, with a task's status read   *)
(* off the heap, the list and the worker.                                  *)
Status ==
  [t \in Tasks |-> IF heap[t] = "unborn" THEN "new"
                   ELSE IF heap[t] = "deleted" THEN "gone"
                   ELSE IF t = current THEN "taken"
                   ELSE "pending"]
Executor == INSTANCE TaskExecutor WITH status <- Status

(* The list with push_front and push_back yields the order TaskExecutor    *)
(* promises, and tasks are run one at a time.                              *)
ExecutorSpec == Executor!Spec
===============================================================================
