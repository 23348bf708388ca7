----------------------------- MODULE DatabaseTasks -----------------------------
(***************************************************************************)
(* The database thread (databasetasks.cpp, databasetasks.h): a list of     *)
(* statements, one worker that executes them and posts their callbacks to  *)
(* the dispatcher, and flush(), by which any other thread, and above all   *)
(* the one that calls shutdown(), executes what is still listed.           *)
(*                                                                         *)
(* A critical section under m_taskLock is one step; runTask runs without   *)
(* the lock, in the worker and in flush() alike.  Of the dispatcher only   *)
(* whether what is posted to it will still run is kept.                    *)
(***************************************************************************)
EXTENDS Naturals, Sequences

CONSTANTS
  Clients,     \* the threads that call addTask, flush and shutdown
  Worker,      \* the database thread
  Statements,  \* every DatabaseTask that may be created
  Asking,      \* those with a callback
  None

ASSUME DatabaseTasksAssumption ==
  /\ Worker \notin Clients
  /\ Asking \subseteq Statements
  /\ None \notin Statements

VARIABLES
  threadState,     \* ThreadHolder::threadState
  tasks,           \* DatabaseTasks::m_tasks
  pc,              \* pc[t]: where thread t is in threadMain, addTask, flush
  hand,            \* hand[t]: the statement thread t has popped, or None
  closers,         \* clients that have called shutdown()
  dispatcherOpen,  \* what is posted to the dispatcher will still run
  refused,         \* statements addTask dropped
  accepted,        \* history: statements in the order they were accepted
  executed,        \* history: statements in the order they were executed
  answered,        \* statements whose callback was posted in time
  unanswered       \* statements whose callback the dispatcher never runs

queueVars == <<threadState, closers, dispatcherOpen, refused, accepted>>
logVars == <<executed, answered, unanswered>>
vars == <<threadState, tasks, pc, hand, closers, dispatcherOpen, refused,
          accepted, executed, answered, unanswered>>

Threads == Clients \cup {Worker}
Elements(seq) == {seq[i] : i \in 1..Len(seq)}

Init ==
  /\ threadState = "TERMINATED"
  /\ tasks = <<>>
  /\ pc = [t \in Threads |-> IF t = Worker THEN "unborn" ELSE "idle"]
  /\ hand = [t \in Threads |-> None]
  /\ closers = {}
  /\ dispatcherOpen = TRUE
  /\ refused = {}
  /\ accepted = <<>>
  /\ executed = <<>>
  /\ answered = {}
  /\ unanswered = {}

Goto(t, label) == pc' = [pc EXCEPT ![t] = label]

(* A notify_one reaches the worker only while it waits. *)
NotifyFrom(c) ==
  pc' = [pc EXCEPT ![c] = "idle",
                   ![Worker] = IF @ = "waiting" THEN "woken" ELSE @]

-------------------------------------------------------------------------------
(* The clients *)

(* mainLoader starts the thread before anything is added or shut down. *)
CanCall(c) == pc[c] = "idle" /\ pc[Worker] # "unborn"

Start ==
  /\ pc[Worker] = "unborn"
  /\ threadState' = "RUNNING"
  /\ Goto(Worker, "check")
  /\ UNCHANGED <<tasks, hand, closers, dispatcherOpen, refused, accepted,
                 logVars>>

AcceptsAlways == TRUE
Accepts == threadState = "RUNNING"

MustSignal == tasks = <<>>

AddTask(c, s) ==
  /\ CanCall(c)
  /\ s \notin refused \cup Elements(accepted)
  /\ \/ /\ Accepts
        /\ tasks' = Append(tasks, s)
        /\ accepted' = Append(accepted, s)
        /\ Goto(c, IF MustSignal THEN "signal" ELSE "idle")
        /\ UNCHANGED refused
     \/ /\ ~Accepts
        /\ refused' = refused \cup {s}
        /\ UNCHANGED <<tasks, accepted, pc>>
  /\ UNCHANGED <<threadState, hand, closers, dispatcherOpen, logVars>>

(* The last step of addTask and of shutdown. *)
Notify(c) ==
  /\ pc[c] = "signal"
  /\ NotifyFrom(c)
  /\ UNCHANGED <<queueVars, tasks, hand, logVars>>

Flush(c) ==
  /\ CanCall(c)
  /\ Goto(c, "flush")
  /\ UNCHANGED <<queueVars, tasks, hand, logVars>>

(* shutdown() sets the state under the lock, then flushes and notifies.    *)
Shutdown(c) ==
  /\ CanCall(c)
  /\ c \notin closers
  /\ threadState' = "TERMINATED"
  /\ closers' = closers \cup {c}
  /\ Goto(c, "flush")
  /\ UNCHANGED <<tasks, hand, dispatcherOpen, refused, accepted, logVars>>

(* Game::setGameState stops the dispatcher, and main() shuts it down: from *)
(* then on it takes no callback, whatever has become of the database.      *)
StopDispatcher(c) ==
  /\ CanCall(c)
  /\ dispatcherOpen' = FALSE
  /\ UNCHANGED <<threadState, tasks, pc, hand, closers, refused, accepted,
                 logVars>>

-------------------------------------------------------------------------------
(* Both the worker and flush() pop the first statement and run it.         *)

PopCopy(t) ==
  /\ tasks # <<>>
  /\ hand' = [hand EXCEPT ![t] = Head(tasks)]
  /\ UNCHANGED tasks
  /\ Goto(t, "execute")
PopLast(t) ==
  /\ tasks # <<>>
  /\ hand' = [hand EXCEPT ![t] = tasks[Len(tasks)]]
  /\ tasks' = SubSeq(tasks, 1, Len(tasks) - 1)
  /\ Goto(t, "execute")
Pop(t) ==
  /\ tasks # <<>>
  /\ hand' = [hand EXCEPT ![t] = Head(tasks)]
  /\ tasks' = Tail(tasks)
  /\ Goto(t, "execute")

(* Where runTask returns to. *)
AfterRun(t) == IF t = Worker THEN "check" ELSE "flush"

(* m_db.storeQuery or m_db.executeQuery; a failure is passed to the        *)
(* callback like a success.                                                *)
Execute(t) ==
  /\ pc[t] = "execute"
  /\ executed' = Append(executed, hand[t])
  /\ Goto(t, "answer")
  /\ UNCHANGED <<queueVars, tasks, hand, answered, unanswered>>

Answer(t) ==
  /\ pc[t] = "answer"
  /\ hand' = [hand EXCEPT ![t] = None]
  /\ Goto(t, AfterRun(t))
  /\ \/ /\ hand[t] \notin Asking
        /\ UNCHANGED <<answered, unanswered>>
     \/ /\ hand[t] \in Asking /\ dispatcherOpen
        /\ answered' = answered \cup {hand[t]}
        /\ UNCHANGED unanswered
     \/ /\ hand[t] \in Asking /\ ~dispatcherOpen
        /\ unanswered' = unanswered \cup {hand[t]}
        /\ UNCHANGED answered
  /\ UNCHANGED <<queueVars, tasks, executed>>

(* The loop of flush(); shutdown() goes on to its notify_one.              *)
FlushNext(c) ==
  /\ pc[c] = "flush"
  /\ \/ Pop(c)
     \/ /\ tasks = <<>>
        /\ Goto(c, IF c \in closers THEN "signal" ELSE "idle")
        /\ UNCHANGED <<tasks, hand>>
  /\ UNCHANGED <<queueVars, logVars>>

-------------------------------------------------------------------------------
(* The worker *)

Check ==
  /\ pc[Worker] = "check"
  /\ Goto(Worker, IF threadState = "TERMINATED" THEN "done" ELSE "lock")
  /\ UNCHANGED <<queueVars, tasks, hand, logVars>>

Lock ==
  /\ pc[Worker] = "lock"
  /\ \/ Pop(Worker)
     \/ /\ tasks = <<>>
        /\ Goto(Worker, "waiting")
        /\ UNCHANGED <<tasks, hand>>
  /\ UNCHANGED <<queueVars, logVars>>

SpuriousWakeup ==
  /\ pc[Worker] = "waiting"
  /\ Goto(Worker, "woken")
  /\ UNCHANGED <<queueVars, tasks, hand, logVars>>

Relock ==
  /\ pc[Worker] = "woken"
  /\ \/ Pop(Worker)
     \/ /\ tasks = <<>>
        /\ Goto(Worker, "check")
        /\ UNCHANGED <<tasks, hand>>
  /\ UNCHANGED <<queueVars, logVars>>

WorkerStep ==
  Check \/ Lock \/ Relock \/ Execute(Worker) \/ Answer(Worker)

(* What a client that has begun a call does next. *)
ClientStep(c) == Notify(c) \/ FlushNext(c) \/ Execute(c) \/ Answer(c)

Next ==
  \/ Start
  \/ \E c \in Clients :
       \/ \E s \in Statements : AddTask(c, s)
       \/ Flush(c)
       \/ Shutdown(c)
       \/ StopDispatcher(c)
       \/ ClientStep(c)
  \/ WorkerStep
  \/ SpuriousWakeup

(* Threads are scheduled; statements return. *)
Fairness ==
  /\ WF_vars(Start)
  /\ WF_vars(WorkerStep)
  /\ \A c \in Clients : WF_vars(ClientStep(c))

Spec == Init /\ [][Next]_vars
FairSpec == Spec /\ Fairness

-------------------------------------------------------------------------------
(* Properties *)

Labels == {"unborn", "check", "lock", "waiting", "woken", "done",
           "idle", "signal", "flush", "execute", "answer"}
Listed == Elements(tasks)
InHand == {hand[t] : t \in Threads} \ {None}
Done == Elements(executed)

(* Each variable stays in its type, and a thread holds a statement exactly *)
(* while it is in runTask.                                                 *)
TypeOK ==
  /\ threadState \in {"RUNNING", "TERMINATED"}
  /\ tasks \in Seq(Statements)
  /\ pc \in [Threads -> Labels]
  /\ hand \in [Threads -> Statements \cup {None}]
  /\ closers \subseteq Clients
  /\ dispatcherOpen \in BOOLEAN
  /\ refused \subseteq Statements
  /\ accepted \in Seq(Statements)
  /\ executed \in Seq(Statements)
  /\ answered \subseteq Asking
  /\ unanswered \subseteq Asking
  /\ \A t \in Threads : hand[t] # None <=> pc[t] \in {"execute", "answer"}

(* A statement is executed at most once, by whichever of the worker and    *)
(* flush() popped it, none is lost between the list and the database, and  *)
(* the callback of each is posted, or lost because the dispatcher ended.   *)
ExecutedOnce ==
  /\ TypeOK
  /\ \A i, j \in 1..Len(executed) : executed[i] = executed[j] => i = j
  /\ \A t, u \in Threads : hand[t] = hand[u] /\ hand[t] # None => t = u
  /\ Elements(accepted) = Listed \cup InHand \cup Done
  /\ answered \cup unanswered = (Done \cap Asking) \ InHand
  /\ answered \cap unanswered = {}

(* Statements reach the database in the order in which addTask accepted    *)
(* them; flush() can overtake only a statement that another thread has     *)
(* popped and not executed yet.                                            *)
OvertakenOnlyInHand ==
  \A i, j \in 1..Len(accepted) :
    i < j /\ accepted[j] \in Done => accepted[i] \in Done \cup InHand

(* Every accepted statement is executed, also when the thread is shut down *)
(* in between: what the worker leaves, shutdown() executes, and nothing is *)
(* accepted behind the flush of a thread that is about to end.             *)
AcceptedStatementRuns ==
  \A s \in Statements : s \in Elements(accepted) ~> s \in Done
===============================================================================
