------------------------------- MODULE Lifecycle -------------------------------
(***************************************************************************)
(* The life of the server (main.cpp, game.cpp, signals.cpp): main() starts *)
(* the threads, has the dispatcher run mainLoader, waits to be notified,   *)
(* then runs the network on its own thread or ends everything, and joins.  *)
(*                                                                         *)
(* The threads of the scheduler and of the database are reduced to their   *)
(* loop: test the state, sleep or do something, test again.  What they do  *)
(* is the subject of Scheduler and DatabaseTasks; that the test comes      *)
(* before the mutex is taken, so that the notification of a shutdown() may *)
(* come in between, is kept.  The dispatcher's list is kept, since loading *)
(* and shutting down are its tasks, and so are the handlers of signals.    *)
(***************************************************************************)
EXTENDS Naturals, Sequences

CONSTANT MaxPosted  \* bound on the tasks the network posts

ASSUME LifecycleAssumption == MaxPosted \in Nat

Threads == {"dispatcher", "scheduler", "database"}

VARIABLES
  mainPc,       \* where main() is
  early,        \* history: main() went on before mainLoader notified it
  state,        \* ThreadHolder::threadState of each thread
  life,         \* where each thread is: unborn, alive, and for a loop tested
                \* (its state was not TERMINATED) or asleep, then ended
  missed,       \* history: threads notified by a shutdown() when at tested
  tasks,        \* the dispatcher's list, its current task in front
  loader,       \* where mainLoader is
  gameState,    \* Game::m_gameState
  services,     \* Game::m_serviceManager is set
  ports,        \* ServiceManager::acceptors is not empty
  running,      \* ServiceManager::running
  io,           \* the io_service
  posted        \* tasks the network has posted

threadVars == <<state, life, missed>>
gameVars == <<gameState, services>>
networkVars == <<ports, running, io, posted>>
lifecycleVars ==
  <<mainPc, early, threadVars, tasks, loader, gameVars, networkVars>>

(* Game::m_gameState is a member of a global, hence 0 at first.            *)
LifecycleInit ==
  /\ mainPc = "start"
  /\ early = FALSE
  /\ state = [t \in Threads |-> "TERMINATED"]
  /\ life = [t \in Threads |-> "unborn"]
  /\ missed = {}
  /\ tasks = <<>>
  /\ loader = "queued"
  /\ gameState = "STARTUP"
  /\ services = FALSE
  /\ ports = FALSE
  /\ running = FALSE
  /\ io = "idle"
  /\ posted = 0

-------------------------------------------------------------------------------
(* main *)

At(here, next) == mainPc = here /\ mainPc' = next

Start ==
  /\ At("start", "started")
  /\ state' = [state EXCEPT !["dispatcher"] = "RUNNING", !["scheduler"] = "RUNNING"]
  /\ life' = [life EXCEPT !["dispatcher"] = "alive", !["scheduler"] = "alive"]
  /\ tasks' = <<"load">>
  /\ UNCHANGED <<early, missed, loader, gameVars, networkVars>>

Wait ==
  /\ At("started", "waiting")
  /\ UNCHANGED <<early, threadVars, tasks, loader, gameVars, networkVars>>

SpuriousWakeup ==
  /\ At("waiting", "awake")
  /\ early' = TRUE
  /\ UNCHANGED <<threadVars, tasks, loader, gameVars, networkVars>>

Decide ==
  /\ At("awake", IF ports THEN "online" ELSE "end scheduler")
  /\ UNCHANGED <<early, threadVars, tasks, loader, gameVars, networkVars>>

Run ==
  /\ At("online", "network")
  /\ running' = TRUE
  /\ io' = "running"
  /\ UNCHANGED <<early, threadVars, tasks, loader, gameVars, ports, posted>>

RunReturns ==
  /\ At("network", "join scheduler")
  /\ io = "stopped"
  /\ UNCHANGED <<early, threadVars, tasks, loader, gameVars, networkVars>>

(* A shutdown() of the scheduler or the database sets the state, and in a  *)
(* later step, after it has held the mutex, notifies: whoever sleeps wakes *)
(* up, and whoever has only tested its state will sleep all the same.      *)
KeepThreads == state
WithSchedulerEnded == [state EXCEPT !["scheduler"] = "TERMINATED"]
WithDatabaseEnded == [state EXCEPT !["database"] = "TERMINATED"]

Notify(thread) ==
  /\ life' = [life EXCEPT ![thread] = IF @ = "asleep" THEN "alive" ELSE @]
  /\ missed' = IF life[thread] = "tested" THEN missed \cup {thread} ELSE missed

EndScheduler ==
  /\ At("end scheduler", "notify scheduler")
  /\ state' = WithSchedulerEnded
  /\ UNCHANGED <<early, life, missed, tasks, loader, gameVars, networkVars>>

NotifyScheduler ==
  /\ At("notify scheduler", "end database")
  /\ Notify("scheduler")
  /\ UNCHANGED <<early, state, tasks, loader, gameVars, networkVars>>

EndDatabase ==
  /\ At("end database", "notify database")
  /\ state' = WithDatabaseEnded
  /\ UNCHANGED <<early, life, missed, tasks, loader, gameVars, networkVars>>

NotifyDatabase ==
  /\ At("notify database", "end dispatcher")
  /\ Notify("database")
  /\ UNCHANGED <<early, state, tasks, loader, gameVars, networkVars>>

(* Dispatcher::shutdown adds the stop task whatever the state is.          *)
EndDispatcher ==
  /\ At("end dispatcher", "join scheduler")
  /\ tasks' = Append(tasks, "stop")
  /\ UNCHANGED <<early, threadVars, loader, gameVars, networkVars>>

(* A thread that was never started is not joined.                          *)
Ended(thread) == life[thread] \in {"unborn", "ended"}
Join(thread, here, next) ==
  /\ At(here, next)
  /\ Ended(thread)
  /\ UNCHANGED <<early, threadVars, tasks, loader, gameVars, networkVars>>

JoinNext ==
  \/ Join("scheduler", "join scheduler", "join database")
  \/ Join("database", "join database", "join dispatcher")
  \/ Join("dispatcher", "join dispatcher", "returned")

Main ==
  \/ Start \/ Wait \/ Decide \/ Run \/ RunReturns
  \/ EndScheduler \/ NotifyScheduler \/ EndDatabase \/ NotifyDatabase
  \/ EndDispatcher \/ JoinNext

-------------------------------------------------------------------------------
(* The threads of the scheduler and of the database *)

Loops == {"scheduler", "database"}

(* The condition of the while loop, read without the mutex.                *)
TestState(thread) ==
  /\ life[thread] = "alive"
  /\ life' = [life EXCEPT ![thread] =
                IF state[thread] = "TERMINATED" THEN "ended" ELSE "tested"]
  /\ UNCHANGED <<mainPc, early, state, missed, tasks, loader, gameVars,
                 networkVars>>

(* The thread waits, or has something to do and comes round again.         *)
SleepOrWork(thread) ==
  /\ life[thread] = "tested"
  /\ \E next \in {"asleep", "alive"} : life' = [life EXCEPT ![thread] = next]
  /\ UNCHANGED <<mainPc, early, state, missed, tasks, loader, gameVars,
                 networkVars>>

(* Something added to its list, a time that has come, or no reason.        *)
WakeUp(thread) ==
  /\ life[thread] = "asleep"
  /\ life' = [life EXCEPT ![thread] = "alive"]
  /\ UNCHANGED <<mainPc, early, state, missed, tasks, loader, gameVars,
                 networkVars>>

(* The dispatcher's thread sets its state itself, in the stop task, and    *)
(* tests it next.                                                          *)
DispatcherEnds ==
  /\ life["dispatcher"] = "alive"
  /\ state["dispatcher"] = "TERMINATED"
  /\ life' = [life EXCEPT !["dispatcher"] = "ended"]
  /\ UNCHANGED <<mainPc, early, state, missed, tasks, loader, gameVars,
                 networkVars>>

-------------------------------------------------------------------------------
(* mainLoader, a task of the dispatcher *)

IsRunning(task) ==
  /\ life["dispatcher"] = "alive"
  /\ state["dispatcher"] # "TERMINATED"
  /\ tasks # <<>>
  /\ Head(tasks) = task

Loading(here) == IsRunning("load") /\ loader = here

(* Configuration, key, connection and schema; each may fail, and then      *)
(* startupErrorMessage notifies main() and mainLoader returns.             *)
CheckSetup ==
  /\ Loading("queued")
  /\ loader' \in {"database", "failed"}
  /\ UNCHANGED <<mainPc, early, threadVars, tasks, gameVars, networkVars>>

StartDatabase ==
  /\ Loading("database")
  /\ loader' = "services"
  /\ state' = [state EXCEPT !["database"] = "RUNNING"]
  /\ life' = [life EXCEPT !["database"] = "alive"]
  /\ UNCHANGED <<mainPc, early, missed, tasks, gameVars, networkVars>>

(* ServiceManager::add refuses port 0.                                     *)
AddServices ==
  /\ Loading("services")
  /\ loader' = "normal"
  /\ gameState' = "INIT"
  /\ ports' \in BOOLEAN
  /\ UNCHANGED <<mainPc, early, threadVars, tasks, services, running, io, posted>>

StartGame ==
  /\ Loading("normal")
  /\ loader' = "loaded"
  /\ services' = TRUE
  /\ gameState' = "NORMAL"
  /\ UNCHANGED <<mainPc, early, threadVars, tasks, networkVars>>

(* notify_all, without the mutex main() waits with.                        *)
GoOnLoading == IF loader = "failed" THEN "database" ELSE "done"
AfterNotify == "done"
NotifyMain ==
  /\ Loading("loaded") \/ Loading("failed")
  /\ mainPc' = IF mainPc = "waiting" THEN "awake" ELSE mainPc
  /\ loader' = AfterNotify
  /\ UNCHANGED <<early, threadVars, tasks, gameVars, networkVars>>

LoaderReturns ==
  /\ Loading("done")
  /\ tasks' = Tail(tasks)
  /\ UNCHANGED <<mainPc, early, threadVars, loader, gameVars, networkVars>>

-------------------------------------------------------------------------------
(* Other tasks *)

(* A signal or a packet has the dispatcher run something, also in the time *)
(* in which the network is stopping; a "command" is a task that calls      *)
(* setGameState(GAME_STATE_SHUTDOWN).                                      *)
Post(task) ==
  /\ io \in {"running", "stopping"}
  /\ posted < MaxPosted
  /\ posted' = posted + 1
  /\ tasks' = IF state["dispatcher"] = "RUNNING" THEN Append(tasks, task) ELSE tasks
  /\ UNCHANGED <<mainPc, early, threadVars, loader, gameVars, ports, running, io>>

(* The handlers of signals print a line.                                   *)
HandleSignal ==
  /\ IsRunning("signal")
  /\ tasks' = Tail(tasks)
  /\ UNCHANGED <<mainPc, early, threadVars, loader, gameVars, networkVars>>

BothStopped ==
  [state EXCEPT !["scheduler"] = "CLOSING", !["dispatcher"] = "CLOSING"]
ShutDownGame ==
  /\ IsRunning("command")
  /\ IF gameState = "SHUTDOWN"
     THEN tasks' = Tail(tasks) /\ UNCHANGED <<gameState, state>>
     ELSE /\ gameState' = "SHUTDOWN"
          /\ tasks' = IF state["dispatcher"] = "RUNNING"
                      THEN Append(Tail(tasks), "shutdown") ELSE Tail(tasks)
          /\ state' = BothStopped
  /\ UNCHANGED <<mainPc, early, life, missed, loader, services, networkVars>>

(* Game::shutdown: the scheduler's state is set; then, the task being at   *)
(* "notify", the scheduler is notified and the dispatcher and, with        *)
(* ServiceManager::stop, the network are told to stop.                     *)
GameShutdown ==
  /\ IsRunning("shutdown")
  /\ state' = WithSchedulerEnded
  /\ tasks' = [tasks EXCEPT ![1] = "notify"]
  /\ UNCHANGED <<mainPc, early, life, missed, loader, gameVars, networkVars>>

GameShutdownNotifies ==
  /\ IsRunning("notify")
  /\ Notify("scheduler")
  /\ tasks' = Append(Tail(tasks), "stop")
  /\ IF services /\ running
     THEN running' = FALSE /\ ports' = FALSE /\ io' = "stopping"
     ELSE UNCHANGED <<running, ports, io>>
  /\ UNCHANGED <<mainPc, early, state, loader, gameVars, posted>>

RunStopTask ==
  /\ IsRunning("stop")
  /\ tasks' = Tail(tasks)
  /\ state' = [state EXCEPT !["dispatcher"] = "TERMINATED"]
  /\ UNCHANGED <<mainPc, early, life, missed, loader, gameVars, networkVars>>

(* ServiceManager::die, 3 seconds after stop().                            *)
Die ==
  /\ io = "stopping"
  /\ io' = "stopped"
  /\ UNCHANGED <<mainPc, early, threadVars, tasks, loader, gameVars, ports,
                 running, posted>>

RunTask ==
  \/ CheckSetup \/ StartDatabase \/ AddServices \/ StartGame \/ NotifyMain
  \/ LoaderReturns \/ HandleSignal \/ ShutDownGame \/ GameShutdown
  \/ GameShutdownNotifies \/ RunStopTask

LifecycleNext ==
  \/ Main
  \/ SpuriousWakeup
  \/ \E thread \in Loops :
       TestState(thread) \/ SleepOrWork(thread) \/ WakeUp(thread)
  \/ DispatcherEnds
  \/ RunTask
  \/ \E task \in {"signal", "command"} : Post(task)
  \/ Die

(* Each thread takes its next step; nothing wakes up one that sleeps.      *)
LifecycleFairness ==
  /\ WF_lifecycleVars(Main)
  /\ WF_lifecycleVars(RunTask)
  /\ WF_lifecycleVars(Die)
  /\ WF_lifecycleVars(DispatcherEnds)
  /\ \A thread \in Loops :
       WF_lifecycleVars(TestState(thread) \/ SleepOrWork(thread))

LifecycleSpec == LifecycleInit /\ [][LifecycleNext]_lifecycleVars
FairLifecycleSpec == LifecycleSpec /\ LifecycleFairness

-------------------------------------------------------------------------------
(* Properties *)

Labels == {"start", "started", "waiting", "awake", "online", "network",
           "end scheduler", "notify scheduler", "end database",
           "notify database", "end dispatcher",
           "join scheduler", "join database", "join dispatcher", "returned"}

(* Each variable stays in its type; mainLoader is the first task there is, *)
(* and the stop task leaves no other behind.                               *)
LifecycleTypeOK ==
  /\ mainPc \in Labels
  /\ early \in BOOLEAN
  /\ state \in [Threads -> {"RUNNING", "CLOSING", "TERMINATED"}]
  /\ life \in [Threads -> {"unborn", "alive", "tested", "asleep", "ended"}]
  /\ missed \subseteq Loops
  /\ tasks \in Seq({"load", "signal", "command", "shutdown", "notify", "stop"})
  /\ loader \in {"queued", "database", "services", "normal", "loaded", "failed",
                 "done"}
  /\ gameState \in {"STARTUP", "INIT", "NORMAL", "SHUTDOWN"}
  /\ {services, ports, running} \subseteq BOOLEAN
  /\ io \in {"idle", "running", "stopping", "stopped"}
  /\ posted \in 0..MaxPosted
  /\ \A i \in 1..Len(tasks) : tasks[i] = "load" => i = 1
  /\ life["dispatcher"] = "ended" => tasks = <<>>

(* Unless a wait returned for no reason, main() puts the server online     *)
(* only when mainLoader has finished, and no thread is alive, or will be,  *)
(* when main() returns and the thread objects are destroyed.               *)
MainFollowsLoader ==
  /\ LifecycleTypeOK
  /\ ~early /\ mainPc \in {"online", "network"} =>
       loader = "done" /\ services /\ gameState \in {"NORMAL", "SHUTDOWN"}
  /\ ~early /\ mainPc = "returned" =>
       loader = "done" /\ \A thread \in Threads : Ended(thread)

(* A thread that a shutdown() notified between its test and its wait, and  *)
(* that sleeps now although its state is TERMINATED.                       *)
Oversleeps(thread) ==
  thread \in missed /\ life[thread] = "asleep" /\ state[thread] = "TERMINATED"

(* When main() has been notified and finds no service, it ends and joins   *)
(* every thread that was started, the database thread among them, and      *)
(* returns.  There is one way not to: it waits for ever for a thread of    *)
(* which it notified the condition variable in that window.                *)
NotOnlineReturns ==
  mainPc = "end scheduler" /\ ~early ~>
    \/ mainPc = "returned"
    \/ [](mainPc = "join scheduler" /\ Oversleeps("scheduler"))
    \/ [](mainPc = "join database" /\ Oversleeps("database"))

(* When the game is shut down while the network runs, the network and the  *)
(* dispatcher end, whatever signals and commands are still in the list,    *)
(* and main() joins its threads, but never returns: it waits for ever for  *)
(* the database thread, which nothing ends, unless the scheduler missed    *)
(* the notification of Game::shutdown and main() waits for it already.     *)
ShutdownEndsTheRest ==
  gameState = "SHUTDOWN" /\ mainPc = "network" /\ ~early ~>
    /\ Ended("dispatcher")
    /\ \/ /\ Ended("scheduler")
          /\ [](mainPc = "join database" /\ ~Ended("database"))
       \/ [](mainPc = "join scheduler" /\ Oversleeps("scheduler"))
===============================================================================
