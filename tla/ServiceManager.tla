---------------------------- MODULE ServiceManager -----------------------------
(***************************************************************************)
(* The service manager and its ports (server.cpp, server.h).  A port       *)
(* accepts one connection after another on its acceptor; when that fails   *)
(* it closes the acceptor and asks the scheduler to open it again later.   *)
(*                                                                         *)
(* A port has no lock, and two threads use it: the network thread runs     *)
(* onAccept and onStopServer, the dispatcher runs open().  A handler and   *)
(* open() are therefore one step each, and AcceptsOrReopens says why that  *)
(* is sound.  Of the scheduler and the dispatcher what matters here is     *)
(* kept: which reopenings they hold, and what the shutdown of the game     *)
(* does to them (Game::setGameState and Game::shutdown).                   *)
(***************************************************************************)
EXTENDS Naturals, Sequences

CONSTANTS
  Ports,
  Protocols,     \* the protocol types given to ServiceManager::add
  SingleSocket   \* those with server_sends_first

ASSUME ServiceManagerAssumption == SingleSocket \subseteq Protocols

VARIABLES
  acceptors,     \* the ports ServiceManager::acceptors holds
  services,      \* services[p]: ServicePort::services
  acceptor,      \* acceptor[p]: ServicePort::acceptor
  pendingStart,  \* pendingStart[p]: ServicePort::pendingStart
  ops,           \* ops[p]: outstanding async_accepts, by what became of them
  events,        \* events[p]: reopenings the scheduler holds
  reopens,       \* reopens[p]: reopenings in the dispatcher's list
  io,            \* io_service
  shutdownStage, \* how far the shutdown of the game is
  stopPosted,    \* ports whose onStopServer is queued
  stopped,       \* ports whose onStopServer has run
  deathTimer     \* ServiceManager::death_timer is running

vars == <<acceptors, services, acceptor, pendingStart, ops, events, reopens,
          io, shutdownStage, stopPosted, stopped, deathTimer>>

NoOps == [waiting |-> 0, accepted |-> 0, failed |-> 0, aborted |-> 0]

Init ==
  /\ acceptors = {}
  /\ services = [p \in Ports |-> <<>>]
  /\ acceptor = [p \in Ports |-> "none"]
  /\ pendingStart = [p \in Ports |-> FALSE]
  /\ ops = [p \in Ports |-> NoOps]
  /\ events = [p \in Ports |-> 0]
  /\ reopens = [p \in Ports |-> 0]
  /\ io = "new"
  /\ shutdownStage = "none"
  /\ stopPosted = {}
  /\ stopped = {}
  /\ deathTimer = FALSE

-------------------------------------------------------------------------------
(* The operations of a port *)

(* close(): an acceptor that closes ends the accept that waits on it.      *)
Closed(p) == IF acceptor[p] = "open" THEN "closed" ELSE acceptor[p]
Aborted(p) == [ops[p] EXCEPT !.aborted = @ + ops[p].waiting, !.waiting = 0]

(* async_accept on an acceptor that is closed fails, and not with          *)
(* operation_aborted.                                                      *)
AcceptOn(o, state) ==
  CASE state = "none" -> o
    [] state = "open" -> [o EXCEPT !.waiting = @ + 1]
    [] state = "closed" -> [o EXCEPT !.failed = @ + 1]

(* The scheduler refuses events once Game::setGameState has stopped it.    *)
SchedulerAlwaysAccepts == TRUE
SchedulerAccepts == shutdownStage = "none"
ReopenLater(p) ==
  events' = IF SchedulerAccepts THEN [events EXCEPT ![p] = @ + 1] ELSE events

(* What is left of open(): the constructor of the acceptor or its          *)
(* set_option may throw, the latter after the acceptor was replaced.       *)
Outcomes == {"listening", "unbound", "deaf"}
PendingKept(p, outcome) == pendingStart[p] \/ outcome # "listening"
PendingAfter(p, outcome) == outcome # "listening"
Open(p, outcome) ==
  /\ pendingStart' = [pendingStart EXCEPT ![p] = PendingAfter(p, outcome)]
  /\ \/ /\ outcome = "listening"
        /\ acceptor' = [acceptor EXCEPT ![p] = "open"]
        /\ ops' = [ops EXCEPT ![p] = AcceptOn(Aborted(p), "open")]
        /\ UNCHANGED events
     \/ /\ outcome = "unbound"
        /\ acceptor' = [acceptor EXCEPT ![p] = Closed(p)]
        /\ ops' = [ops EXCEPT ![p] = Aborted(p)]
        /\ ReopenLater(p)
     \/ /\ outcome = "deaf"
        /\ acceptor' = [acceptor EXCEPT ![p] = "open"]
        /\ ops' = [ops EXCEPT ![p] = Aborted(p)]
        /\ ReopenLater(p)

-------------------------------------------------------------------------------
(* mainLoader, on the dispatcher: ServiceManager::add.  main() runs the    *)
(* network only when the loader has signalled it.                          *)

IsSingleSocket(p) == services[p] # <<>> /\ Head(services[p]) \in SingleSocket

AddToNewPort(p, proto, outcome) ==
  /\ io = "new"
  /\ p \notin acceptors
  /\ acceptors' = acceptors \cup {p}
  /\ Open(p, outcome)
  /\ services' = [services EXCEPT ![p] = Append(@, proto)]
  /\ UNCHANGED <<reopens, io, shutdownStage, stopPosted, stopped, deathTimer>>

MayShare(p, proto) == ~IsSingleSocket(p) /\ proto \notin SingleSocket
AddToPort(p, proto) ==
  /\ io = "new"
  /\ p \in acceptors
  /\ \A i \in 1..Len(services[p]) : services[p][i] # proto
  /\ MayShare(p, proto)
  /\ services' = [services EXCEPT ![p] = Append(@, proto)]
  /\ UNCHANGED <<acceptors, acceptor, pendingStart, ops, events, reopens, io,
                 shutdownStage, stopPosted, stopped, deathTimer>>

(* main() *)
Run ==
  /\ io = "new"
  /\ acceptors # {}
  /\ io' = "running"
  /\ UNCHANGED <<acceptors, services, acceptor, pendingStart, ops, events,
                 reopens, shutdownStage, stopPosted, stopped, deathTimer>>

-------------------------------------------------------------------------------
(* The network *)

AcceptCompletes(p, result) ==
  /\ ops[p].waiting > 0
  /\ ops' = [ops EXCEPT ![p].waiting = @ - 1, ![p][result] = @ + 1]
  /\ UNCHANGED <<acceptors, services, acceptor, pendingStart, events, reopens,
                 io, shutdownStage, stopPosted, stopped, deathTimer>>

(* onAccept without an error: the connection is accepted, or closed if it  *)
(* has no address, and the next accept starts.                             *)
OnAccept(p) ==
  /\ io = "running"
  /\ ops[p].accepted > 0
  /\ LET rest == [ops[p] EXCEPT !.accepted = @ - 1]
     IN ops' = [ops EXCEPT ![p] = IF services[p] = <<>> THEN rest
                                  ELSE AcceptOn(rest, acceptor[p])]
  /\ UNCHANGED <<acceptors, services, acceptor, pendingStart, events, reopens,
                 io, shutdownStage, stopPosted, stopped, deathTimer>>

OnAcceptFailed(p) ==
  /\ io = "running"
  /\ ops[p].failed > 0
  /\ LET rest == [ops[p] EXCEPT !.failed = @ - 1]
     IN \/ /\ pendingStart[p]
           /\ ops' = [ops EXCEPT ![p] = rest]
           /\ UNCHANGED <<acceptor, pendingStart, events>>
        \/ /\ ~pendingStart[p]
           /\ acceptor' = [acceptor EXCEPT ![p] = Closed(p)]
           /\ ops' = [ops EXCEPT ![p] = [rest EXCEPT !.aborted = @ + rest.waiting,
                                                     !.waiting = 0]]
           /\ pendingStart' = [pendingStart EXCEPT ![p] = TRUE]
           /\ ReopenLater(p)
  /\ UNCHANGED <<acceptors, services, reopens, io, shutdownStage, stopPosted,
                 stopped, deathTimer>>

OnAcceptAborted(p) ==
  /\ io = "running"
  /\ ops[p].aborted > 0
  /\ ops' = [ops EXCEPT ![p].aborted = @ - 1]
  /\ UNCHANGED <<acceptors, services, acceptor, pendingStart, events, reopens,
                 io, shutdownStage, stopPosted, stopped, deathTimer>>

OnStopServer(p) ==
  /\ io = "running"
  /\ p \in stopPosted
  /\ stopPosted' = stopPosted \ {p}
  /\ stopped' = stopped \cup {p}
  /\ acceptor' = [acceptor EXCEPT ![p] = Closed(p)]
  /\ ops' = [ops EXCEPT ![p] = Aborted(p)]
  /\ UNCHANGED <<acceptors, services, pendingStart, events, reopens, io,
                 shutdownStage, deathTimer>>

Die ==
  /\ io = "running"
  /\ deathTimer
  /\ io' = "stopped"
  /\ deathTimer' = FALSE
  /\ UNCHANGED <<acceptors, services, acceptor, pendingStart, ops, events,
                 reopens, shutdownStage, stopPosted, stopped>>

-------------------------------------------------------------------------------
(* The scheduler and the dispatcher *)

(* Fifteen seconds later the scheduler hands the event over, urgently;     *)
(* the dispatcher refuses it once Game::setGameState has stopped it.       *)
EventFires(p) ==
  /\ events[p] > 0
  /\ events' = [events EXCEPT ![p] = @ - 1]
  /\ reopens' = IF shutdownStage = "none" THEN [reopens EXCEPT ![p] = @ + 1]
                ELSE reopens
  /\ UNCHANGED <<acceptors, services, acceptor, pendingStart, ops, io,
                 shutdownStage, stopPosted, stopped, deathTimer>>

(* The weak_ptr locks while something refers to the port: the manager or a *)
(* handler that has not run.                                               *)
Referenced(p) ==
  \/ p \in acceptors
  \/ p \in stopPosted
  \/ \E result \in DOMAIN ops[p] : ops[p][result] > 0

OpenAcceptor(p, outcome) ==
  /\ reopens[p] > 0
  /\ reopens' = [reopens EXCEPT ![p] = @ - 1]
  /\ IF Referenced(p) THEN Open(p, outcome)
     ELSE UNCHANGED <<acceptor, pendingStart, ops, events>>
  /\ UNCHANGED <<acceptors, services, io, shutdownStage, stopPosted, stopped,
                 deathTimer>>

(* A task calls setGameState(GAME_STATE_SHUTDOWN), at a time when main()   *)
(* runs the network: Game::shutdown is queued, then the scheduler and the  *)
(* dispatcher accept nothing more.                                         *)
SetGameStateShutdown ==
  /\ io = "running"
  /\ shutdownStage = "none"
  /\ shutdownStage' = "queued"
  /\ UNCHANGED <<acceptors, services, acceptor, pendingStart, ops, events,
                 reopens, io, stopPosted, stopped, deathTimer>>

(* Reopenings were put in front of Game::shutdown, which was put behind.   *)
AnyTime == TRUE
ReopeningsDone == \A p \in Ports : reopens[p] = 0
GameShutdown ==
  /\ shutdownStage = "queued"
  /\ ReopeningsDone
  /\ shutdownStage' = "done"
  /\ events' = [p \in Ports |-> 0]
  /\ stopPosted' = acceptors
  /\ acceptors' = {}
  /\ deathTimer' = TRUE
  /\ UNCHANGED <<services, acceptor, pendingStart, ops, reopens, io, stopped>>

Handler(p) == OnAccept(p) \/ OnAcceptFailed(p) \/ OnAcceptAborted(p)

Next ==
  \/ \E p \in Ports :
       \/ \E proto \in Protocols :
            \/ \E outcome \in Outcomes : AddToNewPort(p, proto, outcome)
            \/ AddToPort(p, proto)
       \/ \E result \in {"accepted", "failed"} : AcceptCompletes(p, result)
       \/ Handler(p)
       \/ OnStopServer(p)
       \/ EventFires(p)
       \/ \E outcome \in Outcomes : OpenAcceptor(p, outcome)
  \/ Run
  \/ Die
  \/ SetGameStateShutdown
  \/ GameShutdown

(* Handlers and tasks run, events fire, and a port that is opened again    *)
(* and again is opened successfully at last.                               *)
Fairness ==
  \A p \in Ports :
    /\ WF_vars(Handler(p))
    /\ WF_vars(OnStopServer(p))
    /\ WF_vars(EventFires(p))
    /\ WF_vars(\E outcome \in Outcomes : OpenAcceptor(p, outcome))
    /\ SF_vars(OpenAcceptor(p, "listening"))

Spec == Init /\ [][Next]_vars
FairSpec == Spec /\ Fairness

-------------------------------------------------------------------------------
(* Properties *)

(* Each variable stays in its type, an accept waits only on an open        *)
(* acceptor, and the manager lets go of a port before it is stopped.       *)
TypeOK ==
  /\ acceptors \subseteq Ports
  /\ services \in [Ports -> Seq(Protocols)]
  /\ acceptor \in [Ports -> {"none", "open", "closed"}]
  /\ pendingStart \in [Ports -> BOOLEAN]
  /\ ops \in [Ports -> [waiting : Nat, accepted : Nat, failed : Nat,
                        aborted : Nat]]
  /\ events \in [Ports -> Nat]
  /\ reopens \in [Ports -> Nat]
  /\ io \in {"new", "running", "stopped"}
  /\ shutdownStage \in {"none", "queued", "done"}
  /\ stopPosted \subseteq Ports
  /\ stopped \subseteq Ports
  /\ deathTimer \in BOOLEAN
  /\ \A p \in Ports : ops[p].waiting > 0 => acceptor[p] = "open"
  /\ acceptors \cap (stopPosted \cup stopped) = {}

(* Handlers of port p that use its members when they run. *)
Pending(p) == ops[p].waiting + ops[p].accepted + ops[p].failed
Reopenings(p) == events[p] + reopens[p]

(* A port accepts one connection at a time, and is opened again only when  *)
(* it does not accept: there is one accept or one reopening, never both,   *)
(* and pendingStart says which.  Until the game is shut down no error      *)
(* leaves a port without either.  A port has no lock: when the dispatcher  *)
(* is to run open(), no handler on the network thread can use the port.    *)
AcceptsOrReopens ==
  /\ TypeOK
  /\ \A p \in Ports :
       /\ Pending(p) + Reopenings(p) <= 1
       /\ Reopenings(p) = 1 => pendingStart[p]
       /\ reopens[p] > 0 => Pending(p) = 0 /\ p \notin stopPosted
  /\ \A p \in acceptors :
       shutdownStage = "none" => Pending(p) + Reopenings(p) = 1

(* After onStopServer the port never listens again, although an accept     *)
(* that succeeded just before tries to go on and asks for a reopening.     *)
StoppedPortStaysClosed ==
  \A p \in stopped : acceptor[p] # "open" /\ Reopenings(p) = 0

(* A port whose accept failed accepts again, unless the game is shut down. *)
PortRecovers ==
  \A p \in Ports :
    io = "running" /\ p \in acceptors ~>
      ops[p].waiting > 0 \/ shutdownStage # "none"
===============================================================================
