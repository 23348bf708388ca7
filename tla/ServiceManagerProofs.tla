------------------------- MODULE ServiceManagerProofs --------------------------
(***************************************************************************)
(* Proofs about ServiceManager for any number of ports and protocols.      *)
(***************************************************************************)
EXTENDS ServiceManager, TLAPS

(* What holds of each port: it has one accept or one reopening, and        *)
(* pendingStart says which; a port that is in use has one of them until    *)
(* the game is shut down, a port that is not has none; and nothing is      *)
(* reopened afterwards.                                                    *)
PortOK(p) ==
  /\ Pending(p) + Reopenings(p) <= 1
  /\ Reopenings(p) > 0 => pendingStart[p]
  /\ Pending(p) > 0 => ~pendingStart[p] /\ acceptor[p] # "none"
  /\ p \in acceptors => services[p] # <<>>
  /\ p \in acceptors /\ shutdownStage = "none" => Pending(p) + Reopenings(p) = 1
  /\ p \notin acceptors /\ shutdownStage # "done" =>
       Pending(p) + Reopenings(p) = 0
  /\ p \in stopped => acceptor[p] # "open"
  /\ shutdownStage = "done" => Reopenings(p) = 0
  /\ shutdownStage # "done" => p \notin stopPosted \cup stopped

PortInv ==
  /\ TypeOK
  /\ \A p \in Ports : PortOK(p)
  /\ io = "new" => shutdownStage = "none"

-------------------------------------------------------------------------------
(* Counting what is outstanding *)

OpType == [waiting : Nat, accepted : Nat, failed : Nat, aborted : Nat]

(* How two fields of a count are set. *)
LEMMA SetFields ==
  ASSUME NEW o \in OpType, NEW m \in Nat, NEW n \in Nat
  PROVE  /\ [o EXCEPT !.aborted = n, !.waiting = m] \in OpType
         /\ [o EXCEPT !.waiting = m, !.accepted = n] \in OpType
         /\ [o EXCEPT !.waiting = m, !.failed = n] \in OpType
         /\ [o EXCEPT !.waiting = m] \in OpType
         /\ [o EXCEPT !.accepted = m] \in OpType
         /\ [o EXCEPT !.failed = m] \in OpType
         /\ [o EXCEPT !.aborted = m] \in OpType
BY DEF OpType

(* When an acceptor is closed nothing waits any more. *)
LEMMA AbortProperties ==
  ASSUME NEW o \in OpType
  PROVE  LET c == [o EXCEPT !.aborted = @ + o.waiting, !.waiting = 0]
         IN /\ c \in OpType
            /\ c.waiting = 0 /\ c.accepted = o.accepted /\ c.failed = o.failed
<1>1. o.aborted + o.waiting \in Nat /\ 0 \in Nat
  BY DEF OpType
<1>2. [o EXCEPT !.aborted = o.aborted + o.waiting, !.waiting = 0] \in OpType
  BY <1>1, SetFields
<1> QED
  BY <1>2 DEF OpType

(* An accept on an acceptor that exists waits or has failed.               *)
LEMMA AcceptProperties ==
  ASSUME NEW o \in OpType, NEW state \in {"open", "closed"}
  PROVE  /\ AcceptOn(o, state) \in OpType
         /\ AcceptOn(o, state).accepted = o.accepted
         /\ AcceptOn(o, state).waiting + AcceptOn(o, state).failed
              = o.waiting + o.failed + 1
         /\ AcceptOn(o, state).waiting > o.waiting => state = "open"
<1>1. o.waiting + 1 \in Nat /\ o.failed + 1 \in Nat
  BY DEF OpType
<1>2. CASE state = "open"
  <2>1. AcceptOn(o, state) = [o EXCEPT !.waiting = o.waiting + 1]
    BY <1>2 DEF AcceptOn
  <2>2. AcceptOn(o, state) \in OpType
    BY <1>1, <2>1, SetFields
  <2> QED
    BY <1>2, <2>1, <2>2 DEF OpType
<1>3. CASE state = "closed"
  <2>1. AcceptOn(o, state) = [o EXCEPT !.failed = o.failed + 1]
    BY <1>3 DEF AcceptOn
  <2>2. AcceptOn(o, state) \in OpType
    BY <1>1, <2>1, SetFields
  <2> QED
    BY <1>3, <2>1, <2>2 DEF OpType
<1> QED
  BY <1>2, <1>3

(* What open() does to its port, which was neither accepting nor about to: *)
(* it accepts afterwards, or asks for a reopening.                         *)
LEMMA OpenProperties ==
  ASSUME TypeOK, NEW p \in Ports, NEW outcome \in Outcomes, Open(p, outcome),
         Pending(p) = 0
  PROVE  /\ ops' \in [Ports -> OpType]
         /\ acceptor' \in [Ports -> {"none", "open", "closed"}]
         /\ pendingStart' \in [Ports -> BOOLEAN]
         /\ events' \in [Ports -> Nat]
         /\ \A q \in Ports \ {p} : /\ ops'[q] = ops[q]
                                   /\ acceptor'[q] = acceptor[q]
                                   /\ pendingStart'[q] = pendingStart[q]
                                   /\ events'[q] = events[q]
         /\ ops'[p].waiting > 0 \/ Pending(p)' > 0 => acceptor'[p] = "open"
         /\ \/ Pending(p)' = 1 /\ ~pendingStart'[p] /\ events'[p] = events[p]
            \/ /\ Pending(p)' = 0 /\ pendingStart'[p]
               /\ events'[p] = events[p] + IF SchedulerAccepts THEN 1 ELSE 0
<1>1. /\ ops \in [Ports -> OpType] /\ events \in [Ports -> Nat]
      /\ acceptor \in [Ports -> {"none", "open", "closed"}]
      /\ pendingStart \in [Ports -> BOOLEAN]
  BY DEF TypeOK, OpType
<1>2. ops[p] \in OpType
  BY <1>1
<1>3. ops[p].waiting = 0 /\ ops[p].accepted = 0 /\ ops[p].failed = 0
  BY <1>2 DEF Pending, OpType
<1>4. /\ Aborted(p) \in OpType
      /\ Aborted(p).waiting = 0 /\ Aborted(p).accepted = 0 /\ Aborted(p).failed = 0
  BY <1>2, <1>3, AbortProperties DEF Aborted
<1>5. pendingStart' = [pendingStart EXCEPT ![p] = outcome # "listening"]
  BY DEF Open, PendingAfter
<1>6. /\ pendingStart' \in [Ports -> BOOLEAN]
      /\ pendingStart'[p] = (outcome # "listening")
      /\ \A q \in Ports \ {p} : pendingStart'[q] = pendingStart[q]
  BY <1>1, <1>5, Zenon
<1>7. CASE outcome = "listening"
  <2> DEFINE o == AcceptOn(Aborted(p), "open")
  <2>1. /\ acceptor' = [acceptor EXCEPT ![p] = "open"]
        /\ ops' = [ops EXCEPT ![p] = o]
        /\ events' = events
    BY <1>7 DEF Open
  <2>2. o \in OpType /\ o.accepted = 0 /\ o.waiting + o.failed = 1
    BY <1>4, AcceptProperties
  <2> HIDE DEF o
  <2>3. ops' \in [Ports -> OpType] /\ ops'[p] = o
    BY <1>1, <2>1, <2>2
  <2>4. Pending(p)' = 1
    BY <2>2, <2>3 DEF Pending, OpType
  <2> QED
    BY <1>1, <1>6, <1>7, <2>1, <2>3, <2>4
<1>8. CASE outcome # "listening"
  <2>1. PICK a \in {"none", "open", "closed"} :
          /\ acceptor' = [acceptor EXCEPT ![p] = a]
          /\ ops' = [ops EXCEPT ![p] = Aborted(p)]
          /\ ReopenLater(p)
    BY <1>1, <1>8 DEF Open, Closed
  <2>2. ops' \in [Ports -> OpType] /\ ops'[p] = Aborted(p)
    BY <1>1, <1>4, <2>1
  <2>3. Pending(p)' = 0 /\ ~(ops'[p].waiting > 0)
    BY <1>4, <2>2 DEF Pending
  <2>4. /\ events' \in [Ports -> Nat]
        /\ events'[p] = events[p] + IF SchedulerAccepts THEN 1 ELSE 0
        /\ \A q \in Ports \ {p} : events'[q] = events[q]
    BY <1>1, <2>1 DEF ReopenLater
  <2> QED
    BY <1>1, <1>6, <1>8, <2>1, <2>2, <2>3, <2>4
<1> QED
  BY <1>7, <1>8

-------------------------------------------------------------------------------
(* Steps *)

(* A step that concerns port p only leaves all others as they were. *)
SamePort(q) ==
  /\ ops'[q] = ops[q] /\ acceptor'[q] = acceptor[q]
  /\ pendingStart'[q] = pendingStart[q] /\ services'[q] = services[q]
  /\ events'[q] = events[q] /\ reopens'[q] = reopens[q]
  /\ q \in acceptors' <=> q \in acceptors
  /\ q \in stopPosted' <=> q \in stopPosted
  /\ q \in stopped' <=> q \in stopped

(* If its own port stays in order, so do all. *)
LEMMA PortUpdate ==
  ASSUME PortInv, TypeOK', NEW p \in Ports, PortOK(p)',
         \A q \in Ports \ {p} : SamePort(q), UNCHANGED <<io, shutdownStage>>
  PROVE  PortInv'
<1>1. ASSUME NEW q \in Ports, q # p PROVE PortOK(q)'
  <2>1. PortOK(q) /\ SamePort(q) /\ shutdownStage' = shutdownStage
    BY <1>1 DEF PortInv
  <2>2. Pending(q)' = Pending(q) /\ Reopenings(q)' = Reopenings(q)
    BY <2>1 DEF SamePort, Pending, Reopenings
  <2> QED
    BY <2>1, <2>2 DEF SamePort, PortOK
<1> QED
  BY <1>1 DEF PortInv

(* The counts of a port are numbers. *)
LEMMA PortTypes ==
  ASSUME TypeOK, NEW p \in Ports
  PROVE  /\ ops[p] \in OpType
         /\ ops[p].waiting \in Nat /\ ops[p].accepted \in Nat
         /\ ops[p].failed \in Nat /\ ops[p].aborted \in Nat
         /\ events[p] \in Nat /\ reopens[p] \in Nat
         /\ Pending(p) \in Nat /\ Reopenings(p) \in Nat
BY DEF TypeOK, OpType, Pending, Reopenings

(* A port that gets a protocol has one. *)
LEMMA AddService ==
  ASSUME services \in [Ports -> Seq(Protocols)],
         NEW p \in Ports, NEW proto \in Protocols,
         services' = [services EXCEPT ![p] = Append(@, proto)]
  PROVE  /\ services' \in [Ports -> Seq(Protocols)]
         /\ services'[p] # <<>>
         /\ \A q \in Ports \ {p} : services'[q] = services[q]
<1>1. services[p] \in Seq(Protocols)
  OBVIOUS
<1>2. Append(services[p], proto) \in Seq(Protocols)
  BY <1>1
<1>3. Append(services[p], proto) # <<>>
  <2>1. Len(Append(services[p], proto)) = Len(services[p]) + 1
    BY <1>1
  <2>2. Len(services[p]) \in Nat /\ Len(<<>>) = 0
    BY <1>1
  <2> QED
    BY <2>1, <2>2
<1> QED
  BY <1>2, <1>3

(* Ports are added before the network runs, and the first protocol of one  *)
(* opens it.                                                               *)
LEMMA AddStep ==
  ASSUME PortInv, NEW p \in Ports, NEW proto \in Protocols,
         \/ \E outcome \in Outcomes : AddToNewPort(p, proto, outcome)
         \/ AddToPort(p, proto)
  PROVE  PortInv'
<1>1. ASSUME NEW outcome \in Outcomes, AddToNewPort(p, proto, outcome)
      PROVE  PortInv'
  <2>1. /\ io = "new" /\ p \notin acceptors
        /\ acceptors' = acceptors \cup {p}
        /\ Open(p, outcome)
        /\ services' = [services EXCEPT ![p] = Append(@, proto)]
        /\ UNCHANGED <<reopens, io, shutdownStage, stopPosted, stopped, deathTimer>>
    BY <1>1 DEF AddToNewPort
  <2>2. shutdownStage = "none" /\ PortOK(p) /\ TypeOK
    BY <2>1 DEF PortInv
  <2>3. /\ Pending(p) = 0 /\ events[p] = 0 /\ reopens[p] = 0
        /\ p \notin stopPosted /\ p \notin stopped
    BY <2>1, <2>2, PortTypes DEF PortOK, Pending, Reopenings
  <2>4. /\ services' \in [Ports -> Seq(Protocols)] /\ services'[p] # <<>>
        /\ \A q \in Ports \ {p} : services'[q] = services[q]
    BY <2>1, <2>2, AddService DEF TypeOK
  <2>a. /\ ops' \in [Ports -> OpType]
        /\ acceptor' \in [Ports -> {"none", "open", "closed"}]
        /\ pendingStart' \in [Ports -> BOOLEAN]
        /\ events' \in [Ports -> Nat]
        /\ \A q \in Ports \ {p} : /\ ops'[q] = ops[q]
                                  /\ acceptor'[q] = acceptor[q]
                                  /\ pendingStart'[q] = pendingStart[q]
                                  /\ events'[q] = events[q]
        /\ ops'[p].waiting > 0 \/ Pending(p)' > 0 => acceptor'[p] = "open"
        /\ \/ Pending(p)' = 1 /\ ~pendingStart'[p] /\ events'[p] = 0
           \/ Pending(p)' = 0 /\ pendingStart'[p] /\ events'[p] = 1
    BY <2>1, <2>2, <2>3, OpenProperties DEF SchedulerAccepts
  <2>5. TypeOK'
    <3>1. \A q \in Ports : ops'[q].waiting > 0 => acceptor'[q] = "open"
      BY <2>2, <2>a DEF TypeOK
    <3>2. /\ acceptors' \subseteq Ports
          /\ acceptors' \cap (stopPosted' \cup stopped') = {}
      BY <2>1, <2>2, <2>3 DEF TypeOK
    <3> QED
      BY <2>1, <2>2, <2>4, <2>a, <3>1, <3>2 DEF TypeOK, OpType
  <2>6. PortOK(p)'
    <3>1. Reopenings(p)' = events'[p]
      BY <2>1, <2>3, <2>5, PortTypes DEF Reopenings, TypeOK
    <3> QED
      BY <2>1, <2>2, <2>3, <2>4, <2>a, <3>1 DEF PortOK
  <2>7. \A q \in Ports \ {p} : SamePort(q)
    BY <2>1, <2>4, <2>a DEF SamePort
  <2> QED
    BY <2>1, <2>5, <2>6, <2>7, PortUpdate
<1>2. ASSUME AddToPort(p, proto) PROVE PortInv'
  <2>1. /\ services' = [services EXCEPT ![p] = Append(@, proto)]
        /\ UNCHANGED <<acceptors, acceptor, pendingStart, ops, events, reopens,
                       io, shutdownStage, stopPosted, stopped, deathTimer>>
    BY <1>2 DEF AddToPort
  <2>2. /\ services' \in [Ports -> Seq(Protocols)] /\ services'[p] # <<>>
        /\ \A q \in Ports \ {p} : services'[q] = services[q]
    BY <2>1, AddService DEF PortInv, TypeOK
  <2>3. TypeOK'
    BY <2>1, <2>2 DEF PortInv, TypeOK
  <2>4. PortOK(p)'
    BY <2>1, <2>2 DEF PortInv, PortOK, Pending, Reopenings
  <2>5. \A q \in Ports \ {p} : SamePort(q)
    BY <2>1, <2>2 DEF SamePort
  <2> QED
    BY <2>1, <2>3, <2>4, <2>5, PortUpdate
<1> QED
  BY <1>1, <1>2

(* An accept completes, with or without an error.                          *)
LEMMA AcceptStep ==
  ASSUME PortInv, NEW p \in Ports, NEW result \in {"accepted", "failed"},
         AcceptCompletes(p, result)
  PROVE  PortInv'
<1> DEFINE o == [ops[p] EXCEPT !.waiting = @ - 1, ![result] = @ + 1]
<1>1. /\ ops[p].waiting > 0 /\ ops' = [ops EXCEPT ![p] = o]
      /\ UNCHANGED <<acceptors, services, acceptor, pendingStart, events,
                     reopens, io, shutdownStage, stopPosted, stopped, deathTimer>>
  BY DEF AcceptCompletes
<1>2. TypeOK /\ PortOK(p)
  BY DEF PortInv
<1>3. /\ ops[p].waiting - 1 \in Nat /\ ops[p].accepted + 1 \in Nat
      /\ ops[p].failed + 1 \in Nat
  BY <1>1, <1>2, PortTypes
<1>4. /\ o \in OpType /\ o.waiting = ops[p].waiting - 1
      /\ o.waiting + o.accepted + o.failed = Pending(p)
  <2>1. CASE result = "accepted"
    <3>1. o = [ops[p] EXCEPT !.waiting = ops[p].waiting - 1,
                             !.accepted = ops[p].accepted + 1]
      BY <2>1
    <3>2. o \in OpType
      BY <1>2, <1>3, <3>1, PortTypes, SetFields
    <3>3. /\ o.waiting = ops[p].waiting - 1
          /\ o.accepted = ops[p].accepted + 1
          /\ o.failed = ops[p].failed
      BY <1>2, <3>1, PortTypes DEF OpType
    <3> HIDE DEF o
    <3> QED
      BY <1>2, <3>2, <3>3, PortTypes DEF Pending
  <2>2. CASE result = "failed"
    <3>1. o = [ops[p] EXCEPT !.waiting = ops[p].waiting - 1,
                             !.failed = ops[p].failed + 1]
      BY <2>2
    <3>2. o \in OpType
      BY <1>2, <1>3, <3>1, PortTypes, SetFields
    <3>3. /\ o.waiting = ops[p].waiting - 1
          /\ o.failed = ops[p].failed + 1
          /\ o.accepted = ops[p].accepted
      BY <1>2, <3>1, PortTypes DEF OpType
    <3> HIDE DEF o
    <3> QED
      BY <1>2, <3>2, <3>3, PortTypes DEF Pending
  <2> QED
    BY <2>1, <2>2
<1> HIDE DEF o
<1>5. /\ ops' \in [Ports -> OpType] /\ ops'[p] = o
      /\ \A q \in Ports \ {p} : ops'[q] = ops[q]
  BY <1>1, <1>2, <1>4 DEF TypeOK, OpType
<1>6. acceptor[p] = "open"
  BY <1>1, <1>2 DEF TypeOK
<1>7. TypeOK'
  BY <1>1, <1>2, <1>5, <1>6 DEF TypeOK, OpType
<1>8. PortOK(p)'
  BY <1>1, <1>2, <1>4, <1>5 DEF PortOK, Pending, Reopenings
<1>9. \A q \in Ports \ {p} : SamePort(q)
  BY <1>1, <1>5 DEF SamePort
<1> QED
  BY <1>1, <1>7, <1>8, <1>9, PortUpdate

(* A handler of an accept that succeeded accepts the next connection, and  *)
(* one whose acceptor was closed meanwhile gets an error for it.           *)
LEMMA OnAcceptStep ==
  ASSUME PortInv, NEW p \in Ports, OnAccept(p)
  PROVE  PortInv'
<1> DEFINE rest == [ops[p] EXCEPT !.accepted = ops[p].accepted - 1]
           o == IF services[p] = <<>> THEN rest ELSE AcceptOn(rest, acceptor[p])
<1>1. /\ ops[p].accepted > 0 /\ ops' = [ops EXCEPT ![p] = o]
      /\ UNCHANGED <<acceptors, services, acceptor, pendingStart, events,
                     reopens, io, shutdownStage, stopPosted, stopped, deathTimer>>
  BY DEF OnAccept
<1>2. TypeOK /\ PortOK(p)
  BY DEF PortInv
<1>3. /\ Pending(p) = 1 /\ ops[p].accepted = 1 /\ ops[p].waiting = 0
      /\ ops[p].failed = 0 /\ Reopenings(p) = 0
  BY <1>1, <1>2, PortTypes DEF PortOK, Pending
<1>4. acceptor[p] \in {"open", "closed"}
  BY <1>2, <1>3 DEF PortOK, TypeOK
<1>5. rest \in OpType /\ rest.accepted = 0 /\ rest.waiting = 0 /\ rest.failed = 0
  <2>1. rest = [ops[p] EXCEPT !.accepted = 0] /\ 0 \in Nat
    BY <1>3
  <2>2. rest \in OpType
    BY <1>2, <2>1, PortTypes, SetFields
  <2> QED
    BY <1>2, <1>3, <2>1, <2>2, PortTypes DEF OpType
<1> HIDE DEF rest
<1>6. /\ o \in OpType /\ o.accepted = 0
      /\ o.waiting + o.failed = (IF services[p] = <<>> THEN 0 ELSE 1)
      /\ o.waiting > 0 => acceptor[p] = "open"
  <2>1. CASE services[p] = <<>>
    BY <1>5, <2>1
  <2>2. CASE services[p] # <<>>
    <3>1. o = AcceptOn(rest, acceptor[p])
      BY <2>2
    <3> HIDE DEF o
    <3> QED
      BY <1>4, <1>5, <2>2, <3>1, AcceptProperties
  <2> QED
    BY <2>1, <2>2
<1> HIDE DEF o
<1>7. /\ ops' \in [Ports -> OpType] /\ ops'[p] = o
      /\ \A q \in Ports \ {p} : ops'[q] = ops[q]
  BY <1>1, <1>2, <1>6 DEF TypeOK, OpType
<1>8. TypeOK'
  BY <1>1, <1>2, <1>6, <1>7 DEF TypeOK, OpType
<1>9. PortOK(p)'
  <2>1. Pending(p)' = (IF services[p] = <<>> THEN 0 ELSE 1)
    BY <1>6, <1>7 DEF Pending, OpType
  <2>2. Reopenings(p)' = 0
    BY <1>1, <1>3 DEF Reopenings
  <2> QED
    BY <1>1, <1>2, <1>3, <2>1, <2>2 DEF PortOK
<1>10. \A q \in Ports \ {p} : SamePort(q)
  BY <1>1, <1>7 DEF SamePort
<1> QED
  BY <1>1, <1>8, <1>9, <1>10, PortUpdate

(* A handler of an accept that failed closes the acceptor and asks for a   *)
(* reopening; it cannot find one pending.                                  *)
LEMMA OnAcceptFailedStep ==
  ASSUME PortInv, NEW p \in Ports, OnAcceptFailed(p)
  PROVE  PortInv'
<1> DEFINE rest == [ops[p] EXCEPT !.failed = ops[p].failed - 1]
           o == [rest EXCEPT !.aborted = @ + rest.waiting, !.waiting = 0]
<1>1. TypeOK /\ PortOK(p) /\ ops[p].failed > 0
  BY DEF PortInv, OnAcceptFailed
<1>2. /\ Pending(p) = 1 /\ ops[p].failed = 1 /\ ops[p].waiting = 0
      /\ ops[p].accepted = 0 /\ Reopenings(p) = 0 /\ ~pendingStart[p]
  BY <1>1, PortTypes DEF PortOK, Pending
<1>3. /\ acceptor' = [acceptor EXCEPT ![p] = Closed(p)]
      /\ ops' = [ops EXCEPT ![p] = o]
      /\ pendingStart' = [pendingStart EXCEPT ![p] = TRUE]
      /\ ReopenLater(p)
      /\ UNCHANGED <<acceptors, services, reopens, io, shutdownStage,
                     stopPosted, stopped, deathTimer>>
  BY <1>2 DEF OnAcceptFailed
<1>4. rest \in OpType /\ rest.accepted = 0 /\ rest.waiting = 0 /\ rest.failed = 0
  <2>1. rest = [ops[p] EXCEPT !.failed = 0] /\ 0 \in Nat
    BY <1>2
  <2>2. rest \in OpType
    BY <1>1, <2>1, PortTypes, SetFields
  <2> QED
    BY <1>1, <1>2, <2>1, <2>2, PortTypes DEF OpType
<1> HIDE DEF rest
<1>5. o \in OpType /\ o.accepted = 0 /\ o.waiting = 0 /\ o.failed = 0
  BY <1>4, AbortProperties
<1> HIDE DEF o
<1>6. /\ ops' \in [Ports -> OpType] /\ ops'[p] = o
      /\ \A q \in Ports \ {p} : ops'[q] = ops[q]
  BY <1>1, <1>3, <1>5 DEF TypeOK, OpType
<1>7. /\ acceptor' \in [Ports -> {"none", "open", "closed"}]
      /\ \A q \in Ports \ {p} : acceptor'[q] = acceptor[q]
      /\ acceptor'[p] # "open"
  BY <1>1, <1>3 DEF TypeOK, Closed
<1>8. /\ pendingStart' \in [Ports -> BOOLEAN] /\ pendingStart'[p]
      /\ \A q \in Ports \ {p} : pendingStart'[q] = pendingStart[q]
  BY <1>1, <1>3 DEF TypeOK
<1>9. /\ events' \in [Ports -> Nat]
      /\ events'[p] = events[p] + IF SchedulerAccepts THEN 1 ELSE 0
      /\ \A q \in Ports \ {p} : events'[q] = events[q]
  BY <1>1, <1>3 DEF TypeOK, ReopenLater
<1>10. TypeOK'
  <2>1. \A q \in Ports : ops'[q].waiting > 0 => acceptor'[q] = "open"
    <3>1. ~(ops'[p].waiting > 0)
      BY <1>1, <1>5, <1>6, <1>7
    <3>2. \A q \in Ports \ {p} : ops'[q].waiting > 0 => acceptor'[q] = "open"
      BY <1>1, <1>5, <1>6, <1>7 DEF TypeOK
    <3> QED
      BY <3>1, <3>2
  <2> QED
    BY <1>1, <1>3, <1>6, <1>7, <1>8, <1>9, <2>1 DEF TypeOK, OpType
<1>11. PortOK(p)'
  <2>1. Pending(p)' = 0
    BY <1>5, <1>6 DEF Pending
  <2>2. Reopenings(p)' = IF SchedulerAccepts THEN 1 ELSE 0
    BY <1>1, <1>2, <1>3, <1>9, PortTypes DEF Reopenings
  <2> QED
    BY <1>1, <1>2, <1>3, <1>7, <1>8, <2>1, <2>2 DEF PortOK, SchedulerAccepts
<1>12. \A q \in Ports \ {p} : SamePort(q)
  BY <1>3, <1>6, <1>7, <1>8, <1>9 DEF SamePort
<1> QED
  BY <1>3, <1>10, <1>11, <1>12, PortUpdate

(* A handler of an accept that was aborted does nothing.                   *)
LEMMA OnAcceptAbortedStep ==
  ASSUME PortInv, NEW p \in Ports, OnAcceptAborted(p)
  PROVE  PortInv'
<1> DEFINE o == [ops[p] EXCEPT !.aborted = ops[p].aborted - 1]
<1>1. /\ ops[p].aborted > 0 /\ ops' = [ops EXCEPT ![p] = o]
      /\ UNCHANGED <<acceptors, services, acceptor, pendingStart, events,
                     reopens, io, shutdownStage, stopPosted, stopped, deathTimer>>
  BY DEF OnAcceptAborted
<1>2. TypeOK /\ PortOK(p)
  BY DEF PortInv
<1>3. ops[p].aborted - 1 \in Nat
  BY <1>1, <1>2, PortTypes
<1>4. o \in OpType
  BY <1>2, <1>3, PortTypes, SetFields
<1>5. /\ o.waiting = ops[p].waiting /\ o.accepted = ops[p].accepted
      /\ o.failed = ops[p].failed
  BY <1>2, PortTypes DEF OpType
<1> HIDE DEF o
<1>6. /\ ops' \in [Ports -> OpType] /\ ops'[p] = o
      /\ \A q \in Ports \ {p} : ops'[q] = ops[q]
  BY <1>1, <1>2, <1>4 DEF TypeOK, OpType
<1>7. TypeOK'
  BY <1>1, <1>2, <1>5, <1>6 DEF TypeOK, OpType
<1>8. PortOK(p)'
  BY <1>1, <1>2, <1>5, <1>6 DEF PortOK, Pending, Reopenings
<1>9. \A q \in Ports \ {p} : SamePort(q)
  BY <1>1, <1>6 DEF SamePort
<1> QED
  BY <1>1, <1>7, <1>8, <1>9, PortUpdate

(* onStopServer closes the acceptor.                                       *)
LEMMA OnStopServerStep ==
  ASSUME PortInv, NEW p \in Ports, OnStopServer(p)
  PROVE  PortInv'
<1>1. /\ p \in stopPosted
      /\ stopPosted' = stopPosted \ {p}
      /\ stopped' = stopped \cup {p}
      /\ acceptor' = [acceptor EXCEPT ![p] = Closed(p)]
      /\ ops' = [ops EXCEPT ![p] = Aborted(p)]
      /\ UNCHANGED <<acceptors, services, pendingStart, events, reopens, io,
                     shutdownStage, deathTimer>>
  BY DEF OnStopServer
<1>2. TypeOK /\ PortOK(p) /\ shutdownStage = "done" /\ p \notin acceptors
  BY <1>1 DEF PortInv, PortOK, TypeOK
<1>3. /\ Aborted(p) \in OpType /\ Aborted(p).waiting = 0
      /\ Aborted(p).accepted = ops[p].accepted /\ Aborted(p).failed = ops[p].failed
  BY <1>2, PortTypes, AbortProperties DEF Aborted
<1>4. /\ ops' \in [Ports -> OpType] /\ ops'[p] = Aborted(p)
      /\ \A q \in Ports \ {p} : ops'[q] = ops[q]
  BY <1>1, <1>2, <1>3 DEF TypeOK, OpType
<1>5. /\ acceptor' \in [Ports -> {"none", "open", "closed"}]
      /\ \A q \in Ports \ {p} : acceptor'[q] = acceptor[q]
      /\ acceptor'[p] # "open"
      /\ acceptor[p] # "none" => acceptor'[p] # "none"
  BY <1>1, <1>2 DEF TypeOK, Closed
<1>6. TypeOK'
  <2>1. \A q \in Ports : ops'[q].waiting > 0 => acceptor'[q] = "open"
    <3>1. ~(ops'[p].waiting > 0)
      BY <1>2, <1>3, <1>4, <1>5
    <3>2. \A q \in Ports \ {p} : ops'[q].waiting > 0 => acceptor'[q] = "open"
      BY <1>2, <1>3, <1>4, <1>5 DEF TypeOK
    <3> QED
      BY <3>1, <3>2
  <2>2. /\ stopPosted' \subseteq Ports /\ stopped' \subseteq Ports
        /\ acceptors \cap (stopPosted' \cup stopped') = {}
    BY <1>1, <1>2 DEF TypeOK
  <2> QED
    BY <1>1, <1>2, <1>4, <1>5, <2>1, <2>2 DEF TypeOK, OpType
<1>7. PortOK(p)'
  <2>1. Pending(p)' <= Pending(p) /\ Pending(p)' \in Nat
    BY <1>2, <1>3, <1>4, PortTypes DEF Pending
  <2>2. Reopenings(p)' = Reopenings(p) /\ Reopenings(p) = 0
    BY <1>1, <1>2 DEF Reopenings, PortOK
  <2> QED
    BY <1>1, <1>2, <1>5, <2>1, <2>2, PortTypes DEF PortOK
<1>8. \A q \in Ports \ {p} : SamePort(q)
  BY <1>1, <1>4, <1>5 DEF SamePort
<1> QED
  BY <1>1, <1>6, <1>7, <1>8, PortUpdate

-------------------------------------------------------------------------------
(* Reopenings *)

(* The scheduler hands a reopening to the dispatcher, or loses it to the   *)
(* shutdown.                                                               *)
LEMMA EventFiresStep ==
  ASSUME PortInv, NEW p \in Ports, EventFires(p)
  PROVE  PortInv'
<1>1. /\ events[p] > 0
      /\ events' = [events EXCEPT ![p] = events[p] - 1]
      /\ reopens' = IF shutdownStage = "none"
                    THEN [reopens EXCEPT ![p] = reopens[p] + 1] ELSE reopens
      /\ UNCHANGED <<acceptors, services, acceptor, pendingStart, ops, io,
                     shutdownStage, stopPosted, stopped, deathTimer>>
  BY DEF EventFires
<1>2. TypeOK /\ PortOK(p)
  BY DEF PortInv
<1>3. /\ Pending(p) = 0 /\ events[p] = 1 /\ reopens[p] = 0 /\ pendingStart[p]
      /\ Reopenings(p) = 1
  BY <1>1, <1>2, PortTypes DEF PortOK, Reopenings
<1>4. /\ events' \in [Ports -> Nat] /\ events'[p] = 0
      /\ \A q \in Ports \ {p} : events'[q] = events[q]
  BY <1>1, <1>2, <1>3 DEF TypeOK
<1>5. /\ reopens' \in [Ports -> Nat]
      /\ reopens'[p] = (IF shutdownStage = "none" THEN 1 ELSE 0)
      /\ \A q \in Ports \ {p} : reopens'[q] = reopens[q]
  BY <1>1, <1>2, <1>3 DEF TypeOK
<1>6. TypeOK'
  BY <1>1, <1>2, <1>4, <1>5 DEF TypeOK
<1>7. PortOK(p)'
  <2>1. Pending(p)' = 0 /\ Reopenings(p)' = IF shutdownStage = "none" THEN 1 ELSE 0
    BY <1>1, <1>3, <1>4, <1>5 DEF Pending, Reopenings
  <2> QED
    BY <1>1, <1>2, <1>3, <2>1 DEF PortOK
<1>8. \A q \in Ports \ {p} : SamePort(q)
  BY <1>1, <1>4, <1>5 DEF SamePort
<1> QED
  BY <1>1, <1>6, <1>7, <1>8, PortUpdate

(* A reopening runs: nothing else concerns the port then, so that open()   *)
(* leaves it with an accept or with another reopening.                     *)
LEMMA OpenAcceptorStep ==
  ASSUME PortInv, NEW p \in Ports, NEW outcome \in Outcomes,
         OpenAcceptor(p, outcome)
  PROVE  PortInv'
<1>1. /\ reopens[p] > 0
      /\ reopens' = [reopens EXCEPT ![p] = reopens[p] - 1]
      /\ UNCHANGED <<acceptors, services, io, shutdownStage, stopPosted,
                     stopped, deathTimer>>
  BY DEF OpenAcceptor
<1>2. TypeOK /\ PortOK(p)
  BY DEF PortInv
<1>3. /\ Pending(p) = 0 /\ events[p] = 0 /\ reopens[p] = 1
      /\ p \in acceptors /\ p \notin stopped /\ shutdownStage # "done"
  BY <1>1, <1>2, PortTypes DEF PortOK, Reopenings
<1>4. Open(p, outcome)
  BY <1>3 DEF OpenAcceptor, Referenced
<1>5. /\ reopens' \in [Ports -> Nat] /\ reopens'[p] = 0
      /\ \A q \in Ports \ {p} : reopens'[q] = reopens[q]
  BY <1>1, <1>2, <1>3 DEF TypeOK
<1>6. /\ ops' \in [Ports -> OpType]
      /\ acceptor' \in [Ports -> {"none", "open", "closed"}]
      /\ pendingStart' \in [Ports -> BOOLEAN]
      /\ events' \in [Ports -> Nat]
      /\ \A q \in Ports \ {p} : /\ ops'[q] = ops[q]
                                /\ acceptor'[q] = acceptor[q]
                                /\ pendingStart'[q] = pendingStart[q]
                                /\ events'[q] = events[q]
      /\ ops'[p].waiting > 0 \/ Pending(p)' > 0 => acceptor'[p] = "open"
      /\ \/ Pending(p)' = 1 /\ ~pendingStart'[p] /\ events'[p] = 0
         \/ /\ Pending(p)' = 0 /\ pendingStart'[p]
            /\ events'[p] = IF shutdownStage = "none" THEN 1 ELSE 0
  BY <1>2, <1>3, <1>4, OpenProperties DEF SchedulerAccepts
<1>7. TypeOK'
  <2>1. \A q \in Ports : ops'[q].waiting > 0 => acceptor'[q] = "open"
    BY <1>2, <1>6 DEF TypeOK
  <2> QED
    BY <1>1, <1>2, <1>5, <1>6, <2>1 DEF TypeOK, OpType
<1>8. PortOK(p)'
  <2>1. Reopenings(p)' = events'[p]
    BY <1>5, <1>6 DEF Reopenings
  <2> QED
    BY <1>1, <1>2, <1>3, <1>6, <2>1 DEF PortOK
<1>9. \A q \in Ports \ {p} : SamePort(q)
  BY <1>1, <1>5, <1>6 DEF SamePort
<1> QED
  BY <1>1, <1>7, <1>8, <1>9, PortUpdate

(* When the game is shut down no reopening is left.                        *)
LEMMA GameShutdownStep ==
  ASSUME PortInv, GameShutdown
  PROVE  PortInv'
<1>1. /\ shutdownStage = "queued" /\ shutdownStage' = "done"
      /\ \A p \in Ports : reopens[p] = 0
      /\ events' = [p \in Ports |-> 0]
      /\ stopPosted' = acceptors /\ acceptors' = {} /\ deathTimer' = TRUE
      /\ UNCHANGED <<services, acceptor, pendingStart, ops, reopens, io, stopped>>
  BY DEF GameShutdown, ReopeningsDone
<1>2. TypeOK'
  BY <1>1 DEF PortInv, TypeOK
<1>3. ASSUME NEW p \in Ports PROVE PortOK(p)'
  <2>1. Pending(p)' = Pending(p) /\ Reopenings(p)' = 0 /\ PortOK(p)
    BY <1>1 DEF Pending, Reopenings, PortInv
  <2>2. Pending(p) \in Nat /\ Reopenings(p) \in Nat
    BY PortTypes DEF PortInv
  <2> QED
    BY <1>1, <2>1, <2>2 DEF PortOK
<1> QED
  BY <1>1, <1>2, <1>3 DEF PortInv

-------------------------------------------------------------------------------
(* Every step keeps each port in order. *)
LEMMA PortInductive == PortInv /\ [Next]_vars => PortInv'
<1> SUFFICES ASSUME PortInv, [Next]_vars PROVE PortInv'
  OBVIOUS
<1>1. ASSUME NEW p \in Ports,
             \/ \E proto \in Protocols :
                  \/ \E outcome \in Outcomes : AddToNewPort(p, proto, outcome)
                  \/ AddToPort(p, proto)
             \/ \E result \in {"accepted", "failed"} : AcceptCompletes(p, result)
             \/ Handler(p)
             \/ OnStopServer(p)
             \/ EventFires(p)
             \/ \E outcome \in Outcomes : OpenAcceptor(p, outcome)
      PROVE  PortInv'
  BY <1>1, AddStep, AcceptStep, OnAcceptStep, OnAcceptFailedStep,
     OnAcceptAbortedStep, OnStopServerStep, EventFiresStep, OpenAcceptorStep
  DEF Handler
<1>2. CASE Run
  <2>1. TypeOK'
    BY <1>2 DEF PortInv, TypeOK, Run
  <2>2. \A p \in Ports : PortOK(p)'
    BY <1>2 DEF PortInv, PortOK, Pending, Reopenings, Run
  <2> QED
    BY <1>2, <2>1, <2>2 DEF PortInv, Run
<1>3. CASE Die
  <2>1. TypeOK'
    BY <1>3 DEF PortInv, TypeOK, Die
  <2>2. \A p \in Ports : PortOK(p)'
    BY <1>3 DEF PortInv, PortOK, Pending, Reopenings, Die
  <2> QED
    BY <1>3, <2>1, <2>2 DEF PortInv, Die
<1>4. CASE SetGameStateShutdown
  <2>1. TypeOK'
    BY <1>4 DEF PortInv, TypeOK, SetGameStateShutdown
  <2>2. \A p \in Ports : PortOK(p)'
    BY <1>4 DEF PortInv, PortOK, Pending, Reopenings, SetGameStateShutdown
  <2> QED
    BY <1>4, <2>1, <2>2 DEF PortInv, SetGameStateShutdown
<1>5. CASE UNCHANGED vars
  <2>1. TypeOK'
    BY <1>5 DEF PortInv, TypeOK, vars
  <2>2. \A p \in Ports : PortOK(p)'
    BY <1>5 DEF PortInv, PortOK, Pending, Reopenings, vars
  <2> QED
    BY <1>5, <2>1, <2>2 DEF PortInv, vars
<1> QED
  BY <1>1, <1>2, <1>3, <1>4, <1>5, GameShutdownStep DEF Next

(* Each port stays in order for ever. *)
LEMMA PortInvariant == Spec => []PortInv
<1>1. ASSUME Init PROVE PortInv
  <2>1. NoOps \in OpType
    BY DEF NoOps, OpType
  <2>2. TypeOK
    <3>1. NoOps.waiting = 0 /\ ~(0 > 0)
      BY DEF NoOps
    <3>2. \A p \in Ports : ~(ops[p].waiting > 0)
      BY <1>1, <3>1 DEF Init
    <3>3. services \in [Ports -> Seq(Protocols)]
      BY <1>1 DEF Init
    <3>4. ops \in [Ports -> OpType]
      BY <1>1, <2>1 DEF Init
    <3>5. /\ events \in [Ports -> Nat] /\ reopens \in [Ports -> Nat]
          /\ acceptor \in [Ports -> {"none", "open", "closed"}]
          /\ pendingStart \in [Ports -> BOOLEAN]
      BY <1>1 DEF Init
    <3> QED
      BY <1>1, <3>2, <3>3, <3>4, <3>5 DEF Init, TypeOK, OpType
  <2>3. ASSUME NEW p \in Ports PROVE PortOK(p)
    <3>1. Pending(p) = 0 /\ Reopenings(p) = 0
      BY <1>1 DEF Init, NoOps, Pending, Reopenings
    <3> QED
      BY <1>1, <3>1 DEF Init, PortOK
  <2> QED
    BY <1>1, <2>2, <2>3 DEF Init, PortInv
<1> QED
  BY <1>1, PortInductive, PTL DEF Spec

(* A port has one accept or one reopening, never both, pendingStart says   *)
(* which, and open() runs when nothing else uses the port.                 *)
THEOREM AcceptsOrReopensHolds == Spec => []AcceptsOrReopens
<1>1. PortInv => AcceptsOrReopens
  <2> SUFFICES ASSUME PortInv PROVE AcceptsOrReopens
    OBVIOUS
  <2>1. ASSUME NEW p \in Ports
        PROVE  /\ Pending(p) + Reopenings(p) <= 1
               /\ Reopenings(p) = 1 => pendingStart[p]
               /\ reopens[p] > 0 => Pending(p) = 0 /\ p \notin stopPosted
    BY PortTypes DEF PortInv, PortOK, Reopenings
  <2>2. ASSUME NEW p \in acceptors, shutdownStage = "none"
        PROVE  Pending(p) + Reopenings(p) = 1
    BY <2>2 DEF PortInv, PortOK, TypeOK
  <2> QED
    BY <2>1, <2>2 DEF PortInv, AcceptsOrReopens
<1> QED
  BY <1>1, PortInvariant, PTL

(* A port that was stopped never listens again. *)
THEOREM StoppedPortStaysClosedHolds == Spec => []StoppedPortStaysClosed
<1>1. PortInv => StoppedPortStaysClosed
  BY DEF PortInv, PortOK, TypeOK, StoppedPortStaysClosed
<1> QED
  BY <1>1, PortInvariant, PTL
===============================================================================
