------------------------------ MODULE Connection ------------------------------
(***************************************************************************)
(* One client connection (connection.cpp, connection.h).                   *)
(*                                                                         *)
(* Two threads act on it: the network thread, which runs the completion    *)
(* handlers of the asynchronous reads, writes and timers one at a time,    *)
(* and the dispatcher, whose tasks call send and close.  Every handler and *)
(* every call holds m_connectionLock, and is one step here.                *)
(*                                                                         *)
(* The connection is a record and each member function an operator from    *)
(* records to records, so that the calls they make of each other compose   *)
(* as in the code.  The record lives as long as something refers to it:    *)
(* the connection manager, an outstanding read or write, or a running call *)
(* of close.  Timers only hold a weak reference.                           *)
(*                                                                         *)
(* Abstracted: the bytes, the verdict of the packet rate limit and of the  *)
(* length check (any), and the catch clauses, which the asynchronous calls *)
(* never reach: they report errors to their handlers.  A connection whose  *)
(* accept fails is no connection yet; ServiceManager has that failure.     *)
(***************************************************************************)
EXTENDS Naturals, Sequences

CONSTANTS
  Msgs,        \* the messages the protocol may send
  MaxPackets   \* bound: reads the peer completes

ASSUME ConnectionAssumption == MaxPackets \in Nat

VARIABLES
  conn,       \* the connection
  peer,       \* "up", or "gone" once the peer has reset the connection
  packets,    \* reads the peer may still complete
  accepted,   \* history: messages put in the queue
  delivered   \* history: messages written to the socket

vars == <<conn, peer, packets, accepted, delivered>>

Init ==
  /\ conn = [state |-> "OPEN",        \* connectionState
             socket |-> "closed",     \* whether m_socket.is_open()
             managed |-> TRUE,        \* in ConnectionManager::m_connections
             alive |-> TRUE,          \* not destroyed
             protocol |-> FALSE,      \* m_protocol is set
             queue |-> <<>>,          \* m_messageQueue
             read |-> "accepting",    \* the outstanding accept or read
             readDone |-> "no",       \* its outcome, when its handler may run
             writing |-> <<>>,        \* the messages of outstanding writes
             writeDone |-> "no",
             readTimer |-> "off",
             readExpired |-> FALSE,   \* its handler is queued, not aborted
             writeTimer |-> "off",
             writeExpired |-> FALSE,
             closing |-> FALSE,       \* the dispatcher is inside close()
             released |-> 0,          \* tasks posted for Protocol::release
             framed |-> [m \in Msgs |-> 0]]  \* calls of onSendMessage
  /\ peer = "up"
  /\ packets = MaxPackets
  /\ accepted = <<>>
  /\ delivered = <<>>

-------------------------------------------------------------------------------
(* Member functions *)

(* Closing the socket completes what is outstanding with operation_aborted, *)
(* unless its handler is queued already.                                    *)
Abort(c) ==
  [c EXCEPT !.socket = "closed",
            !.readDone = IF @ = "no" THEN "error" ELSE @,
            !.writeDone = IF @ = "no" THEN "error" ELSE @]

(* cancel() has no effect on a timer whose handler is queued already. *)
CloseSocket(c) ==
  IF c.socket = "open"
  THEN [Abort(c) EXCEPT !.readTimer = "off", !.writeTimer = "off"]
  ELSE c

CloseWithoutTest(c, force) ==
  LET closed == [c EXCEPT !.state = "CLOSED",
                          !.released = IF c.protocol THEN @ + 1 ELSE @]
  IN  IF closed.queue = <<>> \/ force THEN CloseSocket(closed) ELSE closed

(* close() after releaseConnection.  A connection that still has messages  *)
(* to write is closed by onWriteOperation, unless it is forced.            *)
CloseLocked(c, force) ==
  IF c.state # "OPEN" THEN c
  ELSE LET closed == [c EXCEPT !.state = "CLOSED",
                               !.released = IF c.protocol THEN @ + 1 ELSE @]
       IN  IF closed.queue = <<>> \/ force THEN CloseSocket(closed) ELSE closed

Close(c, force) == CloseLocked([c EXCEPT !.managed = FALSE], force)

(* A read on a closed socket fails at once. *)
StartReadUntimed(c, what) ==
  [c EXCEPT !.read = what,
            !.readDone = IF c.socket = "open" THEN "no" ELSE "error"]
StartRead(c, what) ==
  [c EXCEPT !.readTimer = "armed",
            !.read = what,
            !.readDone = IF c.socket = "open" THEN "no" ELSE "error"]

InternalSend(c, m) ==
  [c EXCEPT !.framed[m] = @ + 1,
            !.writeTimer = "armed",
            !.writing = Append(@, m),
            !.writeDone = IF c.socket = "open" THEN "no" ELSE "error"]

(* Only the first message of the queue is being written. *)
EnqueueAndSend(c, m) ==
  InternalSend([c EXCEPT !.queue = Append(@, m)], m)
Enqueue(c, m) ==
  LET queued == [c EXCEPT !.queue = Append(@, m)]
  IN  IF c.queue = <<>> THEN InternalSend(queued, m) ELSE queued

(* The destructor closes the socket when the last reference is gone. *)
Referenced(c) ==
  c.managed \/ c.read # "none" \/ c.writing # <<>> \/ c.closing
Settle(c) ==
  IF Referenced(c) THEN c
  ELSE [CloseSocket(c) EXCEPT !.alive = FALSE,
                              !.readTimer = "off", !.readExpired = FALSE,
                              !.writeTimer = "off", !.writeExpired = FALSE]

-------------------------------------------------------------------------------
(* Handlers, on the network thread *)

ReadReturned(what) == conn.read = what /\ conn.readDone # "no"

OnAccept == ReadReturned("accepting")

(* When the server speaks first, the protocol is set and onConnect posted  *)
(* before the lock is taken: it may send before the first read is started. *)
BindProtocol ==
  /\ OnAccept /\ ~conn.protocol
  /\ conn' = [conn EXCEPT !.protocol = TRUE]
  /\ UNCHANGED <<peer, packets, accepted, delivered>>

Accept ==
  /\ OnAccept
  /\ conn' = StartRead(conn, "header")
  /\ UNCHANGED <<peer, packets, accepted, delivered>>

(* A socket that was closed or reset already has no remote address. *)
Refuse ==
  /\ OnAccept /\ ~conn.protocol
  /\ conn.socket = "closed" \/ peer = "gone"
  /\ conn' = Settle(Close([conn EXCEPT !.read = "none"], TRUE))
  /\ UNCHANGED <<peer, packets, accepted, delivered>>

AfterRead == [conn EXCEPT !.readTimer = "off", !.read = "none"]
IsOpenIgnoringClose(c) == TRUE
IsOpen(c) == c.state = "OPEN"

ParseHeader ==
  /\ ReadReturned("header")
  /\ conn' \in
       {Settle(c) : c \in
          IF conn.readDone = "error" THEN {Close(AfterRead, TRUE)}
          ELSE IF ~IsOpen(conn) THEN {AfterRead}
          ELSE {Close(AfterRead, FALSE),       \* too many packets per second
                Close(AfterRead, TRUE),        \* bad length
                StartRead(AfterRead, "body")}}
  /\ UNCHANGED <<peer, packets, accepted, delivered>>

(* The first packet makes the protocol, unless no service wants it.  The   *)
(* protocol may disconnect; the next read is started nevertheless.         *)
ParsePacket ==
  LET bound == [AfterRead EXCEPT !.protocol = TRUE]
  IN  /\ ReadReturned("body")
      /\ conn' \in
           {Settle(c) : c \in
              IF conn.readDone = "error" THEN {Close(AfterRead, TRUE)}
              ELSE IF ~IsOpen(conn) THEN {AfterRead}
              ELSE {StartRead(bound, "header"),
                    StartRead(Close(bound, FALSE), "header")}
                   \cup (IF conn.protocol THEN {} ELSE {Close(AfterRead, TRUE)})}
      /\ UNCHANGED <<peer, packets, accepted, delivered>>

Continue(c) ==
  IF c.queue # <<>> THEN InternalSend(c, Head(c.queue))
  ELSE IF c.state = "CLOSED" THEN CloseSocket(c)
  ELSE c

OnWriteOperation ==
  LET written == [conn EXCEPT !.writeTimer = "off",
                              !.queue = Tail(@),
                              !.writing = Tail(@)]
  IN  /\ conn.writing # <<>> /\ conn.writeDone # "no"
      /\ conn.read # "accepting"   \* onAccept has returned
      /\ conn' = Settle(
           IF conn.writeDone = "error"
           THEN Close([written EXCEPT !.queue = <<>>], TRUE)
           ELSE Continue(written))
      /\ UNCHANGED <<peer, packets, accepted, delivered>>

HandleReadTimeout ==
  /\ conn.readExpired
  /\ conn' = Settle(Close([conn EXCEPT !.readExpired = FALSE], TRUE))
  /\ UNCHANGED <<peer, packets, accepted, delivered>>

HandleWriteTimeout ==
  /\ conn.writeExpired
  /\ conn.read # "accepting"
  /\ conn' = Settle(Close([conn EXCEPT !.writeExpired = FALSE], TRUE))
  /\ UNCHANGED <<peer, packets, accepted, delivered>>

-------------------------------------------------------------------------------
(* Tasks of the dispatcher, which is one thread *)

Send(m) ==
  /\ conn.alive /\ conn.protocol /\ ~conn.closing
  /\ \A i \in 1..Len(accepted) : accepted[i] # m
  /\ IsOpen(conn)
  /\ conn' = Enqueue(conn, m)
  /\ accepted' = Append(accepted, m)
  /\ UNCHANGED <<peer, packets, delivered>>

(* Protocol::disconnect calls close, which leaves the manager before it    *)
(* waits for m_connectionLock.                                             *)
BeginDisconnect ==
  /\ conn.alive /\ conn.protocol /\ ~conn.closing
  /\ conn' = [conn EXCEPT !.managed = FALSE, !.closing = TRUE]
  /\ UNCHANGED <<peer, packets, accepted, delivered>>

EndDisconnect ==
  /\ conn.closing
  /\ conn' = Settle(CloseLocked([conn EXCEPT !.closing = FALSE], FALSE))
  /\ UNCHANGED <<peer, packets, accepted, delivered>>

(* ConnectionManager::closeAll at shutdown, without m_connectionLock.      *)
(* Closing a socket that has not been accepted yet does nothing: the       *)
(* connection that is accepted later is not in the manager any more.       *)
CloseAll ==
  /\ conn.managed /\ ~conn.closing
  /\ conn' = Settle([(IF conn.socket = "open" THEN Abort(conn) ELSE conn)
                       EXCEPT !.managed = FALSE])
  /\ UNCHANGED <<peer, packets, accepted, delivered>>

-------------------------------------------------------------------------------
(* The peer and the clock *)

Reading == conn.read \in {"header", "body"} /\ conn.readDone = "no"
Writing == conn.writing # <<>> /\ conn.writeDone = "no"

(* A client connects: async_accept opens the socket and queues onAccept. *)
AcceptCompletes ==
  /\ conn.read = "accepting" /\ conn.readDone = "no"
  /\ conn' = [conn EXCEPT !.socket = "open", !.readDone = "ok"]
  /\ UNCHANGED <<peer, packets, accepted, delivered>>

ReadCompletes ==
  /\ Reading /\ peer = "up" /\ packets > 0
  /\ conn' = [conn EXCEPT !.readDone = "ok"]
  /\ packets' = packets - 1
  /\ UNCHANGED <<peer, accepted, delivered>>

WriteCompletes ==
  /\ Writing /\ peer = "up"
  /\ conn' = [conn EXCEPT !.writeDone = "ok"]
  /\ delivered' = Append(delivered, Head(conn.writing))
  /\ UNCHANGED <<peer, packets, accepted>>

PeerLeaves ==
  /\ peer = "up"
  /\ peer' = "gone"
  /\ UNCHANGED <<conn, packets, accepted, delivered>>

ReadFails ==
  /\ Reading /\ peer = "gone"
  /\ conn' = [conn EXCEPT !.readDone = "error"]
  /\ UNCHANGED <<peer, packets, accepted, delivered>>

WriteFails ==
  /\ Writing /\ peer = "gone"
  /\ conn' = [conn EXCEPT !.writeDone = "error"]
  /\ UNCHANGED <<peer, packets, accepted, delivered>>

(* Bound: a timer does not expire again before the handler of its previous *)
(* expiry has run.                                                         *)
ReadTimerExpires ==
  /\ conn.readTimer = "armed" /\ ~conn.readExpired
  /\ conn' = [conn EXCEPT !.readTimer = "off", !.readExpired = TRUE]
  /\ UNCHANGED <<peer, packets, accepted, delivered>>

WriteTimerExpires ==
  /\ conn.writeTimer = "armed" /\ ~conn.writeExpired
  /\ conn' = [conn EXCEPT !.writeTimer = "off", !.writeExpired = TRUE]
  /\ UNCHANGED <<peer, packets, accepted, delivered>>

NetworkStep ==
  \/ BindProtocol \/ Accept \/ Refuse
  \/ ParseHeader \/ ParsePacket \/ OnWriteOperation
  \/ HandleReadTimeout \/ HandleWriteTimeout

Next ==
  \/ NetworkStep
  \/ \E m \in Msgs : Send(m)
  \/ BeginDisconnect \/ EndDisconnect \/ CloseAll
  \/ AcceptCompletes \/ ReadCompletes \/ WriteCompletes
  \/ PeerLeaves \/ ReadFails \/ WriteFails
  \/ ReadTimerExpires \/ WriteTimerExpires

Spec == Init /\ [][Next]_vars

(* Every queued handler runs (the io_service is a queue), a call of close  *)
(* returns, a timer that stays armed expires (it is re-armed at most once  *)
(* per packet and per message, which are finite in number), and operations *)
(* on a connection that was reset fail.  The peer need not read or write.  *)
Fairness ==
  /\ WF_vars(Accept \/ Refuse)
  /\ WF_vars(ParseHeader)
  /\ WF_vars(ParsePacket)
  /\ WF_vars(OnWriteOperation)
  /\ WF_vars(HandleReadTimeout)
  /\ WF_vars(HandleWriteTimeout)
  /\ WF_vars(EndDisconnect)
  /\ WF_vars(ReadTimerExpires)
  /\ WF_vars(WriteTimerExpires)
  /\ WF_vars(ReadFails)
  /\ WF_vars(WriteFails)

FairSpec == Spec /\ Fairness

(* Moreover the peer reads what is sent to it, or resets the connection. *)
ResponsiveSpec == FairSpec /\ WF_vars(WriteCompletes)

-------------------------------------------------------------------------------
(* Properties *)

Done == {"no", "ok", "error"}

(* The fields of the connection stay in their types; in particular close() *)
(* posts Protocol::release at most once.                                   *)
TypeOK ==
  /\ conn \in [state : {"OPEN", "CLOSED"},
               socket : {"open", "closed"},
               managed : BOOLEAN,
               alive : BOOLEAN,
               protocol : BOOLEAN,
               queue : Seq(Msgs),
               read : {"none", "accepting", "header", "body"},
               readDone : Done,
               writing : Seq(Msgs),
               writeDone : Done,
               readTimer : {"off", "armed"},
               readExpired : BOOLEAN,
               writeTimer : {"off", "armed"},
               writeExpired : BOOLEAN,
               closing : BOOLEAN,
               released : {0, 1},
               framed : [Msgs -> Nat]]
  /\ peer \in {"up", "gone"}
  /\ packets \in 0..MaxPackets
  /\ accepted \in Seq(Msgs)
  /\ delivered \in Seq(Msgs)

(* send() and onWriteOperation() between them keep at most one async_write *)
(* outstanding, of the first message of the queue; two would interleave    *)
(* their bytes on the socket.  onSendMessage encrypts a message in place   *)
(* and prepends headers, for which there is room once: it is applied to a  *)
(* message when its write is started, and never again.                     *)
WritesInTurn ==
  /\ Len(conn.writing) <= 1
  /\ conn.writing # <<>> =>
       conn.queue # <<>> /\ Head(conn.queue) = Head(conn.writing)
  /\ \A m \in Msgs : conn.framed[m] <= 1
  /\ \A i \in 1..Len(delivered) : conn.framed[delivered[i]] = 1
  /\ \A i \in 2..Len(conn.queue) : conn.framed[conn.queue[i]] = 0

(* Protocol::release is posted exactly when a connection with a protocol   *)
(* is closed, whichever thread closes it, and a connection is never        *)
(* destroyed without having been closed.                                   *)
ReleaseMatchesClose ==
  /\ TypeOK
  /\ conn.released = IF conn.state = "CLOSED" /\ conn.protocol THEN 1 ELSE 0
  /\ ~conn.alive => conn.state = "CLOSED" /\ conn.socket = "closed"

(* The connection as the protocol sees it. *)
Wire == INSTANCE Channel WITH open <- conn.state = "OPEN"

(* The queue with its single outstanding write delivers what was accepted  *)
(* once and in order, also while it drains after close().                  *)
ChannelSpec == Wire!Spec

(* A connection that was accepted or closed is destroyed in the end: when  *)
(* the peer goes silent the read timer closes it, what is queued is        *)
(* written or dropped also after close(), and then neither the manager nor *)
(* an operation nor a handler keeps it alive.                              *)
ConnectionDies ==
  conn.socket = "open" \/ conn.state = "CLOSED" ~> ~conn.alive

(* The comment in close(): a connection that is not closed at once "will   *)
(* be closed by the destructor or onWriteOperation".                       *)
ClosedSocketCloses == conn.state = "CLOSED" ~> conn.socket = "closed"
===============================================================================
