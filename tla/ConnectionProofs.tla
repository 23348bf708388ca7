--------------------------- MODULE ConnectionProofs ---------------------------
(***************************************************************************)
(* Proofs about Connection for any messages and any number of packets.     *)
(***************************************************************************)
EXTENDS Connection, SequenceTheorems, TLAPS

(* The type of the connection, by its fields. *)
Conns ==
  [state : {"OPEN", "CLOSED"}, socket : {"open", "closed"}, managed : BOOLEAN,
   alive : BOOLEAN, protocol : BOOLEAN, queue : Seq(Msgs),
   read : {"none", "accepting", "header", "body"}, readDone : Done,
   writing : Seq(Msgs), writeDone : Done, readTimer : {"off", "armed"},
   readExpired : BOOLEAN, writeTimer : {"off", "armed"},
   writeExpired : BOOLEAN, closing : BOOLEAN, released : {0, 1},
   framed : [Msgs -> Nat]]

-------------------------------------------------------------------------------
(* The member functions *)

(* What becomes of the queue, the writes and the state in every step that  *)
(* neither sends nor writes: the connection may close and writes may fail. *)
Calmer(c, d) ==
  /\ d.queue = c.queue /\ d.writing = c.writing /\ d.framed = c.framed
  /\ d.state \in {c.state, "CLOSED"}
  /\ d.writeDone \in {c.writeDone, "error"}

(* The fields that do not depend on the socket. *)
SameButSocket(c, d) ==
  /\ d.state = c.state /\ d.read = c.read /\ d.released = c.released
  /\ d.protocol = c.protocol /\ d.alive = c.alive /\ d.managed = c.managed
  /\ d.closing = c.closing
  /\ d.readExpired = c.readExpired /\ d.writeExpired = c.writeExpired

(* Aborting operations touches nothing but the socket and their results. *)
LEMMA AbortProperties ==
  ASSUME NEW c \in Conns
  PROVE  /\ Abort(c) \in Conns /\ Calmer(c, Abort(c))
         /\ SameButSocket(c, Abort(c)) /\ Abort(c).socket = "closed"
         /\ Abort(c).readTimer = c.readTimer /\ Abort(c).writeTimer = c.writeTimer
BY DEF Abort, Conns, Calmer, Done, SameButSocket

(* Closing the socket moreover cancels the timers. *)
LEMMA CloseSocketProperties ==
  ASSUME NEW c \in Conns
  PROVE  /\ CloseSocket(c) \in Conns /\ Calmer(c, CloseSocket(c))
         /\ SameButSocket(c, CloseSocket(c)) /\ CloseSocket(c).socket = "closed"
<1> DEFINE a == Abort(c)
<1>1. /\ a \in Conns /\ Calmer(c, a) /\ SameButSocket(c, a) /\ a.socket = "closed"
  BY AbortProperties
<1>2. CloseSocket(c) = IF c.socket = "open"
                       THEN [a EXCEPT !.readTimer = "off", !.writeTimer = "off"]
                       ELSE c
  BY DEF CloseSocket
<1> HIDE DEF a
<1>3. CASE c.socket = "open"
  <2> DEFINE d == [a EXCEPT !.readTimer = "off", !.writeTimer = "off"]
  <2>1. /\ d \in Conns /\ d.queue = a.queue /\ d.writing = a.writing
        /\ d.framed = a.framed /\ d.writeDone = a.writeDone
        /\ SameButSocket(a, d) /\ d.socket = a.socket
    BY <1>1 DEF Conns, SameButSocket
  <2>2. CloseSocket(c) = d
    BY <1>2, <1>3
  <2> HIDE DEF d
  <2>3. Calmer(c, d)
    BY <1>1, <2>1 DEF Calmer, SameButSocket
  <2>4. SameButSocket(c, d)
    BY <1>1, <2>1 DEF SameButSocket
  <2> QED
    BY <1>1, <2>1, <2>2, <2>3, <2>4
<1>4. CASE c.socket # "open"
  BY <1>2, <1>4 DEF Conns, Calmer, SameButSocket
<1> QED
  BY <1>3, <1>4

(* Protocol::release has been posted if the connection is closed. *)
Balanced(c) == c.released = IF c.state = "CLOSED" /\ c.protocol THEN 1 ELSE 0

(* CloseLocked closes the connection, and keeps it balanced. *)
LEMMA CloseLockedProperties ==
  ASSUME NEW c \in Conns, NEW force \in BOOLEAN, Balanced(c)
  PROVE  LET d == CloseLocked(c, force) IN
         /\ d \in Conns /\ Calmer(c, d) /\ Balanced(d)
         /\ d.state = "CLOSED" /\ d.read = c.read /\ d.protocol = c.protocol
         /\ d.alive = c.alive /\ d.closing = c.closing
<1> DEFINE closed == [c EXCEPT !.state = "CLOSED",
                               !.released = IF c.protocol THEN @ + 1 ELSE @]
<1>1. CASE c.state # "OPEN"
  BY <1>1 DEF CloseLocked, Conns, Calmer, Balanced
<1>2. CASE c.state = "OPEN"
  <2>1. /\ closed \in Conns /\ Balanced(closed) /\ Calmer(c, closed)
        /\ closed.state = "CLOSED" /\ closed.read = c.read
        /\ closed.protocol = c.protocol /\ closed.alive = c.alive
        /\ closed.closing = c.closing
    <3>1. c.released = 0
      BY <1>2 DEF Balanced
    <3>2. closed = [c EXCEPT !.state = "CLOSED",
                             !.released = IF c.protocol THEN 1 ELSE 0]
      BY <3>1
    <3> HIDE DEF closed
    <3> QED
      BY <3>2 DEF Conns, Balanced, Calmer
  <2>2. CloseLocked(c, force) = IF closed.queue = <<>> \/ force
                                THEN CloseSocket(closed) ELSE closed
    BY <1>2 DEF CloseLocked
  <2> HIDE DEF closed
  <2>3. /\ CloseSocket(closed) \in Conns /\ Calmer(closed, CloseSocket(closed))
        /\ SameButSocket(closed, CloseSocket(closed))
    BY <2>1, CloseSocketProperties
  <2>4. Calmer(c, CloseSocket(closed)) /\ Balanced(CloseSocket(closed))
    BY <2>1, <2>3 DEF Calmer, SameButSocket, Balanced, Conns
  <2> QED
    BY <2>1, <2>2, <2>3, <2>4 DEF SameButSocket
<1> QED
  BY <1>1, <1>2

(* So does close(). *)
LEMMA CloseProperties ==
  ASSUME NEW c \in Conns, NEW force \in BOOLEAN, Balanced(c)
  PROVE  LET d == Close(c, force) IN
         /\ d \in Conns /\ Calmer(c, d) /\ Balanced(d)
         /\ d.state = "CLOSED" /\ d.read = c.read /\ d.protocol = c.protocol
         /\ d.alive = c.alive
<1> DEFINE left == [c EXCEPT !.managed = FALSE]
<1>1. /\ left \in Conns /\ Balanced(left) /\ Calmer(c, left)
      /\ left.read = c.read /\ left.protocol = c.protocol /\ left.alive = c.alive
      /\ left.state = c.state
  BY DEF Conns, Balanced, Calmer
<1>2. Close(c, force) = CloseLocked(left, force)
  BY DEF Close
<1> HIDE DEF left
<1> QED
  BY <1>1, <1>2, CloseLockedProperties DEF Calmer

(* Starting a read changes the read and its timer. *)
LEMMA StartReadProperties ==
  ASSUME NEW c \in Conns, NEW what \in {"header", "body"}, Balanced(c)
  PROVE  LET d == StartRead(c, what) IN
         /\ d \in Conns /\ Calmer(c, d) /\ Balanced(d)
         /\ d.state = c.state /\ d.read = what /\ d.alive = c.alive
BY DEF StartRead, Conns, Calmer, Balanced, Done

-------------------------------------------------------------------------------
(* Between steps *)

(* A connection that is being accepted, and has no protocol yet. *)
Bare(c) == c.read = "accepting" /\ ~c.protocol

(* What is true of a connection until it is settled: a port has handed it  *)
(* over, or given it a protocol, before anything can happen to it, and     *)
(* while it is open something is outstanding.                              *)
Unsettled(c) ==
  /\ c \in Conns /\ Balanced(c)
  /\ c.state = "OPEN" => c.read # "none"
  /\ Bare(c) =>
       /\ c.state = "OPEN" /\ c.writing = <<>> /\ ~c.closing
       /\ ~c.readExpired /\ ~c.writeExpired
       /\ c.readTimer = "off" /\ c.writeTimer = "off"

Settled(c) ==
  /\ Unsettled(c)
  /\ ~c.alive => /\ ~Referenced(c) /\ c.state = "CLOSED" /\ c.socket = "closed"
                 /\ ~c.readExpired /\ ~c.writeExpired
                 /\ c.readTimer = "off" /\ c.writeTimer = "off"

(* The destructor finds a connection that was closed. *)
LEMMA SettleProperties ==
  ASSUME NEW c, Unsettled(c), c.alive
  PROVE  Settled(Settle(c)) /\ Calmer(c, Settle(c))
<1>1. CASE Referenced(c)
  BY <1>1 DEF Settle, Settled, Unsettled, Calmer
<1>2. CASE ~Referenced(c)
  <2> DEFINE s == CloseSocket(c)
             d == [s EXCEPT !.alive = FALSE,
                            !.readTimer = "off", !.readExpired = FALSE,
                            !.writeTimer = "off", !.writeExpired = FALSE]
  <2>1. c \in Conns /\ c.state = "CLOSED" /\ Balanced(c)
    BY <1>2 DEF Referenced, Unsettled, Conns
  <2>2. /\ s \in Conns /\ Calmer(c, s) /\ SameButSocket(c, s) /\ s.socket = "closed"
    BY <2>1, CloseSocketProperties
  <2>3. Settle(c) = d
    BY <1>2 DEF Settle
  <2> HIDE DEF s
  <2>4. /\ d \in Conns /\ d.state = s.state /\ d.read = s.read /\ d.queue = s.queue
        /\ d.writing = s.writing /\ d.writeDone = s.writeDone /\ d.framed = s.framed
        /\ d.released = s.released /\ d.protocol = s.protocol
        /\ d.managed = s.managed /\ d.closing = s.closing /\ d.socket = s.socket
        /\ ~d.alive /\ ~d.readExpired /\ ~d.writeExpired
        /\ d.readTimer = "off" /\ d.writeTimer = "off"
    BY <2>2 DEF Conns
  <2> HIDE DEF d
  <2>5. Calmer(c, d)
    BY <2>2, <2>4 DEF Calmer
  <2>6. Balanced(d) /\ d.state = "CLOSED" /\ d.read = "none"
    BY <1>2, <2>1, <2>2, <2>4 DEF Balanced, SameButSocket, Referenced
  <2>7. ~Referenced(d)
    BY <1>2, <2>2, <2>4 DEF SameButSocket, Referenced, Calmer
  <2> QED
    BY <2>2, <2>3, <2>4, <2>5, <2>6, <2>7 DEF Settled, Unsettled, Bare
<1> QED
  BY <1>1, <1>2

(* Once a message is framed it has been accepted; the first of the queue   *)
(* is the one that is written, and the others are still as they were sent. *)
Framing(c) ==
  /\ c.writing = IF c.queue = <<>> THEN <<>> ELSE <<c.queue[1]>>
  /\ \A m \in Msgs :
       /\ c.framed[m] \in {0, 1}
       /\ c.framed[m] = 1 => \E i \in 1..Len(accepted) : accepted[i] = m
  /\ \A i \in 1..Len(c.queue) :
       /\ c.framed[c.queue[i]] = IF i = 1 THEN 1 ELSE 0
       /\ \E k \in 1..Len(accepted) : accepted[k] = c.queue[i]
       /\ \A j \in 1..Len(c.queue) : c.queue[i] = c.queue[j] => i = j
  /\ \A i \in 1..Len(delivered) : c.framed[delivered[i]] = 1

(* The queue holds those of all messages that are not in done, in the same *)
(* order, but for its first n, which are.                                  *)
InLine(queue, all, done, n) ==
  /\ n <= Len(done)
  /\ Len(done) + Len(queue) = Len(all) + n
  /\ \A k \in 1..Len(queue) : queue[k] = all[Len(done) + k - n]

(* An error loses the messages that are queued, and closes the connection. *)
Order(c) ==
  /\ c.queue # <<>> /\ c.writeDone = "no" =>
       InLine(c.queue, accepted, delivered, 0)
  /\ c.queue # <<>> /\ c.writeDone = "ok" =>
       InLine(c.queue, accepted, delivered, 1)
  /\ c.queue = <<>> /\ c.state = "OPEN" => Len(delivered) = Len(accepted)

ConnInv == TypeOK /\ Settled(conn) /\ Framing(conn) /\ Order(conn)

-------------------------------------------------------------------------------
(* Steps that neither send nor write *)

(* Of a connection that something happens to. *)
LEMMA AliveConnection ==
  ASSUME Settled(conn), Referenced(conn) \/ conn.readTimer = "armed"
           \/ conn.writeTimer = "armed" \/ conn.readExpired \/ conn.writeExpired
  PROVE  conn.alive /\ conn \in Conns /\ Balanced(conn)
BY DEF Settled, Unsettled

(* A handler has closed the connection, or left it reading. *)
LEMMA HandlerSettles ==
  ASSUME NEW c \in Conns, Balanced(c), Calmer(conn, c), c.alive,
         ~Bare(c), c.state = "CLOSED" \/ c.read # "none",
         conn' = Settle(c)
  PROVE  Settled(conn') /\ Calmer(conn, conn')
<1>1. Unsettled(c)
  BY DEF Unsettled, Conns
<1>2. Settled(Settle(c)) /\ Calmer(c, Settle(c))
  BY <1>1, SettleProperties
<1> QED
  BY <1>2 DEF Calmer

(* The timer of a read is cancelled when the read has returned. *)
LEMMA AfterReadProperties ==
  ASSUME Settled(conn), conn.read # "none"
  PROVE  /\ AfterRead \in Conns /\ Balanced(AfterRead) /\ Calmer(conn, AfterRead)
         /\ AfterRead.alive /\ AfterRead.read = "none"
         /\ AfterRead.state = conn.state /\ AfterRead.protocol = conn.protocol
<1>1. conn.alive /\ conn \in Conns /\ Balanced(conn)
  BY AliveConnection DEF Referenced
<1> QED
  BY <1>1 DEF AfterRead, Conns, Balanced, Calmer

(* The handler of the accept binds the protocol, starts the first read or   *)
(* refuses the connection.                                                  *)
LEMMA AcceptCalm ==
  ASSUME Settled(conn), AcceptCompletes \/ BindProtocol \/ Accept \/ Refuse
  PROVE  Settled(conn') /\ Calmer(conn, conn')
<1>1. /\ conn.alive /\ conn \in Conns /\ Balanced(conn) /\ conn.read = "accepting"
      /\ ~conn.protocol => conn.state = "OPEN"
  BY AliveConnection DEF AcceptCompletes, BindProtocol, Accept, Refuse, OnAccept,
     ReadReturned, Referenced, Settled, Unsettled, Bare
<1>2. CASE AcceptCompletes
  <2>1. conn' = [conn EXCEPT !.socket = "open", !.readDone = "ok"]
    BY <1>2 DEF AcceptCompletes
  <2>2. /\ conn' \in Conns /\ Balanced(conn') /\ Calmer(conn, conn') /\ conn'.alive
        /\ conn'.read = conn.read /\ conn'.protocol = conn.protocol
        /\ conn'.state = conn.state /\ conn'.writing = conn.writing
        /\ conn'.closing = conn.closing
        /\ conn'.readExpired = conn.readExpired
        /\ conn'.writeExpired = conn.writeExpired
        /\ conn'.readTimer = conn.readTimer /\ conn'.writeTimer = conn.writeTimer
    BY <1>1, <2>1 DEF Conns, Balanced, Calmer, Done
  <2> QED
    BY <2>2 DEF Settled, Unsettled, Bare
<1>3. CASE BindProtocol
  <2>1. ~conn.protocol /\ conn' = [conn EXCEPT !.protocol = TRUE]
    BY <1>3 DEF BindProtocol
  <2>2. /\ conn' \in Conns /\ Balanced(conn') /\ Calmer(conn, conn') /\ conn'.alive
        /\ conn'.read = "accepting" /\ conn'.protocol
    BY <1>1, <2>1 DEF Conns, Balanced, Calmer
  <2> QED
    BY <2>2 DEF Settled, Unsettled, Bare
<1>4. CASE Accept
  <2>1. /\ conn' \in Conns /\ Calmer(conn, conn') /\ Balanced(conn')
        /\ conn'.read = "header" /\ conn'.alive
    BY <1>1, <1>4, StartReadProperties DEF Accept
  <2> QED
    BY <2>1 DEF Settled, Unsettled, Bare
<1>5. CASE Refuse
  <2> DEFINE c == [conn EXCEPT !.read = "none"]
             d == Close(c, TRUE)
  <2>1. c \in Conns /\ Balanced(c) /\ Calmer(conn, c) /\ c.alive /\ c.read = "none"
    BY <1>1 DEF Conns, Balanced, Calmer
  <2>2. conn' = Settle(d)
    BY <1>5 DEF Refuse
  <2> HIDE DEF c
  <2>3. /\ d \in Conns /\ Calmer(c, d) /\ Balanced(d)
        /\ d.state = "CLOSED" /\ d.read = "none" /\ d.alive
    BY <2>1, CloseProperties
  <2> HIDE DEF d
  <2>4. Calmer(conn, d) /\ ~Bare(d)
    BY <2>1, <2>3 DEF Calmer, Bare
  <2> QED
    BY <2>2, <2>3, <2>4, HandlerSettles
<1> QED
  BY <1>2, <1>3, <1>4, <1>5

(* After a header the connection reads the body or closes.                  *)
LEMMA ParseHeaderCalm ==
  ASSUME Settled(conn), ParseHeader
  PROVE  Settled(conn') /\ Calmer(conn, conn')
<1>1. conn.read = "header"
  BY DEF ParseHeader, ReadReturned
<1>2. /\ AfterRead \in Conns /\ Balanced(AfterRead) /\ Calmer(conn, AfterRead)
      /\ AfterRead.alive /\ AfterRead.read = "none"
      /\ AfterRead.state = conn.state
  BY <1>1, AfterReadProperties
<1>3. \/ conn' = Settle(Close(AfterRead, TRUE))
      \/ conn' = Settle(Close(AfterRead, FALSE))
      \/ conn' = Settle(AfterRead) /\ conn.state # "OPEN"
      \/ conn' = Settle(StartRead(AfterRead, "body"))
  BY DEF ParseHeader, IsOpen
<1>4. ASSUME NEW force \in BOOLEAN, conn' = Settle(Close(AfterRead, force))
      PROVE  Settled(conn') /\ Calmer(conn, conn')
  <2> DEFINE c == Close(AfterRead, force)
  <2>1. /\ c \in Conns /\ Calmer(AfterRead, c) /\ Balanced(c)
        /\ c.state = "CLOSED" /\ c.read = "none" /\ c.alive
    BY <1>2, CloseProperties
  <2>2. Calmer(conn, c) /\ conn' = Settle(c)
    BY <1>2, <1>4, <2>1 DEF Calmer
  <2> HIDE DEF c
  <2> QED
    BY <2>1, <2>2, HandlerSettles DEF Bare
<1>5. ASSUME conn' = Settle(AfterRead), conn.state # "OPEN"
      PROVE  Settled(conn') /\ Calmer(conn, conn')
  <2>1. AfterRead.state = "CLOSED"
    BY <1>2, <1>5 DEF Conns
  <2> QED
    BY <1>2, <1>5, <2>1, HandlerSettles DEF Bare
<1>6. ASSUME conn' = Settle(StartRead(AfterRead, "body"))
      PROVE  Settled(conn') /\ Calmer(conn, conn')
  <2> DEFINE c == StartRead(AfterRead, "body")
  <2>1. /\ c \in Conns /\ Calmer(AfterRead, c) /\ Balanced(c)
        /\ c.read = "body" /\ c.alive
    BY <1>2, StartReadProperties
  <2>2. Calmer(conn, c) /\ conn' = Settle(c)
    BY <1>2, <1>6, <2>1 DEF Calmer
  <2> HIDE DEF c
  <2> QED
    BY <2>1, <2>2, HandlerSettles DEF Bare
<1> QED
  BY <1>3, <1>4, <1>5, <1>6

(* After a body it reads the next header, and may have closed meanwhile.    *)
LEMMA ParsePacketCalm ==
  ASSUME Settled(conn), ParsePacket
  PROVE  Settled(conn') /\ Calmer(conn, conn')
<1> DEFINE bound == [AfterRead EXCEPT !.protocol = TRUE]
<1>1. conn.read = "body"
  BY DEF ParsePacket, ReadReturned
<1>2. /\ AfterRead \in Conns /\ Balanced(AfterRead) /\ Calmer(conn, AfterRead)
      /\ AfterRead.alive /\ AfterRead.read = "none"
      /\ AfterRead.state = conn.state
  BY <1>1, AfterReadProperties
<1>3. \/ conn' = Settle(Close(AfterRead, TRUE))
      \/ conn' = Settle(AfterRead) /\ conn.state # "OPEN"
      \/ conn' = Settle(StartRead(bound, "header")) /\ conn.state = "OPEN"
      \/ conn' = Settle(StartRead(Close(bound, FALSE), "header")) /\ conn.state = "OPEN"
  BY DEF ParsePacket, IsOpen
<1>4. ASSUME conn.state = "OPEN"
      PROVE  /\ bound \in Conns /\ Balanced(bound) /\ Calmer(conn, bound)
             /\ bound.alive
  BY <1>2, <1>4 DEF Conns, Balanced, Calmer
<1> HIDE DEF bound
<1>5. ASSUME NEW c \in Conns, Balanced(c), Calmer(conn, c), c.alive,
             conn' = Settle(StartRead(c, "header"))
      PROVE  Settled(conn') /\ Calmer(conn, conn')
  <2> DEFINE d == StartRead(c, "header")
  <2>1. /\ d \in Conns /\ Calmer(c, d) /\ Balanced(d)
        /\ d.read = "header" /\ d.alive
    BY <1>5, StartReadProperties
  <2>2. Calmer(conn, d) /\ conn' = Settle(d)
    BY <1>5, <2>1 DEF Calmer
  <2> HIDE DEF d
  <2> QED
    BY <2>1, <2>2, HandlerSettles DEF Bare
<1>6. ASSUME conn' = Settle(Close(AfterRead, TRUE))
      PROVE  Settled(conn') /\ Calmer(conn, conn')
  <2> DEFINE c == Close(AfterRead, TRUE)
  <2>1. /\ c \in Conns /\ Calmer(AfterRead, c) /\ Balanced(c)
        /\ c.state = "CLOSED" /\ c.read = "none" /\ c.alive
    BY <1>2, CloseProperties
  <2>2. Calmer(conn, c) /\ conn' = Settle(c)
    BY <1>2, <1>6, <2>1 DEF Calmer
  <2> HIDE DEF c
  <2> QED
    BY <2>1, <2>2, HandlerSettles DEF Bare
<1>7. ASSUME conn' = Settle(AfterRead), conn.state # "OPEN"
      PROVE  Settled(conn') /\ Calmer(conn, conn')
  <2>1. AfterRead.state = "CLOSED"
    BY <1>2, <1>7 DEF Conns
  <2> QED
    BY <1>2, <1>7, <2>1, HandlerSettles DEF Bare
<1>8. ASSUME conn' = Settle(StartRead(Close(bound, FALSE), "header")),
             conn.state = "OPEN"
      PROVE  Settled(conn') /\ Calmer(conn, conn')
  <2> DEFINE c == Close(bound, FALSE)
  <2>1. c \in Conns /\ Calmer(bound, c) /\ Balanced(c) /\ c.alive
    BY <1>4, <1>8, CloseProperties
  <2>2. Calmer(conn, c)
    BY <1>4, <1>8, <2>1 DEF Calmer
  <2>3. conn' = Settle(StartRead(c, "header"))
    BY <1>8
  <2> HIDE DEF c
  <2> QED
    BY <1>5, <2>1, <2>2, <2>3
<1> QED
  BY <1>3, <1>4, <1>5, <1>6, <1>7, <1>8

(* A timer, or a call, that does nothing but close(). *)
LEMMA TimeoutCalm ==
  ASSUME Settled(conn), HandleReadTimeout \/ HandleWriteTimeout
  PROVE  Settled(conn') /\ Calmer(conn, conn')
<1>1. conn.alive /\ conn \in Conns /\ Balanced(conn) /\ ~Bare(conn)
  BY AliveConnection DEF HandleReadTimeout, HandleWriteTimeout, Settled, Unsettled
<1>2. PICK c \in {[conn EXCEPT !.readExpired = FALSE],
                  [conn EXCEPT !.writeExpired = FALSE]} :
             conn' = Settle(Close(c, TRUE))
  BY DEF HandleReadTimeout, HandleWriteTimeout
<1>3. /\ c \in Conns /\ Balanced(c) /\ Calmer(conn, c) /\ c.alive
      /\ ~Bare(c)
  <2>1. CASE c = [conn EXCEPT !.readExpired = FALSE]
    BY <1>1, <2>1 DEF Conns, Balanced, Calmer, Bare
  <2>2. CASE c = [conn EXCEPT !.writeExpired = FALSE]
    BY <1>1, <2>2 DEF Conns, Balanced, Calmer, Bare
  <2> QED
    BY <2>1, <2>2
<1> DEFINE d == Close(c, TRUE)
<1>4. /\ d \in Conns /\ Calmer(c, d) /\ Balanced(d)
      /\ d.state = "CLOSED" /\ d.read = c.read /\ d.protocol = c.protocol
      /\ d.alive
  BY <1>3, CloseProperties
<1>5. Calmer(conn, d) /\ conn' = Settle(d)
  BY <1>2, <1>3, <1>4 DEF Calmer
<1> HIDE DEF d
<1> QED
  BY <1>3, <1>4, <1>5, HandlerSettles DEF Bare

(* Either half of close() leaves what is queued and being written alone.    *)
LEMMA DisconnectCalm ==
  ASSUME Settled(conn), BeginDisconnect \/ EndDisconnect
  PROVE  Settled(conn') /\ Calmer(conn, conn')
<1>1. CASE BeginDisconnect
  <2>1. /\ conn \in Conns /\ conn.alive /\ Balanced(conn) /\ ~Bare(conn)
        /\ conn.state = "OPEN" => conn.read # "none"
        /\ conn' = [conn EXCEPT !.managed = FALSE, !.closing = TRUE]
    BY <1>1 DEF BeginDisconnect, Settled, Unsettled, Bare
  <2>2. /\ conn' \in Conns /\ conn'.alive /\ Balanced(conn') /\ Calmer(conn, conn')
        /\ conn'.read = conn.read /\ conn'.state = conn.state
        /\ conn'.protocol = conn.protocol
    BY <2>1 DEF Conns, Balanced, Calmer, Bare
  <2> QED
    BY <2>1, <2>2 DEF Settled, Unsettled, Bare
<1>2. CASE EndDisconnect
  <2> DEFINE c == [conn EXCEPT !.closing = FALSE]
             d == CloseLocked(c, FALSE)
  <2>1. conn.alive /\ conn \in Conns /\ Balanced(conn) /\ ~Bare(conn)
    BY <1>2, AliveConnection DEF EndDisconnect, Referenced, Settled, Unsettled
  <2>2. /\ c \in Conns /\ Balanced(c) /\ Calmer(conn, c) /\ c.alive
        /\ ~Bare(c)
    BY <2>1 DEF Conns, Balanced, Calmer, Bare
  <2>3. conn' = Settle(d)
    BY <1>2 DEF EndDisconnect
  <2> HIDE DEF c
  <2>4. /\ d \in Conns /\ Calmer(c, d) /\ Balanced(d)
        /\ d.state = "CLOSED" /\ d.read = c.read /\ d.protocol = c.protocol
      /\ d.alive
    BY <2>2, CloseLockedProperties
  <2> HIDE DEF d
  <2>5. Calmer(conn, d)
    BY <2>2, <2>4 DEF Calmer
  <2> QED
    BY <2>2, <2>3, <2>4, <2>5, HandlerSettles DEF Bare
<1> QED
  BY <1>1, <1>2

(* closeAll shuts the socket down and leaves the queue alone.               *)
LEMMA CloseAllCalm ==
  ASSUME Settled(conn), CloseAll
  PROVE  Settled(conn') /\ Calmer(conn, conn')
<1> DEFINE a == IF conn.socket = "open" THEN Abort(conn) ELSE conn
           c == [a EXCEPT !.managed = FALSE]
<1>1. conn.alive /\ conn \in Conns /\ Balanced(conn)
  BY AliveConnection DEF CloseAll, Referenced
<1>2. /\ a \in Conns /\ Calmer(conn, a) /\ SameButSocket(conn, a)
      /\ a.readTimer = conn.readTimer /\ a.writeTimer = conn.writeTimer
  <2>1. /\ Abort(conn) \in Conns /\ Calmer(conn, Abort(conn))
        /\ SameButSocket(conn, Abort(conn))
        /\ Abort(conn).readTimer = conn.readTimer
        /\ Abort(conn).writeTimer = conn.writeTimer
    BY <1>1, AbortProperties
  <2>2. Calmer(conn, conn) /\ SameButSocket(conn, conn)
    BY DEF Calmer, SameButSocket
  <2>3. a = Abort(conn) \/ a = conn
    OBVIOUS
  <2> HIDE DEF a
  <2> QED
    BY <1>1, <2>1, <2>2, <2>3
<1>3. conn' = Settle(c)
  BY DEF CloseAll
<1> HIDE DEF a
<1>4. /\ c \in Conns /\ c.alive = a.alive /\ Calmer(a, c)
      /\ c.state = a.state /\ c.read = a.read /\ c.released = a.released
      /\ c.protocol = a.protocol /\ c.closing = a.closing
      /\ c.readExpired = a.readExpired /\ c.writeExpired = a.writeExpired
      /\ c.readTimer = a.readTimer /\ c.writeTimer = a.writeTimer
  BY <1>2 DEF Conns, Calmer
<1> HIDE DEF c
<1>5. Calmer(conn, c)
  BY <1>2, <1>4 DEF Calmer, SameButSocket
<1>6. Unsettled(c) /\ c.alive
  BY <1>1, <1>2, <1>4 DEF Settled, Unsettled, Bare, Balanced, SameButSocket, Calmer
<1>7. Settled(Settle(c)) /\ Calmer(c, Settle(c))
  BY <1>6, SettleProperties
<1> QED
  BY <1>3, <1>5, <1>7 DEF Calmer

(* Operations and timers complete. *)
LEMMA CompletionCalm ==
  ASSUME Settled(conn),
         \/ ReadCompletes \/ ReadFails \/ WriteFails
         \/ ReadTimerExpires \/ WriteTimerExpires
  PROVE  Settled(conn') /\ Calmer(conn, conn')
<1>1. conn.alive /\ conn \in Conns /\ Balanced(conn) /\ ~Bare(conn)
  BY AliveConnection DEF ReadCompletes, ReadFails, WriteFails, ReadTimerExpires,
     WriteTimerExpires, Reading, Writing, Referenced, Settled, Unsettled, Bare
<1>2. /\ conn' \in Conns /\ Calmer(conn, conn') /\ Balanced(conn')
      /\ conn'.state = conn.state /\ conn'.read = conn.read /\ conn'.alive
      /\ conn'.protocol = conn.protocol
  <2>1. CASE ReadCompletes
    BY <1>1, <2>1 DEF ReadCompletes, Conns, Calmer, Balanced, Done
  <2>2. CASE ReadFails
    BY <1>1, <2>2 DEF ReadFails, Conns, Calmer, Balanced, Done
  <2>3. CASE WriteFails
    BY <1>1, <2>3 DEF WriteFails, Conns, Calmer, Balanced, Done
  <2>4. CASE ReadTimerExpires
    BY <1>1, <2>4 DEF ReadTimerExpires, Conns, Calmer, Balanced
  <2>5. CASE WriteTimerExpires
    BY <1>1, <2>5 DEF WriteTimerExpires, Conns, Calmer, Balanced
  <2> QED
    BY <2>1, <2>2, <2>3, <2>4, <2>5
<1> QED
  BY <1>1, <1>2 DEF Settled, Unsettled, Bare

-------------------------------------------------------------------------------
(* Steps of the queue *)

(* What is calm keeps the messages in line. *)
LEMMA CalmLine ==
  ASSUME NEW c, NEW d, Framing(c), Calmer(c, d)
  PROVE  Framing(d) /\ (Order(c) => Order(d))
BY DEF Framing, Order, Calmer

(* What is in a list after one more message was appended. *)
LEMMA AppendList ==
  ASSUME NEW S, NEW seq \in Seq(S), NEW x \in S
  PROVE  /\ Append(seq, x) \in Seq(S)
         /\ Len(seq) \in Nat /\ Len(Append(seq, x)) = Len(seq) + 1
         /\ \A i \in 1..Len(seq) : Append(seq, x)[i] = seq[i]
         /\ Append(seq, x)[Len(seq) + 1] = x
         /\ Append(seq, x) # <<>>
BY LenProperties

(* What taking the first message of a list leaves. *)
LEMMA TailList ==
  ASSUME NEW S, NEW seq \in Seq(S), seq # <<>>
  PROVE  /\ Head(seq) = seq[1] /\ Head(seq) \in S
         /\ Tail(seq) \in Seq(S)
         /\ Len(seq) \in Nat \ {0} /\ Len(Tail(seq)) = Len(seq) - 1
         /\ \A i \in 1..Len(seq) - 1 : Tail(seq)[i] = seq[i + 1]
BY HeadTailProperties, EmptySeq

(* The length of a sequence, which is zero only for the empty one. *)
LEMMA LengthOf ==
  ASSUME NEW S, NEW seq \in Seq(S)
  PROVE  Len(seq) \in Nat /\ (seq = <<>> <=> Len(seq) = 0)
BY LenProperties, EmptySeq

(* A message joins the line. *)
LEMMA JoinsLine ==
  ASSUME NEW S, NEW queue \in Seq(S), NEW all \in Seq(S), NEW done \in Seq(S),
         NEW m \in S, NEW n \in {0, 1}, InLine(queue, all, done, n)
  PROVE  InLine(Append(queue, m), Append(all, m), done, n)
<1>1. /\ Len(queue) \in Nat /\ Len(Append(queue, m)) = Len(queue) + 1
      /\ \A i \in 1..Len(queue) : Append(queue, m)[i] = queue[i]
      /\ Append(queue, m)[Len(queue) + 1] = m
  BY AppendList
<1>2. /\ Len(all) \in Nat /\ Len(Append(all, m)) = Len(all) + 1
      /\ \A i \in 1..Len(all) : Append(all, m)[i] = all[i]
      /\ Append(all, m)[Len(all) + 1] = m
  BY AppendList
<1>3. Len(done) \in Nat /\ n \in Nat
  BY LenProperties
<1>4. n <= Len(done) /\ Len(done) + Len(queue) = Len(all) + n
  BY DEF InLine
<1>5. ASSUME NEW k \in 1..Len(queue) + 1
      PROVE  Append(queue, m)[k] = Append(all, m)[Len(done) + k - n]
  <2>1. CASE k \in 1..Len(queue)
    <3>1. Len(done) + k - n \in 1..Len(all)
      BY <1>1, <1>2, <1>3, <1>4, <2>1
    <3>2. queue[k] = all[Len(done) + k - n]
      BY <2>1 DEF InLine
    <3> QED
      BY <1>1, <1>2, <2>1, <3>1, <3>2
  <2>2. CASE k = Len(queue) + 1
    <3>1. Len(done) + k - n = Len(all) + 1
      BY <1>1, <1>2, <1>3, <1>4, <2>2
    <3> QED
      BY <1>1, <1>2, <2>2, <3>1
  <2>3. k \in 1..Len(queue) \/ k = Len(queue) + 1
    BY <1>1
  <2> QED
    BY <2>1, <2>2, <2>3
<1>6. Len(done) + Len(Append(queue, m)) = Len(Append(all, m)) + n
  BY <1>1, <1>2, <1>3, <1>4
<1> QED
  BY <1>1, <1>4, <1>5, <1>6 DEF InLine

(* The first message in line is delivered, and the next ones move up. *)
LEMMA LeavesLine ==
  ASSUME NEW S, NEW queue \in Seq(S), NEW all \in Seq(S), NEW done \in Seq(S),
         queue # <<>>
  PROVE  /\ InLine(queue, all, done, 0) =>
              /\ Len(done) < Len(all) /\ queue[1] = all[Len(done) + 1]
              /\ InLine(queue, all, Append(done, queue[1]), 1)
         /\ InLine(queue, all, done, 1) => InLine(Tail(queue), all, done, 0)
<1>1. /\ queue[1] \in S
      /\ Len(queue) \in Nat \ {0} /\ Len(Tail(queue)) = Len(queue) - 1
      /\ \A i \in 1..Len(queue) - 1 : Tail(queue)[i] = queue[i + 1]
  BY TailList
<1>2. Len(done) \in Nat /\ Len(all) \in Nat
      /\ Len(Append(done, queue[1])) = Len(done) + 1
  BY <1>1, AppendList, LenProperties
<1>3. ASSUME InLine(queue, all, done, 0)
      PROVE  /\ Len(done) < Len(all) /\ queue[1] = all[Len(done) + 1]
             /\ InLine(queue, all, Append(done, queue[1]), 1)
  <2>1. Len(done) + Len(queue) = Len(all)
    BY <1>1, <1>2, <1>3 DEF InLine
  <2>2. ASSUME NEW k \in 1..Len(queue)
        PROVE  /\ queue[k] = all[Len(done) + k]
               /\ Len(done) + k = Len(done) + 1 + k - 1
    BY <1>1, <1>2, <1>3 DEF InLine
  <2>3. queue[1] = all[Len(done) + 1]
    BY <1>1, <2>2
  <2>4. InLine(queue, all, Append(done, queue[1]), 1)
    BY <1>1, <1>2, <2>1, <2>2 DEF InLine
  <2> QED
    BY <1>1, <1>2, <2>1, <2>3, <2>4
<1>4. ASSUME InLine(queue, all, done, 1)
      PROVE  InLine(Tail(queue), all, done, 0)
  <2>1. Len(done) + Len(queue) = Len(all) + 1
    BY <1>1, <1>2, <1>4 DEF InLine
  <2>2. ASSUME NEW k \in 1..Len(Tail(queue))
        PROVE  Tail(queue)[k] = all[Len(done) + k - 0]
    <3>1. k + 1 \in 1..Len(queue) /\ k \in 1..Len(queue) - 1
      BY <1>1
    <3>2. queue[k + 1] = all[Len(done) + (k + 1) - 1]
      BY <1>4, <3>1 DEF InLine
    <3>3. Len(done) + (k + 1) - 1 = Len(done) + k - 0
      BY <1>2
    <3> QED
      BY <1>1, <3>1, <3>2, <3>3
  <2> QED
    BY <1>1, <1>2, <2>1, <2>2 DEF InLine
<1> QED
  BY <1>3, <1>4

(* Starting a write frames a message and appends it to the writes. *)
LEMMA InternalSendProperties ==
  ASSUME NEW c \in Conns, NEW m \in Msgs
  PROVE  LET d == InternalSend(c, m) IN
         /\ d \in Conns /\ d.queue = c.queue /\ d.writing = Append(c.writing, m)
         /\ d.framed = [c.framed EXCEPT ![m] = @ + 1]
         /\ d.writeDone \in {"no", "error"}
         /\ d.state = c.state /\ d.read = c.read /\ d.alive = c.alive
         /\ d.released = c.released /\ d.protocol = c.protocol
<1>1. /\ [c.framed EXCEPT ![m] = @ + 1] \in [Msgs -> Nat]
      /\ Append(c.writing, m) \in Seq(Msgs)
  BY AppendList DEF Conns
<1>2. InternalSend(c, m) =
        [c EXCEPT !.framed = [c.framed EXCEPT ![m] = @ + 1],
                  !.writeTimer = "armed",
                  !.writing = Append(c.writing, m),
                  !.writeDone = IF c.socket = "open" THEN "no" ELSE "error"]
  BY DEF InternalSend
<1> DEFINE f == [c.framed EXCEPT ![m] = @ + 1]
           w == Append(c.writing, m)
<1> HIDE DEF f, w
<1>3. InternalSend(c, m) =
        [c EXCEPT !.framed = f, !.writeTimer = "armed", !.writing = w,
                  !.writeDone = IF c.socket = "open" THEN "no" ELSE "error"]
  BY <1>2 DEF f, w
<1>4. f \in [Msgs -> Nat] /\ w \in Seq(Msgs)
  BY <1>1 DEF f, w
<1>5. LET d == InternalSend(c, m) IN
      /\ d \in Conns /\ d.queue = c.queue /\ d.writing = w /\ d.framed = f
      /\ d.writeDone \in {"no", "error"}
      /\ d.state = c.state /\ d.read = c.read /\ d.alive = c.alive
      /\ d.released = c.released /\ d.protocol = c.protocol
  BY <1>3, <1>4 DEF Conns, Done
<1> QED
  BY <1>5 DEF f, w

(* Only a message that was never accepted is framed when it is enqueued. *)
LEMMA SendStep ==
  ASSUME ConnInv, NEW m \in Msgs, Send(m)
  PROVE  ConnInv' /\ conn'.state = "OPEN" /\ conn.state = "OPEN"
<1> DEFINE c == [conn EXCEPT !.queue = Append(@, m)]
<1>1. /\ conn \in Conns /\ Balanced(conn) /\ conn.alive /\ conn.state = "OPEN"
      /\ conn.read # "none" /\ conn.protocol
      /\ \A i \in 1..Len(accepted) : accepted[i] # m
      /\ accepted' = Append(accepted, m)
      /\ UNCHANGED <<peer, packets, delivered>>
  BY DEF Send, IsOpen, ConnInv, Settled, Unsettled
<1>2. /\ accepted \in Seq(Msgs) /\ delivered \in Seq(Msgs)
      /\ conn.queue \in Seq(Msgs) /\ conn.framed \in [Msgs -> Nat]
      /\ Len(delivered) \in Nat
  BY <1>1, LenProperties DEF ConnInv, TypeOK, Conns
<1>3. /\ accepted' \in Seq(Msgs)
      /\ Len(accepted) \in Nat /\ Len(accepted') = Len(accepted) + 1
      /\ \A i \in 1..Len(accepted) : accepted'[i] = accepted[i]
      /\ accepted'[Len(accepted) + 1] = m
  BY <1>1, <1>2, AppendList
<1>4. /\ c.queue \in Seq(Msgs) /\ c.queue # <<>>
      /\ Len(conn.queue) \in Nat /\ Len(c.queue) = Len(conn.queue) + 1
      /\ \A i \in 1..Len(conn.queue) : c.queue[i] = conn.queue[i]
      /\ c.queue[Len(conn.queue) + 1] = m
  <2>1. c.queue = Append(conn.queue, m)
    BY <1>1 DEF Conns
  <2> HIDE DEF c
  <2> DEFINE q == Append(conn.queue, m)
  <2>2. /\ q \in Seq(Msgs) /\ q # <<>>
        /\ Len(conn.queue) \in Nat /\ Len(q) = Len(conn.queue) + 1
        /\ \A i \in 1..Len(conn.queue) : q[i] = conn.queue[i]
        /\ q[Len(conn.queue) + 1] = m
    <3>1. conn.queue \in Seq(Msgs)
      BY <1>2
    <3> QED
      BY <3>1, AppendList
  <2> HIDE DEF q
  <2>3. c.queue = q
    BY <2>1 DEF q
  <2> QED
    BY <2>2, <2>3
<1>5. /\ c \in Conns /\ Balanced(c) /\ c.alive /\ c.state = "OPEN"
      /\ c.read = conn.read /\ c.protocol /\ c.writing = conn.writing
      /\ c.framed = conn.framed /\ c.writeDone = conn.writeDone
  BY <1>1, <1>4 DEF Conns, Balanced
<1>6. conn.framed[m] = 0
  BY <1>1 DEF ConnInv, Framing
<1>7. conn' = IF conn.queue = <<>> THEN InternalSend(c, m) ELSE c
  BY DEF Send, Enqueue
<1> HIDE DEF c
<1>8. ASSUME NEW x \in Msgs, \E i \in 1..Len(accepted) : accepted[i] = x
      PROVE  \E i \in 1..Len(accepted') : accepted'[i] = x
  BY <1>3, <1>8
<1>9. /\ conn' \in Conns /\ Settled(conn') /\ Framing(conn)' /\ Order(conn)'
      /\ conn'.state = "OPEN"
  <2>1. CASE conn.queue = <<>>
    <3>1. /\ conn' \in Conns /\ conn'.queue = c.queue
          /\ conn'.writing = Append(c.writing, m)
          /\ conn'.framed = [conn.framed EXCEPT ![m] = @ + 1]
          /\ conn'.writeDone \in {"no", "error"}
          /\ conn'.state = "OPEN" /\ conn'.read = conn.read /\ conn'.alive
          /\ conn'.protocol /\ Balanced(conn')
      <4>1. conn' = InternalSend(c, m)
        BY <1>7, <2>1
      <4>2. /\ conn' \in Conns /\ conn'.queue = c.queue
            /\ conn'.writing = Append(c.writing, m)
            /\ conn'.framed = [c.framed EXCEPT ![m] = @ + 1]
            /\ conn'.writeDone \in {"no", "error"}
            /\ conn'.state = c.state /\ conn'.read = c.read /\ conn'.alive = c.alive
            /\ conn'.released = c.released /\ conn'.protocol = c.protocol
        BY <1>5, <4>1, InternalSendProperties
      <4> QED
        BY <1>5, <4>2 DEF Balanced
    <3>2. Settled(conn')
      BY <1>1, <3>1 DEF Settled, Unsettled, Bare
    <3>3. Len(conn.queue) = 0 /\ Len(c.queue) = 1 /\ c.queue[1] = m
      BY <1>4, <2>1
    <3>4. conn.writing = <<>>
      BY <2>1 DEF ConnInv, Framing
    <3>5. conn'.framed[m] = 1 /\ \A x \in Msgs \ {m} : conn'.framed[x] = conn.framed[x]
      BY <1>2, <1>6, <3>1
    <3>6. conn'.writing = <<conn'.queue[1]>>
      BY <1>5, <3>1, <3>3, <3>4
    <3>7. \A x \in Msgs : /\ conn'.framed[x] \in {0, 1}
                          /\ conn'.framed[x] = 1 =>
                               \E i \in 1..Len(accepted') : accepted'[i] = x
      <4>1. \E i \in 1..Len(accepted') : accepted'[i] = m
        BY <1>3
      <4> QED
        BY <1>8, <3>5, <4>1 DEF ConnInv, Framing
    <3>8. \A i \in 1..Len(conn'.queue) :
            /\ i = 1 /\ conn'.framed[conn'.queue[i]] = 1
            /\ \E k \in 1..Len(accepted') : accepted'[k] = conn'.queue[i]
      BY <1>3, <3>1, <3>3, <3>5
    <3>9. \A i \in 1..Len(delivered) : conn'.framed[delivered[i]] = 1
      <4>1. ASSUME NEW i \in 1..Len(delivered) PROVE conn'.framed[delivered[i]] = 1
        <5>1. delivered[i] \in Msgs /\ conn.framed[delivered[i]] = 1
          BY <1>2, ElementOfSeq DEF ConnInv, Framing
        <5> QED
          BY <1>6, <3>5, <5>1
      <4> QED
        BY <4>1
    <3>10. Framing(conn)'
      BY <1>1, <1>4, <3>1, <3>6, <3>7, <3>8, <3>9 DEF Framing
    <3>11. Len(delivered) = Len(accepted)
      BY <1>1, <2>1 DEF ConnInv, Order
    <3>12. Order(conn)'
      <4>1. InLine(c.queue, accepted', delivered, 0)
        BY <1>2, <1>3, <3>3, <3>11 DEF InLine
      <4> QED
        BY <1>1, <1>4, <3>1, <4>1 DEF Order
    <3> QED
      BY <3>1, <3>2, <3>10, <3>12
  <2>2. CASE conn.queue # <<>>
    <3>1. conn' = c
      BY <1>7, <2>2
    <3>2. Settled(conn')
      BY <1>1, <1>5, <3>1 DEF Settled, Unsettled, Bare
    <3>3. Len(conn.queue) > 0
      BY <1>2, <1>4, <2>2, EmptySeq
    <3>4. conn'.writing = <<conn'.queue[1]>>
      BY <1>4, <1>5, <2>2, <3>1, <3>3 DEF ConnInv, Framing
    <3>5. \A x \in Msgs : /\ conn'.framed[x] \in {0, 1}
                          /\ conn'.framed[x] = 1 =>
                               \E i \in 1..Len(accepted') : accepted'[i] = x
      BY <1>5, <1>8, <3>1 DEF ConnInv, Framing
    <3>6. ASSUME NEW i \in 1..Len(conn'.queue)
          PROVE  /\ conn'.framed[conn'.queue[i]] = IF i = 1 THEN 1 ELSE 0
                 /\ \E k \in 1..Len(accepted') : accepted'[k] = conn'.queue[i]
                 /\ \A j \in 1..Len(conn'.queue) : conn'.queue[i] = conn'.queue[j] => i = j
      <4>0. \A j \in 1..Len(conn.queue) : conn.queue[j] \in Msgs /\ conn.queue[j] # m
        <5>1. ASSUME NEW j \in 1..Len(conn.queue) PROVE conn.queue[j] # m
          <6>1. PICK k \in 1..Len(accepted) : accepted[k] = conn.queue[j]
            BY DEF ConnInv, Framing
          <6> QED
            BY <1>1, <6>1
        <5> QED
          BY <1>2, <5>1, ElementOfSeq
      <4>1. CASE i \in 1..Len(conn.queue)
        <5>1. conn'.queue[i] = conn.queue[i]
          BY <1>4, <3>1, <4>1
        <5>2. \E k \in 1..Len(accepted') : accepted'[k] = conn.queue[i]
          BY <1>8, <4>0, <4>1 DEF ConnInv, Framing
        <5>3. ASSUME NEW j \in 1..Len(conn'.queue), conn'.queue[i] = conn'.queue[j]
              PROVE  i = j
          <6>1. j \in 1..Len(conn.queue) \/ j = Len(conn.queue) + 1
            BY <1>4, <3>1
          <6> QED
            BY <1>4, <3>1, <4>0, <4>1, <5>1, <5>3, <6>1 DEF ConnInv, Framing
        <5> QED
          BY <1>5, <3>1, <4>1, <5>1, <5>2, <5>3 DEF ConnInv, Framing
      <4>2. CASE i = Len(conn.queue) + 1
        <5>1. conn'.queue[i] = m
          BY <1>4, <3>1, <4>2
        <5>2. ASSUME NEW j \in 1..Len(conn'.queue), conn'.queue[j] = m
              PROVE  i = j
          <6>1. j \in 1..Len(conn.queue) \/ j = Len(conn.queue) + 1
            BY <1>4, <3>1
          <6> QED
            BY <1>4, <3>1, <4>0, <4>2, <5>2, <6>1
        <5>3. \E k \in 1..Len(accepted') : accepted'[k] = m
          BY <1>3
        <5>4. i # 1
          BY <1>4, <3>3, <4>2
        <5> QED
          BY <1>5, <1>6, <3>1, <5>1, <5>2, <5>3, <5>4
      <4> QED
        BY <1>4, <3>1, <4>1, <4>2
    <3>7. \A i \in 1..Len(delivered) : conn'.framed[delivered[i]] = 1
      BY <1>5, <3>1 DEF ConnInv, Framing
    <3>8. Framing(conn)'
      BY <1>1, <1>4, <3>1, <3>4, <3>5, <3>6, <3>7 DEF Framing
    <3>9. \A n \in {0, 1} : InLine(conn.queue, accepted, delivered, n) =>
                             InLine(conn'.queue, accepted', delivered', n)
      <4>1. c.queue = Append(conn.queue, m)
        BY <1>1 DEF c, Conns
      <4> QED
        BY <1>1, <1>2, <3>1, <4>1, JoinsLine
    <3>10. Order(conn)'
      BY <1>4, <1>5, <2>2, <3>1, <3>9 DEF ConnInv, Order
    <3> QED
      BY <1>5, <3>1, <3>2, <3>8, <3>10
  <2> QED
    BY <2>1, <2>2
<1> QED
  BY <1>1, <1>3, <1>9 DEF ConnInv, TypeOK, Conns

(* The write of the first message has completed: the next one starts, the  *)
(* connection that was waiting for it is closed, or all is lost.           *)
LEMMA WrittenStep ==
  ASSUME ConnInv, OnWriteOperation
  PROVE  /\ ConnInv' /\ conn'.state \in {conn.state, "CLOSED"}
         /\ UNCHANGED <<accepted, delivered>>
<1> DEFINE q == conn.queue
           written == [conn EXCEPT !.writeTimer = "off", !.queue = Tail(@),
                                   !.writing = Tail(@)]
<1>1. /\ conn \in Conns /\ Balanced(conn) /\ conn.alive
      /\ conn.read # "accepting"
      /\ (conn.state = "OPEN" => conn.read # "none")
      /\ conn.writing # <<>> /\ conn.writeDone # "no"
      /\ UNCHANGED <<peer, packets, accepted, delivered>>
  BY DEF OnWriteOperation, ConnInv, Settled, Unsettled, Referenced
<1>2. q # <<>> /\ q \in Seq(Msgs) /\ conn.writing = <<q[1]>>
  BY <1>1 DEF ConnInv, Framing, Conns
<1>3. accepted \in Seq(Msgs) /\ delivered \in Seq(Msgs)
  BY DEF ConnInv, TypeOK
<1>4. /\ Tail(q) \in Seq(Msgs) /\ Len(q) \in Nat \ {0} /\ Len(Tail(q)) = Len(q) - 1
      /\ \A i \in 1..Len(q) - 1 : Tail(q)[i] = q[i + 1]
  BY <1>2, TailList
<1>5. Tail(conn.writing) = <<>>
  BY <1>2
<1>6. /\ written \in Conns /\ Balanced(written) /\ written.alive
      /\ written.read = conn.read /\ written.state = conn.state
      /\ written.queue = Tail(q) /\ written.writing = <<>>
      /\ written.framed = conn.framed /\ written.writeDone = conn.writeDone
  <2>1. written = [conn EXCEPT !.writeTimer = "off", !.queue = Tail(q),
                               !.writing = <<>>]
    BY <1>1, <1>5 DEF Conns
  <2>2. <<>> \in Seq(Msgs)
    OBVIOUS
  <2> HIDE DEF written
  <2> QED
    BY <1>1, <1>4, <2>1, <2>2 DEF Conns, Balanced
<1>7. conn' = Settle(IF conn.writeDone = "error"
                     THEN Close([written EXCEPT !.queue = <<>>], TRUE)
                     ELSE Continue(written))
  BY DEF OnWriteOperation
<1> HIDE DEF written
<1>8. ASSUME NEW c \in Conns, Balanced(c), c.alive, c.read = conn.read,
             c.state \in {conn.state, "CLOSED"}, Framing(c), Order(c),
             conn' = Settle(c)
      PROVE  ConnInv' /\ conn'.state \in {conn.state, "CLOSED"}
  <2>1. Unsettled(c)
    <3>1. c.read # "accepting"
      BY <1>1, <1>8
    <3>2. c.state = "OPEN" => c.read # "none"
      <4>1. ASSUME c.state = "OPEN"
            PROVE  conn.state = "OPEN"
        BY <1>8, <4>1
      <4> QED
        BY <1>1, <1>8, <4>1
    <3> QED
      BY <1>8, <3>1, <3>2 DEF Unsettled, Bare
  <2>2. Settled(conn') /\ Calmer(c, conn')
    BY <1>8, <2>1, SettleProperties
  <2>3. Framing(conn') /\ Order(conn')
    BY <1>8, <2>2, CalmLine
  <2>4. Framing(conn)' /\ Order(conn)'
    BY <1>1, <2>3 DEF Framing, Order
  <2>5. TypeOK'
    BY <1>1, <2>2 DEF ConnInv, TypeOK, Settled, Unsettled, Conns
  <2> QED
    BY <1>8, <2>2, <2>4, <2>5 DEF ConnInv, Calmer
<1>9. CASE conn.writeDone = "error"
  <2> DEFINE e == [written EXCEPT !.queue = <<>>]
             c == Close(e, TRUE)
  <2>1. /\ e \in Conns /\ Balanced(e) /\ e.alive /\ e.read = conn.read
        /\ e.state = conn.state /\ e.queue = <<>> /\ e.writing = <<>>
        /\ e.framed = conn.framed
    <3>1. <<>> \in Seq(Msgs)
      OBVIOUS
    <3> QED
      BY <1>6, <3>1 DEF Conns, Balanced
  <2>2. conn' = Settle(c)
    BY <1>7, <1>9
  <2> HIDE DEF e
  <2>3. /\ c \in Conns /\ Calmer(e, c) /\ Balanced(c)
        /\ c.state = "CLOSED" /\ c.read = e.read /\ c.alive
    BY <2>1, CloseProperties
  <2> HIDE DEF c
  <2>4. Framing(e)
    <3>1. Len(e.queue) = 0
      BY <2>1
    <3> QED
      BY <2>1, <3>1 DEF ConnInv, Framing
  <2>5. Framing(c)
    BY <2>3, <2>4, CalmLine
  <2>6. Order(c)
    BY <2>1, <2>3 DEF Order, Calmer
  <2> QED
    BY <1>1, <1>8, <2>1, <2>2, <2>3, <2>5, <2>6
<1>10. CASE conn.writeDone # "error"
  <2>1. conn.writeDone = "ok"
    BY <1>1, <1>10 DEF Conns, Done
  <2>2. InLine(q, accepted, delivered, 1)
    BY <1>2, <2>1 DEF ConnInv, Order
  <2>3. InLine(Tail(q), accepted, delivered, 0)
    BY <1>2, <1>3, <2>2, LeavesLine
  <2>4. conn' = Settle(Continue(written))
    BY <1>7, <1>10
  <2>5. CASE Tail(q) = <<>>
    <3>1. Len(Tail(q)) = 0 /\ Len(delivered) \in Nat /\ Len(accepted) \in Nat
      <4>1. Tail(q) \in Seq(Msgs)
        BY <1>4
      <4>2. Len(Tail(q)) = 0
        BY <2>5, <4>1, LengthOf
      <4>3. Len(delivered) \in Nat
        BY <1>3, LengthOf
      <4>4. Len(accepted) \in Nat
        BY <1>3, LengthOf
      <4> QED
        BY <4>2, <4>3, <4>4
    <3>2. Len(delivered) = Len(accepted)
      <4>1. Len(delivered) + Len(Tail(q)) = Len(accepted) + 0
        BY Zenon, <2>3 DEF InLine
      <4> QED
        <5> DEFINE d == Len(delivered)
                   a == Len(accepted)
        <5>1. d \in Nat /\ a \in Nat /\ d + 0 = a + 0
          BY Zenon, <3>1, <4>1
        <5> HIDE DEF d, a
        <5>2. d = a
          BY <5>1
        <5> QED
          BY Zenon, <5>2 DEF d, a
    <3>3. Framing(written)
      BY <1>6, <2>5, <3>1 DEF ConnInv, Framing
    <3>4. Order(written)
      BY <1>6, <2>5, <3>2 DEF Order
    <3>5. \/ conn' = Settle(written)
          \/ conn' = Settle(CloseSocket(written))
      BY <1>6, <2>4, <2>5 DEF Continue
    <3>6. CASE conn' = Settle(written)
      BY <1>1, <1>6, <1>8, <3>3, <3>4, <3>6
    <3>7. CASE conn' = Settle(CloseSocket(written))
      <4> DEFINE c == CloseSocket(written)
      <4>1. c \in Conns /\ Calmer(written, c) /\ SameButSocket(written, c)
        BY <1>6, CloseSocketProperties
      <4> HIDE DEF c
      <4>2. Framing(c) /\ Order(c)
        BY <3>3, <3>4, <4>1, CalmLine
      <4>3. Balanced(c) /\ c.alive /\ c.read = conn.read /\ c.state = conn.state
        BY <1>6, <4>1 DEF SameButSocket, Balanced
      <4>4. conn' = Settle(c)
        BY <3>7 DEF c
      <4> QED
        BY <1>1, <1>8, <4>1, <4>2, <4>3, <4>4
    <3> QED
      BY <3>5, <3>6, <3>7
  <2>6. CASE Tail(q) # <<>>
    <3> DEFINE m == q[2]
               c == InternalSend(written, m)
    <3>1. Len(q) >= 2 /\ m \in Msgs /\ Tail(q)[1] = m /\ Head(Tail(q)) = m
      <4>1. Len(Tail(q)) \in Nat \ {0} /\ Head(Tail(q)) = Tail(q)[1]
            /\ Head(Tail(q)) \in Msgs
        <5> DEFINE t == Tail(q)
        <5>1. t \in Seq(Msgs) /\ t # <<>>
          BY <1>4, <2>6
        <5> HIDE DEF t
        <5>2. Head(t) = t[1] /\ Head(t) \in Msgs /\ Len(t) \in Nat \ {0}
          BY <5>1, TailList
        <5> QED
          BY <5>2 DEF t
      <4>2. Len(q) >= 2 /\ 1 \in 1..Len(q) - 1
        <5> DEFINE l == Len(q)
                   r == Len(Tail(q))
        <5>1. l \in Nat /\ r \in Nat \ {0} /\ r = l - 1
          BY <1>4, <4>1
        <5> HIDE DEF l, r
        <5>2. l >= 2 /\ 1 \in 1..l - 1
          BY <5>1
        <5> QED
          BY Zenon, <5>2 DEF l
      <4> QED
        BY <1>4, <4>1, <4>2
    <3>2. conn' = Settle(c)
      BY <1>6, <2>4, <2>6, <3>1 DEF Continue
    <3> HIDE DEF m
    <3>3. /\ c \in Conns /\ c.queue = Tail(q) /\ c.writing = Append(<<>>, m)
          /\ c.framed = [conn.framed EXCEPT ![m] = @ + 1]
          /\ c.writeDone \in {"no", "error"}
          /\ c.state = conn.state /\ c.read = conn.read /\ c.alive
          /\ c.released = written.released /\ c.protocol = written.protocol
      BY <1>6, <3>1, InternalSendProperties
    <3> HIDE DEF c
    <3>4. Balanced(c)
      BY <1>6, <3>3 DEF Balanced
    <3>5. \A i \in 1..Len(q) :
            /\ conn.framed[q[i]] = IF i = 1 THEN 1 ELSE 0
            /\ \E k \in 1..Len(accepted) : accepted[k] = q[i]
            /\ \A j \in 1..Len(q) : q[i] = q[j] => i = j
      BY DEF ConnInv, Framing
    <3>6. 2 \in 1..Len(q)
      BY <1>4, <3>1
    <3>7. conn.framed[m] = 0 /\ conn.framed \in [Msgs -> Nat]
      BY <1>1, <3>5, <3>6 DEF m, Conns
    <3>8. c.framed[m] = 1 /\ \A x \in Msgs \ {m} : c.framed[x] = conn.framed[x]
      BY <3>1, <3>3, <3>7
    <3>9. c.writing = <<c.queue[1]>>
      BY <3>1, <3>3
    <3>10. \A x \in Msgs : /\ c.framed[x] \in {0, 1}
                           /\ c.framed[x] = 1 =>
                                \E i \in 1..Len(accepted) : accepted[i] = x
      <4>1. \E i \in 1..Len(accepted) : accepted[i] = m
        BY <3>5, <3>6 DEF m
      <4> QED
        BY <3>8, <4>1 DEF ConnInv, Framing
    <3>11. ASSUME NEW i \in 1..Len(c.queue)
           PROVE  /\ c.framed[c.queue[i]] = IF i = 1 THEN 1 ELSE 0
                  /\ \E k \in 1..Len(accepted) : accepted[k] = c.queue[i]
                  /\ \A j \in 1..Len(c.queue) : c.queue[i] = c.queue[j] => i = j
      <4>1. /\ i \in 1..Len(q) - 1 /\ i + 1 \in 1..Len(q)
            /\ c.queue[i] = q[i + 1]
        BY <1>4, <3>3
      <4>2. ASSUME NEW j \in 1..Len(c.queue), c.queue[i] = c.queue[j]
            PROVE  i = j
        <5>1. /\ j + 1 \in 1..Len(q) /\ c.queue[j] = q[j + 1]
          BY <1>4, <3>3
        <5>2. i + 1 = j + 1
          BY <3>5, <4>1, <4>2, <5>1
        <5> QED
          BY <1>4, <3>3, <5>2
      <4>3. c.framed[c.queue[i]] = IF i = 1 THEN 1 ELSE 0
        <5>1. CASE i = 1
          BY <3>8, <4>1, <5>1 DEF m
        <5>2. CASE i # 1
          <6>1. conn.framed[q[i + 1]] = 0 /\ q[i + 1] # q[2] /\ q[i + 1] \in Msgs
            BY <1>2, <1>4, <3>5, <3>6, <4>1, <5>2, ElementOfSeq
          <6> QED
            BY <3>8, <4>1, <5>2, <6>1 DEF m
        <5> QED
          BY <5>1, <5>2
      <4> QED
        BY <3>5, <4>1, <4>2, <4>3
    <3>12. \A i \in 1..Len(delivered) : c.framed[delivered[i]] = 1
      <4>1. ASSUME NEW i \in 1..Len(delivered) PROVE c.framed[delivered[i]] = 1
        <5>1. conn.framed[delivered[i]] = 1
          BY DEF ConnInv, Framing
        <5>2. delivered[i] \in Msgs
          BY <1>3, ElementOfSeq
        <5> QED
          BY <3>7, <3>8, <5>1, <5>2
      <4> QED
        BY <4>1
    <3>13. Framing(c)
      BY <2>6, <3>3, <3>9, <3>10, <3>11, <3>12 DEF Framing
    <3>14. Order(c)
      BY <2>3, <2>6, <3>3 DEF Order
    <3> QED
      BY <1>1, <1>8, <3>2, <3>3, <3>4, <3>13, <3>14
  <2> QED
    BY <2>5, <2>6
<1> QED
  BY <1>1, <1>9, <1>10

(* What has been written is the first message of the queue. *)
LEMMA DeliveredStep ==
  ASSUME ConnInv, WriteCompletes
  PROVE  /\ ConnInv' /\ conn'.state = conn.state
         /\ accepted' = accepted /\ Len(delivered) < Len(accepted)
         /\ delivered' = Append(delivered, accepted[Len(delivered) + 1])
<1> DEFINE q == conn.queue
<1>1. /\ conn \in Conns /\ conn.alive /\ Balanced(conn)
      /\ conn.writing # <<>> /\ conn.writeDone = "no" /\ ~Bare(conn)
      /\ conn.state = "OPEN" => conn.read # "none"
      /\ conn' = [conn EXCEPT !.writeDone = "ok"]
      /\ delivered' = Append(delivered, Head(conn.writing))
      /\ UNCHANGED <<peer, packets, accepted>>
  BY DEF WriteCompletes, Writing, ConnInv, Settled, Unsettled, Referenced
<1>2. q # <<>> /\ q \in Seq(Msgs) /\ conn.writing = <<q[1]>>
  BY <1>1 DEF ConnInv, Framing, Conns
<1>3. accepted \in Seq(Msgs) /\ delivered \in Seq(Msgs)
  BY DEF ConnInv, TypeOK
<1>4. q[1] \in Msgs /\ 1 \in 1..Len(q)
  BY <1>2, TailList
<1>5. delivered' = Append(delivered, q[1])
  BY <1>1, <1>2
<1>6. /\ delivered' \in Seq(Msgs)
      /\ Len(delivered) \in Nat /\ Len(delivered') = Len(delivered) + 1
      /\ \A i \in 1..Len(delivered) : delivered'[i] = delivered[i]
      /\ delivered'[Len(delivered) + 1] = q[1]
  BY <1>3, <1>4, <1>5, AppendList
<1>7. /\ Len(delivered) < Len(accepted) /\ q[1] = accepted[Len(delivered) + 1]
      /\ InLine(q, accepted, delivered', 1)
  <2>1. InLine(q, accepted, delivered, 0)
    BY <1>1, <1>2 DEF ConnInv, Order
  <2> QED
    BY <1>2, <1>3, <1>5, <2>1, LeavesLine
<1>8. /\ conn' \in Conns /\ conn'.alive /\ Balanced(conn') /\ conn'.read = conn.read
      /\ conn'.state = conn.state /\ conn'.queue = q /\ conn'.writing = conn.writing
      /\ conn'.protocol = conn.protocol
      /\ conn'.framed = conn.framed /\ conn'.writeDone = "ok"
  BY <1>1 DEF Conns, Balanced, Done
<1>9. Settled(conn')
  BY <1>1, <1>8 DEF Settled, Unsettled, Bare
<1>10. Framing(conn)'
  <2>1. conn.framed[q[1]] = 1
    BY <1>4 DEF ConnInv, Framing
  <2>2. \A i \in 1..Len(delivered') : conn.framed[delivered'[i]] = 1
    <3>1. \A i \in 1..Len(delivered') : i \in 1..Len(delivered) \/ i = Len(delivered) + 1
      BY <1>6
    <3> QED
      BY <1>6, <2>1, <3>1 DEF ConnInv, Framing
  <2> QED
    BY <1>1, <1>8, <2>2 DEF ConnInv, Framing
<1>11. Order(conn)'
  BY <1>1, <1>2, <1>7, <1>8 DEF Order
<1>12. TypeOK'
  BY <1>1, <1>6, <1>8 DEF ConnInv, TypeOK, Conns
<1> QED
  BY <1>1, <1>5, <1>7, <1>8, <1>9, <1>10, <1>11, <1>12 DEF ConnInv

-------------------------------------------------------------------------------
(* The induction *)

(* A new connection has sent nothing. *)
LEMMA ConnInit ==
  ASSUME Init PROVE ConnInv
<1>1. TypeOK
  BY ConnectionAssumption DEF Init, TypeOK, Done
<1>2. Settled(conn)
  BY <1>1 DEF Init, TypeOK, Settled, Unsettled, Bare, Balanced, Conns
<1>3. Len(conn.queue) = 0 /\ Len(delivered) = 0 /\ Len(accepted) = 0
      /\ conn.queue = <<>> /\ conn.writing = <<>>
  BY DEF Init
<1>4. \A m \in Msgs : conn.framed[m] = 0
  BY DEF Init
<1>5. Framing(conn)
  BY <1>3, <1>4 DEF Framing
<1>6. Order(conn)
  BY <1>3 DEF Order
<1> QED
  BY <1>1, <1>2, <1>5, <1>6 DEF ConnInv

(* The steps that leave the queue alone. *)
CalmStep ==
  \/ AcceptCompletes \/ BindProtocol \/ Accept \/ Refuse
  \/ ParseHeader \/ ParsePacket
  \/ HandleReadTimeout \/ HandleWriteTimeout
  \/ BeginDisconnect \/ EndDisconnect \/ CloseAll
  \/ ReadCompletes \/ ReadFails \/ WriteFails
  \/ ReadTimerExpires \/ WriteTimerExpires
  \/ PeerLeaves \/ UNCHANGED vars

(* None of them disturbs the invariant, sends or delivers.                  *)
LEMMA CalmSteps ==
  ASSUME ConnInv, CalmStep
  PROVE  /\ ConnInv' /\ conn'.state \in {conn.state, "CLOSED"}
         /\ UNCHANGED <<accepted, delivered>>
<1>1. Settled(conn') /\ Calmer(conn, conn')
  <2>1. Settled(conn)
    BY DEF ConnInv
  <2>2. ASSUME PeerLeaves \/ UNCHANGED vars PROVE Settled(conn') /\ Calmer(conn, conn')
    <3>1. conn' = conn
      BY <2>2 DEF PeerLeaves, vars
    <3> QED
      BY <2>1, <3>1 DEF Calmer
  <2> QED
    BY <2>1, <2>2, AcceptCalm, ParseHeaderCalm, ParsePacketCalm, TimeoutCalm,
       DisconnectCalm, CloseAllCalm, CompletionCalm DEF CalmStep
<1>2. /\ UNCHANGED <<accepted, delivered>>
      /\ peer' \in {peer, "gone"}
      /\ packets' = packets \/ (packets > 0 /\ packets' = packets - 1)
  BY DEF CalmStep, AcceptCompletes, BindProtocol, Accept, Refuse, ParseHeader,
     ParsePacket, HandleReadTimeout, HandleWriteTimeout, BeginDisconnect,
     EndDisconnect, CloseAll, ReadCompletes, ReadFails, WriteFails,
     ReadTimerExpires, WriteTimerExpires, PeerLeaves, vars
<1>3. TypeOK'
  <2>1. peer' \in {"up", "gone"}
    BY <1>2 DEF ConnInv, TypeOK
  <2>2. packets' \in 0..MaxPackets
    BY <1>2, ConnectionAssumption DEF ConnInv, TypeOK
  <2> QED
    BY <1>1, <1>2, <2>1, <2>2 DEF ConnInv, TypeOK, Settled, Unsettled, Conns
<1>4. Framing(conn') /\ Order(conn')
  BY <1>1, CalmLine DEF ConnInv
<1>5. Framing(conn)' /\ Order(conn)'
  BY <1>2, <1>4 DEF Framing, Order
<1> QED
  BY <1>1, <1>2, <1>3, <1>5 DEF ConnInv, Calmer

(* Every step is calm or one of the three that move messages.               *)
LEMMA StepCases ==
  ASSUME [Next]_vars
  PROVE  \/ CalmStep \/ \E m \in Msgs : Send(m)
         \/ OnWriteOperation \/ WriteCompletes
BY DEF Next, NetworkStep, CalmStep

(* The invariant is inductive.                                              *)
LEMMA ConnStep ==
  ASSUME ConnInv, [Next]_vars PROVE ConnInv'
BY StepCases, CalmSteps, SendStep, WrittenStep, DeliveredStep

(* The invariant holds of every behaviour.                                  *)
LEMMA ConnInvariant == Spec => []ConnInv
BY ConnInit, ConnStep, PTL DEF Spec

-------------------------------------------------------------------------------
(* What follows from it *)

(* send() and onWriteOperation() keep at most one async_write outstanding,  *)
(* that of the first message of the queue, and onSendMessage is applied to  *)
(* a message once, when its write is started, whatever closes, fails or     *)
(* times out meanwhile.                                                     *)
THEOREM WritesInTurnHolds == Spec => []WritesInTurn
<1>1. ASSUME ConnInv PROVE WritesInTurn
  <2>1. conn \in Conns /\ conn.queue \in Seq(Msgs)
    BY <1>1 DEF ConnInv, Settled, Unsettled, Conns
  <2>2. conn.writing = IF conn.queue = <<>> THEN <<>> ELSE <<conn.queue[1]>>
    BY <1>1 DEF ConnInv, Framing
  <2>3. /\ Len(conn.writing) <= 1
        /\ conn.writing # <<>> =>
             conn.queue # <<>> /\ Head(conn.queue) = Head(conn.writing)
    BY <2>1, <2>2
  <2>4. /\ \A m \in Msgs : conn.framed[m] <= 1
        /\ \A i \in 1..Len(delivered) : conn.framed[delivered[i]] = 1
    BY <1>1 DEF ConnInv, Framing
  <2>5. \A i \in 2..Len(conn.queue) : conn.framed[conn.queue[i]] = 0
    <3>1. \A i \in 2..Len(conn.queue) : i \in 1..Len(conn.queue) /\ i # 1
      BY <2>1, LenProperties
    <3> QED
      BY <1>1, <3>1 DEF ConnInv, Framing
  <2> QED
    BY <2>3, <2>4, <2>5 DEF WritesInTurn
<1> QED
  BY <1>1, ConnInvariant, PTL

(* close() posts Protocol::release exactly once for a connection with a     *)
(* protocol, whichever thread is the first to close it, and what destroys a *)
(* connection has closed it before: the other handlers of a closed          *)
(* connection return early and its references keep it alive until then.     *)
THEOREM ReleaseMatchesCloseHolds == Spec => []ReleaseMatchesClose
<1>1. ASSUME ConnInv PROVE ReleaseMatchesClose
  BY <1>1 DEF ConnInv, Settled, Unsettled, Balanced, ReleaseMatchesClose
<1> QED
  BY <1>1, ConnInvariant, PTL

(* The queue, its single outstanding write and the drain after close()      *)
(* deliver what send() accepted once, in order and without gaps: every step *)
(* of the connection is a step of the channel or leaves it alone.           *)
THEOREM ConnectionImplementsChannel == Spec => ChannelSpec
<1>1. ASSUME Init PROVE Wire!Init
  BY <1>1 DEF Init, Wire!Init
<1>2. ASSUME ConnInv, [Next]_vars PROVE [Wire!Next]_(Wire!vars)
  <2>1. CASE CalmStep \/ OnWriteOperation
    <3>1. /\ conn'.state \in {conn.state, "CLOSED"}
          /\ UNCHANGED <<accepted, delivered>>
      BY <1>2, <2>1, CalmSteps, WrittenStep
    <3> QED
      BY <3>1 DEF Wire!Next, Wire!Close, Wire!vars
  <2>2. ASSUME NEW m \in Msgs, Send(m) PROVE Wire!Accept(m)
    <3>1. conn'.state = "OPEN" /\ conn.state = "OPEN"
      BY <1>2, <2>2, SendStep
    <3> QED
      BY <2>2, <3>1 DEF Send, Wire!Accept
  <2>3. CASE WriteCompletes
    <3>1. /\ conn'.state = conn.state
          /\ accepted' = accepted /\ Len(delivered) < Len(accepted)
          /\ delivered' = Append(delivered, accepted[Len(delivered) + 1])
      BY <1>2, <2>3, DeliveredStep
    <3> QED
      BY <3>1 DEF Wire!Next, Wire!Deliver
  <2> QED
    BY <1>2, <2>1, <2>2, <2>3, StepCases DEF Wire!Next
<1> QED
  BY <1>1, <1>2, ConnInvariant, PTL DEF Spec, ChannelSpec, Wire!Spec
===============================================================================
