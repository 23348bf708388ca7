----------------------------- MODULE ServerProofs ------------------------------
(***************************************************************************)
(* Proofs about Messages, Autosend and Lifecycle, for buffers of any size, *)
(* any number of protocols and any number of tasks from the network.  The  *)
(* three parts share this module and nothing else.                         *)
(***************************************************************************)
EXTENDS Messages, Autosend, Lifecycle, SequenceTheorems, TLAPS


-------------------------------------------------------------------------------
(* Messages *)

(* The sizes as the steps below need them. *)
LEMMA Sizes ==
  /\ MaxSize \in Nat /\ MaxString \in Nat /\ RsaLength \in Nat
  /\ MaxBodyLength \in Nat /\ MaxBodyLength = MaxSize - 14
  /\ MaxBodyLength >= 24 /\ MaxBodyLength % 8 = 0
  /\ MaxProtocolBodyLength = MaxBodyLength - 10
  /\ MaxString <= MaxBodyLength - 10
  /\ TooLongToPad = MaxBodyLength - 9
  BY MessagesAssumption
  DEF MaxBodyLength, MaxProtocolBodyLength, HeaderLength, ChecksumLength,
      TooLongToPad, InitialPosition

(* What the padding is computed for. *)
LEMMA PaddingCompletes ==
  ASSUME NEW n \in Nat, n % 8 # 0
  PROVE  8 - (n % 8) \in 1..7 /\ (n + (8 - (n % 8))) % 8 = 0
  OBVIOUS

(* Of two multiples of 8 that are less than 8 apart neither is the larger. *)
LEMMA NoMultipleBetween ==
  ASSUME NEW m \in Nat, NEW n \in Nat, m % 8 = 0, n % 8 = 0, m < n
  PROVE  m + 8 <= n
  OBVIOUS

(* The fields of a message buffer, and of a frame. *)
Buffers == [length : Int, position : Int, overrun : BOOLEAN, start : Int]
Frames == [mode : Modes \cup {"none"}, body : Int, cipher : Int, start : Int,
           header : Int, sent : Int]

(* What a step does to a buffer, field by field. *)
LEMMA BufferFields ==
  ASSUME NEW m \in Buffers
  PROVE  /\ m.length \in Int /\ m.position \in Int /\ m.start \in Int
         /\ m.overrun \in BOOLEAN
  BY DEF Buffers

LEMMA Lengthened ==
  ASSUME NEW m \in Buffers, NEW size \in Nat
  PROVE  LET n == [m EXCEPT !.length = @ + size]
         IN /\ n \in Buffers
            /\ n.length = m.length + size /\ n.position = m.position
            /\ n.start = m.start
  BY DEF Buffers

LEMMA HeaderRead ==
  ASSUME NEW m \in Buffers, NEW l \in Int
  PROVE  LET n == [m EXCEPT !.length = l, !.position = 2]
         IN /\ n \in Buffers
            /\ n.length = l /\ n.position = 2 /\ n.start = m.start
<1>1. PICK p \in Int : p = 2
  OBVIOUS
<1>2. LET n == [m EXCEPT !.length = l, !.position = p]
      IN /\ n \in Buffers
         /\ n.length = l /\ n.position = p /\ n.start = m.start
  BY DEF Buffers
<1> QED
  BY <1>1, <1>2, Zenon

LEMMA HeaderAdded ==
  ASSUME NEW m \in Buffers
  PROVE  /\ AddedHeader(m, 2) \in Buffers /\ AddedHeader(m, 4) \in Buffers
         /\ AddedHeader(m, 2).length = m.length + 2
         /\ AddedHeader(m, 2).position = m.position
         /\ AddedHeader(m, 2).start = m.start - 2
         /\ AddedHeader(m, 4).length = m.length + 4
         /\ AddedHeader(m, 4).start = m.start - 4
<1>1. ASSUME NEW size \in {2, 4}
      PROVE  /\ AddedHeader(m, size) \in Buffers
             /\ AddedHeader(m, size).length = m.length + size
             /\ AddedHeader(m, size).position = m.position
             /\ AddedHeader(m, size).start = m.start - size
  <2> DEFINE b == m.start - size
             l == m.length + size
  <2>1. b \in Int /\ l \in Int
    BY BufferFields
  <2>2. AddedHeader(m, size) = [m EXCEPT !.start = b, !.length = l]
    BY DEF AddedHeader
  <2> HIDE DEF b, l
  <2>3. /\ AddedHeader(m, size) \in Buffers
        /\ AddedHeader(m, size).length = l
        /\ AddedHeader(m, size).position = m.position
        /\ AddedHeader(m, size).start = b
    BY <2>1, <2>2 DEF Buffers
  <2> QED
    BY <2>3 DEF b, l
<1> QED
  BY <1>1

(* An outgoing message while it is written.                                *)
Written(m) ==
  /\ m \in Buffers
  /\ m.start = 8
  /\ m.length >= 0
  /\ m.position = 8 + m.length
  /\ m.position < MaxBodyLength

LEMMA FreshWritten == Written(Fresh) /\ Fresh.length = 0
  BY Sizes DEF Written, Fresh, Buffers, InitialPosition

(* Adding to an outgoing message leaves room for its headers. *)
LEMMA AddedWritten ==
  ASSUME NEW m, Written(m), NEW size \in Nat
  PROVE  /\ Written(Added(m, size))
         /\ m.length + size < MaxBodyLength - 8 =>
              Added(m, size).length = m.length + size
<1>1. /\ m \in Buffers /\ m.length \in Nat /\ m.position = 8 + m.length
      /\ m.start = 8 /\ m.position < MaxBodyLength
  BY DEF Written, Buffers
<1>2. CASE CanAdd(m, size)
  <2>1. /\ Added(m, size) \in Buffers
        /\ Added(m, size).length = m.length + size
        /\ Added(m, size).position = m.position + size
        /\ Added(m, size).start = 8
    <3>1. Added(m, size) = [m EXCEPT !.position = m.position + size,
                                     !.length = m.length + size]
      BY <1>2 DEF Added
    <3> DEFINE p == m.position + size
               l == m.length + size
    <3>2. p \in Int /\ l \in Int
      BY <1>1
    <3> HIDE DEF p, l
    <3>3. /\ Added(m, size) \in Buffers
          /\ Added(m, size).length = l
          /\ Added(m, size).position = p
          /\ Added(m, size).start = m.start
      <4>1. Added(m, size) = [m EXCEPT !.position = p, !.length = l]
        BY <3>1 DEF p, l
      <4> QED
        BY <1>1, <3>2, <4>1 DEF Buffers
    <3> QED
      BY <1>1, <3>3 DEF p, l
  <2>2. 8 + m.length + size < MaxBodyLength
    BY <1>1, <1>2, Sizes DEF CanAdd
  <2> QED
    BY <1>1, <2>1, <2>2, Sizes DEF Written
<1>3. CASE ~CanAdd(m, size)
  <2>1. Added(m, size) = m
    BY <1>3 DEF Added
  <2>2. ~(m.length + size < MaxBodyLength - 8)
    BY <1>1, <1>3, Sizes DEF CanAdd
  <2> QED
    BY <2>1, <2>2
<1> QED
  BY <1>2, <1>3

LEMMA AddedBytesWritten ==
  ASSUME NEW m, Written(m), NEW size \in Nat
  PROVE  /\ Written(AddedBytes(m, size))
         /\ Written(AddedString(m, size))
         /\ size <= MaxString /\ m.length + size < MaxBodyLength - 8 =>
              AddedBytes(m, size).length = m.length + size
  BY Sizes, AddedWritten DEF AddedBytes, AddedString

(* Padding succeeds but for one length. *)
LEMMA PaddedLength ==
  ASSUME NEW m, m \in Buffers, m.length \in Nat, m.position = m.length + 6,
         m.position < MaxBodyLength
  PROVE  /\ Padded(m) \in Buffers
         /\ Padded(m).start = m.start
         /\ Padded(m).length >= m.length
         /\ Padded(m).length < MaxBodyLength - 6
         /\ m.length # MaxBodyLength - 7 => Padded(m).length % 8 = 0
<1> DEFINE n == m.length
           pad == 8 - (n % 8)
<1>1. CASE n % 8 = 0
  BY <1>1, Sizes DEF Padded, Buffers
<1>2. CASE n % 8 # 0
  <2>1. pad \in 1..7 /\ (n + pad) % 8 = 0
    BY <1>2, PaddingCompletes
  <2>2. Padded(m) = AddedPadding(m, pad)
    BY <1>2 DEF Padded
  <2>3. CASE CanAdd(m, pad)
    <3>1. Padded(m) = [m EXCEPT !.length = @ + pad]
      BY <2>2, <2>3 DEF AddedPadding
    <3>2. n + pad < MaxBodyLength - 6
      BY <2>1, <2>3, Sizes DEF CanAdd
    <3>3. pad \in Nat
      BY <2>1
    <3> HIDE DEF pad
    <3> QED
      BY <2>1, <3>1, <3>2, <3>3, Lengthened, Sizes
  <2>4. CASE ~CanAdd(m, pad)
    <3>1. Padded(m) = m
      BY <2>2, <2>4 DEF AddedPadding
    <3>2. pad + n + 6 >= MaxBodyLength
      BY <2>1, <2>4, Sizes DEF CanAdd
    <3>3. n = MaxBodyLength - 7
      <4> HIDE DEF pad
      <4>1. n + pad \in Nat /\ n + 6 < MaxBodyLength
        BY <2>1
      <4>2. ~(n + pad < MaxBodyLength)
        BY <2>1, <3>2, <4>1, NoMultipleBetween, Sizes
      <4> QED
        BY <2>1, <4>1, <4>2, Sizes
    <3> QED
      BY <3>1, <3>3, Sizes DEF Buffers
  <2> QED
    BY <2>3, <2>4
<1> QED
  BY <1>1, <1>2

(* What onSendMessage makes of an outgoing message. *)
Sendable(f) ==
  /\ f \in Frames
  /\ f.start >= 0
  /\ f.start + f.sent <= MaxSize
  /\ f.mode = "encrypted" /\ f.body # TooLongToPad => Decodable(f)

LEMMA FramedSendable ==
  ASSUME NEW m, Written(m), NEW mode \in Modes
  PROVE  Sendable(Framed(m, mode)) /\ Framed(m, mode).body = m.length
<1> DEFINE inner == AddedHeader(m, 2)
           cipher == Padded(inner)
<1>0. /\ m \in Buffers /\ m.length \in Nat /\ m.position = 8 + m.length
      /\ m.start = 8 /\ m.position < MaxBodyLength
  BY DEF Written, Buffers
<1>1. /\ inner \in Buffers
      /\ inner.length = m.length + 2 /\ inner.start = 6
      /\ inner.position = inner.length + 6
      /\ inner.position < MaxBodyLength /\ inner.length \in Nat
      /\ m.length \in Nat /\ m.length + 8 < MaxBodyLength /\ m.start = 8
  BY <1>0, HeaderAdded, Sizes
<1>2. /\ cipher \in Buffers /\ cipher.start = 6
      /\ cipher.length >= m.length + 2 /\ cipher.length < MaxBodyLength - 6
      /\ inner.length # MaxBodyLength - 7 => cipher.length % 8 = 0
  <2> HIDE DEF inner
  <2> QED
    BY <1>1, PaddedLength
<1> HIDE DEF inner, cipher
<1>c. cipher.length \in Int
  BY <1>2, BufferFields
<1>a. /\ AddedHeader(cipher, 2).length = cipher.length + 2
      /\ AddedHeader(cipher, 2).start = 4
      /\ AddedHeader(cipher, 4) \in Buffers
      /\ AddedHeader(cipher, 4).length = cipher.length + 4
      /\ AddedHeader(cipher, 4).start = 2
  BY <1>2, <1>c, HeaderAdded
<1>3. /\ AddedHeader(AddedHeader(cipher, 4), 2).length = cipher.length + 6
      /\ AddedHeader(AddedHeader(cipher, 4), 2).start = 0
  BY <1>a, <1>c, HeaderAdded
<1>4. Framed(m, mode) =
        LET checked == IF mode = "encrypted" THEN AddedHeader(cipher, 4)
                       ELSE cipher
            last == CASE mode = "raw" -> m
                      [] mode = "plain" -> inner
                      [] OTHER -> AddedHeader(checked, 2)
        IN [mode |-> mode, body |-> m.length,
            cipher |-> IF mode \in {"raw", "plain"} THEN 0 ELSE cipher.length,
            start |-> last.start,
            header |-> IF mode \in {"raw", "plain"} THEN m.length
                       ELSE checked.length,
            sent |-> last.length]
  BY Zenon DEF Framed, inner, cipher
<1>5. CASE mode = "raw"
  <2>1. Framed(m, mode) = [mode |-> "raw", body |-> m.length, cipher |-> 0,
                           start |-> m.start, header |-> m.length,
                           sent |-> m.length]
    BY <1>4, <1>5
  <2> QED
    BY <1>1, <2>1, Sizes DEF Sendable, Frames, Modes
<1>6. CASE mode = "plain"
  <2>1. Framed(m, mode) = [mode |-> "plain", body |-> m.length, cipher |-> 0,
                           start |-> inner.start, header |-> m.length,
                           sent |-> inner.length]
    BY <1>4, <1>6
  <2> QED
    BY <1>1, <2>1, Sizes DEF Sendable, Frames, Modes
<1>7. CASE mode = "unchecked"
  <2>1. Framed(m, mode) = [mode |-> "unchecked", body |-> m.length,
                           cipher |-> cipher.length, start |-> 4,
                           header |-> cipher.length, sent |-> cipher.length + 2]
    BY <1>a, <1>4, <1>7
  <2> QED
    BY <1>1, <1>2, <1>c, <2>1, Sizes DEF Sendable, Frames, Modes
<1>8. CASE mode = "encrypted"
  <2>1. Framed(m, mode) = [mode |-> "encrypted", body |-> m.length,
                           cipher |-> cipher.length, start |-> 0,
                           header |-> cipher.length + 4,
                           sent |-> cipher.length + 6]
    BY <1>a, <1>3, <1>4, <1>8
  <2>3. m.length # TooLongToPad => cipher.length % 8 = 0
    BY <1>1, <1>2, Sizes
  <2>4. m.length # TooLongToPad => Decodable(Framed(m, mode))
    <3> DEFINE f == Framed(m, mode)
               total == f.header + HeaderLength
    <3>1. total = cipher.length + 6 /\ total - 6 = cipher.length
      BY <1>c, <2>1 DEF HeaderLength
    <3>a. /\ f.header = cipher.length + 4
          /\ f.sent = cipher.length + 6
          /\ f.body = m.length
      BY <2>1
    <3>2. /\ f.header # 0 /\ f.header < MaxSize - 16
          /\ f.sent = total
          /\ f.body + 8 <= total
      <4> HIDE DEF f
      <4> QED
        BY <1>1, <1>2, <1>c, <3>a, <3>1, Sizes
    <3>3. m.length # TooLongToPad => (total - 6) % 8 = 0
      BY <2>3, <3>1
    <3> HIDE DEF f
    <3> QED
      BY <3>2, <3>3 DEF Decodable, f
  <2> QED
    BY <1>1, <1>2, <2>1, <1>c, <2>4, Sizes DEF Sendable, Frames, Modes
<1> QED
  BY <1>5, <1>6, <1>7, <1>8 DEF Modes

-------------------------------------------------------------------------------
(* Reading leaves everything but the position and the overrun flag alone,  *)
(* and the position in the packet.                                         *)
Opened(m, n) ==
  /\ n \in Buffers
  /\ n.length = m.length
  /\ n.start = m.start
  /\ n.position >= m.position
  /\ m.position < MaxSize => n.position < MaxSize
  /\ m.position <= m.length + 8 => n.position <= m.length + 8

LEMMA ReadOpens ==
  ASSUME NEW m \in Buffers, NEW size \in Nat
  PROVE  /\ Opened(m, Read(m, size))
         /\ CanRead(m, size) => Read(m, size).position = m.position + size
         /\ ~CanRead(m, size) => Read(m, size).position = m.position
<1>1. CASE CanRead(m, size)
  <2> DEFINE p == m.position + size
  <2>1. p \in Int
    BY BufferFields
  <2>2. Read(m, size) = [m EXCEPT !.position = p]
    BY <1>1 DEF Read
  <2>3. p >= m.position /\ p < MaxSize /\ p <= m.length + 8
    BY <1>1, BufferFields, Sizes DEF CanRead
  <2> HIDE DEF p
  <2>4. /\ Read(m, size) \in Buffers
        /\ Read(m, size).length = m.length
        /\ Read(m, size).start = m.start
        /\ Read(m, size).position = p
    BY <2>1, <2>2 DEF Buffers
  <2>5. Opened(m, Read(m, size))
    BY <2>3, <2>4 DEF Opened
  <2> QED
    BY <1>1, <2>4, <2>5 DEF p
<1>2. CASE ~CanRead(m, size)
  <2>1. Read(m, size) = [m EXCEPT !.overrun = TRUE]
    BY <1>2 DEF Read
  <2>2. /\ Read(m, size) \in Buffers
        /\ Read(m, size).length = m.length
        /\ Read(m, size).start = m.start
        /\ Read(m, size).position = m.position
    BY <2>1 DEF Buffers
  <2> QED
    BY <1>2, <2>2, BufferFields DEF Opened
<1> QED
  BY <1>1, <1>2

LEMMA OpenedTwice ==
  ASSUME NEW m \in Buffers, NEW n, NEW o, Opened(m, n), Opened(n, o)
  PROVE  Opened(m, o)
<1>1. /\ m.position \in Int /\ n.position \in Int /\ o.position \in Int
      /\ m.length \in Int
  BY BufferFields DEF Opened
<1> QED
  BY <1>1, Sizes DEF Opened

(* A packet of which only the header was read.                             *)
Arrived(m, bytes) ==
  /\ m \in Buffers
  /\ m.start = 8
  /\ m.position = 2
  /\ m.length = bytes
  /\ bytes \in 3..(MaxSize - 15)

LEMMA CheckedPosition ==
  ASSUME NEW m, NEW bytes, Arrived(m, bytes), NEW matches \in BOOLEAN
  PROVE  /\ Checked(m, matches) \in Buffers
         /\ Checked(m, matches).length = bytes
         /\ Checked(m, matches).start = 8
         /\ Checked(m, matches).position = IF matches THEN 6 ELSE 2
<1>1. m \in Buffers /\ CanRead(m, 4)
  BY Sizes DEF Arrived, CanRead
<1>2. /\ Read(m, 4) \in Buffers /\ Read(m, 4).length = bytes
      /\ Read(m, 4).start = 8 /\ Read(m, 4).position = 6
  <2>1. PICK size \in Nat : size = 4
    OBVIOUS
  <2>2. Opened(m, Read(m, size)) /\ Read(m, size).position = m.position + size
    BY <1>1, <2>1, ReadOpens
  <2> QED
    BY <2>1, <2>2, Sizes DEF Arrived, Opened
<1>3. CASE matches
  BY <1>2, <1>3 DEF Checked, ChecksumLength
<1>4. CASE ~matches
  <2>1. Checked(m, matches) = [Read(m, 4) EXCEPT !.position = 2]
    BY <1>2, <1>4 DEF Checked, ChecksumLength
  <2> QED
    BY <1>2, <1>4, <2>1 DEF Buffers
<1> QED
  BY <1>3, <1>4

-------------------------------------------------------------------------------
(* The inductive invariant of Messages: an outgoing message keeps its      *)
(* position behind its length and in the body; an incoming one is either   *)
(* a packet of which only the header was read, or one that is being read,  *)
(* and then its length and how it was opened tell where reading ends.      *)
HistoryTypes ==
  /\ opening \in {"plain", "encrypted", "unchecked"}
  /\ content \in 0..MaxSize
  /\ plainEnd \in 0..MaxSize

BufferTypes ==
  /\ role \in {"autosend", "direct", "incoming"}
  /\ msg \in Buffers
  /\ asked \in Nat
  /\ phase \in {"header", "body", "parse", "closed"}
  /\ received \in 0..MaxSize
  /\ receivedFirst \in BOOLEAN
  /\ HistoryTypes

Outgoing ==
  /\ Sendable(frame)
  /\ role # "incoming" => Written(msg)
  /\ role = "autosend" =>
       /\ msg.length = asked
       /\ asked <= MaxBodyLength - 10
       /\ frame.mode # "none" => frame.body <= MaxBodyLength - 10

(* A packet that is read, and how it was opened.                           *)
Reading ==
  /\ msg.position < MaxSize
  /\ msg.position <= msg.length + 8
  /\ \/ /\ opening = "plain"
        /\ msg.length = received /\ content = received /\ plainEnd = received
     \/ /\ opening = "encrypted" /\ msg.length + 8 <= received
        /\ content = msg.length + 8 /\ plainEnd = received
     \/ /\ opening = "unchecked" /\ msg.length + 8 <= received
        /\ content = msg.length + 4 /\ plainEnd = received - 4

Incoming ==
  role = "incoming" =>
    /\ msg.start = 8
    /\ msg.length \in 0..MaxSize /\ msg.position \in 0..MaxSize
    /\ phase = "body" => Arrived(msg, received)
    /\ phase = "parse" => Reading

MessagesInv == BufferTypes /\ Outgoing /\ Incoming

(* The invariant says more than the three properties. *)
LEMMA MessagesInvImplies ==
  MessagesInv => FrameIsDecodable /\ AutosendKeepsAll /\ ReadsAreBounded
<1> SUFFICES ASSUME MessagesInv
             PROVE  FrameIsDecodable /\ AutosendKeepsAll /\ ReadsAreBounded
  OBVIOUS
<1>1. BufferTypes /\ Outgoing /\ Incoming
  BY DEF MessagesInv
<1>2. Sendable(frame) /\ frame \in Frames
  BY <1>1 DEF Outgoing, Sendable
<1>3. frame.body \in Int /\ frame.mode \in Modes \cup {"none"}
  BY <1>2 DEF Frames
<1>4. /\ msg.length \in 0..MaxSize /\ msg.position \in 0..MaxSize
      /\ msg.start = 8
      /\ role # "incoming" => msg.position = InitialPosition + msg.length
  <2>1. CASE role = "incoming"
    BY <1>1, <2>1 DEF Incoming
  <2>2. CASE role # "incoming"
    <3>1. Written(msg)
      BY <1>1, <2>2 DEF Outgoing
    <3>2. msg.length \in Int
      BY <1>1, BufferFields DEF BufferTypes
    <3> QED
      BY <3>1, <3>2, Sizes DEF Written, InitialPosition
  <2> QED
    BY <2>1, <2>2
<1>5. TypeOK
  <2>1. msg \in [length : 0..MaxSize, position : 0..MaxSize,
                 overrun : BOOLEAN, start : 0..InitialPosition]
    BY <1>1, <1>4 DEF BufferTypes, Buffers, InitialPosition
  <2> QED
    BY <1>1, <1>3, <1>4, <2>1 DEF TypeOK, BufferTypes, HistoryTypes
<1>6. FrameIsDecodable
  BY <1>2, <1>5 DEF FrameIsDecodable, Sendable
<1>7. AutosendKeepsAll
  BY <1>1, <1>3, Sizes DEF AutosendKeepsAll, Outgoing
<1>8. ReadsAreBounded
  <2> SUFFICES ASSUME role = "incoming", phase = "parse"
               PROVE  /\ content <= plainEnd /\ plainEnd <= received
                      /\ msg.position <= content + PastContent
                      /\ opening # "plain" => msg.position <= received
                      /\ msg.position < MaxSize
    BY DEF ReadsAreBounded
  <2>1. Reading /\ msg.position \in Int /\ msg.length \in Int
        /\ received \in Int
    BY <1>1, BufferFields DEF Incoming, BufferTypes
  <2>2. PastContent = CASE opening = "plain" -> 8
                        [] opening = "unchecked" -> 4
                        [] opening = "encrypted" -> 0
    BY DEF PastContent, ChecksumLength
  <2> QED
    BY <2>1, <2>2 DEF Reading
<1> QED
  BY <1>6, <1>7, <1>8

LEMMA MessagesInit == Init => MessagesInv
<1> SUFFICES ASSUME Init PROVE MessagesInv
  OBVIOUS
<1>1. BufferTypes
  <2>1. msg \in Buffers
    BY FreshWritten DEF Init, Written
  <2>2. 0 \in 0..MaxSize /\ 0 \in Nat
    BY Sizes
  <2> QED
    BY <2>1, <2>2 DEF Init, BufferTypes, HistoryTypes
<1>2. Sendable(frame)
  BY Sizes DEF Init, NoFrame, Sendable, Frames
<1>3. Outgoing
  BY <1>2, Sizes, FreshWritten DEF Init, Outgoing, NoFrame
<1>4. Incoming
  BY Sizes DEF Init, Incoming, Fresh, InitialPosition
<1> QED
  BY <1>1, <1>3, <1>4 DEF MessagesInv

(* What is written of an outgoing message. *)
LEMMA OutgoingSteps ==
  ASSUME MessagesInv,
         \/ \E mode \in Modes :
              \/ \E size \in 1..MaxString : GetOutputBuffer(size, mode)
              \/ SendAutosend(mode)
              \/ SendMessage(mode)
         \/ AddToMessage
  PROVE  MessagesInv'
<1>1. BufferTypes /\ Outgoing /\ Incoming
  BY DEF MessagesInv
<1>2. ASSUME NEW mode \in Modes, NEW size \in 1..MaxString,
             GetOutputBuffer(size, mode)
      PROVE  MessagesInv'
  <2>1. /\ role = "autosend" /\ Written(msg)
        /\ msg.length = asked /\ asked <= MaxBodyLength - 10 /\ asked \in Nat
    BY <1>1, <1>2 DEF GetOutputBuffer, Outgoing, BufferTypes
  <2>2. UNCHANGED <<role, phase, received, receivedFirst, historyVars>>
    BY <1>2 DEF GetOutputBuffer, inVars
  <2>3. size \in Nat /\ size <= MaxString
    BY Sizes
  <2>4. CASE HasRoom(size)
    <3>1. /\ msg' = AddedBytes(msg, size) /\ asked' = asked + size
          /\ frame' = frame
      BY <1>2, <2>4 DEF GetOutputBuffer
    <3>2. asked + size <= MaxBodyLength - 10
        <4>1. msg.length + size <= MaxBodyLength - 10
        BY <2>4, Sizes DEF HasRoom
      <4> QED
        BY <2>1, <4>1
    <3>3. Written(msg') /\ msg'.length = asked'
      <4>1. msg.length + size < MaxBodyLength - 8
        BY <2>1, <2>3, <3>2, Sizes
      <4>2. AddedBytes(msg, size).length = msg.length + size
        BY <2>1, <2>3, <4>1, AddedBytesWritten
      <4> QED
        BY <2>1, <2>3, <3>1, <4>2, AddedBytesWritten
    <3>4. Outgoing'
      BY <1>1, <2>1, <2>2, <3>1, <3>2, <3>3 DEF Outgoing
    <3>5. BufferTypes' /\ Incoming'
      BY <1>1, <2>1, <2>2, <2>3, <3>1, <3>3
      DEF BufferTypes, HistoryTypes, historyVars, Incoming, Written
    <3> QED
      BY <3>4, <3>5 DEF MessagesInv
  <2>5. CASE ~HasRoom(size)
    <3>1. /\ msg' = AddedBytes(Fresh, size) /\ asked' = size
          /\ frame' = Framed(msg, mode)
      BY <1>2, <2>5 DEF GetOutputBuffer
    <3>2. /\ Written(msg') /\ msg'.length = asked'
          /\ asked' <= MaxBodyLength - 10
      <4>1. Written(Fresh) /\ Fresh.length = 0
        BY FreshWritten
      <4>2. size <= MaxBodyLength - 10 /\ size < MaxBodyLength - 8
        BY <2>3, Sizes
      <4>3. PICK fresh : fresh = Fresh
        OBVIOUS
      <4>4. Written(fresh) /\ fresh.length = 0 /\ fresh.length + size = size
        BY <2>3, <4>1, <4>3
      <4>5. Written(AddedBytes(fresh, size))
        BY <2>3, <4>4, AddedBytesWritten
      <4>6. AddedBytes(fresh, size).length = size
        BY <2>3, <4>2, <4>4, AddedBytesWritten
      <4>7. msg' = AddedBytes(fresh, size)
        BY <3>1, <4>3
      <4> QED
        BY <3>1, <4>2, <4>5, <4>6, <4>7
    <3>3. Sendable(frame') /\ frame'.body <= MaxBodyLength - 10
      BY <2>1, <3>1, FramedSendable
    <3>4. Outgoing'
      BY <2>1, <2>2, <3>2, <3>3 DEF Outgoing
    <3>5. BufferTypes' /\ Incoming'
      BY <1>1, <2>1, <2>2, <2>3, <3>1, <3>2
      DEF BufferTypes, HistoryTypes, historyVars, Incoming, Written
    <3> QED
      BY <3>4, <3>5 DEF MessagesInv
  <2> QED
    BY <2>4, <2>5
<1>3. ASSUME NEW mode \in Modes, SendAutosend(mode) \/ SendMessage(mode)
      PROVE  MessagesInv'
  <2>1. /\ role \in {"autosend", "direct"} /\ Written(msg)
        /\ msg' = Fresh /\ frame' = Framed(msg, mode)
        /\ asked' = IF role = "autosend" THEN 0 ELSE asked
        /\ role = "autosend" => msg.length <= MaxBodyLength - 10
        /\ UNCHANGED <<role, phase, received, receivedFirst, historyVars>>
    BY <1>1, <1>3 DEF SendAutosend, SendMessage, Outgoing, inVars
  <2>2. Sendable(frame') /\ frame'.body = msg.length
    BY <2>1, FramedSendable
  <2>3. Outgoing'
    <3>1. Written(msg') /\ msg'.length = 0
      BY <2>1, FreshWritten
    <3>2. 0 <= MaxBodyLength - 10
      BY Sizes
    <3>3. role = "autosend" => frame'.body <= MaxBodyLength - 10
      BY <2>1, <2>2
    <3> QED
      BY <2>1, <2>2, <3>1, <3>2, <3>3 DEF Outgoing
  <2>4. BufferTypes' /\ Incoming'
    BY <1>1, <2>1, FreshWritten
      DEF BufferTypes, HistoryTypes, historyVars, Incoming, Written
  <2> QED
    BY <2>3, <2>4 DEF MessagesInv
<1>4. CASE AddToMessage
  <2>1. /\ role = "direct" /\ Written(msg)
        /\ UNCHANGED <<role, asked, frame, phase, received, receivedFirst,
                       historyVars>>
    BY <1>1, <1>4 DEF AddToMessage, Outgoing, outVars, inVars
  <2>2. PICK size \in Nat : \/ msg' = Added(msg, size)
                            \/ msg' = AddedString(msg, size)
                            \/ msg' = AddedBytes(msg, size)
    BY <1>4, Sizes DEF AddToMessage
  <2>3. Written(msg')
    BY <2>1, <2>2, AddedWritten, AddedBytesWritten
  <2>4. Outgoing'
    BY <1>1, <2>1, <2>3 DEF Outgoing
  <2>5. BufferTypes' /\ Incoming'
    BY <1>1, <2>1, <2>3
      DEF BufferTypes, HistoryTypes, historyVars, Incoming, Written
  <2> QED
    BY <2>4, <2>5 DEF MessagesInv
<1> QED
  BY <1>2, <1>3, <1>4

(* A step of an incoming buffer leaves the outgoing part alone. *)
LEMMA IncomingSteps ==
  ASSUME MessagesInv, role = "incoming",
         UNCHANGED <<role, asked, frame>>,
         msg' \in Buffers,
         phase' \in {"header", "body", "parse", "closed"},
         received' \in 0..MaxSize, receivedFirst' \in BOOLEAN,
         HistoryTypes',
         Incoming'
  PROVE  MessagesInv'
<1>1. BufferTypes'
  BY DEF MessagesInv, BufferTypes
<1>2. Outgoing'
  BY DEF MessagesInv, Outgoing
<1> QED
  BY <1>1, <1>2 DEF MessagesInv

(* One lemma for each step of an incoming buffer. *)
LEMMA ParseHeaderKeeps ==
  ASSUME MessagesInv, NEW size \in 0..MaxSize, ParseHeader(size)
  PROVE  MessagesInv'
<1>1. BufferTypes /\ Outgoing /\ Incoming
  BY DEF MessagesInv
<1>2. /\ role = "incoming" /\ phase = "header"
      /\ UNCHANGED <<role, asked, frame, receivedFirst, historyVars>>
      /\ msg \in Buffers /\ received \in 0..MaxSize
      /\ receivedFirst \in BOOLEAN /\ HistoryTypes'
      /\ msg.start = 8
      /\ msg.length \in 0..MaxSize /\ msg.position \in 0..MaxSize
  BY <1>1 DEF ParseHeader, outVars, historyVars, BufferTypes, HistoryTypes,
              Incoming
<1>3. CASE size = 0 \/ size >= MaxSize - 16
  <2>1. phase' = "closed" /\ UNCHANGED <<msg, received>>
    BY <1>3 DEF ParseHeader
  <2>2. Incoming'
    BY <1>2, <2>1 DEF Incoming
  <2> QED
    BY <1>2, <2>1, <2>2, IncomingSteps
<1>4. CASE ~(size = 0 \/ size >= MaxSize - 16)
  <2> DEFINE bytes == 2 + size
  <2>1. /\ phase' = "body" /\ received' = bytes
        /\ msg' = [msg EXCEPT !.length = bytes, !.position = 2]
    BY <1>4 DEF ParseHeader, HeaderLength
  <2>2. bytes \in 3..(MaxSize - 15)
    BY <1>4, Sizes
  <2> HIDE DEF bytes
  <2>3. bytes \in 0..MaxSize /\ 2 \in 0..MaxSize /\ bytes \in Int
    BY <2>2, Sizes
  <2>4. /\ msg' \in Buffers /\ msg'.length = bytes /\ msg'.position = 2
        /\ msg'.start = 8
    BY <1>2, <2>1, <2>3, HeaderRead
  <2>5. Arrived(msg', received')
    BY <2>1, <2>2, <2>4 DEF Arrived
  <2>6. Incoming'
    BY <1>2, <2>1, <2>3, <2>4, <2>5 DEF Incoming
  <2> QED
    BY <1>2, <2>1, <2>3, <2>4, <2>6, IncomingSteps
<1> QED
  BY <1>3, <1>4

(* The buffer after a step that does not end in the phase "body". *)
LEMMA ParsedKeeps ==
  ASSUME MessagesInv, role = "incoming",
         UNCHANGED <<role, asked, frame, received>>,
         msg' \in Buffers, msg'.start = 8, msg'.length \in 0..MaxSize,
         msg'.position \in 0..MaxSize, msg'.position < MaxSize,
         phase' \in {"header", "parse", "closed"},
         receivedFirst' \in BOOLEAN, HistoryTypes',
         phase' = "parse" => Reading'
  PROVE  MessagesInv'
<1>1. received \in 0..MaxSize
  BY DEF MessagesInv, BufferTypes
<1>2. Incoming'
  BY DEF Incoming
<1> QED
  BY <1>1, <1>2, IncomingSteps

LEMMA ParseFirstKeeps ==
  ASSUME MessagesInv, NEW matches \in BOOLEAN, NEW rsa \in BOOLEAN,
         ParseFirst(matches, rsa)
  PROVE  MessagesInv'
<1> DEFINE m == Read(Checked(msg, matches), 1)
<1>1. /\ role = "incoming" /\ Arrived(msg, received)
      /\ UNCHANGED <<role, asked, frame, received>>
      /\ receivedFirst' = TRUE
      /\ opening' = "plain" /\ content' = received /\ plainEnd' = received
      /\ phase' \in {"parse", "closed"}
      /\ msg' \in {m, Read(m, 1)}
  BY DEF ParseFirst, OpenedAs, MessagesInv, Incoming, outVars
<1>2. PICK size \in Nat : size = 1
  OBVIOUS
<1>3. /\ Checked(msg, matches) \in Buffers
      /\ Checked(msg, matches).length = received
      /\ Checked(msg, matches).start = 8
      /\ Checked(msg, matches).position \in {2, 6}
  BY <1>1, CheckedPosition
<1>4. Opened(Checked(msg, matches), m) /\ m \in Buffers
  BY <1>2, <1>3, ReadOpens DEF Opened
<1>5. Opened(m, Read(m, 1))
  <2> HIDE DEF m
  <2> QED
    BY <1>2, <1>4, ReadOpens
<1>6. received \in 0..MaxSize /\ 6 < MaxSize /\ 2 < MaxSize
  BY <1>1, Sizes DEF Arrived
<1>7. ASSUME NEW n \in {m, Read(m, 1)}
      PROVE  /\ n \in Buffers /\ n.start = 8 /\ n.length = received
             /\ n.position \in 0..MaxSize /\ n.position < MaxSize
             /\ n.position <= received + 8
  <2> HIDE DEF m
  <2>1. n.position \in Int /\ m.position \in Int
    BY <1>4, <1>5, BufferFields DEF Opened
  <2>2. /\ m.start = 8 /\ m.length = received
        /\ m.position >= 2 /\ m.position < MaxSize
        /\ m.position <= received + 8
    BY <1>3, <1>4, <1>6, <2>1 DEF Opened
  <2>3. /\ n \in Buffers /\ n.start = 8 /\ n.length = received
        /\ n.position >= 2 /\ n.position < MaxSize
        /\ n.position <= received + 8
    BY <1>4, <1>5, <2>1, <2>2 DEF Opened
  <2> QED
    BY <2>1, <2>3, Sizes
<1> HIDE DEF m
<1>8. /\ msg' \in Buffers /\ msg'.start = 8 /\ msg'.length \in 0..MaxSize
      /\ msg'.position \in 0..MaxSize /\ msg'.position < MaxSize
      /\ msg'.length = received /\ msg'.position <= received + 8
  BY <1>1, <1>6, <1>7
<1>9. HistoryTypes' /\ Reading'
  BY <1>1, <1>6, <1>8 DEF HistoryTypes, Reading
<1> QED
  BY <1>1, <1>8, <1>9, ParsedKeeps

LEMMA ParseNextKeeps ==
  ASSUME MessagesInv, NEW matches \in BOOLEAN, NEW encrypted \in BOOLEAN,
         NEW inner \in 0..MaxSize, ParseNext(matches, encrypted, inner)
  PROVE  MessagesInv'
<1> DEFINE m == Checked(msg, matches)
           deciphered == Read(m, 2)
           how == IF matches THEN "encrypted" ELSE "unchecked"
<1>1. /\ role = "incoming" /\ Arrived(msg, received)
      /\ receivedFirst \in BOOLEAN /\ HistoryTypes
      /\ UNCHANGED <<role, asked, frame, received, receivedFirst>>
      /\ \/ /\ msg' = m /\ phase' = "parse"
            /\ OpenedAs("plain", received, received)
         \/ /\ msg' \in {m, deciphered} /\ phase' = "header"
            /\ UNCHANGED historyVars
         \/ /\ FitsInside(m, inner) /\ phase' = "parse"
            /\ msg' = [deciphered EXCEPT !.length = inner]
            /\ OpenedAs(how, deciphered.position + inner,
                        m.position + (m.length - 6))
  BY DEF ParseNext, MessagesInv, Incoming, BufferTypes, outVars
<1>2. PICK size \in Nat : size = 2
  OBVIOUS
<1>3. /\ m \in Buffers /\ m.length = received /\ m.start = 8
      /\ m.position = IF matches THEN 6 ELSE 2
  BY <1>1, CheckedPosition
<1> HIDE DEF m
<1>4. received \in 3..(MaxSize - 15) /\ 8 < MaxSize
  BY <1>1, Sizes DEF Arrived
<1>5. /\ deciphered \in Buffers /\ deciphered.length = received
      /\ deciphered.start = 8
      /\ deciphered.position = IF matches THEN 8 ELSE 4
  <2>1. CanRead(m, size)
    BY <1>2, <1>3, <1>4, Sizes DEF CanRead
  <2>2. /\ Opened(m, Read(m, size))
        /\ Read(m, size).position = m.position + size
    BY <1>3, <2>1, ReadOpens
  <2>3. deciphered = Read(m, size)
    BY <1>2
  <2> HIDE DEF deciphered
  <2>4. deciphered.position = IF matches THEN 8 ELSE 4
    BY <1>2, <1>3, <2>2, <2>3
  <2> QED
    BY <1>3, <2>2, <2>3, <2>4 DEF Opened
<1> HIDE DEF deciphered, how
<1>6. CASE /\ msg' = m /\ phase' = "parse"
           /\ OpenedAs("plain", received, received)
  <2>1. HistoryTypes' /\ Reading'
    BY <1>1, <1>3, <1>4, <1>6, Sizes DEF HistoryTypes, Reading, OpenedAs
  <2> QED
    BY <1>1, <1>3, <1>4, <1>6, <2>1, ParsedKeeps, Sizes
<1>7. CASE /\ msg' \in {m, deciphered} /\ phase' = "header"
           /\ UNCHANGED historyVars
  <2>1. HistoryTypes'
    BY <1>1, <1>7 DEF HistoryTypes, historyVars
  <2> QED
    BY <1>1, <1>3, <1>4, <1>5, <1>7, <2>1, ParsedKeeps, Sizes
<1>8. CASE /\ FitsInside(m, inner) /\ phase' = "parse"
           /\ msg' = [deciphered EXCEPT !.length = inner]
           /\ OpenedAs(how, deciphered.position + inner,
                       m.position + (m.length - 6))
  <2>1. /\ msg' \in Buffers /\ msg'.length = inner /\ msg'.start = 8
        /\ msg'.position = deciphered.position
    BY <1>5, <1>8, Sizes DEF Buffers
  <2>2. inner + 8 <= received
    BY <1>3, <1>8 DEF FitsInside
  <2>3. /\ opening' = how
        /\ content' = IF matches THEN inner + 8 ELSE inner + 4
        /\ plainEnd' = IF matches THEN received ELSE received - 4
    BY <1>3, <1>4, <1>5, <1>8, Sizes DEF OpenedAs
  <2>4. msg'.position <= msg'.length + 8 /\ msg'.position < MaxSize
    BY <1>4, <1>5, <2>1, Sizes
  <2>5. HistoryTypes'
    BY <1>4, <2>2, <2>3, Sizes DEF HistoryTypes, how
  <2>6. Reading'
    BY <1>1, <1>4, <2>1, <2>2, <2>3, <2>4 DEF Reading, how
  <2> QED
    BY <1>1, <1>4, <1>5, <1>8, <2>1, <2>2, <2>4, <2>5, <2>6, ParsedKeeps, Sizes
<1> QED
  BY <1>1, <1>6, <1>7, <1>8

(* Whatever the protocol reads. *)
LEMMA ReadingKeeps ==
  ASSUME MessagesInv, role = "incoming", phase = "parse",
         UNCHANGED <<role, asked, frame, phase, received, receivedFirst,
                     historyVars>>,
         Opened(msg, msg')
  PROVE  MessagesInv'
<1>1. BufferTypes /\ Incoming
  BY DEF MessagesInv
<1>2. /\ msg \in Buffers /\ msg.start = 8 /\ msg.length \in 0..MaxSize
      /\ msg.position \in 0..MaxSize /\ msg.position < MaxSize
      /\ msg.position <= msg.length + 8
      /\ receivedFirst \in BOOLEAN /\ Reading
      /\ received \in 0..MaxSize
  BY <1>1 DEF BufferTypes, Incoming, Reading
<1>3. msg' \in Buffers /\ msg'.start = 8 /\ msg'.length = msg.length
  BY <1>2 DEF Opened
<1>4. /\ msg'.position \in Int /\ msg'.position >= msg.position
      /\ msg'.position < MaxSize
      /\ msg.position <= msg.length + 8 => msg'.position <= msg.length + 8
  BY <1>2, <1>3, BufferFields DEF Opened
<1>5. msg'.position \in 0..MaxSize
  BY <1>2, <1>4, Sizes
<1>6. HistoryTypes'
  BY <1>1 DEF BufferTypes, HistoryTypes, historyVars
<1>7. Reading'
  BY <1>2, <1>3, <1>4 DEF Reading, historyVars
<1> QED
  BY <1>2, <1>3, <1>4, <1>5, <1>6, <1>7, ParsedKeeps

LEMMA ReadNumberKeeps ==
  ASSUME MessagesInv, NEW size \in {1, 2, 4}, ReadNumber(size)
  PROVE  MessagesInv'
<1>1. /\ role = "incoming" /\ phase = "parse" /\ msg' = Read(msg, size)
      /\ UNCHANGED <<role, asked, frame, phase, received, receivedFirst,
                     historyVars>>
      /\ msg \in Buffers
  BY DEF ReadNumber, outVars, inVars, MessagesInv, BufferTypes
<1>2. Opened(msg, msg')
  BY <1>1, ReadOpens
<1> QED
  BY <1>1, <1>2, ReadingKeeps

LEMMA ReadStringKeeps ==
  ASSUME MessagesInv, NEW length \in 0..MaxSize, ReadString(length)
  PROVE  MessagesInv'
<1>1. /\ role = "incoming" /\ phase = "parse"
      /\ UNCHANGED <<role, asked, frame, phase, received, receivedFirst,
                     historyVars>>
      /\ msg \in Buffers
  BY DEF ReadString, outVars, inVars, MessagesInv, BufferTypes
<1>2. PICK size \in Nat, count \in Nat :
        size = 2 /\ msg' = Read(Read(msg, size), count)
  BY Sizes DEF ReadString
<1>3. Opened(msg, Read(msg, size)) /\ Read(msg, size) \in Buffers
  BY <1>1, ReadOpens DEF Opened
<1>4. Opened(Read(msg, size), msg')
  BY <1>2, <1>3, ReadOpens
<1>5. Opened(msg, msg')
  BY <1>1, <1>3, <1>4, OpenedTwice
<1> QED
  BY <1>1, <1>5, ReadingKeeps

LEMMA ParsedStepKeeps == MessagesInv /\ Parsed => MessagesInv'
<1> SUFFICES ASSUME MessagesInv, Parsed PROVE MessagesInv'
  OBVIOUS
<1>1. BufferTypes /\ Incoming
  BY DEF MessagesInv
<1>2. /\ role = "incoming" /\ phase = "parse" /\ phase' = "header"
      /\ UNCHANGED <<role, msg, asked, frame, received, receivedFirst,
                     historyVars>>
  BY DEF Parsed, outVars
<1>3. HistoryTypes'
  BY <1>1, <1>2 DEF BufferTypes, HistoryTypes, historyVars
<1> QED
  BY <1>1, <1>2, <1>3, ParsedKeeps DEF BufferTypes, Incoming, Reading

LEMMA MessagesInductive == MessagesInv /\ [Next]_vars => MessagesInv'
<1> SUFFICES ASSUME MessagesInv, [Next]_vars PROVE MessagesInv'
  OBVIOUS
<1>1. CASE UNCHANGED vars
  BY <1>1
  DEF vars, outVars, inVars, historyVars, MessagesInv, BufferTypes,
      HistoryTypes, Outgoing, Incoming, Reading
<1>2. CASE \/ \E mode \in Modes :
                \/ \E size \in 1..MaxString : GetOutputBuffer(size, mode)
                \/ SendAutosend(mode)
                \/ SendMessage(mode)
           \/ AddToMessage
  BY <1>2, OutgoingSteps
<1>3. CASE \/ \E size \in 0..MaxSize : ParseHeader(size)
           \/ \E matches, flag \in BOOLEAN :
                \/ ParseFirst(matches, flag)
                \/ \E inner \in 0..MaxSize : ParseNext(matches, flag, inner)
  BY <1>3, ParseHeaderKeeps, ParseFirstKeeps, ParseNextKeeps
<1>4. CASE \/ \E size \in {1, 2, 4} : ReadNumber(size)
           \/ \E length \in 0..MaxSize : ReadString(length)
           \/ Parsed
  BY <1>4, ReadNumberKeeps, ReadStringKeeps, ParsedStepKeeps
<1> QED
  BY <1>1, <1>2, <1>3, <1>4 DEF Next

LEMMA MessagesInvariant == Spec => []MessagesInv
  BY MessagesInit, MessagesInductive, PTL DEF Spec

(* For buffers of any size: what onSendMessage frames has its headers in   *)
(* the room in front of the body, fits in the buffer and, encrypted, is    *)
(* decoded by parseHeader, parsePacket and XTEA_decrypt, whatever its      *)
(* length but the one that leaves no room for its padding.                 *)
THEOREM FrameIsDecodableHolds == Spec => []FrameIsDecodable
  BY MessagesInvariant, MessagesInvImplies, PTL

(* No byte is dropped from a message that getOutputBuffer returned, and it *)
(* is never of the length that is not padded.                              *)
THEOREM AutosendKeepsAllHolds == Spec => []AutosendKeepsAll
  BY MessagesInvariant, MessagesInvImplies, PTL

(* Whatever lengths a packet contains, a protocol reads to the end of what *)
(* it says it holds, which was received and decrypted, and at most 4 bytes *)
(* further if it had no checksum, 8 if it was not encrypted, but not out   *)
(* of the buffer.                                                          *)
THEOREM ReadsAreBoundedHolds == Spec => []ReadsAreBounded
  BY MessagesInvariant, MessagesInvImplies, PTL

-------------------------------------------------------------------------------
(* Autosend *)

(* A list without one of its entries is a list, and one shorter.           *)
LEMMA WithoutProperties ==
  ASSUME bufferedProtocols \in Seq(Protocols), NEW p \in Protocols,
         bufferedProtocols # <<>>
  PROVE  /\ Without(p) \in Seq(Protocols)
         /\ Len(Without(p)) = Len(bufferedProtocols) - 1
<1> DEFINE replaced ==
             [bufferedProtocols EXCEPT ![FirstOf(p)] = Last(bufferedProtocols)]
<1>1. /\ Last(bufferedProtocols) \in Protocols
      /\ Len(bufferedProtocols) \in Nat \ {0}
  BY DEF Last
<1>2. replaced \in Seq(Protocols) /\ Len(replaced) = Len(bufferedProtocols)
  <2>1. bufferedProtocols \in [1..Len(bufferedProtocols) -> Protocols]
    BY LenProperties
  <2> DEFINE n == Len(bufferedProtocols)
  <2>2. replaced \in [1..n -> Protocols]
    BY <1>1, <2>1, Zenon
  <2>3. n \in Nat
    BY <1>1
  <2> HIDE DEF replaced, n
  <2> QED
    BY <2>2, <2>3 DEF n
<1>3. Without(p) = Front(replaced)
  BY DEF Without
<1> HIDE DEF replaced
<1>4. /\ Front(replaced) \in Seq(Protocols)
      /\ Len(Front(replaced)) = Len(replaced) - 1
  BY <1>1, <1>2 DEF Front
<1> QED
  BY <1>2, <1>3, <1>4

(* ChainUnbroken with the types of the counters. *)
ChainInv ==
  /\ ChainUnbroken
  /\ {events, sendAlls} \subseteq Nat
  /\ {outputBuffer, buffered, handed} \subseteq [Protocols -> Nat]

(* What a step does to the buffers and the chains keeps them in order. *)
LEMMA ChainInductive == ChainInv /\ [AutosendNext]_autosendVars => ChainInv'
<1> SUFFICES ASSUME ChainInv, [AutosendNext]_autosendVars PROVE ChainInv'
  OBVIOUS
<1> USE AutosendAssumption
<1>a. /\ events \in Nat /\ sendAlls \in Nat
      /\ outputBuffer \in [Protocols -> Nat]
      /\ buffered \in [Protocols -> Nat]
      /\ handed \in [Protocols -> Nat]
  BY DEF ChainInv
<1>b. /\ bufferedProtocols \in Seq(Protocols)
      /\ Len(bufferedProtocols) <= MaxListed
      /\ \A p \in Protocols :
           /\ outputBuffer[p] <= Capacity
           /\ handed[p] + outputBuffer[p] = buffered[p]
      /\ accepting /\ bufferedProtocols # <<>> => events + sendAlls > 0
  BY DEF ChainInv, ChainUnbroken, Chains
<1>1. ASSUME NEW p \in Protocols, AddProtocolToAutosend(p) PROVE ChainInv'
  <2>1. /\ Len(bufferedProtocols) < MaxListed
        /\ bufferedProtocols' = Append(bufferedProtocols, p)
        /\ UNCHANGED <<outputBuffer, buffered, handed, accepting, sendAlls>>
    BY <1>1 DEF AddProtocolToAutosend, bufferVars
  <2>2. /\ bufferedProtocols' \in Seq(Protocols)
        /\ Len(bufferedProtocols') <= MaxListed
    BY <1>b, <2>1
  <2>3. events' \in Nat /\ (accepting => events' + sendAlls > 0)
    <3>1. CASE bufferedProtocols = <<>>
      BY <1>1, <1>a, <3>1 DEF AddProtocolToAutosend, ScheduleSendAll
    <3>2. CASE bufferedProtocols # <<>>
      BY <1>1, <1>a, <1>b, <3>2 DEF AddProtocolToAutosend
    <3> QED
      BY <3>1, <3>2
  <2> QED
    BY <1>a, <1>b, <2>1, <2>2, <2>3 DEF ChainInv, ChainUnbroken, Chains
<1>2. ASSUME NEW p \in Protocols, RemoveProtocolFromAutosend(p) PROVE ChainInv'
  <2>1. /\ p \in Registered /\ bufferedProtocols' = Without(p)
        /\ UNCHANGED <<outputBuffer, buffered, handed, accepting, events,
                       sendAlls>>
    BY <1>2 DEF RemoveProtocolFromAutosend, bufferVars, chainVars
  <2>2. bufferedProtocols # <<>>
    BY <2>1 DEF Registered, ToSet
  <2>3. /\ bufferedProtocols' \in Seq(Protocols)
        /\ Len(bufferedProtocols') <= MaxListed
    BY <1>b, <2>1, <2>2, WithoutProperties
  <2> QED
    BY <1>a, <1>b, <2>1, <2>2, <2>3 DEF ChainInv, ChainUnbroken, Chains
<1>3. ASSUME NEW p \in Protocols, BufferChunk(p) PROVE ChainInv'
  <2>1. /\ buffered' = [buffered EXCEPT ![p] = @ + 1]
        /\ UNCHANGED <<bufferedProtocols, accepting, events, sendAlls>>
    BY <1>3 DEF BufferChunk, chainVars
  <2>2. /\ outputBuffer[p] \in Nat /\ handed[p] \in Nat /\ buffered[p] \in Nat
        /\ handed[p] + outputBuffer[p] = buffered[p]
    BY <1>a, <1>b
  <2>3. PICK o \in Nat, h \in Nat :
          /\ outputBuffer' = [outputBuffer EXCEPT ![p] = o]
          /\ handed' = [handed EXCEPT ![p] = h]
          /\ o <= Capacity
          /\ h + o = buffered[p] + 1
    <3>1. CASE outputBuffer[p] + 1 > Capacity
      <4>1. /\ handed' = [handed EXCEPT ![p] = handed[p] + outputBuffer[p]]
            /\ outputBuffer' = [outputBuffer EXCEPT ![p] = 1]
        BY <1>3, <3>1 DEF BufferChunk
      <4>2. 1 \in Nat /\ 1 <= Capacity /\ handed[p] + outputBuffer[p] \in Nat
        BY <2>2
      <4> QED
        BY <2>2, <4>1, <4>2
    <3>2. CASE ~(outputBuffer[p] + 1 > Capacity)
      <4>1. /\ handed' = handed
            /\ outputBuffer' = [outputBuffer EXCEPT ![p] = outputBuffer[p] + 1]
        BY <1>3, <3>2 DEF BufferChunk
      <4>2. /\ handed' = [handed EXCEPT ![p] = handed[p]]
            /\ outputBuffer[p] + 1 \in Nat /\ outputBuffer[p] + 1 <= Capacity
            /\ handed[p] + (outputBuffer[p] + 1) = buffered[p] + 1
        BY <1>a, <2>2, <3>2, <4>1
      <4> QED
        BY <2>2, <4>1, <4>2
    <3> QED
      BY <3>1, <3>2
  <2>4. /\ outputBuffer' \in [Protocols -> Nat]
        /\ buffered' \in [Protocols -> Nat]
        /\ handed' \in [Protocols -> Nat]
    BY <1>a, <2>1, <2>3
  <2>5. ASSUME NEW q \in Protocols
        PROVE  /\ outputBuffer'[q] <= Capacity
               /\ handed'[q] + outputBuffer'[q] = buffered'[q]
    <3>1. CASE q = p
      BY <1>a, <2>1, <2>3, <3>1
    <3>2. CASE q # p
      BY <1>a, <1>b, <2>1, <2>3, <3>2
    <3> QED
      BY <3>1, <3>2
  <2> QED
    BY <1>a, <1>b, <2>1, <2>4, <2>5 DEF ChainInv, ChainUnbroken, Chains
<1>4. CASE SendAll
  <2>1. /\ sendAlls > 0 /\ sendAlls' = sendAlls - 1
        /\ handed' = [p \in Protocols |->
             handed[p] + IF p \in Visited THEN outputBuffer[p] ELSE 0]
        /\ outputBuffer' = [p \in Protocols |->
             IF p \in Visited THEN 0 ELSE outputBuffer[p]]
        /\ events' = IF Again /\ accepting THEN events + 1 ELSE events
        /\ UNCHANGED <<bufferedProtocols, buffered, accepting>>
    BY <1>4 DEF SendAll, ScheduleSendAll
  <2>2. /\ outputBuffer' \in [Protocols -> Nat]
        /\ handed' \in [Protocols -> Nat]
        /\ \A q \in Protocols : /\ outputBuffer'[q] <= Capacity
                                /\ handed'[q] + outputBuffer'[q] = buffered[q]
    BY <1>a, <1>b, <2>1
  <2>3. /\ events' \in Nat /\ sendAlls' \in Nat
        /\ accepting /\ bufferedProtocols # <<>> => events' + sendAlls' > 0
    BY <1>a, <2>1 DEF Again
  <2> QED
    BY <1>a, <1>b, <2>1, <2>2, <2>3 DEF ChainInv, ChainUnbroken, Chains
<1>5. CASE SetGameStateShutdown
  BY <1>5, <1>a, <1>b DEF SetGameStateShutdown, ChainInv, ChainUnbroken, Chains,
                          bufferVars, chainVars
<1>6. CASE EventFires
  <2>1. /\ events > 0 /\ events' = events - 1
        /\ sendAlls' = IF accepting THEN sendAlls + 1 ELSE sendAlls
        /\ UNCHANGED <<bufferedProtocols, outputBuffer, buffered, handed,
                       accepting>>
    BY <1>6 DEF EventFires, bufferVars
  <2>2. /\ events' \in Nat /\ sendAlls' \in Nat
        /\ accepting => events' + sendAlls' > 0
    BY <1>a, <2>1
  <2> QED
    BY <1>a, <1>b, <2>1, <2>2 DEF ChainInv, ChainUnbroken, Chains
<1>7. CASE UNCHANGED autosendVars
  BY <1>7, <1>a, <1>b
  DEF ChainInv, ChainUnbroken, Chains, autosendVars, bufferVars, chainVars
<1> QED
  BY <1>1, <1>2, <1>3, <1>4, <1>5, <1>6, <1>7 DEF AutosendNext

(* As long as somebody is registered and the server runs a sendAll is      *)
(* pending, and each chunk a protocol buffered is in its buffer or handed  *)
(* to its connection, once.                                                *)
THEOREM ChainUnbrokenHolds == AutosendSpec => []ChainUnbroken
<1>1. AutosendInit => ChainInv
  BY AutosendAssumption DEF AutosendInit, ChainInv, ChainUnbroken, Chains
<1>2. ChainInv => ChainUnbroken
  BY DEF ChainInv
<1> QED
  BY <1>1, <1>2, ChainInductive, PTL DEF AutosendSpec

-------------------------------------------------------------------------------
(* Lifecycle *)

TaskNames == {"load", "signal", "command", "shutdown", "notify", "stop"}

(* Where main() is before the network can run.                             *)
Before == {"start", "started", "waiting", "awake", "online", "end scheduler",
           "notify scheduler", "end database", "notify database",
           "end dispatcher"}
Closing == {"shutdown", "notify", "stop"}
NotNotified == {"start", "started", "waiting"}
Dispatching == state["dispatcher"]

LifecycleTypes ==
  /\ mainPc \in Labels
  /\ early \in BOOLEAN
  /\ state \in [Threads -> {"RUNNING", "CLOSING", "TERMINATED"}]
  /\ life \in [Threads -> {"unborn", "alive", "tested", "asleep", "ended"}]
  /\ missed \subseteq Loops
  /\ tasks \in Seq(TaskNames)
  /\ loader \in {"queued", "database", "services", "normal", "loaded", "failed",
                 "done"}
  /\ gameState \in {"STARTUP", "INIT", "NORMAL", "SHUTDOWN"}
  /\ services \in BOOLEAN /\ ports \in BOOLEAN /\ running \in BOOLEAN
  /\ io \in {"idle", "running", "stopping", "stopped"}
  /\ posted \in 0..MaxPosted

(* The dispatcher's list: mainLoader is its first task, a stop or shutdown *)
(* its last ("notify" is the rest of a shutdown), and once there is one    *)
(* nothing is added, since either the network never ran or the dispatcher  *)
(* does not accept tasks.                                                  *)
TasksInOrder ==
  /\ \A i \in 1..Len(tasks) :
       /\ tasks[i] = "load" => i = 1
       /\ tasks[i] \in Closing =>
            i = Len(tasks) /\ (io = "idle" \/ Dispatching # "RUNNING")
       /\ io = "idle" => tasks[i] \in {"load", "stop"}
       /\ mainPc \in Before => tasks[i] = "load"
  /\ Dispatching = "TERMINATED" => tasks = <<>>
  /\ life["dispatcher"] = "ended" => Dispatching = "TERMINATED"
  /\ mainPc \in Before => io = "idle"
  /\ mainPc \in Before \ {"start"} => Dispatching = "RUNNING"

(* mainLoader: what it has set up, and that main() was notified by it.     *)
Loaded ==
  /\ ports => loader \in {"normal", "loaded", "done"}
  /\ services =>
       loader \in {"loaded", "done"} /\ gameState \in {"NORMAL", "SHUTDOWN"}
  /\ ports /\ loader \in {"loaded", "done"} => services
  /\ ~early /\ mainPc \notin NotNotified => loader = "done"
  /\ ~early /\ mainPc \in {"online", "network"} => services

Joined ==
  ~early =>
    /\ mainPc \in {"join database", "join dispatcher", "returned"} =>
         Ended("scheduler")
    /\ mainPc \in {"join dispatcher", "returned"} => Ended("database")
    /\ mainPc = "returned" => Ended("dispatcher")

LifecycleInv == LifecycleTypes /\ TasksInOrder /\ Loaded /\ Joined

-------------------------------------------------------------------------------
(* A task at the end of the list, and one less at its front. *)
LEMMA TaskAdded ==
  ASSUME tasks \in Seq(TaskNames), NEW t \in TaskNames
  PROVE  /\ Append(tasks, t) \in Seq(TaskNames)
         /\ Len(Append(tasks, t)) = Len(tasks) + 1
         /\ Len(tasks) \in Nat
         /\ \A i \in 1..Len(tasks) : Append(tasks, t)[i] = tasks[i]
         /\ Append(tasks, t)[Len(tasks) + 1] = t
  OBVIOUS

LEMMA TaskDone ==
  ASSUME tasks \in Seq(TaskNames), tasks # <<>>
  PROVE  /\ Tail(tasks) \in Seq(TaskNames)
         /\ Len(Tail(tasks)) = Len(tasks) - 1
         /\ Len(tasks) \in Nat \ {0}
         /\ \A i \in 1..(Len(tasks) - 1) : Tail(tasks)[i] = tasks[i + 1]
         /\ Head(tasks) = tasks[1]
         /\ Len(tasks) = 1 => Tail(tasks) = <<>>
  OBVIOUS

LEMMA LifecycleInitHolds == LifecycleInit => LifecycleInv
<1> SUFFICES ASSUME LifecycleInit PROVE LifecycleInv
  OBVIOUS
<1> USE DEF LifecycleInit
<1>1. LifecycleTypes
  <2>1. tasks \in Seq(TaskNames)
    OBVIOUS
  <2>2. 0 \in 0..MaxPosted
    BY LifecycleAssumption
  <2>3. /\ state \in [Threads -> {"RUNNING", "CLOSING", "TERMINATED"}]
        /\ life \in [Threads -> {"unborn", "alive", "ended"}]
    OBVIOUS
  <2> QED
    BY <2>1, <2>2, <2>3 DEF LifecycleTypes, Labels
<1>2. TasksInOrder
  BY DEF TasksInOrder, Threads, Dispatching
<1>3. Loaded /\ Joined
  BY DEF Loaded, Joined, NotNotified
<1> QED
  BY <1>1, <1>2, <1>3 DEF LifecycleInv

LEMMA TypesKept ==
  LifecycleTypes /\ [LifecycleNext]_lifecycleVars => LifecycleTypes'
<1> SUFFICES ASSUME LifecycleTypes, [LifecycleNext]_lifecycleVars
             PROVE  LifecycleTypes'
  OBVIOUS
<1> USE LifecycleAssumption
    DEF LifecycleTypes, threadVars, gameVars, networkVars, Threads, Loops
<1>a. {"load", "signal", "command", "shutdown", "notify", "stop"} = TaskNames
  BY DEF TaskNames
<1>b. \A t \in TaskNames : Append(tasks, t) \in Seq(TaskNames)
  BY TaskAdded
<1>c. tasks # <<>> => Tail(tasks) \in Seq(TaskNames)
  BY TaskDone
<1>1. CASE Start
  BY <1>a, <1>b, <1>c, <1>1 DEF Start, At, Labels, Threads
<1>2. CASE Wait
  BY <1>2 DEF Wait, At, Labels
<1>3. CASE SpuriousWakeup
  BY <1>3 DEF SpuriousWakeup, At, Labels
<1>4. CASE Decide
  BY <1>4 DEF Decide, At, Labels
<1>5. CASE Run
  BY <1>5 DEF Run, At, Labels
<1>6. CASE RunReturns
  BY <1>6 DEF RunReturns, At, Labels
<1>7. CASE EndScheduler
  BY <1>7 DEF EndScheduler, WithSchedulerEnded, At, Labels, Threads
<1>8. CASE EndDatabase
  BY <1>8 DEF EndDatabase, WithDatabaseEnded, At, Labels, Threads
<1>9. CASE EndDispatcher
  BY <1>a, <1>b, <1>c, <1>9 DEF EndDispatcher, At, Labels
<1>e. CASE NotifyScheduler
  BY <1>e DEF NotifyScheduler, Notify, At, Labels
<1>f. CASE NotifyDatabase
  BY <1>f DEF NotifyDatabase, Notify, At, Labels
<1>10. CASE JoinNext
  <2>1. /\ mainPc' \in {"join database", "join dispatcher", "returned"}
        /\ UNCHANGED <<early, threadVars, tasks, loader, gameVars,
                       networkVars>>
    BY <1>10 DEF JoinNext, Join, At
  <2>2. mainPc' \in Labels
    BY <2>1 DEF Labels
  <2>3. /\ early' = early /\ state' = state /\ life' = life /\ missed' = missed
        /\ tasks' = tasks /\ loader' = loader /\ gameState' = gameState
        /\ services' = services /\ ports' = ports /\ running' = running
        /\ io' = io /\ posted' = posted
    BY <2>1
  <2> QED
    BY <2>2, <2>3
<1>11. ASSUME NEW thread \in Loops,
              TestState(thread) \/ SleepOrWork(thread) \/ WakeUp(thread)
       PROVE  LifecycleTypes'
  <2>1. PICK next \in {"alive", "tested", "asleep", "ended"} :
          life' = [life EXCEPT ![thread] = next]
    BY <1>11 DEF TestState, SleepOrWork, WakeUp
  <2>2. UNCHANGED <<mainPc, early, state, missed, tasks, loader, gameVars,
                    networkVars>>
    BY <1>11 DEF TestState, SleepOrWork, WakeUp
  <2>3. life' \in [Threads -> {"unborn", "alive", "tested", "asleep", "ended"}]
    BY <2>1
  <2> QED
    BY <2>2, <2>3
<1>d. CASE DispatcherEnds
  BY <1>d DEF DispatcherEnds
<1>12. CASE CheckSetup
  BY <1>12 DEF CheckSetup, Loading, IsRunning
<1>13. CASE StartDatabase
  BY <1>13 DEF StartDatabase, Loading, IsRunning, Threads
<1>14. CASE AddServices
  BY <1>14 DEF AddServices, Loading, IsRunning
<1>15. CASE StartGame
  BY <1>15 DEF StartGame, Loading, IsRunning
<1>16. CASE NotifyMain
  BY <1>16 DEF NotifyMain, Loading, IsRunning, AfterNotify, Labels
<1>17. CASE LoaderReturns
  BY <1>a, <1>b, <1>c, <1>17 DEF LoaderReturns, Loading, IsRunning
<1>18. ASSUME NEW task \in {"signal", "command"}, Post(task)
      PROVE  LifecycleTypes'
  BY <1>a, <1>b, <1>18 DEF Post
<1>19. CASE HandleSignal
  BY <1>a, <1>b, <1>c, <1>19 DEF HandleSignal, IsRunning
<1>20. CASE ShutDownGame
  <2>1. /\ tasks # <<>> /\ tasks \in Seq(TaskNames)
        /\ Tail(tasks) \in Seq(TaskNames)
    BY <1>c, <1>20 DEF ShutDownGame, IsRunning
  <2>2. Append(Tail(tasks), "shutdown") \in Seq(TaskNames)
    BY <2>1 DEF TaskNames
  <2>3. tasks' \in Seq(TaskNames)
    BY <1>20, <2>1, <2>2 DEF ShutDownGame
  <2>4. state' \in [Threads -> {"RUNNING", "CLOSING", "TERMINATED"}]
    BY <1>20 DEF ShutDownGame, BothStopped, Threads
  <2>5. gameState' \in {"STARTUP", "INIT", "NORMAL", "SHUTDOWN"}
    BY <1>20 DEF ShutDownGame
  <2> QED
    BY <1>20, <2>3, <2>4, <2>5 DEF ShutDownGame
<1>21. CASE GameShutdown
  <2>1. tasks' \in Seq(TaskNames)
    BY <1>21 DEF GameShutdown, TaskNames, IsRunning
  <2>2. state' \in [Threads -> {"RUNNING", "CLOSING", "TERMINATED"}]
    BY <1>21 DEF GameShutdown, WithSchedulerEnded, Threads
  <2> QED
    BY <1>21, <2>1, <2>2 DEF GameShutdown
<1>g. CASE GameShutdownNotifies
  <2>1. tasks # <<>> /\ Tail(tasks) \in Seq(TaskNames)
    BY <1>c, <1>g DEF GameShutdownNotifies, IsRunning
  <2>2. tasks' \in Seq(TaskNames)
    BY <1>g, <2>1 DEF GameShutdownNotifies, TaskNames
  <2>3. /\ life' \in [Threads ->
                        {"unborn", "alive", "tested", "asleep", "ended"}]
        /\ missed' \subseteq Loops
    BY <1>g DEF GameShutdownNotifies, Notify
  <2>4. /\ running' \in BOOLEAN /\ ports' \in BOOLEAN
        /\ io' \in {"idle", "running", "stopping", "stopped"}
    BY <1>g DEF GameShutdownNotifies
  <2> QED
    BY <1>g, <2>2, <2>3, <2>4 DEF GameShutdownNotifies
<1>22. CASE RunStopTask
  BY <1>a, <1>b, <1>c, <1>22 DEF RunStopTask, IsRunning, Threads
<1>23. CASE Die
  BY <1>23 DEF Die
<1>24. CASE UNCHANGED lifecycleVars
  BY <1>24 DEF lifecycleVars
<1> QED
  BY <1>1, <1>2, <1>3, <1>4, <1>5, <1>6, <1>7, <1>8, <1>9, <1>10, <1>11, <1>12,
     <1>13, <1>14, <1>15, <1>16, <1>17, <1>18, <1>19, <1>20, <1>21, <1>22, <1>23,
     <1>24, <1>d, <1>e, <1>f, <1>g
  DEF LifecycleNext, Main, RunTask

(* A step that does not touch the list. *)
LEMMA TasksCalm ==
  ASSUME TasksInOrder, UNCHANGED <<tasks, Dispatching>>,
         life'["dispatcher"] = "ended" =>
           life["dispatcher"] = "ended" \/ Dispatching = "TERMINATED",
         io' = "idle" <=> io = "idle",
         mainPc' \in Before => mainPc \in Before \ {"start"}
  PROVE  TasksInOrder'
  BY DEF TasksInOrder

LEMMA MainCalm ==
  ASSUME NEW here, NEW next, At(here, next),
         here \notin {"start", "online"},
         next \in Before => here \in Before
  PROVE  mainPc' \in Before => mainPc \in Before \ {"start"}
  BY DEF At

(* A step of main() or of another thread that adds and removes no task. *)
LEMMA OtherStepsKeepTasks ==
  ASSUME LifecycleTypes, TasksInOrder,
         \/ Wait \/ SpuriousWakeup \/ Decide \/ RunReturns
         \/ EndScheduler \/ NotifyScheduler \/ EndDatabase \/ NotifyDatabase
         \/ JoinNext
         \/ \E thread \in Loops :
              TestState(thread) \/ SleepOrWork(thread) \/ WakeUp(thread)
         \/ DispatcherEnds
         \/ CheckSetup \/ StartDatabase \/ AddServices \/ StartGame
         \/ NotifyMain \/ Die
  PROVE  TasksInOrder'
<1> USE DEF threadVars, gameVars, networkVars
<1>1. state \in [Threads -> {"RUNNING", "CLOSING", "TERMINATED"}]
      /\ life \in [Threads -> {"unborn", "alive", "tested", "asleep", "ended"}]
  BY DEF LifecycleTypes
<1>2. CASE Wait \/ SpuriousWakeup \/ Decide \/ RunReturns \/ JoinNext
  <2>1. UNCHANGED <<state, tasks, life, io>>
    BY <1>2 DEF Wait, SpuriousWakeup, Decide, RunReturns, JoinNext, Join
  <2>2. mainPc' \in Before => mainPc \in Before \ {"start"}
    BY <1>2 DEF Wait, SpuriousWakeup, Decide, RunReturns, JoinNext, Join, At,
                Before
  <2> QED
    BY <2>1, <2>2, TasksCalm DEF Dispatching
<1>3. CASE EndScheduler \/ EndDatabase
  <2>1. /\ UNCHANGED <<tasks, life, io>>
        /\ state'["dispatcher"] = state["dispatcher"]
    BY <1>1, <1>3 DEF EndScheduler, EndDatabase, WithSchedulerEnded,
                      WithDatabaseEnded, Threads
  <2>2. mainPc' \in Before => mainPc \in Before \ {"start"}
    BY <1>3 DEF EndScheduler, EndDatabase, At, Before
  <2> QED
    BY <2>1, <2>2, TasksCalm DEF Dispatching
<1>9. CASE NotifyScheduler \/ NotifyDatabase
  <2>1. /\ UNCHANGED <<state, tasks, io>>
        /\ life'["dispatcher"] = life["dispatcher"]
    BY <1>1, <1>9 DEF NotifyScheduler, NotifyDatabase, Notify, Threads
  <2>2. mainPc' \in Before => mainPc \in Before \ {"start"}
    BY <1>9 DEF NotifyScheduler, NotifyDatabase, At, Before
  <2> QED
    BY <2>1, <2>2, TasksCalm DEF Dispatching
<1>4. ASSUME NEW thread \in Loops,
             TestState(thread) \/ SleepOrWork(thread) \/ WakeUp(thread)
      PROVE  TasksInOrder'
  <2>1. /\ UNCHANGED <<tasks, state, io, mainPc>>
        /\ life'["dispatcher"] = life["dispatcher"]
    BY <1>1, <1>4 DEF TestState, SleepOrWork, WakeUp, Loops, Threads
  <2> QED
    BY <2>1 DEF TasksInOrder, Dispatching
<1>10. CASE DispatcherEnds
  <2>1. UNCHANGED <<tasks, state, io, mainPc>> /\ Dispatching = "TERMINATED"
    BY <1>10 DEF DispatcherEnds, Dispatching
  <2> QED
    BY <2>1 DEF TasksInOrder, Dispatching
<1>5. CASE CheckSetup \/ AddServices \/ StartGame
  <2>1. UNCHANGED <<state, tasks, life, io, mainPc>>
    BY <1>5 DEF CheckSetup, AddServices, StartGame
  <2> QED
    BY <2>1 DEF TasksInOrder, Dispatching
<1>6. CASE StartDatabase
  <2>1. /\ UNCHANGED <<tasks, io, mainPc>>
        /\ life'["dispatcher"] = life["dispatcher"]
        /\ state'["dispatcher"] = state["dispatcher"]
    BY <1>1, <1>6 DEF StartDatabase, Threads
  <2> QED
    BY <2>1 DEF TasksInOrder, Dispatching
<1>7. CASE NotifyMain
  <2>1. /\ UNCHANGED <<state, tasks, life, io>>
        /\ \/ mainPc' = mainPc
           \/ mainPc = "waiting" /\ mainPc' = "awake"
    BY <1>7 DEF NotifyMain
  <2> QED
    BY <2>1 DEF TasksInOrder, Dispatching, Before
<1>8. CASE Die
  <2>1. /\ UNCHANGED <<state, tasks, life, mainPc>>
        /\ io = "stopping" /\ io' = "stopped"
    BY <1>8 DEF Die
  <2> QED
    BY <2>1 DEF TasksInOrder, Dispatching
<1> QED
  BY <1>2, <1>3, <1>4, <1>5, <1>6, <1>7, <1>8, <1>9, <1>10

(* Start puts mainLoader in the list; Run lets the network in. *)
LEMMA StartKeepsTasks ==
  LifecycleTypes /\ TasksInOrder /\ Start => TasksInOrder'
<1> SUFFICES ASSUME LifecycleTypes, TasksInOrder, Start PROVE TasksInOrder'
  OBVIOUS
<1>1. /\ mainPc = "start" /\ mainPc' = "started" /\ tasks' = <<"load">>
      /\ io' = io /\ io = "idle"
  BY DEF Start, At, TasksInOrder, Before, networkVars
<1>2. state'["dispatcher"] = "RUNNING" /\ life'["dispatcher"] = "alive"
  BY DEF Start, LifecycleTypes, Threads
<1>3. Len(tasks') = 1 /\ tasks'[1] = "load" /\ \A i \in 1..Len(tasks') : i = 1
  BY <1>1
<1> QED
  BY <1>1, <1>2, <1>3 DEF TasksInOrder, Dispatching, Before

LEMMA RunKeepsTasks == TasksInOrder /\ Run => TasksInOrder'
<1> SUFFICES ASSUME TasksInOrder, Run PROVE TasksInOrder'
  OBVIOUS
<1>1. /\ mainPc = "online" /\ mainPc' = "network" /\ io' = "running"
      /\ UNCHANGED <<tasks, state, life>>
  BY DEF Run, At, threadVars
<1> QED
  BY <1>1 DEF TasksInOrder, Dispatching, Before, Closing

(* The end of the list after one task more. *)
LEMMA AppendKeepsTasks ==
  ASSUME LifecycleTypes, TasksInOrder,
         NEW t \in {"signal", "command", "stop"},
         tasks' = Append(tasks, t),
         UNCHANGED <<state, life, io>>,
         Dispatching = "RUNNING",
         \A i \in 1..Len(tasks) : tasks[i] \notin Closing,
         mainPc' \notin Before,
         io = "idle" <=> t = "stop"
  PROVE  TasksInOrder'
<1>1. /\ t \in TaskNames /\ tasks \in Seq(TaskNames)
  BY DEF TaskNames, LifecycleTypes
<1>2. /\ Len(tasks') = Len(tasks) + 1
      /\ Len(tasks) \in Nat
      /\ \A i \in 1..Len(tasks) : tasks'[i] = tasks[i]
      /\ tasks'[Len(tasks) + 1] = t
  BY <1>1, TaskAdded
<1>3. ASSUME NEW i \in 1..Len(tasks')
      PROVE  /\ tasks'[i] = "load" => i = 1
             /\ tasks'[i] \in Closing =>
                  i = Len(tasks') /\ io = "idle"
             /\ io = "idle" => tasks'[i] \in {"load", "stop"}
  <2>1. CASE i \in 1..Len(tasks)
    BY <1>2, <2>1 DEF TasksInOrder
  <2>2. CASE i = Len(tasks) + 1
    BY <1>2, <2>2 DEF Closing
  <2> QED
    BY <1>2, <2>1, <2>2
<1>4. Dispatching' = "RUNNING"
  BY DEF Dispatching
<1> QED
  BY <1>3, <1>4 DEF TasksInOrder

LEMMA EndDispatcherKeepsTasks ==
  LifecycleTypes /\ TasksInOrder /\ EndDispatcher => TasksInOrder'
<1> SUFFICES ASSUME LifecycleTypes, TasksInOrder, EndDispatcher
             PROVE  TasksInOrder'
  OBVIOUS
<1>1. /\ mainPc \in Before \ {"start"} /\ mainPc' \notin Before
      /\ tasks' = Append(tasks, "stop") /\ UNCHANGED <<state, life, io>>
  BY DEF EndDispatcher, At, Before, threadVars, networkVars
<1>2. /\ io = "idle" /\ Dispatching = "RUNNING"
      /\ \A i \in 1..Len(tasks) : tasks[i] \notin Closing
  BY <1>1 DEF TasksInOrder, Closing
<1> QED
  BY <1>1, <1>2, AppendKeepsTasks

LEMMA PostKeepsTasks ==
  ASSUME LifecycleTypes, TasksInOrder, NEW task \in {"signal", "command"},
         Post(task)
  PROVE  TasksInOrder'
<1>1. /\ io # "idle" /\ mainPc \notin Before
      /\ UNCHANGED <<mainPc, state, life, io>>
  BY DEF Post, TasksInOrder, threadVars
<1>2. CASE Dispatching = "RUNNING"
  <2>1. tasks' = Append(tasks, task)
    BY <1>2 DEF Post, Dispatching
  <2>2. \A i \in 1..Len(tasks) : tasks[i] \notin Closing
    BY <1>1, <1>2 DEF TasksInOrder
  <2> QED
    BY <1>1, <1>2, <2>1, <2>2, AppendKeepsTasks
<1>3. CASE Dispatching # "RUNNING"
  <2>1. tasks' = tasks
    BY <1>3 DEF Post, Dispatching
  <2> QED
    BY <1>1, <2>1, TasksCalm DEF Dispatching
<1> QED
  BY <1>2, <1>3

(* The list without its first task. *)
LEMMA TailInOrder ==
  ASSUME LifecycleTypes, TasksInOrder, tasks # <<>>
  PROVE  /\ Tail(tasks) \in Seq(TaskNames)
         /\ \A i \in 1..Len(Tail(tasks)) :
              /\ i + 1 \in 1..Len(tasks) /\ Tail(tasks)[i] = tasks[i + 1]
              /\ Tail(tasks)[i] # "load"
              /\ Tail(tasks)[i] \in Closing => i = Len(Tail(tasks))
         /\ 1 \in 1..Len(tasks) /\ Head(tasks) = tasks[1]
         /\ Head(tasks) \in Closing => Tail(tasks) = <<>>
<1>1. tasks \in Seq(TaskNames)
  BY DEF LifecycleTypes
<1>2. /\ Tail(tasks) \in Seq(TaskNames)
      /\ Len(Tail(tasks)) = Len(tasks) - 1
      /\ Len(tasks) \in Nat \ {0}
      /\ \A i \in 1..(Len(tasks) - 1) : Tail(tasks)[i] = tasks[i + 1]
      /\ Head(tasks) = tasks[1]
      /\ Len(tasks) = 1 => Tail(tasks) = <<>>
  BY <1>1, TaskDone
<1>3. ASSUME NEW i \in 1..Len(Tail(tasks))
      PROVE  /\ i + 1 \in 1..Len(tasks) /\ Tail(tasks)[i] = tasks[i + 1]
             /\ Tail(tasks)[i] # "load"
             /\ Tail(tasks)[i] \in Closing => i = Len(Tail(tasks))
  <2>1. i + 1 \in 1..Len(tasks) /\ Tail(tasks)[i] = tasks[i + 1] /\ i + 1 # 1
    BY <1>2
  <2>2. tasks[i + 1] # "load"
    BY <2>1 DEF TasksInOrder
  <2>3. tasks[i + 1] \in Closing => i + 1 = Len(tasks)
    BY <2>1 DEF TasksInOrder
  <2> QED
    <3>1. i \in Nat /\ (i + 1 = Len(tasks) => i = Len(Tail(tasks)))
      <4> DEFINE n == Len(tasks)
                 m == Len(Tail(tasks))
      <4>1. n \in Nat /\ m = n - 1 /\ i \in 1..m
        BY <1>2
      <4> HIDE DEF n, m
      <4>2. i \in Nat /\ (i + 1 = n => i = m)
        BY <4>1
      <4> QED
        BY <4>2 DEF n, m
    <3> QED
      BY <2>1, <2>2, <2>3, <3>1, Zenon
<1>4. 1 \in 1..Len(tasks)
  BY <1>2
<1>5. tasks[1] \in Closing => Len(tasks) = 1
  BY <1>4 DEF TasksInOrder
<1> QED
  BY <1>2, <1>3, <1>4, <1>5

(* A task that ends, and what it may have done to the dispatcher. *)
LEMMA TailKeepsTasks ==
  ASSUME LifecycleTypes, TasksInOrder, tasks # <<>>, tasks' = Tail(tasks),
         UNCHANGED <<mainPc, life, io>>,
         \/ Dispatching' = Dispatching
         \/ Dispatching' = "CLOSING" /\ mainPc \notin Before
            /\ life["dispatcher"] # "ended"
         \/ Dispatching' = "TERMINATED" /\ Tail(tasks) = <<>>
            /\ mainPc \notin Before
  PROVE  TasksInOrder'
<1>1. ASSUME NEW i \in 1..Len(tasks')
      PROVE  /\ tasks'[i] # "load"
             /\ tasks'[i] \in Closing =>
                  i = Len(tasks') /\ (io = "idle" \/ Dispatching' # "RUNNING")
             /\ io = "idle" => tasks'[i] = "stop"
             /\ mainPc \notin Before
  <2>1. /\ i + 1 \in 1..Len(tasks) /\ tasks'[i] = tasks[i + 1]
        /\ tasks'[i] # "load"
        /\ tasks'[i] \in Closing => i = Len(tasks')
    BY TailInOrder
  <2> QED
    BY <2>1 DEF TasksInOrder
<1>2. Dispatching' = "TERMINATED" => tasks' = <<>>
  BY TailInOrder DEF TasksInOrder
<1> QED
  BY <1>1, <1>2 DEF TasksInOrder

LEMMA RunTaskKeepsTasks ==
  ASSUME LifecycleTypes, TasksInOrder,
         \/ LoaderReturns \/ HandleSignal
         \/ ShutDownGame \/ GameShutdown \/ GameShutdownNotifies
         \/ RunStopTask
  PROVE  TasksInOrder'
<1>1. /\ tasks # <<>> /\ Dispatching # "TERMINATED"
      /\ life["dispatcher"] = "alive"
      /\ mainPc' = mainPc
  BY DEF LoaderReturns, Loading, HandleSignal, ShutDownGame, GameShutdown,
         GameShutdownNotifies, RunStopTask, IsRunning, Dispatching
<1>2. Head(tasks) # "load" => mainPc \notin Before
  BY <1>1, TailInOrder DEF TasksInOrder
<1>3. state \in [Threads -> {"RUNNING", "CLOSING", "TERMINATED"}]
  BY DEF LifecycleTypes
<1>4. CASE LoaderReturns \/ HandleSignal
  <2>1. tasks' = Tail(tasks) /\ UNCHANGED <<state, life, io>>
    BY <1>4 DEF LoaderReturns, HandleSignal, threadVars, networkVars
  <2> QED
    BY <1>1, <2>1, TailKeepsTasks DEF Dispatching
<1>5. CASE RunStopTask
  <2>1. /\ tasks' = Tail(tasks) /\ UNCHANGED <<life, io>>
        /\ Head(tasks) = "stop" /\ Dispatching' = "TERMINATED"
    BY <1>3, <1>5 DEF RunStopTask, IsRunning, networkVars, Dispatching, Threads
  <2>2. Tail(tasks) = <<>> /\ mainPc \notin Before
    BY <1>1, <1>2, <2>1, TailInOrder DEF Closing
  <2> QED
    BY <1>1, <2>1, <2>2, TailKeepsTasks
<1>6. CASE GameShutdown \/ GameShutdownNotifies
  <2>1. /\ Head(tasks) \in Closing
        /\ \/ tasks' = Append(Tail(tasks), "stop")
           \/ tasks' = [tasks EXCEPT ![1] = "notify"]
        /\ Dispatching' = Dispatching
        /\ io' = io \/ io' = "stopping"
    BY <1>3, <1>6 DEF GameShutdown, GameShutdownNotifies, IsRunning, networkVars,
                      WithSchedulerEnded, Dispatching, Threads, Closing
  <2>2. /\ Tail(tasks) = <<>> /\ mainPc \notin Before
        /\ Dispatching # "RUNNING" /\ io # "idle"
    <3>1. Head(tasks) # "stop" /\ Head(tasks) # "load"
      BY <1>6 DEF GameShutdown, GameShutdownNotifies, IsRunning
    <3> QED
      BY <1>1, <1>2, <2>1, <3>1, TailInOrder DEF TasksInOrder
  <2>3. /\ Len(tasks') = 1 /\ tasks'[1] \in Closing \ {"load"}
        /\ \A i \in 1..Len(tasks') : i = 1
    <3>1. tasks \in Seq(TaskNames) /\ Len(tasks) = 1
      <4>1. tasks \in Seq(TaskNames) /\ tasks # <<>> /\ Tail(tasks) = <<>>
        BY <1>1, <2>2 DEF LifecycleTypes
      <4>2. Len(Tail(tasks)) = Len(tasks) - 1 /\ Len(tasks) \in Nat
        BY <4>1, TaskDone
      <4>3. Len(<<>>) = 0
        OBVIOUS
      <4>4. Len(Tail(tasks)) = 0
        BY <4>1, <4>3, Zenon
      <4> DEFINE n == Len(tasks)
                 m == Len(Tail(tasks))
      <4>5. n = 1
        <5>1. n \in Nat /\ m = n - 1 /\ m = 0
          BY <4>2, <4>4
        <5> HIDE DEF n, m
        <5> QED
          BY <5>1
      <4> QED
        BY <4>1, <4>5
    <3>2. CASE tasks' = Append(Tail(tasks), "stop")
      <4>1. tasks' = Append(<<>>, "stop")
        BY <2>2, <3>2, Zenon
      <4>2. tasks' = <<"stop">>
        BY <4>1
      <4> QED
        BY <4>2 DEF Closing
    <3>3. CASE tasks' = [tasks EXCEPT ![1] = "notify"]
      <4>1. Len(tasks') = 1 /\ tasks'[1] = "notify"
        BY <3>1, <3>3
      <4> QED
        BY <4>1 DEF Closing
    <3> QED
      BY <2>1, <3>2, <3>3
  <2>4. io' # "idle" /\ life'["dispatcher"] # "ended"
    BY <1>1, <1>6, <2>1, <2>2 DEF GameShutdown, GameShutdownNotifies, Notify,
                                  LifecycleTypes, Threads
  <2> QED
    BY <1>1, <2>1, <2>2, <2>3, <2>4 DEF TasksInOrder
<1>7. CASE ShutDownGame
  <2>1. Head(tasks) = "command" /\ UNCHANGED <<life, io>>
    BY <1>7 DEF ShutDownGame, IsRunning, networkVars
  <2>2. mainPc \notin Before /\ io # "idle"
    BY <1>1, <1>2, <2>1, TailInOrder DEF TasksInOrder
  <2>3. \/ tasks' = Tail(tasks) /\ Dispatching' = Dispatching
        \/ tasks' = Tail(tasks) /\ Dispatching' = "CLOSING"
        \/ /\ tasks' = Append(Tail(tasks), "shutdown")
           /\ Dispatching = "RUNNING" /\ Dispatching' = "CLOSING"
    BY <1>3, <1>7 DEF ShutDownGame, BothStopped, Dispatching, Threads
  <2>4. CASE tasks' = Tail(tasks)
    BY <1>1, <2>1, <2>2, <2>3, <2>4, TailKeepsTasks
  <2>5. CASE /\ tasks' = Append(Tail(tasks), "shutdown")
             /\ Dispatching = "RUNNING" /\ Dispatching' = "CLOSING"
    <3> DEFINE rest == Tail(tasks)
    <3>1. /\ rest \in Seq(TaskNames)
          /\ \A i \in 1..Len(rest) :
               /\ i + 1 \in 1..Len(tasks) /\ rest[i] = tasks[i + 1]
               /\ rest[i] # "load"
      BY <1>1, TailInOrder
    <3>2. \A i \in 1..Len(rest) : rest[i] \notin Closing
      BY <2>2, <2>5, <3>1 DEF TasksInOrder
    <3> HIDE DEF rest
    <3>3. /\ Len(tasks') = Len(rest) + 1 /\ Len(rest) \in Nat
          /\ \A i \in 1..Len(rest) : tasks'[i] = rest[i]
          /\ tasks'[Len(rest) + 1] = "shutdown"
      <4>1. tasks' = Append(rest, "shutdown")
        BY <2>5 DEF rest
      <4> QED
        BY <3>1, <4>1
    <3>4. ASSUME NEW i \in 1..Len(tasks')
          PROVE  /\ tasks'[i] # "load"
                 /\ tasks'[i] \in Closing => i = Len(tasks')
      <4>1. CASE i \in 1..Len(rest)
        BY <3>1, <3>2, <3>3, <4>1
      <4>2. CASE i = Len(rest) + 1
        BY <3>3, <4>2
      <4> QED
        BY <3>3, <4>1, <4>2
    <3> QED
      BY <1>1, <2>1, <2>2, <2>5, <3>4 DEF TasksInOrder
  <2> QED
    BY <2>3, <2>4, <2>5
<1> QED
  BY <1>4, <1>5, <1>6, <1>7

LEMMA TasksKept ==
  /\ LifecycleTypes /\ TasksInOrder /\ [LifecycleNext]_lifecycleVars
  => TasksInOrder'
<1> SUFFICES ASSUME LifecycleTypes, TasksInOrder, [LifecycleNext]_lifecycleVars
             PROVE  TasksInOrder'
  OBVIOUS
<1>1. CASE UNCHANGED lifecycleVars
  BY <1>1 DEF lifecycleVars, threadVars, networkVars, TasksInOrder, Dispatching
<1>2. CASE LifecycleNext
  BY <1>2, OtherStepsKeepTasks, StartKeepsTasks, RunKeepsTasks,
     EndDispatcherKeepsTasks, PostKeepsTasks, RunTaskKeepsTasks
  DEF LifecycleNext, Main, RunTask
<1> QED
  BY <1>1, <1>2

-------------------------------------------------------------------------------
(* Whoever wakes main() but for a spurious wake-up has finished loading. *)
LEMMA LoadedKept ==
  LifecycleTypes /\ Loaded /\ [LifecycleNext]_lifecycleVars => Loaded'
<1> SUFFICES ASSUME LifecycleTypes, Loaded, [LifecycleNext]_lifecycleVars
             PROVE  Loaded'
  OBVIOUS
<1> USE DEF threadVars, gameVars, networkVars
<1>1. CASE UNCHANGED lifecycleVars
  BY <1>1 DEF lifecycleVars, Loaded
<1>2. CASE Main
  <2>1. UNCHANGED <<early, loader, gameState, services, ports>>
    BY <1>2 DEF Main, Start, Wait, Decide, Run, RunReturns, EndScheduler,
                NotifyScheduler, EndDatabase, NotifyDatabase,
                EndDispatcher, JoinNext, Join
  <2>2. mainPc' \notin NotNotified => mainPc \notin NotNotified
    BY <1>2 DEF Main, Start, Wait, Decide, Run, RunReturns, EndScheduler,
                NotifyScheduler, EndDatabase, NotifyDatabase,
                EndDispatcher, JoinNext, Join, At, NotNotified
  <2>3. mainPc' \in {"online", "network"} =>
          mainPc \in {"online", "network"} \/ (mainPc = "awake" /\ ports)
    <3>1. CASE Decide \/ Run
      BY <3>1 DEF Decide, Run, At
    <3>2. CASE Start \/ Wait \/ RunReturns \/ EndScheduler \/ NotifyScheduler
               \/ EndDatabase \/ NotifyDatabase \/ EndDispatcher
      BY <3>2 DEF Start, Wait, RunReturns, EndScheduler, NotifyScheduler,
                  EndDatabase, NotifyDatabase, EndDispatcher, At
    <3>3. CASE JoinNext
      BY <3>3 DEF JoinNext, Join, At
    <3> QED
      BY <1>2, <3>1, <3>2, <3>3 DEF Main
  <2> QED
    BY <2>1, <2>2, <2>3 DEF Loaded, NotNotified
<1>3. CASE SpuriousWakeup
  BY <1>3 DEF SpuriousWakeup, Loaded
<1>4. ASSUME \/ DispatcherEnds
             \/ \E thread \in Loops :
                  TestState(thread) \/ SleepOrWork(thread) \/ WakeUp(thread)
      PROVE  Loaded'
  BY <1>4 DEF DispatcherEnds, TestState, SleepOrWork, WakeUp, Loaded
<1>5. CASE CheckSetup \/ StartDatabase \/ AddServices \/ StartGame
  BY <1>5 DEF CheckSetup, StartDatabase, AddServices, StartGame, Loading,
              Loaded, LifecycleTypes
<1>6. CASE NotifyMain
  BY <1>6 DEF NotifyMain, Loading, Loaded, AfterNotify, NotNotified
<1>7. CASE LoaderReturns \/ HandleSignal \/ RunStopTask
  BY <1>7 DEF LoaderReturns, HandleSignal, RunStopTask, Loaded
<1>8. CASE ShutDownGame
  BY <1>8 DEF ShutDownGame, Loaded
<1>9. CASE GameShutdown \/ GameShutdownNotifies
  BY <1>9 DEF GameShutdown, GameShutdownNotifies, Loaded
<1>10. ASSUME NEW task \in {"signal", "command"}, Post(task) PROVE Loaded'
  BY <1>10 DEF Post, Loaded
<1>11. CASE Die
  BY <1>11 DEF Die, Loaded
<1> QED
  BY <1>1, <1>2, <1>3, <1>4, <1>5, <1>6, <1>7, <1>8, <1>9, <1>10, <1>11
  DEF LifecycleNext, RunTask

(* Only main() starts the scheduler and the dispatcher, only mainLoader    *)
(* the database thread: what has been joined is not alive again.           *)
LEMMA JoinedKept ==
  /\ LifecycleTypes /\ Loaded /\ Joined /\ [LifecycleNext]_lifecycleVars
  => Joined'
<1> SUFFICES ASSUME LifecycleTypes, Loaded, Joined,
                    [LifecycleNext]_lifecycleVars
             PROVE  Joined'
  OBVIOUS
<1> USE DEF threadVars, gameVars, networkVars
<1>1. CASE UNCHANGED lifecycleVars
  BY <1>1 DEF lifecycleVars, Joined, Ended
<1>2. CASE Start
  BY <1>2 DEF Start, At, Joined
<1>a. CASE NotifyScheduler \/ NotifyDatabase
  BY <1>a DEF NotifyScheduler, NotifyDatabase, At, Joined
<1>3. CASE Wait \/ Decide \/ Run \/ RunReturns \/ EndScheduler \/ EndDatabase
           \/ EndDispatcher
  BY <1>3 DEF Wait, Decide, Run, RunReturns, EndScheduler, EndDatabase,
              EndDispatcher, At, Joined, Ended
<1>4. CASE JoinNext
  BY <1>4 DEF JoinNext, Join, At, Joined, Ended
<1>5. CASE SpuriousWakeup
  BY <1>5 DEF SpuriousWakeup, At, Joined
<1>6. ASSUME \/ DispatcherEnds
             \/ \E thread \in Loops :
                  TestState(thread) \/ SleepOrWork(thread) \/ WakeUp(thread)
             \/ GameShutdownNotifies
      PROVE  Joined'
  <2>1. /\ UNCHANGED <<mainPc, early>>
        /\ \A t \in Threads : Ended(t) => Ended(t)'
    BY <1>6 DEF DispatcherEnds, TestState, SleepOrWork, WakeUp, Ended,
                GameShutdownNotifies, Notify, LifecycleTypes, Threads, Loops
  <2> QED
    BY <2>1 DEF Joined, Threads
<1>7. CASE StartDatabase
  <2>1. /\ loader = "database" /\ UNCHANGED <<early, mainPc>>
        /\ life' = [life EXCEPT !["database"] = "alive"]
    BY <1>7 DEF StartDatabase, Loading
  <2>2. early \/ mainPc \in NotNotified
    BY <2>1 DEF Loaded, LifecycleTypes
  <2> QED
    BY <2>1, <2>2 DEF Joined, NotNotified
<1>8. CASE NotifyMain
  BY <1>8 DEF NotifyMain, Joined, Ended
<1>9. CASE CheckSetup \/ AddServices \/ StartGame \/ LoaderReturns
           \/ HandleSignal \/ ShutDownGame \/ GameShutdown \/ RunStopTask \/ Die
  BY <1>9 DEF CheckSetup, AddServices, StartGame, LoaderReturns, HandleSignal,
              ShutDownGame, GameShutdown, RunStopTask, Die, Joined, Ended
<1>10. ASSUME NEW task \in {"signal", "command"}, Post(task) PROVE Joined'
  BY <1>10 DEF Post, Joined, Ended
<1> QED
  BY <1>1, <1>2, <1>3, <1>4, <1>5, <1>6, <1>7, <1>8, <1>9, <1>10, <1>a
  DEF LifecycleNext, Main, RunTask

LEMMA LifecycleInvImplies == LifecycleInv => MainFollowsLoader
<1> SUFFICES ASSUME LifecycleInv PROVE MainFollowsLoader
  OBVIOUS
<1>1. LifecycleTypes /\ TasksInOrder /\ Loaded /\ Joined
  BY DEF LifecycleInv
<1>2. LifecycleTypeOK
  BY <1>1 DEF LifecycleTypeOK, LifecycleTypes, TaskNames, TasksInOrder
<1>3. ~early /\ mainPc \in {"online", "network"} =>
        loader = "done" /\ services /\ gameState \in {"NORMAL", "SHUTDOWN"}
  BY <1>1 DEF Loaded, NotNotified
<1>4. ~early /\ mainPc = "returned" =>
        loader = "done" /\ \A thread \in Threads : Ended(thread)
  BY <1>1 DEF Loaded, Joined, NotNotified, Threads
<1> QED
  BY <1>2, <1>3, <1>4 DEF MainFollowsLoader

(* Unless a wait returned for no reason, main() puts the server online     *)
(* only after mainLoader and returns only when no thread is alive or will  *)
(* be, whatever is posted to the dispatcher in between.                    *)
THEOREM MainFollowsLoaderHolds == LifecycleSpec => []MainFollowsLoader
<1>1. LifecycleInv /\ [LifecycleNext]_lifecycleVars => LifecycleInv'
  BY TypesKept, TasksKept, LoadedKept, JoinedKept DEF LifecycleInv
<1> QED
  BY <1>1, LifecycleInitHolds, LifecycleInvImplies, PTL DEF LifecycleSpec
===============================================================================
