------------------------------- MODULE Messages --------------------------------
(***************************************************************************)
(* Message buffers (networkmessage.*, outputmessage.h) and what a protocol *)
(* does with them (protocol.*, Connection::parseHeader and parsePacket):   *)
(* lengths and positions in a buffer of fixed size, the headers, padding   *)
(* and encryption of an outgoing message, the reading of an incoming one.  *)
(*                                                                         *)
(* Bytes are not modelled.  A behaviour follows one buffer: the protocol's *)
(* autosend buffer, a message made for one answer, or the buffer a         *)
(* connection reads into.                                                  *)
(***************************************************************************)
EXTENDS Integers, Sequences

CONSTANTS
  MaxSize,    \* NETWORKMESSAGE_MAXSIZE, 24590 in the code
  MaxString,  \* the longest string or array that may be added, 8192
  RsaLength   \* length of an RSA block, 128

InitialPosition == 8
HeaderLength == 2
ChecksumLength == 4
MaxBodyLength == MaxSize - HeaderLength - ChecksumLength - 8
MaxProtocolBodyLength == MaxBodyLength - 10

ASSUME MessagesAssumption ==
  /\ MaxSize \in Nat /\ MaxString \in Nat /\ RsaLength \in Nat
  /\ MaxBodyLength >= 24 /\ MaxBodyLength % 8 = 0
  /\ MaxString <= MaxProtocolBodyLength

VARIABLES
  role,           \* which buffer the behaviour follows
  msg,            \* NetworkMessage::info and outputBufferStart
  asked,          \* bytes the autosend buffer was asked to take
  frame,          \* the last message framed by onSendMessage, or NoFrame
  phase,          \* incoming: what the connection does with the buffer
  received,       \* incoming: bytes read into the buffer
  receivedFirst,  \* incoming: Connection::receivedFirst
  opening,        \* history: how the last packet parsed was opened
  content,        \* history: where what it says ends
  plainEnd        \* history: where its plain or decrypted bytes end

outVars == <<asked, frame>>
historyVars == <<opening, content, plainEnd>>
inVars == <<phase, received, receivedFirst, historyVars>>
vars == <<role, msg, outVars, inVars>>

Fresh == [length |-> 0, position |-> InitialPosition, overrun |-> FALSE,
          start |-> InitialPosition]
NoFrame == [mode |-> "none", body |-> 0, cipher |-> 0, start |-> 0,
            header |-> 0, sent |-> 0]

Init ==
  /\ role \in {"autosend", "direct", "incoming"}
  /\ msg = Fresh
  /\ asked = 0
  /\ frame = NoFrame
  /\ phase = "header"
  /\ received = 0
  /\ receivedFirst = FALSE
  /\ opening = "plain"
  /\ content = 0
  /\ plainEnd = 0

-------------------------------------------------------------------------------
(* NetworkMessage *)

CanAdd(m, size) == size + m.position < MaxBodyLength

Added(m, size) ==
  IF CanAdd(m, size) THEN [m EXCEPT !.position = @ + size, !.length = @ + size]
  ELSE m

(* addBytes; a string adds its length before its characters.               *)
AddedBytes(m, size) == IF size > MaxString THEN m ELSE Added(m, size)
AddedString(m, size) == IF size > MaxString THEN m ELSE Added(m, size + 2)

(* Padding advances the length and not the position.                       *)
AddedPadding(m, size) ==
  IF CanAdd(m, size) THEN [m EXCEPT !.length = @ + size] ELSE m

CanReadPastPacket(m, size) == size < MaxSize - m.position
CanRead(m, size) ==
  /\ m.position + size <= m.length + 8
  /\ size < MaxSize - m.position

Read(m, size) ==
  IF CanRead(m, size) THEN [m EXCEPT !.position = @ + size]
  ELSE [m EXCEPT !.overrun = TRUE]

-------------------------------------------------------------------------------
(* OutputMessage and Protocol::onSendMessage *)

AddedHeader(m, size) ==
  [m EXCEPT !.start = @ - size, !.length = @ + size]

(* What XTEA_encrypt adds so that the length is a multiple of 8.           *)
NotPadded(m) == m
Padded(m) == IF m.length % 8 = 0 THEN m ELSE AddedPadding(m, 8 - (m.length % 8))

Modes == {"raw", "plain", "encrypted", "unchecked"}

Framed(m, mode) ==
  LET inner == AddedHeader(m, 2)
      cipher == Padded(inner)
      checked == IF mode = "encrypted" THEN AddedHeader(cipher, 4) ELSE cipher
      last == CASE mode = "raw" -> m
                [] mode = "plain" -> inner
                [] OTHER -> AddedHeader(checked, 2)
  IN [mode |-> mode,
      body |-> m.length,
      cipher |-> IF mode \in {"raw", "plain"} THEN 0 ELSE cipher.length,
      start |-> last.start,
      header |-> IF mode \in {"raw", "plain"} THEN m.length ELSE checked.length,
      sent |-> last.length]

(* getOutputBuffer(size), to which the caller then adds size bytes.  A     *)
(* buffer without room is sent before a new one is taken.                  *)
HasRoomForBody(size) == msg.length + size <= MaxBodyLength
HasRoom(size) == msg.length + size <= MaxProtocolBodyLength
GetOutputBuffer(size, mode) ==
  /\ role = "autosend"
  /\ \/ /\ HasRoom(size)
        /\ msg' = AddedBytes(msg, size)
        /\ asked' = asked + size
        /\ UNCHANGED frame
     \/ /\ ~HasRoom(size)
        /\ frame' = Framed(msg, mode)
        /\ msg' = AddedBytes(Fresh, size)
        /\ asked' = size
  /\ UNCHANGED <<role, inVars>>

(* OutputMessagePool::sendAll takes the buffer away; the next one is fresh *)
SendAutosend(mode) ==
  /\ role = "autosend"
  /\ asked > 0
  /\ frame' = Framed(msg, mode)
  /\ msg' = Fresh
  /\ asked' = 0
  /\ UNCHANGED <<role, inVars>>

AddToMessage ==
  /\ role = "direct"
  /\ \/ \E size \in {1, 2, 4} : msg' = Added(msg, size)
     \/ \E size \in 0..MaxString : msg' = AddedString(msg, size)
     \/ \E size \in 0..MaxString : msg' = AddedBytes(msg, size)
  /\ UNCHANGED <<role, outVars, inVars>>

SendMessage(mode) ==
  /\ role = "direct"
  /\ frame' = Framed(msg, mode)
  /\ msg' = Fresh
  /\ UNCHANGED <<role, asked, inVars>>

-------------------------------------------------------------------------------
(* Incoming packets: Connection and Protocol *)

(* The rest of the packet goes behind the header, where getBodyBuffer puts *)
(* the position; a connection with a bad length is closed.                 *)
ParseHeader(size) ==
  /\ role = "incoming"
  /\ phase = "header"
  /\ IF size = 0 \/ size >= MaxSize - 16
     THEN /\ phase' = "closed"
          /\ UNCHANGED <<msg, received>>
     ELSE /\ phase' = "body"
          /\ received' = HeaderLength + size
          /\ msg' = [msg EXCEPT !.length = HeaderLength + size,
                                !.position = HeaderLength]
  /\ UNCHANGED <<role, outVars, receivedFirst, historyVars>>

(* A checksum that does not match was none: the position steps back.       *)
Checked(m, matches) ==
  LET read == Read(m, ChecksumLength)
  IN IF matches THEN read ELSE [read EXCEPT !.position = @ - ChecksumLength]

OpenedAs(how, says, plain) ==
  opening' = how /\ content' = says /\ plainEnd' = plain

(* The first packet starts with the identifier of a protocol of the port   *)
(* (or the connection is closed), and may be an RSA block, of which the    *)
(* first byte is read; otherwise the protocol disconnects.                 *)
ParseFirst(matches, rsa) ==
  /\ role = "incoming"
  /\ phase = "body"
  /\ ~receivedFirst
  /\ LET m == Read(Checked(msg, matches), 1)
         isBlock == m.length - m.position = RsaLength
     IN \/ /\ msg' = m
           /\ phase' = "closed"
        \/ /\ ~rsa
           /\ msg' = m
           /\ phase' = "parse"
        \/ /\ rsa /\ isBlock
           /\ msg' = Read(m, 1)
           /\ phase' = "parse"
        \/ /\ rsa /\ ~isBlock
           /\ msg' = m
           /\ phase' = "closed"
  /\ receivedFirst' = TRUE
  /\ OpenedAs("plain", received, received)
  /\ UNCHANGED <<role, outVars, received>>

(* onRecvMessage: without encryption the packet is parsed as it is; with   *)
(* it length - 6 bytes are decrypted from the position on, after a         *)
(* checksum or after the header if there was none, and the inner length,   *)
(* the first of them, becomes the length.                                  *)
FitsInside(m, inner) == inner + 8 <= m.length
ParseNext(matches, encrypted, inner) ==
  /\ role = "incoming"
  /\ phase = "body"
  /\ receivedFirst
  /\ LET m == Checked(msg, matches)
         deciphered == Read(m, 2)
     IN \/ /\ ~encrypted
           /\ msg' = m
           /\ phase' = "parse"
           /\ OpenedAs("plain", received, received)
        \/ /\ encrypted /\ (m.length - 6) % 8 # 0
           /\ msg' = m
           /\ phase' = "header"
           /\ UNCHANGED historyVars
        \/ /\ encrypted /\ (m.length - 6) % 8 = 0 /\ ~FitsInside(m, inner)
           /\ msg' = deciphered
           /\ phase' = "header"
           /\ UNCHANGED historyVars
        \/ /\ encrypted /\ (m.length - 6) % 8 = 0 /\ FitsInside(m, inner)
           /\ msg' = [deciphered EXCEPT !.length = inner]
           /\ phase' = "parse"
           /\ OpenedAs(IF matches THEN "encrypted" ELSE "unchecked",
                       deciphered.position + inner, m.position + (m.length - 6))
  /\ UNCHANGED <<role, outVars, received, receivedFirst>>

(* The protocol reads numbers and strings, as many as it likes; what is    *)
(* read of a string first is its length.                                   *)
ReadNumber(size) ==
  /\ role = "incoming"
  /\ phase = "parse"
  /\ msg' = Read(msg, size)
  /\ UNCHANGED <<role, outVars, inVars>>

ReadString(length) ==
  /\ role = "incoming"
  /\ phase = "parse"
  /\ msg' = IF CanRead(msg, 2) THEN Read(Read(msg, 2), length)
            ELSE Read(Read(msg, 2), 0)
  /\ UNCHANGED <<role, outVars, inVars>>

(* The protocol returns and the connection waits for the next header.      *)
Parsed ==
  /\ role = "incoming"
  /\ phase = "parse"
  /\ phase' = "header"
  /\ UNCHANGED <<role, msg, outVars, received, receivedFirst, historyVars>>

Next ==
  \/ \E mode \in Modes :
       \/ \E size \in 1..MaxString : GetOutputBuffer(size, mode)
       \/ SendAutosend(mode)
       \/ SendMessage(mode)
  \/ AddToMessage
  \/ \E size \in 0..MaxSize : ParseHeader(size)
  \/ \E matches, flag \in BOOLEAN :
       \/ ParseFirst(matches, flag)
       \/ \E inner \in 0..MaxSize : ParseNext(matches, flag, inner)
  \/ \E size \in {1, 2, 4} : ReadNumber(size)
  \/ \E length \in 0..MaxSize : ReadString(length)
  \/ Parsed

Spec == Init /\ [][Next]_vars

-------------------------------------------------------------------------------
(* Properties *)

(* Each variable stays in its type, in particular MsgSize_t never becomes  *)
(* negative; an outgoing message starts where its length says.             *)
TypeOK ==
  /\ role \in {"autosend", "direct", "incoming"}
  /\ msg \in [length : 0..MaxSize, position : 0..MaxSize,
              overrun : BOOLEAN, start : 0..InitialPosition]
  /\ role # "incoming" => msg.position = InitialPosition + msg.length
  /\ asked \in Nat
  /\ frame.mode \in Modes \cup {"none"}
  /\ phase \in {"header", "body", "parse", "closed"}
  /\ received \in 0..MaxSize
  /\ receivedFirst \in BOOLEAN
  /\ opening \in {"plain", "encrypted", "unchecked"}
  /\ content \in 0..MaxSize /\ plainEnd \in 0..MaxSize

(* One size of body leaves no room for its padding; addPaddingBytes then   *)
(* adds nothing, and a length that is no multiple of 8 is encrypted.       *)
TooLongToPad == MaxBodyLength - InitialPosition - 1

(* The rules of Connection::parseHeader, parsePacket and of                *)
(* Protocol::XTEA_decrypt, which the other side of the connection mirrors. *)
Decodable(f) ==
  LET total == f.header + HeaderLength
  IN /\ f.header # 0 /\ f.header < MaxSize - 16
     /\ f.sent = total
     /\ (total - 6) % 8 = 0
     /\ f.body + 8 <= total

(* What onSendMessage frames fits in the room in front of the message (the *)
(* assertion in add_header) and in the buffer, and what it encrypts can be *)
(* decoded by the rules of the receiving side, except for that one size.   *)
FrameIsDecodable ==
  /\ TypeOK
  /\ frame.start >= 0
  /\ frame.start + frame.sent <= MaxSize
  /\ frame.mode = "encrypted" /\ frame.body # TooLongToPad => Decodable(frame)

(* What getOutputBuffer(size) returns has room for size bytes: nothing is  *)
(* dropped from an autosend message, and it is never too long to pad.      *)
AutosendKeepsAll ==
  role = "autosend" =>
    /\ msg.length = asked
    /\ frame.mode # "none" => frame.body < TooLongToPad

(* canRead counts from the end of the three headers, wherever the packet   *)
(* starts, so it lets a protocol read past the end of some packets.        *)
PastContent ==
  CASE opening = "plain" -> 8
    [] opening = "unchecked" -> ChecksumLength
    [] opening = "encrypted" -> 0

(* How far a protocol reads.  What an encrypted packet says it holds was   *)
(* received and was decrypted.  Reading ends with it when the packet had a *)
(* checksum; without one it can go 4 bytes further, over bytes that may    *)
(* not have been decrypted but were received; and in a packet that was not *)
(* encrypted, as every first one, 8 bytes further, over what the buffer    *)
(* held before.  It never leaves the buffer.                               *)
ReadsAreBounded ==
  role = "incoming" /\ phase = "parse" =>
    /\ content <= plainEnd /\ plainEnd <= received
    /\ msg.position <= content + PastContent
    /\ opening # "plain" => msg.position <= received
    /\ msg.position < MaxSize
===============================================================================
