--------------------------------- MODULE Bytes ---------------------------------
(***************************************************************************)
(* What is done to bytes: the cipher (xtea.cpp), the checksum in front of  *)
(* a packet (adlerChecksum, tools.cpp) and streams of properties           *)
(* (fileloader.h).  All of it is functions; a behaviour has one input,     *)
(* and the properties compare what they make of it with what it should be. *)
(* The width of a word, 32 bits in the code, is a parameter.               *)
(***************************************************************************)
EXTENDS Integers, Sequences, SequencesExt, Bitwise, TLC

CONSTANTS
  WordBits,     \* bits of a word of the cipher, 32
  Delta,        \* 0x9E3779B9 in so many bits
  KeyShift,     \* 11: which bits of the sum choose a word of the key
  XteaKeys,     \* keys that are tried
  XteaWords,    \* words that are tried in a block
  MaxBlocks,    \* bound on the blocks of a message
  ByteLimit,    \* values of a byte, 256
  AdlerModulus, \* 65521
  AdlerBlock,   \* 5552: bytes that are summed up between two reductions
  MaxChecked,   \* NETWORKMESSAGE_MAXSIZE: the checksum of more bytes is 0
  MaxItems      \* bound on the properties in a stream

ASSUME BytesAssumption ==
  /\ {WordBits, Delta, KeyShift, MaxBlocks, MaxChecked, MaxItems} \subseteq Nat
  /\ {ByteLimit, AdlerModulus, AdlerBlock} \subseteq Nat \ {0, 1}
  /\ XteaKeys \subseteq [0..3 -> 0..(2 ^ WordBits - 1)]
  /\ XteaWords \subseteq 0..(2 ^ WordBits - 1)

VARIABLE input  \* what the functions are applied to

NoInput == [kind |-> "none"]

-------------------------------------------------------------------------------
(* XTEA *)

Word(n) == n % (2 ^ WordBits)

(* What a round adds to one half: from the other half, the sum, the key.   *)
Mix(v, sum, k) ==
  (Word((Word(v * 16) ^^ (v \div 32)) + v)) ^^ (Word(sum + k))

LowKey(key, sum) == key[sum % 4]
HighKey(key, sum) == key[(sum \div (2 ^ KeyShift)) % 4]

Encrypt(block, key) ==
  LET after[i \in 0..32] ==
        IF i = 0 THEN [left |-> block[1], right |-> block[2], sum |-> 0]
        ELSE LET s == after[i - 1]
                 left == Word(s.left + Mix(s.right, s.sum, LowKey(key, s.sum)))
                 sum == Word(s.sum + Delta)
             IN [left |-> left, sum |-> sum,
                 right |-> Word(s.right + Mix(left, sum, HighKey(key, sum)))]
  IN <<after[32].left, after[32].right>>

LastSumOfRounds == Word(Delta * 31)
LastSum == Word(Delta * 32)
Decrypt(block, key) ==
  LET after[i \in 0..32] ==
        IF i = 0 THEN [left |-> block[1], right |-> block[2], sum |-> LastSum]
        ELSE LET s == after[i - 1]
                 right == Word(s.right - Mix(s.left, s.sum, HighKey(key, s.sum)))
                 sum == Word(s.sum - Delta)
             IN [right |-> right, sum |-> sum,
                 left |-> Word(s.left - Mix(right, sum, LowKey(key, sum)))]
  IN <<after[32].left, after[32].right>>

(* The blocks of a message are taken in groups: as many whole groups of    *)
(* the largest size as there are, then of half the size and so on, to 1.   *)
Groups(size, n) == n - (n % size)
Taken(n, largest) ==
  LET from[size \in 1..largest] ==
        [first, rest \in 0..n |->
          [i \in 1..Groups(size, rest) |-> first + i]
            \o IF size = 1 THEN <<>>
               ELSE from[(size + 1) \div 2][first + Groups(size, rest),
                                            rest - Groups(size, rest)]]
  IN from[largest][0, n]

Compilers == {1, 2, 8, 32, 128}

Blocks == [kind : {"block"}, key : XteaKeys, block : XteaWords \X XteaWords]
Contents == [kind : {"blocks"}, blocks : 0..MaxBlocks, largest : Compilers]

(* Decrypting what was encrypted gives it back, and each block of a        *)
(* message is enciphered, once, whatever the instruction set of the build. *)
DecryptInverts ==
  /\ input.kind = "block" =>
       Decrypt(Encrypt(input.block, input.key), input.key) = input.block
  /\ input.kind = "blocks" =>
       Taken(input.blocks, input.largest) = [i \in 1..input.blocks |-> i]

-------------------------------------------------------------------------------
(* adlerChecksum: two sums in words that may overflow, reduced when a      *)
(* block has been added.                                                   *)

BlockOneLonger(rest) == IF rest > AdlerBlock THEN AdlerBlock + 1 ELSE rest
BlockOf(rest) == IF rest > AdlerBlock THEN AdlerBlock ELSE rest

AdlerSums(bytes) ==
  LET Reduced(s) == [a |-> s.a % AdlerModulus, b |-> s.b % AdlerModulus]
      start == [a |-> 1, b |-> 0, left |-> BlockOf(Len(bytes))]
      after[i \in 0..Len(bytes)] ==
        IF i = 0 THEN start
        ELSE LET s == after[i - 1]
                 sums == [a |-> Word(s.a + bytes[i]),
                          b |-> Word(s.b + Word(s.a + bytes[i]))]
             IN IF s.left > 1 THEN sums @@ [left |-> s.left - 1]
                ELSE Reduced(sums) @@ [left |-> BlockOf(Len(bytes) - i)]
  IN IF Len(bytes) > MaxChecked THEN [a |-> 0, b |-> 0]
     ELSE [a |-> after[Len(bytes)].a, b |-> after[Len(bytes)].b]

(* Some bytes of one value, then the largest there are.                    *)
Patterns(n) ==
  {[i \in 1..n |-> IF i <= k THEN v ELSE ByteLimit - 1]
     : k \in 0..n, v \in 0..(ByteLimit - 1)}

Packets == [kind : {"packet"}, bytes : UNION {Patterns(n) : n \in 0..MaxChecked}]

(* The checksum is Adler-32's, for packets of several blocks and of the    *)
(* largest bytes too: no sum overflows before it is reduced.               *)
ChecksumIsExact ==
  input.kind = "packet" =>
    LET n == Len(input.bytes)
        weighted == [i \in 1..n |-> (n + 1 - i) * input.bytes[i]]
        Total(seq) == FoldLeft(+, 0, seq)
    IN AdlerSums(input.bytes) =
         [a |-> (1 + Total(input.bytes)) % AdlerModulus,
          b |-> (n + Total(weighted)) % AdlerModulus]

-------------------------------------------------------------------------------
(* Streams of properties: numbers, written as their bytes, and strings, in *)
(* front of which their length is written as a number of two bytes.        *)

MaxLength == ByteLimit * ByteLimit - 1
LengthBytes(n) == <<n % ByteLimit, (n \div ByteLimit) % ByteLimit>>
LengthOf(bytes) == bytes[1] + ByteLimit * bytes[2]

(* A string that is too long is written as an empty one.                   *)
KeptWhole(str) == str
Kept(str) == IF Len(str) > MaxLength THEN <<>> ELSE str
WrittenString(str) == LengthBytes(Len(Kept(str))) \o Kept(str)
Written(item) ==
  IF item.kind = "string" THEN WrittenString(item.value) ELSE item.value
Stream(items) == FoldLeft(LAMBDA stream, item : stream \o Written(item), <<>>, items)

(* A read that finds too few bytes left fails and takes none of them; but  *)
(* readString has taken the length then.                                   *)
ReadBytes(s, n) ==
  IF Len(s.rest) < n THEN [s EXCEPT !.failed = TRUE]
  ELSE [s EXCEPT !.rest = SubSeq(@, n + 1, Len(@)), !.got = SubSeq(s.rest, 1, n)]
ReadPropString(s) ==
  LET length == ReadBytes(s, 2)
  IN IF length.failed THEN length ELSE ReadBytes(length, LengthOf(length.got))
ReadItem(s, item) ==
  IF item.kind = "string" THEN ReadPropString(s) ELSE ReadBytes(s, Len(item.value))

(* What a reader gets that knows the kinds and stops at the first failure. *)
ReadAll(stream, items) ==
  LET Step(s, item) ==
        LET read == ReadItem(s, item)
        IN IF s.failed THEN s
           ELSE IF read.failed THEN read
           ELSE [read EXCEPT !.values = Append(@, read.got)]
  IN FoldLeft(Step, [rest |-> stream, got |-> <<>>, values |-> <<>>,
                     failed |-> FALSE], items).values

SomeItems ==
  LET Some(kind, n) ==
        [kind |-> kind, value |-> [i \in 1..n |-> (n + i) % ByteLimit]]
  IN {Some("number", n) : n \in {1, 2, 4}}
       \cup {Some("string", n) : n \in {0, 1, MaxLength, MaxLength + 1}}

Streams == [kind : {"stream"}, items : SeqOf(SomeItems, MaxItems)]

(* A stream that was cut off anywhere gives back exactly the properties    *)
(* that lie wholly in what is left of it, each as it was written.          *)
PropsReadBack ==
  input.kind = "stream" =>
    LET items == input.items
        stream == Stream(items)
        ends == [k \in 0..Len(items) |-> Len(Stream(SubSeq(items, 1, k)))]
        values == [i \in 1..Len(items) |->
                     IF Len(items[i].value) > MaxLength THEN <<>>
                     ELSE items[i].value]
        Whole(cut) == CHOOSE k \in 0..Len(items) :
                        /\ ends[k] <= cut
                        /\ k < Len(items) => ends[k + 1] > cut
    IN \A cut \in 0..Len(stream) :
         ReadAll(SubSeq(stream, 1, cut), items) = SubSeq(values, 1, Whole(cut))

-------------------------------------------------------------------------------
Inputs == Blocks \cup Contents \cup Packets \cup Streams
===============================================================================
