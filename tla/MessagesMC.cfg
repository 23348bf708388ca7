\* A body of at most 24 bytes (24576 in the code); words of 8 bits and bytes
\* of 3 values, so that a string of 9 is longer than its length can say.
CONSTANTS
  MaxSize = 38
  MaxString = 8
  RsaLength = 9
  WordBits = 8
  Delta = 185
  KeyShift = 3
  XteaKeys <- SomeKeys
  XteaWords <- SomeWords
  MaxBlocks = 300
  ByteLimit = 3
  AdlerModulus = 13
  AdlerBlock = 10
  MaxChecked = 38
  MaxItems = 3
SPECIFICATION PartSpec
INVARIANTS
  FrameIsDecodable
  AutosendKeepsAll
  ReadsAreBounded
  DecryptInverts
  ChecksumIsExact
  PropsReadBack
\* A connection that was closed reads nothing more; an
\* input is never changed.
CHECK_DEADLOCK FALSE
