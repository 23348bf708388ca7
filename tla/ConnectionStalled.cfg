\* The peer may also stop reading.
CONSTANTS
  Msgs = {m1}
  MaxPackets = 2
SPECIFICATION FairSpec
PROPERTY ClosedSocketCloses
CHECK_DEADLOCK FALSE
