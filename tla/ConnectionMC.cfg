\* Two messages and four completed reads: two packets of two reads each.  The
\* peer may go silent and may reset the connection, but reads what it is sent.
CONSTANTS
  Msgs = {m1, m2}
  MaxPackets = 4
SPECIFICATION ResponsiveSpec
INVARIANTS
  WritesInTurn
  ReleaseMatchesClose
PROPERTIES
  ChannelSpec
  ConnectionDies
\* A destroyed connection does nothing more.
CHECK_DEADLOCK FALSE
