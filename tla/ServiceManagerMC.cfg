\* Two ports, two ordinary protocols and one that sends first.
CONSTANTS
  Ports = {p1, p2}
  Protocols = {login, status, first}
  SingleSocket = {first}
SPECIFICATION FairSpec
INVARIANTS
  AcceptsOrReopens
  StoppedPortStaysClosed
PROPERTY PortRecovers
\* The manager stops with the network.
CHECK_DEADLOCK FALSE
