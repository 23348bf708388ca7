\* Whether the thread always ends after shutdown().
CONSTANTS
  Clients = {c1}
  Events = {e1}
  IdLimit = 3
  MaxTime = 1
  None = none
SPECIFICATION FairSpec
PROPERTY ShutdownEndsThread
CHECK_DEADLOCK FALSE
