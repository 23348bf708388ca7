\* Two callers, due times 0 and 1, and three events on two identifiers, so
\* that lastEventId wraps around; no symmetry, because of the liveness
\* property.
CONSTANTS
  Clients = {c1, c2}
  Events = {e1, e2, e3}
  IdLimit = 3
  MaxTime = 1
  None = none
SPECIFICATION FairSpec
INVARIANTS
  NoOversleep
  ActiveIdsMatchQueue
PROPERTIES
  TimerSpec
  DueEventLeavesQueue
\* The clients may never call again.
CHECK_DEADLOCK FALSE
