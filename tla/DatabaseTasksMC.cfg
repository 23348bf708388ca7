\* Two clients, either of which may flush or shut down, and three statements,
\* two of them with a callback.
CONSTANTS
  Clients = {c1, c2}
  Worker = w
  Statements = {s1, s2, s3}
  Asking = {s1, s2}
  None = none
SPECIFICATION FairSpec
INVARIANTS
  ExecutedOnce
  OvertakenOnlyInHand
PROPERTY AcceptedStatementRuns
\* The clients may never call again.
CHECK_DEADLOCK FALSE
