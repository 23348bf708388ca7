\* Two threads beside the dispatcher, three ordinary tasks, one of which may
\* expire, and one call of shutdown(); no symmetry, because of the liveness
\* properties.
CONSTANTS
  Clients = {c1, c2}
  Worker = w
  Tasks = {t1, t2, t3, s1}
  StopTasks = {s1}
  Expirable = {t3}
  None = none
SPECIFICATION FairSpec
INVARIANTS
  TypeOK
  NoLostWakeup
  TaskOwnership
  GracefulStopStrandsNothing
PROPERTIES
  ExecutorSpec
  AcceptedTaskCompletes
  ShutdownEndsThread
\* The dispatcher's clients may never call again.
CHECK_DEADLOCK FALSE
