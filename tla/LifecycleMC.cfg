\* Two tasks from the network: a signal, a second shutdown, or one after the
\* other.
CONSTANT MaxPosted = 2
SPECIFICATION FairLifecycleSpec
INVARIANT
  MainFollowsLoader
PROPERTIES
  NotOnlineReturns
  ShutdownEndsTheRest
\* main() returns in the end, or waits for ever.
CHECK_DEADLOCK FALSE
