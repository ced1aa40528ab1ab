SPECIFICATION FairSpec
CONSTANTS
  Conns = {c1, c2, c3}
  FdLimit = 2
CHECK_DEADLOCK FALSE
INVARIANTS
  TypeOK
  ConnectionsAccounted
  OkMeansStopped
PROPERTIES
  QueuedResolved
  IsChildProcess
