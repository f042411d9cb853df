\* The default mutex: any unlock frees it; wait() may return unnotified.
CONSTANTS
  Main = main
  Listener = listener
  Nobody = nobody
  MaxPackets = 3
SPECIFICATION FairSpec
INVARIANTS
  TypeOK
  MutualExclusion
  BacklogIsLostWakeups
PROPERTIES
  ImplementsPool
  SleeperReads
CHECK_DEADLOCK FALSE
