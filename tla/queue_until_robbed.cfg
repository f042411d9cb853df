\* Any unlock frees the mutex; wait() may return early: what holds until a
\* thread is robbed of the mutex, and the wakeups.
CONSTANTS
  Workers = {w1, w2, w3}
  Main = main
  Admin = admin
  Nobody = nobody
  MaxPackets = 4
SPECIFICATION Spec
INVARIANTS
  TypeOK
  ExclusionUntilRobbed
  InOrderUntilRobbed
  BacklogIsLostWakeups
CHECK_DEADLOCK FALSE
PROPERTY ImplementsPool
SYMMETRY WorkerSymmetry
