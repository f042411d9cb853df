\* Clients use the ids they were told.
CONSTANTS
  Workers = {w1, w2}
  Admin = admin
  Nobody = nobody
  Clients = {c1, c2}
  MaxSessions = 2
  StrayIds = FALSE
SPECIFICATION Spec
INVARIANTS
  ToldReachesClient
  BroadcastReachesTold
  NewIdsAreOpen
SYMMETRY Symmetric
CHECK_DEADLOCK FALSE
