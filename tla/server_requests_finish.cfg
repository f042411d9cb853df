\* Liveness: nested mutexes, two workers and the shell.
CONSTANTS
  Workers = {w1, w2}
  Admin = admin
  Nobody = nobody
  Clients = {c1}
  MaxSessions = 1
  StrayIds = FALSE
SPECIFICATION FairSpec
PROPERTY RequestsFinish
CHECK_DEADLOCK FALSE
