\* Every packet type, any session id in it.
CONSTANTS
  Workers = {w1, w2, w3}
  Admin = admin
  Nobody = nobody
  Clients = {c1}
  MaxSessions = 2
  StrayIds = TRUE
SPECIFICATION Spec
INVARIANTS
  TypeOK
  SelectedAreOpen
  OpenIsConnected
  NoCircularWait
PROPERTIES
  ImplementsLifecycle
  RequestsShorten
SYMMETRY Symmetric
CHECK_DEADLOCK FALSE
