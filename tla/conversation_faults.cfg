\* One datagram is repeated and the server is restarted twice, in any order.
SPECIFICATION Spec
CONSTANTS
  Clients = {c1, c2}
  Nobody = nobody
  MaxSessions = 3
  MaxPackets = 4
  MaxDuplicates = 1
  MaxRestarts = 2
INVARIANTS
  TypeOK
  AnswersMatchUnlessRepeated
  ConnectAnswerIsConnect
  NobodyTerminates
  OnlyOwnersPass
PROPERTY ImplementsExchange
CHECK_DEADLOCK FALSE
