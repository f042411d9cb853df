\* The second unlock frees a mutex that somebody else holds.
CONSTANTS
  Workers = {w1, w2}
  Main = main
  Admin = admin
  Nobody = nobody
  MaxPackets = 3
SPECIFICATION Spec
INVARIANT MutualExclusion
CHECK_DEADLOCK FALSE
