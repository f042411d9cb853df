\* Whatever the second unlock does, every thread goes on.
CONSTANTS
  Workers = {w1, w2}
  Main = main
  Admin = admin
  Nobody = nobody
  MaxPackets = 3
SPECIFICATION FairSpec
PROPERTY NobodyStuck
CHECK_DEADLOCK FALSE
