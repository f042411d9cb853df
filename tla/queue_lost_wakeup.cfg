\* A packet whose notify_one() found no sleeping worker stays behind.
CONSTANTS
  Workers = {w1, w2}
  Main = main
  Admin = admin
  Nobody = nobody
  MaxPackets = 2
SPECIFICATION FairSpec
PROPERTY QueuedIsTaken
CHECK_DEADLOCK FALSE
