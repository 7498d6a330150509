SPECIFICATION FairSpec
CONSTANTS
  t1 = t1
  t2 = t2
  t3 = t3
  Threads <- TwoThreads
  Fds <- OneFd
  None = None
  Outcomes = {"hangup"}
  Destroyed = FALSE
PROPERTY ClosedFdRemoved
CHECK_DEADLOCK FALSE
