SPECIFICATION FairSpec
CONSTANTS
  t1 = t1
  t2 = t2
  t3 = t3
  Threads <- TwoThreads
  Fds <- NoFds
  None = None
  Outcomes = {}
  Destroyed = TRUE
PROPERTY DestructorReturns
CHECK_DEADLOCK FALSE
