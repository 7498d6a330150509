SPECIFICATION FairSpec
CONSTANTS
  t1 = t1
  t2 = t2
  t3 = t3
  Threads <- TwoThreads
  Fds <- TwoFds
  None = None
  Outcomes = {"command"}
  Destroyed = TRUE
PROPERTY LeaderElected
PROPERTY LeaderStops
PROPERTY InputConsumed
CHECK_DEADLOCK FALSE
