SPECIFICATION Spec
CONSTANTS
  t1 = t1
  t2 = t2
  t3 = t3
  Threads <- TwoThreads
  Fds <- TwoFds
  None = None
  Outcomes = {"exit"}
  Destroyed = FALSE
SYMMETRY Symmetry
INVARIANT HandlerGetsEventFd
CHECK_DEADLOCK FALSE
