SPECIFICATION Spec
CONSTANTS
  t1 = t1
  t2 = t2
  t3 = t3
  Threads <- TwoThreads
  Fds <- TwoFds
  None = None
  Outcomes = {"command", "exit", "hangup", "throw"}
  Destroyed = TRUE
SYMMETRY Symmetry
INVARIANT AtMostOneLeader
INVARIANT NoLostWakeup
INVARIANT ScanStable
INVARIANT IInv
PROPERTY ImplementsPool
CHECK_DEADLOCK FALSE
