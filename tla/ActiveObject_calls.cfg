SPECIFICATION FairSpec
CONSTANTS
  c1 = c1
  c2 = c2
  c3 = c3
  c4 = c4
  Calls <- FourCalls
  None = None
  Returns = TRUE
  MayThrow = TRUE
  LateCalls = TRUE
INVARIANT FifoOrder
INVARIANT NoSleepOnWork
INVARIANT IInv
PROPERTY ImplementsExecutor
PROPERTY DestructorReturns
PROPERTY FuturesResolve
CHECK_DEADLOCK FALSE
