SPECIFICATION FairSpec
CONSTANTS
  Fds <- ThreeFds
  None = None
  Outcomes = {"command", "newgraph", "exit", "hangup", "throw"}
  MaxStarts = 2
INVARIANT HandlerNeverBlocks
INVARIANT StopDrains
INVARIANT IInv
PROPERTY ClosedFdRemoved
PROPERTY StopReturns
PROPERTY EventHandled
CHECK_DEADLOCK FALSE
