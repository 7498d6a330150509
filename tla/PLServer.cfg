SPECIFICATION FairSpec
CONSTANTS
  NoGraph = NoGraph
  Missing = Missing
  Sizes = {2}
  Args = {0, 1}
  Weights = {0, 1}
  no_edge <- NoEdgeWeight
  MaxEdges = 1
  MaxBatch = 2
CHECK_DEADLOCK FALSE
INVARIANTS
  IInv
  PointersValid
  CleanExit
PROPERTIES
  ServerEnds
  ImplementsService
