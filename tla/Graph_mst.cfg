SPECIFICATION MstSpec
CONSTANTS
  N = 4
  Args <- VertexArgs
  Weights <- SomeWeights
  no_edge <- NoEdgeWeight
  Threw = Threw
  MaxEdges = 1
  EditArgs <- SomeEdits
  MaxEdits = 2
  Infinity <- InfiniteWeight
  NoVertex = NoVertex
INVARIANT MstInv
INVARIANT SubgraphConsistent
INVARIANT ReturnsMst
INVARIANT UnionFindMatches
INVARIANT CostsOfCut
INVARIANT UtilitiesRight
PROPERTY ImplementsGraph
ACTION_CONSTRAINT StartOncePerGraph
CHECK_DEADLOCK FALSE
