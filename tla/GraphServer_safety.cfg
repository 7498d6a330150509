SPECIFICATION Spec
CONSTANTS
  h1 = h1
  h2 = h2
  h3 = h3
  Handlers = {h1, h2}
  None = None
  NoGraph = NoGraph
  Missing = Missing
  Sizes = {2}
  Args = {0, 1}
  Weights = {0, 1}
  no_edge <- NoEdgeWeight
  MaxEdges = 2
CHECK_DEADLOCK FALSE
SYMMETRY HandlerSymmetry
INVARIANTS
  IInv
  LockDiscipline
  GraphPresent
  ReportOfOneGraph
PROPERTIES
  UndisturbedWhileRead
  ImplementsService
