SPECIFICATION FairSpec
CONSTANTS
  Nodes = {n1}
  NULL = NULL
  SingleMoves = TRUE
PROPERTIES
  EmptyReturns
CHECK_DEADLOCK FALSE
