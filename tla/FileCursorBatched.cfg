\* The batched path as the code has it.
SPECIFICATION CursorSpec
CONSTANTS
  Total = 3
  ClusterSize = 2
  MaxSize = 5
  MaxBuf = 4
  Values = {x, y}
  MultiCluster = TRUE
  Defects = TRUE
SYMMETRY Symmetry
INVARIANTS
  CursorMatchesOffset
CHECK_DEADLOCK FALSE
