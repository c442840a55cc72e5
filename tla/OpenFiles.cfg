\* Directory entries and positions of open files, see MCOpenFiles.
SPECIFICATION PartSpec
CONSTANTS
  Total = 3
  Handles = {f1, f2}
  Names = {a, b}
  NoName = NoName
  Slots = 2
  MaxIds = 3
  MaxLen = 2
  MaxGen = 2
  Programs <- MCPrograms
  ClusterSize = 2
  MaxSize = 5
  MaxBuf = 4
  Values = {x, y}
  MultiCluster = TRUE
  Defects = FALSE
SYMMETRY Symmetry
INVARIANTS
  EntriesIntact
  ChainsMatchSizes
  DataIntact
  CursorMatchesOffset
PROPERTIES
  StaleOnlyWhenStale
  ImplementsFileStore
CHECK_DEADLOCK FALSE
