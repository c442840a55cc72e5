\* Three programs over one volume, see MCAllocation.
SPECIFICATION FairProgramSpec
CONSTANTS
  Files = {f1, f2}
  Total = 3
  Packed = FALSE
  Builds = {TRUE, FALSE}
  CountKnown = TRUE
  CountMod = 16
  MaxBusy = 2
  MaxAllocators = 1
  MaxOps = 7
  MaxReadFaults = 1
  MaxWriteFaults = 1
INVARIANTS
  TypeOK
  ChainsIntact
  NotCrossLinked
  QuietIsExact
  SerialHintIsFree
PROPERTIES
  FullMeansFull
  OperationsEnd
CHECK_DEADLOCK FALSE
