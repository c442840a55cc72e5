\* A failed read in truncate or release: the operation never ends.
SPECIFICATION FairSpec
CONSTANTS
  Files = {f1, f2}
  Total = 4
  Packed = FALSE
  Builds = {FALSE}
  CountKnown = TRUE
  CountMod = 16
  MaxBusy = 1
  MaxAllocators = 1
  MaxOps = 4
  MaxReadFaults = 1
  MaxWriteFaults = 0
PROPERTY IoErrorsEnd
CHECK_DEADLOCK FALSE
