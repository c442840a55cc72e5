\* Two files grow at once: both get the same cluster.
SPECIFICATION Spec
CONSTANTS
  Files = {f1, f2}
  Total = 4
  Packed = FALSE
  Builds = {TRUE, FALSE}
  CountKnown = TRUE
  CountMod = 16
  MaxBusy = 2
  MaxAllocators = 2
  MaxOps = 4
  MaxReadFaults = 0
  MaxWriteFaults = 0
INVARIANT NotCrossLinked
CHECK_DEADLOCK FALSE
