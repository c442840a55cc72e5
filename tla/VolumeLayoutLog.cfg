CONSTANTS
  Sizes <- Boundaries
  SectorSizes = {512, 4096}
  ClusterSizes = {0, 512, 4096}
  RootSizes = {16, 512}
  Reservations <- Asked
  Configs <- Automatic
  MaxPending = 2
SPECIFICATION Spec
INVARIANT LogSparesTheVolume
CHECK_DEADLOCK FALSE
