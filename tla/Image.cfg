\* Regions, the FAT's bytes, the audit log and names, see MCImage.
SPECIFICATION PartSpec
CONSTANTS
  Sizes <- Boundaries
  SectorSizes = {512, 4096}
  ClusterSizes = {0, 512, 4096}
  RootSizes = {16, 512}
  Reservations <- Asked
  Configs <- Placements
  MaxPending = 2
  Total = 3
  Spare = 2
  Slots = 3
  Room = 2
  MaxEntries = 6
  AuditConfigs <- Levels
  LongNames <- Created
  ForeignNames <- FromOutside
  BaseLen = 4
  ExtLen = 1
  PrefixLen = 2
  ShortPrefixLen = 1
  ChkLen = 1
  PartLen = 3
  LongForms = 1
  ChkForms = 1
  Sums = 2
  SumOf <- Length
  Hex <- Digit
  Wide = {"FFFF"}
  SfnSum <- CountOfB
  MaxSlots = 6
INVARIANTS
  FatHoldsEveryCluster
  MountsAsFormatted
  TableIsExact
  ShortNamesUnique
  NamesReadBack
PROPERTY
  FlushedIsRead
CHECK_DEADLOCK FALSE
