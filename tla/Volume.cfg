\* The power lost between any two writes of the disk, see MCVolume: three
\* sectors and two slots of the cache, so that an access can evict another sector;
\* entries that do not cross a sector (FAT16, FAT32); two slots of the log.
SPECIFICATION PartSpec
CONSTANTS
  SectorSize = 2
  Sectors = 3
  CacheSlots = 2
  Copies = 2
  Width = 1
  Offsets = {0, 2, 4}
  Values = {0, 1}
  NoSector = NoSector
  ClockMod = 4
  MaxWrites = 2
  MaxFaults = 1
  MaxLosses = 1
  a = a
  b = b
  Tasks = {task1}
  Names = {a, b}
  Length <- MCLength
  BadName = BadName
  Slots = 3
  Total = 2
  Programs <- MCPrograms
  MaxBusy = 1
  MaxOps = 5
  MaxCrashes = 2
  NSlots = 2
  Tx = {t1, t2, t3}
  NoTx = NoTx
  SeqLimit = 6
  MaxLogCrashes = 2
  MaxLogFaults = 2
SYMMETRY Symmetry
INVARIANTS
  EntriesKept
  NotShared
  CleanIsConsistent
  CountRight
  CopiesAgree
  LogTypeOK
  HalfUpdateIsKnown
  SlotsLostOnlyToFaults
  SequenceOrdersEntries
PROPERTIES
  ImplementsFatStore
  OkIsFinal
CHECK_DEADLOCK FALSE
