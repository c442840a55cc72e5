\* Locks, inodes over paths, the rotated header, the page buffer and its
\* streams, see MCAccess.
SPECIFICATION PartSpec
CONSTANTS
  Handles = {h1, h2, h3}
  Clusters = {c1, c2}
  None = None
  MaxIds = 2
  Names = {"a", "b"}
  MaxObjects = 3
  MaxPath = 2
  MaxTarget = 2
  MovesDirs = FALSE
  Clients = {"fuse", "library"}
  MaxInodes = 4
  FlashPages = 4
  Rotations = {1, 2, 3}
  Data = {"x", "y"}
  MaxSeq = 4
  MaxFlashFaults = 2
  MaxCrashes = 1
  Users = {"heap", "direct"}
  Byte = {0, 1}
  Pages = 2
  PageBlocks = 2
  BlockSize = 2
  Buffers <- Given
  MaxLen = 3
  MaxFaults = 1
  MaxRestarts = 1
VIEW Seen
SYMMETRY Alike
INVARIANTS
  LocksAreHeld
  MutualExclusion
  
  HeaderSurvives
  WrittenPagesKept
  EvenWear
  CleanPageIsStored
PROPERTIES
  ImplementsNameSpace
  DirectWriteIsSeen
  ImplementsByteStream
CHECK_DEADLOCK FALSE
