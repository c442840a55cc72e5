\* A stack stream over blocks of two bytes.
SPECIFICATION BufferSpec
CONSTANTS
  Users = {"stack"}
  Byte = {0, 1}
  Pages = 2
  PageBlocks = 2
  BlockSize = 2
  Buffers = {}
  MaxLen = 4
  MaxFaults = 0
  MaxRestarts = 0
PROPERTY
  StackIsAStream
CHECK_DEADLOCK FALSE
