CONSTANTS
  Byte <- MCByte
  Capacity <- MCCapacity
  Chunks <- MCChunks
  Counts <- MCCounts
SPECIFICATION Spec
INVARIANT TypeOK
PROPERTY ImplementsQueue
