CONSTANTS
  U32Values <- MCU32Values
  ByteValues <- MCByteValues
  Blocks <- MCBlocks
SPECIFICATION CodecSpec
INVARIANTS
  CbwAccepted
  CbwDecoded
  CswDecoded
