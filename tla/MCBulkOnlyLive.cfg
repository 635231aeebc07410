CONSTANTS
  PacketSize = 12
  BufLen = 42
  InDepth = 1
  OutDepth = 1
  OutPackets <- MCOutPackets
  Chunks <- MCChunks
  ReadSizes <- MCReadSizes
  Processed <- MCProcessed
SPECIFICATION FairSpec
PROPERTIES
  CswIsSentWhole
  StatusIsSent
