CONSTANTS
  PacketSize = 32
  BufLen = 64
  InDepth = 1
  OutDepth = 2
  OutPackets <- MCOutPackets
  Chunks <- MCChunks
  ReadSizes <- MCReadSizes
  Processed <- MCProcessed
SPECIFICATION SubSpec
INVARIANT CallbackIsNeeded
PROPERTIES
  ImplementsTransport
  CommandIsStable
  AnsweredAtOnce
