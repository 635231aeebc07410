CONSTANTS
  PacketSize = 16
  BufLen = 46
  InDepth = 1
  OutDepth = 2
  OutPackets <- MCOutPackets
  Chunks <- MCChunks
  ReadSizes <- MCReadSizes
  Processed <- MCProcessed
SPECIFICATION Spec
INVARIANTS
  TypeOK
  NoPanic
  NeverSendsTooMuch
  StatusAfterData
  CswLeftToSend
  FreshCommandTransfer
  HaltedOnlyWhenInvalid
  CommandTransferCanRead
PROPERTIES
  InvalidIsTerminal
  StatusIsKept
  OldBytesAreDropped
  DataInAccounting
  EndingPacketsAreFull
  NextCbwIsLeftAlone
