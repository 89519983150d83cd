SPECIFICATION LiveSpec
CONSTANTS
  Buffer = {1, 2, 3, 4, 5}
  None = None
  BlockSize = 2
  Concurrency = 3
  BodyLen = 8
  MaxChunk = 5
  WriteResults = {"ok"}
  MaxFaults = 2
INVARIANTS
  TypeOK
  CounterMatches
  BufferOwnership
  WritesInPlace
  NoByteLost
  NoLostWakeup
  CleanupWaits
PROPERTIES
  DownloadIsTransfer
  DownloadEnds
