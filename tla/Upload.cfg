SPECIFICATION LiveSpec
CONSTANTS
  Buffer = {1, 2, 3, 4, 5}
  BlockSize = 2
  Concurrency = 2
  CurlSize = 3
  FileLen = 4
  Lengths <- MCLengths
  MaxFaults = 2
  EmptyReads = FALSE
INVARIANTS
  TypeOK
  BufferOwnership
  BodyInOrder
  NoByteLost
  NoLostWakeup
  SectionUntouched
  EofpIsEndOfFile
PROPERTIES
  UploadIsTransfer
  UploadEnds
