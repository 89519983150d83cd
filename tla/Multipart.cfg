SPECIFICATION MultipartLiveSpec
CONSTANTS
  Messages <- MCMessages
  BufferLengths = {1, 2, 3, 5, 9}
  MaxFaults = 1
  ChunkLengths = {5, 6, 7, 10}
INVARIANTS
  MultipartTypeOK
  NothingLost
  WithinBuffer
  PartsReceived
PROPERTIES
  BodyIsTransfer
  MessageEnds
