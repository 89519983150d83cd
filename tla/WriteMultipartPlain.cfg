SPECIFICATION MultipartLiveSpec
CONSTANTS
  Messages <- MCPlain
  BufferLengths = {1, 2, 3}
  MaxFaults = 0
  ChunkLengths = {5}
PROPERTY
  PlainMessageEnds
