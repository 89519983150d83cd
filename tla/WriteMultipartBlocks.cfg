SPECIFICATION MultipartLiveSpec
CONSTANTS
  Messages <- MCLongBlocks
  BufferLengths = {1, 2, 3}
  MaxFaults = 0
  ChunkLengths = {5}
INVARIANT
  WithinBuffer
