SPECIFICATION Spec
CONSTANTS
  Buffer = {1, 2, 3, 4, 5}
  None = None
  BlockSize = 2
  Concurrency = 3
  BodyLen = 8
  MaxChunk = 5
  WriteResults = {"ok", "write_failed"}
  MaxFaults = 2
PROPERTY
  DownloadIsTransfer
