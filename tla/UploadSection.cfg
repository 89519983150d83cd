SPECIFICATION Spec
CONSTANTS
  Buffer = {1, 2, 3, 4, 5}
  BlockSize = 2
  Concurrency = 2
  CurlSize = 3
  FileLen = 5
  Lengths = {3}
  MaxFaults = 0
  EmptyReads = FALSE
INVARIANT
  SectionUntouched
