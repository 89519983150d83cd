SPECIFICATION IdleSpec
CONSTANTS
  Shapes <- MCReaderOnly
  Codes = {200, 404}
  Interims = {100}
  MaxInterim = 1
  MaxUpload = 1
  MaxBody = 1
  Timeout = 1
INVARIANT OnlySuccessStored
