SPECIFICATION IdleLiveSpec
CONSTANTS
  Shapes <- MCShapes
  Codes = {200, 404}
  Interims = {100, 103, 200}
  MaxInterim = 2
  MaxUpload = 2
  MaxBody = 2
  Timeout = 2
INVARIANTS
  IdleTypeOK
  FirstErrorReturned
  EndedOnce
  ResponseFirst
  OnlySuccessStored
  TimeoutOnlyIfIdle
PROPERTY
  RequestEnds
