SPECIFICATION Spec
CONSTANTS
  Requests <- MCRequests
  Failures <- Recoverable
INVARIANTS
  TypeOK
  AllPrepared
  UsersMemoryKept
  OnlyBuffersLeft
