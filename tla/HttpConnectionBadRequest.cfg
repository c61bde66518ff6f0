CONSTANTS
  Reqs <- MC_Reqs
  MaxChunk = 6
  MaxWrite = 2
  HdrLen = 2
  Split = TRUE
  None = None
SPECIFICATION Spec
INVARIANT NothingAfterBadRequest
CHECK_DEADLOCK FALSE
