CONSTANTS
  Reqs <- MC_Reqs
  MaxChunk = 3
  MaxWrite = 2
  HdrLen = 2
  Split = TRUE
  None = None
SPECIFICATION Spec
INVARIANT NoRejectedValidRequest
CHECK_DEADLOCK FALSE
