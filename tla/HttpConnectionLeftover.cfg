CONSTANTS
  Reqs <- MC_FormReqs
  MaxChunk = 4
  MaxWrite = 2
  HdrLen = 2
  Split = FALSE
  None = None
SPECIFICATION Spec
INVARIANT NoRejectedValidRequest
CHECK_DEADLOCK FALSE
