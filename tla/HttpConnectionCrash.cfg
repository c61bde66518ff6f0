CONSTANTS
  Reqs <- MC_UploadReqs
  MaxChunk = 3
  MaxWrite = 2
  HdrLen = 2
  Split = TRUE
  None = None
SPECIFICATION Spec
INVARIANT NoParserCrash
CHECK_DEADLOCK FALSE
