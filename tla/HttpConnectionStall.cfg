CONSTANTS
  Reqs <- MC_PageReqs
  MaxChunk = 6
  MaxWrite = 2
  HdrLen = 2
  Split = FALSE
  None = None
SPECIFICATION Spec
PROPERTY RequestsAnswered
CHECK_DEADLOCK FALSE
