CONSTANTS
  Reqs <- MC_FileReqs
  MaxChunk = 3
  MaxWrite = 2
  HdrLen = 2
  Split = FALSE
  None = None
SPECIFICATION Spec
INVARIANT ResponsesInOrder
CHECK_DEADLOCK FALSE
