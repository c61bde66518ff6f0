CONSTANTS
  Reqs <- MC_Exchange
  MaxChunk = 4
  MaxWrite = 2
  HdrLen = 2
  Split = FALSE
  None = None
SPECIFICATION Spec
INVARIANT TypeOK
PROPERTY ImplementsExchange
CHECK_DEADLOCK FALSE
