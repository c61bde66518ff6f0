CONSTANTS
  Addr <- MC_Addr
  Delays = {1}
  Intervals = {0}
  MinInterval = 1
  MaxAdds = 2
  MaxLate = 1
  MaxClockSteps = 0
  None = None
SPECIFICATION Spec
INVARIANT BatchInInsertionOrder
