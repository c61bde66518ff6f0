CONSTANTS
  Addr <- MC_Addr
  Delays <- MC_Delays
  Intervals <- MC_Intervals
  MinInterval = 1
  MaxAdds = 3
  MaxLate = 1
  MaxClockSteps = 1
  None = None
SPECIFICATION Spec
PROPERTY PendingTimerFires
CHECK_DEADLOCK FALSE
