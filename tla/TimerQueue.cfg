CONSTANTS
  Addr <- MC_Addr
  Delays <- MC_Delays
  Intervals <- MC_Intervals
  MinInterval = 1
  MaxAdds = 3
  MaxLate = 1
  MaxClockSteps = 1
  None = None
SPECIFICATION Spec
INVARIANT TypeOK
INVARIANT ArmedNoLaterThanEarliest
INVARIANT TimerfdTracksEarliest
PROPERTY PendingTimerFiresUnstepped
\* A wall clock set back can leave the timerfd disarmed with timers pending
\* (see TimerQueueClockStep.cfg), so the loop may stop.
CHECK_DEADLOCK FALSE
