CONSTANTS
  b1 = b1
  b2 = b2
  b3 = b3
  b4 = b4
  b5 = b5
  b6 = b6
  Buffers <- MC_Buffers
  Capacity = 2
  MaxMsgs = 3
  StopAllowed = TRUE
  None = None
  Zero = Zero
  Junk = Junk
  RollSize = 4
  CheckEveryN = 2
  RollPerSeconds = 2
  MaxTime = 3
  MaxClockSteps = 1
  LocalName <- MC_LocalName
SPECIFICATION Spec
INVARIANT TypeOK
INVARIANT LogOrderPreserved
INVARIANT WriteHasSpareBuffers
INVARIANT LogFileNamesUnique
INVARIANT PeriodRolledWithinCheckEveryN
PROPERTY AppendedEventuallyWritten
PROPERTY StopTerminates
CHECK_DEADLOCK FALSE
