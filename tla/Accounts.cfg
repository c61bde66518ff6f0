CONSTANTS
  u1 = u1
  u2 = u2
  pw1 = pw1
  pw2 = pw2
  Names <- MC_Names
  Passwords <- MC_Passwords
  NoPw = NoPw
  CanLoseConn = TRUE
  Reconnects = TRUE
  Unstorable <- MC_Unstorable
  MaxRequests = 4
  MaxRestarts = 1
SPECIFICATION Spec
INVARIANT ConfirmedStored
CHECK_DEADLOCK FALSE
