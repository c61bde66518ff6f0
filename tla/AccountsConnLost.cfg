CONSTANTS
  u1 = u1
  u2 = u2
  pw1 = pw1
  pw2 = pw2
  Names <- MC_Names
  Passwords <- MC_Passwords
  NoPw = NoPw
  CanLoseConn = TRUE
  Reconnects = FALSE
  Unstorable <- MC_NoUnstorable
  MaxRequests = 4
  MaxRestarts = 1
SPECIFICATION Spec
INVARIANT SignInOnlyRegistered
CHECK_DEADLOCK FALSE
