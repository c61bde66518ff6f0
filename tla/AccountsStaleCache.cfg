CONSTANTS
  u1 = u1
  u2 = u2
  pw1 = pw1
  pw2 = pw2
  Names <- MC_Names
  Passwords <- MC_Passwords
  NoPw = NoPw
  CanLoseConn = TRUE
  Reconnects = FALSE
  Unstorable <- MC_Unstorable
  MaxRequests = 4
  MaxRestarts = 1
SPECIFICATION Spec
INVARIANT SignUpHonoured
CHECK_DEADLOCK FALSE
