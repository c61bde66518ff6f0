CONSTANTS
  MaxLen = 4
  IntBits = 5
  SizeBits = 7
  CanFailOpen = FALSE
  Headers <- MC_ValidHeaders
  NoNum = NoNum
  NoRange = NoRange
SPECIFICATION Spec
INVARIANT ContentLengthHonoured
