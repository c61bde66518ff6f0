CONSTANTS
  MaxLen = 4
  IntBits = 5
  SizeBits = 7
  CanFailOpen = TRUE
  Headers <- MC_AllHeaders
  NoNum = NoNum
  NoRange = NoRange
SPECIFICATION Spec
INVARIANT TypeOK
INVARIANT InFileRangeServed
