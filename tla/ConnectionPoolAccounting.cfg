CONSTANTS
  n1 = n1
  n2 = n2
  n3 = n3
  c1 = c1
  c2 = c2
  Conns <- MC_Conns
  Consumers <- MC_Consumers
  MinSize = 1
  MaxSize = 3
  None = None
SPECIFICATION Spec
INVARIANT CurrentSizeCountsConnections
