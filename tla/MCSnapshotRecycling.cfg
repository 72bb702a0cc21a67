CONSTANTS
  P = P  Q = Q  ab = ab  ba = ba  r1 = r1  None = None
  Pool <- MCPool
  Pair <- MCPair
  Reader <- MCReader
  Array <- MCArray
  MaxPerPair = 2
SPECIFICATION Spec
INVARIANT ReadersKeepTheirList
CHECK_DEADLOCK FALSE
