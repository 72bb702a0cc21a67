CONSTANTS
  A = A  B = B  P = P  Q = Q
  p1 = p1  p2 = p2  q1 = q1  None = None
  a0 = a0  a1 = a1  b0 = b0
  Token <- MCToken
  Pool <- MCOnePool
  Obj <- MCObjP
  AddrOf <- MCAddrP
  MintA <- MCMintA
  MintB <- MCMintB
  Array <- MCArrayP
  WindowsOf <- MCWindowsP
  Threshold = 3
  MaxPerPair = 1
  Removable <- MCNone
SPECIFICATION FeedSpec
CHECK_DEADLOCK FALSE
INVARIANTS FeedTypeOK OwnerIsKnown
PROPERTIES ImplementsGraph OnlyTheScanEmpties
SYMMETRY Symmetric
