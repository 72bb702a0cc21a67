CONSTANTS
  A = A  B = B  P = P  Q = Q
  p1 = p1  p2 = p2  q1 = q1  None = None
  Token <- MCToken
  Pool <- MCPool
  Obj <- MCObj
  AddrOf <- MCAddrOf
  MintA <- MCMintA
  MintB <- MCMintB
  Threshold = 3
  MaxPerPair = 1
  Removable <- MCRemovable
SPECIFICATION Spec
INVARIANTS TypeOK AdjFilesEachPoolOnce NoLostWakeup KnownIsPublishedOrPending ListedPoolsAreFound
PROPERTIES ImplementsDirectory
