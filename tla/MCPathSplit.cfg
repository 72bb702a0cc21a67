CONSTANTS
  Curve <- Curves
  Give <- MCGive
  Take <- MCTake
  Fails <- MCFails
  Total = 1000
  Refused = 500
  MaxIter = 15
SPECIFICATION Spec
INVARIANTS
  PathSplitTypeOK
  OptimumStaysInWindow
  BestIsKept
  SharesAreFair
  PercentsMakeWhole
  AnAnswerIsFound
CHECK_DEADLOCK FALSE
