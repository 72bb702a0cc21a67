CONSTANTS
  Curve <- Curves
  Give <- MCGive
  Take <- MCTake
  Fails <- MCFails
  Total = 100
  MinSplitPercent = 10
  MaxSplits = 3
SPECIFICATION Spec
INVARIANTS SplitTypeOK AnswerIsBestTried OptimumIsApproached
CHECK_DEADLOCK FALSE
