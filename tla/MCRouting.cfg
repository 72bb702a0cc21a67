CONSTANTS
  p1 = p1
  p2 = p2
  p3 = p3
  p4 = p4
  de = de
  ae = ae
  be = be
  ce = ce
  Pool = {p1, p2, p3, p4}
  Curve <- Curves
  Give <- MCGive
  Take <- MCTake
  Fails <- MCFails
  Impact <- MCImpact
  Total = 300
  MaxAmount = 2000
  SplitThreshold = 100
  Edge = {de, ae, be, ce}
  Direct = de
  Routes <- MCRoutes
  Snapshots <- MCSnapshots
  SplitAnswers <- MCSplitAnswers
  MaxChanges = 1
SPECIFICATION Spec
INVARIANTS
  RoutingTypeOK
  AnswerIsBestOffer
  DirectIsBest
  HopsHandOn
PROPERTY
  EveryRequestEnds
CHECK_DEADLOCK FALSE
