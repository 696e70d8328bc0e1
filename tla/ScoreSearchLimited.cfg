SPECIFICATION Spec
CONSTANTS
  Card <- MCCard
  DeckSize = 3
  Requests <- LimitedRequests
  NoChar = 0
  DiffAttr <- MCDiffAttr
  LiveStep = 2
  PowerStep = 4
  RankBase = 10000
  IdBase = 32
  CutoffBonuses = 90
  LiveLimit = 150
  BreakStride = 2
  ShadowDepth = 1
  BlockWidth = 3
INVARIANT CompleteIsCanonical
CHECK_DEADLOCK FALSE
