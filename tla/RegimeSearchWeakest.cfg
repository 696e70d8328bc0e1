SPECIFICATION Spec
CONSTANTS
  Card <- MCCard
  DeckSize = 3
  MultiUnitMode = "by_deck"
  Requests <- WeakestRequests
  UnitCount = 6
  AttrCount = 2
  HonorBonus = 1
  PowerStep = 6
  RankBase = 100
  IdBase = 32
  MaxSeeds = 1
INVARIANTS WeakestIsCanonical
CHECK_DEADLOCK FALSE
