SPECIFICATION Spec
CONSTANTS
  Card <- MCCard
  DeckSize = 3
  MultiUnitMode = "by_deck"
  Requests <- MCRequests
  UnitCount = 6
  AttrCount = 2
  HonorBonus = 1
  PowerStep = 6
  RankBase = 100
  IdBase = 32
  MaxSeeds = 1
INVARIANTS CompleteIsCanonical StillPlanned
CHECK_DEADLOCK FALSE
