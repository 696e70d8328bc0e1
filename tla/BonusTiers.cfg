SPECIFICATION Spec
CONSTANTS
  Card <- MCCard
  DeckSize = 3
  Requests <- MCRequests
  NoChar = 0
  DiffAttr <- MCDiffAttr
  LiveStep = 6
  PowerStep = 4
  RankBase = 10000
  IdBase = 32
  UnitCount = 2
  AttrCount = 3
  Tenths = 1
  Grain = 6
  Scales <- MCScales
  JoinAfter = 3
  RestrictAfter = 2
  CertifyAfter = 2
  HeldCards = 6
INVARIANTS TypeOK SearchedIsFinal OnlyExactHits ExcludedHasNoDeck
CHECK_DEADLOCK FALSE
