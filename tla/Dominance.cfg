SPECIFICATION Spec
CONSTANTS
  Card <- MCCard
  DeckSize = 3
  Requests <- MCRequests
  Characters = {1, 2, 3, 4}
  NoChar = 0
  DiffAttr <- MCDiffAttr
  LiveStep = 6
  PowerStep = 4
  RankBase = 10000
  IdBase = 32
INVARIANTS ExchangeNeverLoses SubstitutionsOnlyLose OnlyLegalDecks CompleteIsCanonical
CHECK_DEADLOCK FALSE
