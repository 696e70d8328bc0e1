SPECIFICATION FairSpec
CONSTANTS
  Card <- MCCard
  DeckSize = 3
  MultiUnitMode = "by_deck"
  Pools <- MCPools
  TopKs = {1, 2}
  HonorBonus = 1
  IdBase = 16
INVARIANTS CompleteIsCanonical OnlyLegalDecks PrefixAgrees NothingLost
PROPERTIES Terminates
CHECK_DEADLOCK FALSE
