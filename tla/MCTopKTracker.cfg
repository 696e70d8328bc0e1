SPECIFICATION Spec
CONSTANTS
  Result <- MCResult
  Contexts <- MCContexts
  TopKs = {0, 1, 2}
  Base = 8
INVARIANTS TypeOK RankedDistinct PrunedIsNeverCanonical
PROPERTIES AnswersCanonically PruningIsStable
CHECK_DEADLOCK FALSE
