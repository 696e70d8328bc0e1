CONSTANTS
  None = None
  Wild = Wild
  Multi = Multi
  Invalid = Invalid
  Unit <- MCUnit
  Master <- MCMaster
  Rarity <- MCRarity
  Lesson <- MCLesson
  RankRate <- MCRankRate
  Skill <- MCSkill
  AreaItem <- MCAreaItem
  Event <- MCEvent
  SupportRate <- MCSupportRate
  SupportRows <- MCSupportRows
  Part <- MCPart
  Honor <- MCHonor
  SupportCount <- MCSupportCount
  DiffAttr <- MCDiffAttr
  DeckSize = 2
  MaxScore = 10
  MaxTable = 2
  MaxLimited = 2
  MaxPower = 1000
  MaxBonus = 200
  Requests <- MCRequests
SPECIFICATION Spec
INVARIANT TypeOK
INVARIANT NothingLost
INVARIANT SupportIsTheBox
INVARIANT PackedCardsDecode
CHECK_DEADLOCK FALSE
