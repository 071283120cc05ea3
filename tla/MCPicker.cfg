CONSTANTS
  Separator <- MCSeparator
  Upper <- MCUpper
  Lower <- MCLower
  LowerCase <- MCLowerCase
  Blank = " "
  Now = 7
  HalfLife = 4
  BurstWindow = 1
  DebugWindow = 1
  RefineCandidates = 2
  Command <- MCCommand
  History <- MCHistory
  Typed <- MCTyped
  MaxQuery = 2
  Initial <- MCInitial
  StatsLimit = 3
  Heights = {1, 2}
  MaxKeys = 2
  MaxChanges = 1
  None = None
  Settings <- MCSettings
SPECIFICATION Spec
INVARIANTS
  TypeOK
  ListAnswersQuery
  BestMatchFirst
  PaneFollows
  AcceptanceIsRanked
CHECK_DEADLOCK FALSE
