SPECIFICATION MCSpec
CONSTANTS
  NULL = NULL
  Top <- MCTop
  TempName <- MCTempName
  Content <- MCContent
  MaxLen = 3
  MaxStack = 2
  MaxSwitches = 2
  Allowed = {}
CHECK_DEADLOCK FALSE
INVARIANTS TypeOK TempsOwned AllRemoved ModesHold MarkExists ScanCovers
PROPERTY LeftReturns
