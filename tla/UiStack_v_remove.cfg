SPECIFICATION MCSpec
CONSTANTS
  NULL = NULL
  Top <- MCTop
  TempName <- MCTempName
  Content <- MCContent
  MaxLen = 3
  MaxStack = 2
  MaxSwitches = 2
  Allowed = {"crossed"}
CHECK_DEADLOCK FALSE
INVARIANT TempsOwned
