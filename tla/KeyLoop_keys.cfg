SPECIFICATION MCSpec
CONSTANTS
  NumEntry = 3
  Link <- MCLink
  Newer <- MCNewer
  Filtered <- MCFiltered
  Digit = {2}
  MaxNum = 2
  MaxTyped = 4
  Allowed = {}
  BoardNo = {1, 2, 3, 4, 5, 6, 7}
INVARIANTS TypeOK MarkOnItsLine
PROPERTIES RangeIsBetween AsDocumented DotRepeats MarkedAndNoOther EveryLineDone AskedFirst
CHECK_DEADLOCK FALSE
