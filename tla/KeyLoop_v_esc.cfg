SPECIFICATION MCSpec
CONSTANTS
  NumEntry = 3
  Link <- MCLink
  Newer <- MCNewer
  Filtered <- MCFiltered
  Digit = {2}
  MaxNum = 2
  MaxTyped = 4
  Allowed = {"unasked"}
  BoardNo = {2}
PROPERTIES AskedFirst
CHECK_DEADLOCK FALSE
