SPECIFICATION MCSpec
CONSTANTS
  LINESIZ = 6
  StatW = 3
  HistSize = 3
  Char <- MCChar
  Rank <- MCRank
  Commands <- MCCommands
  Names <- MCNames
  Given <- MCGiven
  FkeyText <- MCFkeyText
  Yanked <- MCYanked
  Allowed = {}
INVARIANT TypeOK
PROPERTIES Implements CursorShown CallbacksFind
CHECK_DEADLOCK FALSE
