SPECIFICATION CommandSpec
CONSTANTS
  Node = {1, 2, 3}
  Parent <- MCParent
  Data = {"a", "b"}
  Cut = "cut"
  NoData = "nodata"
  MaxFail = 2
INVARIANTS TypeOK MoveKeepsFiles LinksNotFollowed CopyKeepsSource RefusedIsKept
PROPERTIES CancelIsFinal
