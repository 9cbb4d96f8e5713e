SPECIFICATION DeepSpec
CONSTANTS
  Node = {1, 2, 3, 4}
  Parent <- DeepParent
  Data = {"a", "b"}
  Cut = "cut"
  NoData = "nodata"
  MaxFail = 0
INVARIANTS CommandComplete
PROPERTIES Termination
