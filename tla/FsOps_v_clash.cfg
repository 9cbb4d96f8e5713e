SPECIFICATION DeepSpec
CONSTANTS
  Node = {1, 2, 3, 4}
  Parent <- ClashParent
  Data = {"a", "b"}
  Cut = "cut"
  NoData = "nodata"
  MaxFail = 0
INVARIANTS CopyKeepsSourceAlways
