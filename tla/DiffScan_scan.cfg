SPECIFICATION MCSpec
CONSTANTS
  Node = {1, 2, 3}
  Parent <- MCParent
  Data = {"a", "b", "cc"}
  Size <- MCSize
  NoData = "nodata"
INVARIANTS TypeOK AncestorsRecorded
PROPERTIES Implements ScanEnds
