SPECIFICATION FirstSpec
CONSTANTS
  Prog = {p1, p2}
  d1 = d1
  d2 = d2
  Item = {d1, d2}
  None = None
  MaxOps = 2
  MaxClock = 3
  MaxCrash = 0
INVARIANTS Persistent
