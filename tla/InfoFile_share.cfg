SPECIFICATION ShareSpec
CONSTANTS
  Prog = {p1, p2}
  d1 = d1
  d2 = d2
  Item = {d1, d2}
  None = None
  MaxOps = 3
  MaxClock = 3
  MaxCrash = 1
INVARIANTS TypeOK NoStaleLock StoredWhenAlone NeverTorn
PROPERTIES CallsReturn
