SPECIFICATION FairSpec
CONSTANTS
  r1 = r1
  r2 = r2
  r3 = r3
  Record = {r1, r2, r3}
  Stamped = {r3}
  Limit = 2
  MaxClock = 4
  MaxRev = 2
CONSTRAINT WithinBounds
INVARIANTS PullInv UpToDate
PROPERTY PagesEnd
