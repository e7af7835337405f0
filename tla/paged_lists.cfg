SPECIFICATION Spec
CONSTANTS
  r1 = r1
  r2 = r2
  r3 = r3
  Id = {r1, r2, r3}
  List <- AllLists
  Take = {1, 2}
  MaxDate = 2
  Issued = {0, 1}
  None = None
  Gone = Gone
CONSTRAINT Reading
SYMMETRY Alike
CHECK_DEADLOCK FALSE
INVARIANTS PagesInv WalkIsComplete NothingTwice
