SPECIFICATION Spec
CONSTANTS
  o1 = o1
  o2 = o2
  o3 = o3
  r1 = r1
  c1 = c1
  c2 = c2
  Op = {o1, o2, o3}
  Record = {r1}
  Client = {c1, c2}
  Kind <- Kinds3
  Target <- OneRecord
  At <- Dates
  MaxClock = 1
  None = None
CONSTRAINT WithinBounds
INVARIANTS PushInv AppliedOnce AnswersAreTrue
PROPERTY AppliesAtMostOnce
