SPECIFICATION Spec
CONSTANTS
  g1 = g1
  g2 = g2
  g3 = g3
  t1 = t1
  n1 = n1
  s1 = s1
  s2 = s2
  s3 = s3
  r1 = r1
  r2 = r2
  Tags = {g1, g2, g3}
  TxIds = {t1}
  Names = {n1}
  Slugs = {s1, s2, s3}
  LowerOf <- Lower
  SlugOf <- Normal
  Requests = {r1, r2}
  Limit = 2
  Page = 2
  None = None
CONSTRAINT WithinBounds
SYMMETRY Alike
INVARIANTS TagsInv LimitHolds RowsAreIntended PullsAreComplete
CHECK_DEADLOCK FALSE
