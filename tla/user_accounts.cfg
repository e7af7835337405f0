SPECIFICATION Spec
CONSTANTS
  r1 = r1
  r2 = r2
  d1 = d1
  d2 = d2
  t1 = t1
  t2 = t2
  t3 = t3
  k1 = k1
  k2 = k2
  k3 = k3
  Request = {r1, r2}
  Device = {d1, d2}
  Token = {t1, t2, t3}
  Key = {k1, k2, k3}
  External = External
  Given = {None}
  None = None
CONSTRAINT Apart
SYMMETRY Alike
INVARIANTS AccountsInv OneHeir SessionsLast PicturesExist NothingLeftBehind
PROPERTIES FirstComerStays TokensWorkOnce
