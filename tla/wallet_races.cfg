SPECIFICATION Spec
CONSTANTS
  a1 = a1
  t2 = t2
  c2 = c2
  Account = {a1}
  Transaction = {t1, t2}
  AccountOf <- OneAccount
  Client = {c1, c2}
  Editor = {e1}
  None = None
CONSTRAINT WithinBounds
INVARIANTS LedgerInv CountedOnce PendingUncounted NoOrphans
PROPERTY ActsAtomically
CHECK_DEADLOCK FALSE
