SPECIFICATION FairTrashSpec
CONSTANTS
  a1 = a1
  a2 = a2
  t1 = t1
  t2 = t2
  AccountId = {a1, a2}
  TransactionId = {t1, t2}
  OwnerOf <- TwoAccounts
  Stuck = {a2}
  MaxStops = 1
INVARIANTS TrashInv DeletesFindRows
PROPERTY AccountsLeaveTrash
