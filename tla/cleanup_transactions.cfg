SPECIFICATION FairTrashSpec
CONSTANTS
  a1 = a1
  a2 = a2
  t1 = t1
  t2 = t2
  AccountId = {a1}
  TransactionId = {t1}
  OwnerOf <- TwoAccounts
  Stuck = {}
  MaxStops = 0
PROPERTY TransactionsLeaveTrash
