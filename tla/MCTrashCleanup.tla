--------------------------- MODULE MCTrashCleanup ---------------------------
(* TrashCleanup on small instances. *)
EXTENDS TrashCleanup

CONSTANTS a1, a2, t1, t2

\* One transaction in each account.
TwoAccounts == [t \in TransactionId |-> IF t = t1 THEN a1 ELSE a2]
=============================================================================
