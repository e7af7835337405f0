---------------------------- MODULE TrashCleanup ----------------------------
(***************************************************************************)
(* What the two midnight tasks of the wallet promise of the trash: rows    *)
(* that have been soft-deleted for over 30 days are listed and deleted for *)
(* good, one by one, each in a try/catch.  WalletLedger has the races of   *)
(* the requests with these loops; this module has their liveness, so a     *)
(* request that moves a row in or out of the trash is one step here.       *)
(*                                                                         *)
(* Its names are none of WalletLedger's: WalletLedgerProofs is about both. *)
(***************************************************************************)
EXTENDS Naturals, SequencesExt

CONSTANTS
  AccountId,      \* ids of accounts rows
  TransactionId,  \* ids of transactions rows
  OwnerOf,        \* the account_id of each transaction
  Stuck,          \* accounts whose DELETE the database keeps refusing
  MaxStops        \* how often the process is stopped during a loop

ASSUME CleanupAssumption ==
  /\ IsFiniteSet(AccountId) /\ IsFiniteSet(TransactionId)
  /\ OwnerOf \in [TransactionId -> AccountId] /\ Stuck \subseteq AccountId /\ MaxStops \in Nat

VARIABLES
  accounts,          \* [AccountId -> RowLife]
  transactions,      \* [TransactionId -> RowLife]
  accountsToDelete,  \* what is left of the loop of AccountCleanupTask
  txsToDelete,       \* what is left of the loop of TransactionCleanupTask
  stops

trashVars == <<accounts, transactions, accountsToDelete, txsToDelete, stops>>
tables == <<accounts, transactions>>
loops == <<accountsToDelete, txsToDelete>>

\* "expired" is the trash after 30 days.
RowLife == {"live", "trash", "expired", "purged"}

Expired(row) == {id \in DOMAIN row : row[id] = "expired"}

TrashInit ==
  /\ accounts = [a \in AccountId |-> "live"]
  /\ transactions = [t \in TransactionId |-> "live"]
  /\ accountsToDelete = <<>>
  /\ txsToDelete = <<>>
  /\ stops = 0

-----------------------------------------------------------------------------
(* Requests and time.                                                      *)

SoftDeleteAccount(a) ==
  /\ accounts[a] = "live"
  /\ accounts' = [accounts EXCEPT ![a] = "trash"]
  /\ UNCHANGED <<transactions, loops, stops>>

RestoreAccount(a) ==
  /\ accounts[a] \in {"trash", "expired"}
  /\ accounts' = [accounts EXCEPT ![a] = "live"]
  /\ UNCHANGED <<transactions, loops, stops>>

SoftDeleteTransaction(t) ==
  /\ transactions[t] = "live"
  /\ accounts[OwnerOf[t]] = "live"
  /\ transactions' = [transactions EXCEPT ![t] = "trash"]
  /\ UNCHANGED <<accounts, loops, stops>>

RestoreTransaction(t) ==
  /\ transactions[t] \in {"trash", "expired"}
  /\ transactions' = [transactions EXCEPT ![t] = "live"]
  /\ UNCHANGED <<accounts, loops, stops>>

ThirtyDaysPass ==
  LET Age(row) == [id \in DOMAIN row |-> IF row[id] = "trash" THEN "expired" ELSE row[id]]
  IN /\ accounts' = Age(accounts)
     /\ transactions' = Age(transactions)
     /\ UNCHANGED <<loops, stops>>

-----------------------------------------------------------------------------
(* Plausible bugs.                                                         *)

\* A loop without the try/catch of its body: the first refusal ends it.
AccountDeleteFailsLoop ==
  /\ accountsToDelete # <<>>
  /\ accountsToDelete' = <<>>
  /\ UNCHANGED <<tables, txsToDelete, stops>>

\* A night that does not wait for the loop of the night before.
AccountListAgain ==
  /\ Expired(accounts) # {}
  /\ \E list \in SetToSeqs(Expired(accounts)) : accountsToDelete' = accountsToDelete \o list
  /\ UNCHANGED <<tables, txsToDelete, stops>>

\* A foreign key without ON DELETE CASCADE.
AccountDeleteNoCascade ==
  /\ accountsToDelete # <<>>
  /\ Head(accountsToDelete) \notin Stuck
  /\ accounts' = [accounts EXCEPT ![Head(accountsToDelete)] = "purged"]
  /\ accountsToDelete' = Tail(accountsToDelete)
  /\ UNCHANGED <<transactions, txsToDelete, stops>>

-----------------------------------------------------------------------------
(* AccountCleanupTask.                                                     *)

\* findDeletedOlderThan has no order.
AccountList ==
  /\ accountsToDelete = <<>>
  /\ Expired(accounts) # {}
  /\ accountsToDelete' \in SetToSeqs(Expired(accounts))
  /\ UNCHANGED <<tables, txsToDelete, stops>>

\* The row goes whatever has happened to it since it was listed, and the
\* foreign key takes its transactions.
AccountDelete ==
  LET a == Head(accountsToDelete)
  IN /\ accountsToDelete # <<>>
     /\ a \notin Stuck
     /\ accounts' = [accounts EXCEPT ![a] = "purged"]
     /\ transactions' = [t \in TransactionId |->
                          IF OwnerOf[t] = a THEN "purged" ELSE transactions[t]]
     /\ accountsToDelete' = Tail(accountsToDelete)
     /\ UNCHANGED <<txsToDelete, stops>>

\* The statement is refused; the error is logged and the loop goes on.
AccountDeleteFails ==
  /\ accountsToDelete # <<>>
  /\ accountsToDelete' = Tail(accountsToDelete)
  /\ UNCHANGED <<tables, txsToDelete, stops>>

-----------------------------------------------------------------------------
(* TransactionCleanupTask.                                                 *)

TransactionList ==
  /\ txsToDelete = <<>>
  /\ Expired(transactions) # {}
  /\ txsToDelete' \in SetToSeqs(Expired(transactions))
  /\ UNCHANGED <<tables, accountsToDelete, stops>>

\* deleteHard converts what it is given with BigInt, and what it is given is
\* getId(): 'M-' and a custom id, or the UUID of a row that sync created.
\* BigInt throws on either before any statement is sent.
DeleteHard ==
  /\ txsToDelete # <<>>
  /\ txsToDelete' = Tail(txsToDelete)
  /\ UNCHANGED <<tables, accountsToDelete, stops>>

-----------------------------------------------------------------------------
\* The process stops; both loops are lost until the next midnight.
Stop ==
  /\ stops < MaxStops
  /\ accountsToDelete # <<>> \/ txsToDelete # <<>>
  /\ accountsToDelete' = <<>>
  /\ txsToDelete' = <<>>
  /\ stops' = stops + 1
  /\ UNCHANGED tables

TrashNext ==
  \/ \E a \in AccountId : SoftDeleteAccount(a) \/ RestoreAccount(a)
  \/ \E t \in TransactionId : SoftDeleteTransaction(t) \/ RestoreTransaction(t)
  \/ ThirtyDaysPass
  \/ AccountList \/ AccountDelete \/ AccountDeleteFails
  \/ TransactionList \/ DeleteHard
  \/ Stop

\* The scheduler fires every midnight the process lives to see, and a loop
\* that is not stopped comes to its end.  A DELETE that is tried again and
\* again is not refused for ever, unless the account is Stuck.
TrashFairness ==
  /\ WF_trashVars(AccountList)
  /\ WF_trashVars(AccountDelete \/ AccountDeleteFails)
  /\ \A a \in AccountId :
       SF_trashVars(AccountDelete /\ a = Head(accountsToDelete))
  /\ WF_trashVars(TransactionList)
  /\ WF_trashVars(DeleteHard)

TrashSpec == TrashInit /\ [][TrashNext]_trashVars
FairTrashSpec == TrashSpec /\ TrashFairness

-----------------------------------------------------------------------------
TrashTypeOK ==
  /\ accounts \in [AccountId -> RowLife]
  /\ transactions \in [TransactionId -> RowLife]
  /\ accountsToDelete \in Seq(AccountId)
  /\ txsToDelete \in Seq(TransactionId)
  /\ stops \in 0..MaxStops

\* Each account is on the list once, and until its turn it keeps its row, whatever
\* becomes of it: what the loop logs as failed is what the database refused, never
\* the deletion of a row that is gone.
DeletesFindRows ==
  \A i \in DOMAIN accountsToDelete :
    /\ accounts[accountsToDelete[i]] # "purged"
    /\ \A j \in DOMAIN accountsToDelete : i # j => accountsToDelete[i] # accountsToDelete[j]

\* No transaction outlives its account.
CascadeIsComplete ==
  \A t \in TransactionId : accounts[OwnerOf[t]] = "purged" => transactions[t] = "purged"

TrashInv == TrashTypeOK /\ DeletesFindRows /\ CascadeIsComplete

\* An account that has expired in the trash does not stay there: it is deleted
\* or somebody restores it, although other accounts of the same nightly list
\* are refused every time and the process is stopped now and then.
AccountsLeaveTrash ==
  \A a \in AccountId \ Stuck : accounts[a] = "expired" ~> accounts[a] # "expired"

\* TransactionCleanupTask reports the transactions it found "to permanently
\* delete": an expired one is deleted in the end, or restored.
TransactionsLeaveTrash ==
  \A t \in TransactionId : transactions[t] = "expired" ~> transactions[t] # "expired"

=============================================================================
