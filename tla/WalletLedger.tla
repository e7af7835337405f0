---------------------------- MODULE WalletLedger ----------------------------
(***************************************************************************)
(* The wallet context: accounts, their transactions and the balance that   *)
(* the transactions move.  Every request is a handler of several awaited   *)
(* database calls; between two of them any other request may run, and the  *)
(* process may stop.  Every step below is one database statement or one    *)
(* $transaction of the code, which PostgreSQL executes atomically.         *)
(*                                                                         *)
(* Balances are only ever moved by relative increments of a transaction's  *)
(* amount, or replaced by a figure that a client was shown.  Increments    *)
(* commute, so the model keeps, instead of a sum, how often each amount is *)
(* part of the sum: counted[t] is the number of times (positive when       *)
(* credited, negative when debited) that the amount of transaction t is in *)
(* the balance of its account.  The opening balance cannot be told apart   *)
(* by any property and is left out.                                        *)
(*                                                                         *)
(* Requests whose caller does not own the account are answered with an     *)
(* error before any write, so only requests that get past that test        *)
(* appear; names, currencies, tags and timestamps other than deleted_at    *)
(* are left out.                                                           *)
(***************************************************************************)
EXTENDS Integers

CONSTANTS
  Account,      \* ids of accounts rows
  Transaction,  \* ids of transactions rows
  AccountOf,    \* the account_id a transaction is saved with
  Client,       \* slots for concurrent requests about a transaction
  Editor,       \* slots for concurrent requests about an account
  None          \* the transaction or account of a slot that serves no request

ASSUME AccountOfAssumption == AccountOf \in [Transaction -> Account]
ASSUME NoneAssumption == None \notin Transaction /\ None \notin Account

VARIABLES
  account,      \* [Account -> where the row is in its life]
  transaction,  \* [Transaction -> the row]
  counted,      \* [Transaction -> times its amount is in the balance]
  request,      \* [Client -> the transaction request being served]
  edit,         \* [Editor -> the account request being served]
  doomed,       \* accounts AccountCleanupTask has listed and not yet deleted
  disturbed     \* history: transactions one of the hazards below has hit

vars == <<account, transaction, counted, request, edit, doomed, disturbed>>

-----------------------------------------------------------------------------
(* Rows *)

Settled == {"saving", "expense"}
Type == Settled \cup {"pending_payment"}

\* A row, or where there is none: before it is saved, after a cascade.
Row == [type: Type \cup {"unsaved", "purged"}, deleted: BOOLEAN]
Unsaved == [type |-> "unsaved", deleted |-> FALSE]
Purged == [type |-> "purged", deleted |-> FALSE]
Stored(t) == transaction[t].type \in Type

\* "expired" is a soft-deleted account whose deleted_at is over 30 days old.
Life == {"absent", "live", "trash", "expired", "purged"}
Exists(a) == account[a] \in {"live", "trash", "expired"}

\* 'saving' increments the balance, every other type decrements it.
Sign(type) == IF type = "saving" THEN 1 ELSE -1

\* What a row contributes to the balance when the books are right.
Effect(row) ==
  IF row.type \in Settled /\ ~row.deleted THEN Sign(row.type) ELSE 0

-----------------------------------------------------------------------------
(* Requests *)

RequestStep == {"idle", "save.create", "complete.write", "delete.read",
                "delete.commit", "restore.commit", "credit"}

\* row: the row as the request read it.  type: the type it stores or has
\* stored, by which it will credit the balance.
RequestState == [step: RequestStep, tx: Transaction \cup {None},
                 row: Row, type: Type]
IdleRequest ==
  [step |-> "idle", tx |-> None, row |-> Unsaved, type |-> "pending_payment"]

EditStep == {"idle", "put.shown", "put.write", "trash.write", "restore.write"}

\* figure: the balance that the client was shown, as shares like counted.
EditState == [step: EditStep, account: Account \cup {None},
              figure: [Transaction -> Int]]
NoFigure == [t \in Transaction |-> 0]
IdleEdit == [step |-> "idle", account |-> None, figure |-> NoFigure]

Become(c, r) == request' = [request EXCEPT ![c] = r]
Finish(c) == Become(c, IdleRequest)
Proceed(e, step) == edit' = [edit EXCEPT ![e].step = step]
Leave(e) == edit' = [edit EXCEPT ![e] = IdleEdit]

Disturb(ts) == disturbed' = disturbed \cup ts

\* The row was changed by others since the request read it.
Stale(c) == request[c].row # transaction[request[c].tx]

-----------------------------------------------------------------------------
Init ==
  /\ account = [a \in Account |-> "absent"]
  /\ transaction = [t \in Transaction |-> Unsaved]
  /\ counted = [t \in Transaction |-> 0]
  /\ request = [c \in Client |-> IdleRequest]
  /\ edit = [e \in Editor |-> IdleEdit]
  /\ doomed = {}
  /\ disturbed = {}

-----------------------------------------------------------------------------
(* Plausible bugs.  Each of these stands in for the action it is named     *)
(* after when the runs are shown to notice the difference.                 *)

\* save() without its test of the type: a pending payment is credited too.
SaveCreateCreditsAny(c) ==
  LET t == request[c].tx
  IN /\ request[c].step = "save.create"
     /\ Exists(AccountOf[t])
     /\ transaction' = [transaction EXCEPT ![t] = [type |-> request[c].type, deleted |-> FALSE]]
     /\ Become(c, [request[c] EXCEPT !.step = "credit"])
     /\ UNCHANGED <<account, counted, edit, doomed, disturbed>>

\* complete() without its guard: a row of any type is completed.
CompleteReadAny(c, t, newType) ==
  /\ request[c] = IdleRequest
  /\ Stored(t)
  /\ Become(c, [step |-> "complete.write", tx |-> t,
                row |-> transaction[t], type |-> newType])
  /\ UNCHANGED <<account, transaction, counted, edit, doomed, disturbed>>

\* restore() that clears deleted_at and forgets to apply the amount again.
RestoreCommitUnapplied(c) ==
  LET t == request[c].tx
  IN /\ request[c].step = "restore.commit"
     /\ Stored(t)
     /\ transaction' = [transaction EXCEPT ![t].deleted = FALSE]
     /\ Finish(c)
     /\ Disturb(IF Stale(c) THEN {t} ELSE {})
     /\ UNCHANGED <<account, counted, edit, doomed>>

\* A schema whose foreign key does not cascade.
CleanupDeleteNoCascade(a) ==
  /\ a \in doomed
  /\ doomed' = doomed \ {a}
  /\ account' = [account EXCEPT ![a] = "purged"]
  /\ UNCHANGED <<transaction, counted, request, edit, disturbed>>

-----------------------------------------------------------------------------
(* POST transactions/save: look the account up, insert the row, then move  *)
(* the balance in a statement of its own unless the payment is pending.    *)

\* The id is generated by the request, so no other one can name it yet.
SaveCheck(c, t, type) ==
  /\ request[c] = IdleRequest
  /\ account[AccountOf[t]] = "live"
  /\ transaction[t] = Unsaved
  /\ \A d \in Client : request[d].tx # t
  /\ Become(c, [step |-> "save.create", tx |-> t, row |-> Unsaved, type |-> type])
  /\ UNCHANGED <<account, transaction, counted, edit, doomed, disturbed>>

SaveCreate(c) ==
  LET t == request[c].tx
      type == request[c].type
  IN /\ request[c].step = "save.create"
     /\ Exists(AccountOf[t])
     /\ transaction' = [transaction EXCEPT ![t] = [type |-> type, deleted |-> FALSE]]
     /\ IF type = "pending_payment"
        THEN Finish(c)
        ELSE Become(c, [request[c] EXCEPT !.step = "credit"])
     /\ UNCHANGED <<account, counted, edit, doomed, disturbed>>

\* The second write of save and of complete.
Credit(c) ==
  LET t == request[c].tx
  IN /\ request[c].step = "credit"
     /\ Exists(AccountOf[t])
     /\ counted' = [counted EXCEPT ![t] = @ + Sign(request[c].type)]
     /\ Finish(c)
     /\ UNCHANGED <<account, transaction, edit, doomed, disturbed>>

-----------------------------------------------------------------------------
(* PUT transactions/complete: read the row, refuse it unless pending, set  *)
(* its type unconditionally, then move the balance.  deleted_at is not     *)
(* looked at.                                                              *)

CompleteRead(c, t, newType) ==
  /\ request[c] = IdleRequest
  /\ transaction[t].type = "pending_payment"
  /\ Become(c, [step |-> "complete.write", tx |-> t,
                row |-> transaction[t], type |-> newType])
  /\ UNCHANGED <<account, transaction, counted, edit, doomed, disturbed>>

CompleteWrite(c) ==
  LET t == request[c].tx
  IN /\ request[c].step = "complete.write"
     /\ Stored(t)
     /\ transaction' = [transaction EXCEPT ![t].type = request[c].type]
     /\ Become(c, [request[c] EXCEPT !.step = "credit"])
     /\ Disturb(IF Stale(c) \/ transaction[t].deleted THEN {t} ELSE {})
     /\ UNCHANGED <<account, counted, edit, doomed>>

-----------------------------------------------------------------------------
(* DELETE transactions/:index_id: the service checks the row and its live  *)
(* account; the repository reads the row again, outside the $transaction   *)
(* that reverts the balance by that row and soft-deletes it.               *)

DeleteFind(c, t) ==
  /\ request[c] = IdleRequest
  /\ Stored(t)
  /\ account[AccountOf[t]] = "live"
  /\ Become(c, [IdleRequest EXCEPT !.step = "delete.read", !.tx = t])
  /\ UNCHANGED <<account, transaction, counted, edit, doomed, disturbed>>

DeleteRead(c) ==
  LET t == request[c].tx
  IN /\ request[c].step = "delete.read"
     /\ Stored(t)
     /\ Become(c, [request[c] EXCEPT !.step = "delete.commit", !.row = transaction[t]])
     /\ UNCHANGED <<account, transaction, counted, edit, doomed, disturbed>>

DeleteCommit(c) ==
  LET t == request[c].tx
  IN /\ request[c].step = "delete.commit"
     /\ Stored(t)
     /\ counted' = [counted EXCEPT ![t] = @ - Effect(request[c].row)]
     /\ transaction' = [transaction EXCEPT ![t].deleted = TRUE]
     /\ Finish(c)
     /\ Disturb(IF Stale(c) THEN {t} ELSE {})
     /\ UNCHANGED <<account, edit, doomed>>

-----------------------------------------------------------------------------
(* POST transactions/restore/:index_id: one interactive $transaction, but  *)
(* at READ COMMITTED the row it reads is not locked; its writes take locks *)
(* in the order account, transaction and become visible together.  A live  *)
(* row is left alone.                                                      *)

RestoreRead(c, t) ==
  /\ request[c] = IdleRequest
  /\ Stored(t)
  /\ transaction[t].deleted
  /\ Become(c, [IdleRequest EXCEPT !.step = "restore.commit", !.tx = t,
                                   !.row = transaction[t]])
  /\ UNCHANGED <<account, transaction, counted, edit, doomed, disturbed>>

RestoreCommit(c) ==
  LET t == request[c].tx
      row == request[c].row
  IN /\ request[c].step = "restore.commit"
     /\ Stored(t)
     /\ counted' = [counted EXCEPT ![t] = @ + Effect([row EXCEPT !.deleted = FALSE])]
     /\ transaction' = [transaction EXCEPT ![t].deleted = FALSE]
     /\ Finish(c)
     /\ Disturb(IF Stale(c) THEN {t} ELSE {})
     /\ UNCHANGED <<account, edit, doomed>>

\* A request ends at any await: the process stops, the connection is lost,
\* the row it writes is gone (P2025), the insert has no account (foreign
\* key), or the new balance does not fit Decimal(10, 2).  What it has
\* written stays written.
Fail(c) ==
  LET t == request[c].tx
  IN /\ request[c].step # "idle"
     /\ Finish(c)
     /\ Disturb(IF request[c].step = "credit" /\ Stored(t) THEN {t} ELSE {})
     /\ UNCHANGED <<account, transaction, counted, edit, doomed>>

-----------------------------------------------------------------------------
(* Accounts.                                                               *)

CreateAccount(a) ==
  /\ account[a] = "absent"
  /\ account' = [account EXCEPT ![a] = "live"]
  /\ UNCHANGED <<transaction, counted, request, edit, doomed, disturbed>>

\* The guard of the routes of an account resolves it for its owner, one in the
\* trash only where the route asks for it.
Resolved(a, includeDeleted) ==
  Exists(a) /\ (includeDeleted \/ account[a] = "live")

\* A client is shown the account; it will send the figure back with PUT,
\* whose payload must carry a balance even to change the name.
ShowAccount(e, a) ==
  /\ edit[e] = IdleEdit
  /\ Resolved(a, FALSE)
  /\ edit' = [edit EXCEPT ![e] =
       [step |-> "put.shown", account |-> a,
        figure |-> [t \in Transaction |-> IF AccountOf[t] = a THEN counted[t] ELSE 0]]]
  /\ UNCHANGED <<account, transaction, counted, request, doomed, disturbed>>

PutCheck(e) ==
  /\ edit[e].step = "put.shown"
  /\ account[edit[e].account] = "live"
  /\ Proceed(e, "put.write")
  /\ UNCHANGED <<account, transaction, counted, request, doomed, disturbed>>

PutWrite(e) ==
  LET a == edit[e].account
      figure == edit[e].figure
      own == {t \in Transaction : AccountOf[t] = a}
  IN /\ edit[e].step = "put.write"
     /\ Exists(a)
     /\ counted' = [t \in Transaction |-> IF t \in own THEN figure[t] ELSE counted[t]]
     /\ Leave(e)
     /\ Disturb({t \in own : figure[t] # counted[t]})
     /\ UNCHANGED <<account, transaction, request, doomed>>

TrashCheck(e, a) ==
  /\ edit[e] = IdleEdit
  /\ Resolved(a, FALSE)
  /\ edit' = [edit EXCEPT ![e] = [IdleEdit EXCEPT !.step = "trash.write", !.account = a]]
  /\ UNCHANGED <<account, transaction, counted, request, doomed, disturbed>>

\* deleted_at := now, whatever it was.
TrashWrite(e) ==
  LET a == edit[e].account
  IN /\ edit[e].step = "trash.write"
     /\ Exists(a)
     /\ account' = [account EXCEPT ![a] = "trash"]
     /\ Leave(e)
     /\ UNCHANGED <<transaction, counted, request, doomed, disturbed>>

RestoreAccountCheck(e, a) ==
  /\ edit[e] = IdleEdit
  /\ Resolved(a, TRUE)
  /\ account[a] # "live"
  /\ edit' = [edit EXCEPT ![e] = [IdleEdit EXCEPT !.step = "restore.write", !.account = a]]
  /\ UNCHANGED <<account, transaction, counted, request, doomed, disturbed>>

RestoreAccountWrite(e) ==
  LET a == edit[e].account
  IN /\ edit[e].step = "restore.write"
     /\ Exists(a)
     /\ account' = [account EXCEPT ![a] = "live"]
     /\ Leave(e)
     /\ UNCHANGED <<transaction, counted, request, doomed, disturbed>>

\* As Fail, and the 404 of a PUT whose account is in the trash.
EditFail(e) ==
  /\ edit[e].step # "idle"
  /\ Leave(e)
  /\ UNCHANGED <<account, transaction, counted, request, doomed, disturbed>>

-----------------------------------------------------------------------------
(* AccountCleanupTask: list the expired accounts, then delete them one by  *)
(* one, by id and without looking again.  The foreign key cascades.        *)

\* Thirty days pass.
Expire(a) ==
  /\ account[a] = "trash"
  /\ account' = [account EXCEPT ![a] = "expired"]
  /\ UNCHANGED <<transaction, counted, request, edit, doomed, disturbed>>

CleanupList ==
  /\ doomed = {}
  /\ \E a \in Account : account[a] = "expired"
  /\ doomed' = {a \in Account : account[a] = "expired"}
  /\ UNCHANGED <<account, transaction, counted, request, edit, disturbed>>

CleanupDelete(a) ==
  LET own == {t \in Transaction : AccountOf[t] = a /\ Stored(t)}
  IN /\ a \in doomed
     /\ doomed' = doomed \ {a}
     /\ account' = [account EXCEPT ![a] = "purged"]
     /\ transaction' = [t \in Transaction |-> IF t \in own THEN Purged ELSE transaction[t]]
     /\ counted' = [t \in Transaction |-> IF t \in own THEN 0 ELSE counted[t]]
     /\ UNCHANGED <<request, edit, disturbed>>

\* The process stops during the loop.
CleanupStop ==
  /\ doomed # {}
  /\ doomed' = {}
  /\ UNCHANGED <<account, transaction, counted, request, edit, disturbed>>

-----------------------------------------------------------------------------
SaveNext ==
  \E c \in Client :
    \/ \E t \in Transaction, type \in Type : SaveCheck(c, t, type)
    \/ SaveCreate(c)
    \/ Credit(c)

CompleteNext ==
  \E c \in Client :
    \/ \E t \in Transaction, type \in Settled : CompleteRead(c, t, type)
    \/ CompleteWrite(c)

DeleteNext ==
  \E c \in Client :
    \/ \E t \in Transaction : DeleteFind(c, t)
    \/ DeleteRead(c)
    \/ DeleteCommit(c)

RestoreNext ==
  \E c \in Client :
    \/ \E t \in Transaction : RestoreRead(c, t)
    \/ RestoreCommit(c)

AccountNext ==
  \/ \E a \in Account : CreateAccount(a)
  \/ \E e \in Editor :
       \/ \E a \in Account : ShowAccount(e, a)
       \/ PutCheck(e)
       \/ PutWrite(e)
       \/ \E a \in Account : TrashCheck(e, a)
       \/ TrashWrite(e)
       \/ \E a \in Account : RestoreAccountCheck(e, a)
       \/ RestoreAccountWrite(e)
       \/ EditFail(e)

CleanupNext ==
  \/ \E a \in Account : Expire(a) \/ CleanupDelete(a)
  \/ CleanupList
  \/ CleanupStop

Next ==
  \/ SaveNext
  \/ CompleteNext
  \/ DeleteNext
  \/ RestoreNext
  \/ \E c \in Client : Fail(c)
  \/ AccountNext
  \/ CleanupNext

Spec == Init /\ [][Next]_vars

-----------------------------------------------------------------------------
(* Properties *)

TypeOK ==
  /\ account \in [Account -> Life]
  /\ transaction \in [Transaction -> Row]
  /\ counted \in [Transaction -> Int]
  /\ request \in [Client -> RequestState]
  /\ edit \in [Editor -> EditState]
  /\ \A e \in Editor : edit[e].step # "idle" => edit[e].account \in Account
  /\ doomed \subseteq Account
  /\ disturbed \subseteq Transaction

Owes(c, t) == request[c].step = "credit" /\ request[c].tx = t
Unowed(t) == \A c \in Client : ~Owes(c, t)
Quiet(t) == \A c \in Client : request[c].tx # t

\* Whatever save, complete, delete, restore, PUT account and cleanup do
\* concurrently, the amount of a transaction is in the balance exactly as its
\* row says, once no credit for it is owed - unless the transaction was hit
\* by one of the hazards that put it in disturbed: a write decided on a row
\* that had changed since it was read (complete, delete, restore), a request
\* that ended between its two writes, the completion of a deleted pending
\* payment, or a PUT account that sent back a figure that was no longer the
\* balance.  So these are the only ways the books go wrong.
CountedOnce ==
  \A t \in Transaction \ disturbed :
    Stored(t) /\ Unowed(t) => counted[t] = Effect(transaction[t])

\* No race, failure or stale figure makes a payment that is still pending
\* (or a row not yet inserted) part of the balance: complete's error path and
\* the type tests of save, delete and restore keep it out.
PendingUncounted ==
  \A t \in Transaction :
    transaction[t].type \in {"pending_payment", "unsaved"} => counted[t] = 0

\* A stored transaction has its account: the cascade of a cleanup takes every
\* row, also one inserted by a save that checked the account before the
\* cleanup, and a save that comes later inserts nothing.
NoOrphans ==
  \A t \in Transaction : Stored(t) => Exists(AccountOf[t])

-----------------------------------------------------------------------------
(* The inductive invariant behind the three properties.                    *)

\* Rows and their account rise and fall together.
RowsFollowAccount ==
  \A t \in Transaction :
    /\ Stored(t) => Exists(AccountOf[t])
    /\ transaction[t].type = "purged" => account[AccountOf[t]] = "purged"

\* Only a row that has been settled at some time has a share anywhere, in the
\* balance or in a figure that a client still holds.
SharesAreSettled ==
  \A t \in Transaction :
    /\ transaction[t].type \notin Settled => counted[t] = 0
    /\ \A e \in Editor :
         edit[e].figure[t] # 0 => transaction[t].type \in Settled \cup {"purged"}

\* A row that is being saved is known to one request only.
SavesAreAlone ==
  \A c \in Client :
    request[c].step = "save.create" =>
      /\ request[c].tx \in Transaction
      /\ transaction[request[c].tx].type = "unsaved"
      /\ \A d \in Client : d # c => request[d].tx # request[c].tx

\* What the other requests know of their row still holds of it now: it is no
\* longer unsaved, and once settled it never becomes pending again.
ReadsAreBehind ==
  \A c \in Client :
    /\ request[c].step # "idle" => request[c].tx \in Transaction
    /\ request[c].step \in {"complete.write", "delete.read", "delete.commit",
                            "restore.commit", "credit"} =>
         transaction[request[c].tx].type # "unsaved"
    /\ request[c].step = "complete.write" =>
         request[c].row.type = "pending_payment" /\ request[c].type \in Settled
    /\ request[c].step \in {"delete.commit", "restore.commit"} /\ request[c].row.type \in Settled =>
         transaction[request[c].tx].type \in Settled \cup {"purged"}
    /\ request[c].step = "restore.commit" => request[c].row.deleted
    /\ request[c].step = "credit" =>
         /\ request[c].type \in Settled
         /\ transaction[request[c].tx].type \in Settled \cup {"purged"}

\* An undisturbed transaction is owed at most one credit, of its own type, and
\* the balance lacks exactly that.
CreditsAreOwedOnce ==
  \A c \in Client, t \in Transaction \ disturbed :
    Owes(c, t) /\ Stored(t) =>
      /\ counted[t] = Effect(transaction[t]) - Sign(request[c].type)
      /\ \A d \in Client : Owes(d, t) => d = c

LedgerInv ==
  /\ TypeOK
  /\ RowsFollowAccount
  /\ SharesAreSettled
  /\ SavesAreAlone
  /\ ReadsAreBehind
  /\ CreditsAreOwedOnce
  /\ CountedOnce

-----------------------------------------------------------------------------
(* WalletLedger implements AtomicLedger.                                    *)

\* The share that a transaction has or is about to get: a credit that is owed
\* counts as given, unless its row is gone and it can only fail.
Promised(t) ==
  IF Stored(t) /\ ~Unowed(t)
  THEN counted[t] + Sign(request[CHOOSE c \in Client : Owes(c, t)].type)
  ELSE counted[t]

\* The book that the users see, without the transactions of disturbed.
Book ==
  [t \in Transaction \ disturbed |->
    [type |-> transaction[t].type, deleted |-> transaction[t].deleted,
     share |-> Promised(t)]]

Atomic == INSTANCE AtomicLedger WITH book <- Book

\* Whatever overlaps, each save, complete, delete and restore takes effect at
\* one of its statements, as if alone: a payment is completed once and not in
\* the trash, deletes and restores move the balance only when they change the
\* row, what is purged stays purged.  A transaction for which that fails is
\* in disturbed from that statement on.
ActsAtomically == Atomic!Spec

=============================================================================
