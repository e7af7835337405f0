------------------------- MODULE WalletLedgerProofs -------------------------
(***************************************************************************)
(* LedgerInv is an inductive invariant of WalletLedger, for every set of   *)
(* accounts, transactions and concurrent requests; the properties that the *)
(* runs check on small instances follow from it.                           *)
(*                                                                         *)
(* The steps fall in three groups.  Those that only look something up      *)
(* change nothing but the slot of their request (LookUp for transaction    *)
(* requests, EditOnly for account requests and the cleanup's list); those  *)
(* that move an account between live and trash (LifeOnly); and the writes, *)
(* which are proved one by one.                                            *)
(*                                                                         *)
(* The last part is about TrashCleanup: TrashInv, the invariant of the     *)
(* nightly loops, from which every deletion finds the row it was listed    *)
(* for.                                                                    *)
(***************************************************************************)
EXTENDS WalletLedger, TrashCleanup, FiniteSetTheorems, TLAPS

\* The constant records have the types of the variables they are stored in.
LEMMA IdleShape ==
  /\ IdleRequest \in RequestState
  /\ IdleEdit \in EditState
  /\ Unsaved \in Row
  /\ Purged \in Row
BY DEF IdleRequest, IdleEdit, RequestState, EditState, RequestStep, EditStep,
       Unsaved, Purged, Row, Type, Settled, NoFigure

\* Storing a well-typed value in the slot of a request changes that slot only.
LEMMA BecomeOnly ==
  ASSUME request \in [Client -> RequestState],
         NEW c \in Client, NEW r \in RequestState, Become(c, r)
  PROVE  /\ request' \in [Client -> RequestState]
         /\ request'[c] = r
         /\ \A d \in Client : d # c => request'[d] = request[d]
BY DEF Become

\* What a step that leaves all of this alone cannot break.
LEMMA EditOnly ==
  ASSUME LedgerInv, UNCHANGED <<account, transaction, counted, request, disturbed>>
  PROVE  /\ RowsFollowAccount'
         /\ SavesAreAlone'
         /\ ReadsAreBehind'
         /\ CreditsAreOwedOnce'
         /\ CountedOnce'
<1>1. /\ account' = account
      /\ transaction' = transaction
      /\ counted' = counted
      /\ request' = request
      /\ disturbed' = disturbed
  OBVIOUS
<1>2. RowsFollowAccount'
  BY <1>1 DEF LedgerInv, RowsFollowAccount, Stored, Exists
<1>3. SavesAreAlone'
  BY <1>1 DEF LedgerInv, SavesAreAlone
<1>4. ReadsAreBehind'
  BY <1>1 DEF LedgerInv, ReadsAreBehind
<1>5. CreditsAreOwedOnce'
  BY <1>1 DEF LedgerInv, CreditsAreOwedOnce, Owes, Stored
<1>6. CountedOnce'
  BY <1>1 DEF LedgerInv, CountedOnce, Owes, Unowed, Stored
<1> QED
  BY <1>2, <1>3, <1>4, <1>5, <1>6

\* Moving accounts between live, trash and expired keeps every row's account.
LEMMA LifeOnly ==
  ASSUME LedgerInv, UNCHANGED <<transaction, counted, request, disturbed>>,
         NEW a \in Account, NEW life \in {"live", "trash", "expired"},
         account[a] # "purged",
         account' = [account EXCEPT ![a] = life]
  PROVE  /\ account' \in [Account -> Life]
         /\ RowsFollowAccount'
         /\ SavesAreAlone'
         /\ ReadsAreBehind'
         /\ CreditsAreOwedOnce'
         /\ CountedOnce'
<1>1. /\ transaction' = transaction
      /\ counted' = counted
      /\ request' = request
      /\ disturbed' = disturbed
  OBVIOUS
<1>2. account' \in [Account -> Life]
  BY DEF LedgerInv, TypeOK, Life
<1>3. RowsFollowAccount'
  BY <1>1, AccountOfAssumption
     DEF LedgerInv, TypeOK, RowsFollowAccount, Stored, Exists
<1>4. SavesAreAlone'
  BY <1>1 DEF LedgerInv, SavesAreAlone
<1>5. ReadsAreBehind'
  BY <1>1 DEF LedgerInv, ReadsAreBehind
<1>6. CreditsAreOwedOnce'
  BY <1>1 DEF LedgerInv, CreditsAreOwedOnce, Owes, Stored
<1>7. CountedOnce'
  BY <1>1 DEF LedgerInv, CountedOnce, Owes, Unowed, Stored
<1> QED
  BY <1>2, <1>3, <1>4, <1>5, <1>6, <1>7

\* A request that takes its next step without writing, and neither comes to
\* owe a credit nor stops owing one, leaves the books as they are.
LEMMA LookUp ==
  ASSUME LedgerInv,
         UNCHANGED <<account, transaction, counted, edit, doomed, disturbed>>,
         NEW c \in Client, NEW r \in RequestState, Become(c, r),
         request[c].step # "credit", r.step # "credit"
  PROVE  /\ TypeOK'
         /\ RowsFollowAccount'
         /\ SharesAreSettled'
         /\ CreditsAreOwedOnce'
         /\ CountedOnce'
<1>1. /\ account' = account
      /\ transaction' = transaction
      /\ counted' = counted
      /\ edit' = edit
      /\ doomed' = doomed
      /\ disturbed' = disturbed
  OBVIOUS
<1>2. /\ request' \in [Client -> RequestState]
      /\ request'[c] = r
      /\ \A d \in Client : d # c => request'[d] = request[d]
  BY BecomeOnly DEF LedgerInv, TypeOK
<1>3. \A d \in Client, t \in Transaction : Owes(d, t)' <=> Owes(d, t)
  BY <1>2 DEF Owes
<1>4. TypeOK'
  BY <1>1, <1>2 DEF LedgerInv, TypeOK
<1>5. RowsFollowAccount'
  BY <1>1 DEF LedgerInv, RowsFollowAccount, Stored, Exists
<1>6. SharesAreSettled'
  BY <1>1 DEF LedgerInv, SharesAreSettled
<1>7. CreditsAreOwedOnce'
  BY <1>1, <1>2, <1>3 DEF LedgerInv, CreditsAreOwedOnce, Stored, Owes
<1>8. CountedOnce'
  BY <1>1, <1>3 DEF LedgerInv, CountedOnce, Unowed, Stored
<1> QED
  BY <1>4, <1>5, <1>6, <1>7, <1>8

-----------------------------------------------------------------------------
(* The steps that look up. *)

\* A new save knows a row that no other request knows.
LEMMA SaveCheckStep ==
  ASSUME LedgerInv, NEW c \in Client, NEW t \in Transaction, NEW type \in Type,
         SaveCheck(c, t, type)
  PROVE  LedgerInv'
<1> DEFINE r == [step |-> "save.create", tx |-> t, row |-> Unsaved, type |-> type]
<1>1. r \in RequestState /\ Become(c, r)
  BY IdleShape DEF SaveCheck, RequestState, RequestStep
<1>2. /\ request' \in [Client -> RequestState]
      /\ request'[c] = r
      /\ \A d \in Client : d # c => request'[d] = request[d]
  BY <1>1, BecomeOnly DEF LedgerInv, TypeOK
<1>3. request[c].step = "idle" /\ transaction[t].type = "unsaved"
  BY DEF SaveCheck, IdleRequest, Unsaved
<1>4. transaction' = transaction
  BY DEF SaveCheck
<1>5. /\ TypeOK'
      /\ RowsFollowAccount'
      /\ SharesAreSettled'
      /\ CreditsAreOwedOnce'
      /\ CountedOnce'
  BY <1>1, <1>3, LookUp DEF SaveCheck
<1>6. SavesAreAlone'
  BY <1>2, <1>3, <1>4 DEF SaveCheck, LedgerInv, SavesAreAlone
<1>7. ReadsAreBehind'
  BY <1>2, <1>4 DEF LedgerInv, ReadsAreBehind
<1> QED
  BY <1>5, <1>6, <1>7 DEF LedgerInv

\* The other requests start from, or re-read, a row that is stored.
LEMMA ReadStep ==
  ASSUME LedgerInv, NEW c \in Client, NEW r \in RequestState, Become(c, r),
         UNCHANGED <<account, transaction, counted, edit, doomed, disturbed>>,
         request[c].step \in {"idle", "delete.read"},
         r.step \in {"complete.write", "delete.read", "delete.commit", "restore.commit"},
         r.tx \in Transaction, Stored(r.tx),
         r.step = "complete.write" =>
           r.row.type = "pending_payment" /\ r.type \in Settled,
         r.step \in {"delete.commit", "restore.commit"} => r.row = transaction[r.tx],
         r.step = "restore.commit" => r.row.deleted
  PROVE  LedgerInv'
<1>1. /\ request' \in [Client -> RequestState]
      /\ request'[c] = r
      /\ \A d \in Client : d # c => request'[d] = request[d]
  BY BecomeOnly DEF LedgerInv, TypeOK
<1>2. transaction' = transaction
  OBVIOUS
<1>3. /\ TypeOK'
      /\ RowsFollowAccount'
      /\ SharesAreSettled'
      /\ CreditsAreOwedOnce'
      /\ CountedOnce'
  BY LookUp
<1>4. transaction[r.tx].type \in Type /\ transaction[r.tx].type # "unsaved"
  BY DEF Stored, Type, Settled
<1>5. SavesAreAlone'
  BY <1>1, <1>2, <1>4 DEF LedgerInv, SavesAreAlone
<1>6. ReadsAreBehind'
  BY <1>1, <1>2, <1>4 DEF LedgerInv, ReadsAreBehind
<1> QED
  BY <1>3, <1>5, <1>6 DEF LedgerInv

LEMMA CompleteReadStep ==
  ASSUME LedgerInv, NEW c \in Client, NEW t \in Transaction, NEW newType \in Settled,
         CompleteRead(c, t, newType)
  PROVE  LedgerInv'
<1> DEFINE r == [step |-> "complete.write", tx |-> t,
                 row |-> transaction[t], type |-> newType]
<1>1. r \in RequestState
  BY DEF LedgerInv, TypeOK, RequestState, RequestStep, Type
<1>2. Stored(t) /\ r.row.type = "pending_payment" /\ request[c].step = "idle"
  BY DEF CompleteRead, Stored, Type, IdleRequest
<1> QED
  BY <1>1, <1>2, ReadStep DEF CompleteRead

LEMMA DeleteFindStep ==
  ASSUME LedgerInv, NEW c \in Client, NEW t \in Transaction, DeleteFind(c, t)
  PROVE  LedgerInv'
<1> DEFINE r == [IdleRequest EXCEPT !.step = "delete.read", !.tx = t]
<1>1. r \in RequestState /\ r.step = "delete.read" /\ r.tx = t
  BY IdleShape DEF IdleRequest, RequestState, RequestStep
<1>2. request[c].step = "idle"
  BY DEF DeleteFind, IdleRequest
<1> QED
  BY <1>1, <1>2, ReadStep DEF DeleteFind

LEMMA DeleteReadStep ==
  ASSUME LedgerInv, NEW c \in Client, DeleteRead(c)
  PROVE  LedgerInv'
<1> DEFINE t == request[c].tx
           r == [request[c] EXCEPT !.step = "delete.commit", !.row = transaction[t]]
<1>1. request[c] \in RequestState /\ t \in Transaction
  BY DEF LedgerInv, TypeOK, ReadsAreBehind, DeleteRead
<1>2. /\ r \in RequestState
      /\ r.step = "delete.commit"
      /\ r.tx = t
      /\ r.row = transaction[t]
  BY <1>1 DEF LedgerInv, TypeOK, RequestState, RequestStep
<1> QED
  BY <1>1, <1>2, ReadStep DEF DeleteRead

LEMMA RestoreReadStep ==
  ASSUME LedgerInv, NEW c \in Client, NEW t \in Transaction, RestoreRead(c, t)
  PROVE  LedgerInv'
<1> DEFINE r == [IdleRequest EXCEPT !.step = "restore.commit", !.tx = t,
                                    !.row = transaction[t]]
<1>1. /\ r \in RequestState
      /\ r.step = "restore.commit"
      /\ r.tx = t
      /\ r.row = transaction[t]
  BY IdleShape DEF LedgerInv, TypeOK, IdleRequest, RequestState, RequestStep
<1>2. request[c].step = "idle"
  BY DEF RestoreRead, IdleRequest
<1> QED
  BY <1>1, <1>2, ReadStep DEF RestoreRead

-----------------------------------------------------------------------------
(* The steps that write. *)

\* Inserting the row: nothing is counted yet, and a settled row owes its credit.
LEMMA SaveCreateStep ==
  ASSUME LedgerInv, NEW c \in Client, SaveCreate(c)
  PROVE  LedgerInv'
<1> DEFINE t == request[c].tx
           type == request[c].type
           row == [type |-> type, deleted |-> FALSE]
           r == IF type = "pending_payment" THEN IdleRequest
                ELSE [request[c] EXCEPT !.step = "credit"]
<1>1. /\ t \in Transaction
      /\ type \in Type
      /\ request[c] \in RequestState
      /\ transaction[t].type = "unsaved"
      /\ counted[t] = 0
      /\ \A d \in Client : d # c => request[d].tx # t
      /\ \A e \in Editor : edit[e].figure[t] = 0
  BY DEF LedgerInv, TypeOK, RequestState, SavesAreAlone, SharesAreSettled, Type,
         Settled, EditState, SaveCreate
<1>2. /\ r \in RequestState
      /\ Become(c, r)
      /\ type = "pending_payment" => r.step = "idle" /\ r.tx = None
      /\ type # "pending_payment" =>
           r.step = "credit" /\ r.tx = t /\ r.type = type /\ type \in Settled
  BY <1>1, IdleShape
     DEF SaveCreate, Finish, IdleRequest, RequestState, RequestStep, Type, Settled
<1>3. /\ request' \in [Client -> RequestState]
      /\ request'[c] = r
      /\ \A d \in Client : d # c => request'[d] = request[d]
  BY <1>2, BecomeOnly DEF LedgerInv, TypeOK
<1>4. row \in Row
  BY <1>1 DEF Row, Type, Settled
<1>5. /\ transaction' \in [Transaction -> Row]
      /\ transaction'[t] = row
      /\ \A u \in Transaction : u # t => transaction'[u] = transaction[u]
  BY <1>1, <1>4 DEF SaveCreate, LedgerInv, TypeOK
<1>6. /\ account' = account
      /\ counted' = counted
      /\ edit' = edit
      /\ doomed' = doomed
      /\ disturbed' = disturbed
      /\ Exists(AccountOf[t])
  BY DEF SaveCreate
<1> HIDE DEF t, type, row, r
<1>7. row.type = type /\ row.deleted = FALSE
  BY DEF row
<1>8. TypeOK'
  BY <1>3, <1>5, <1>6 DEF LedgerInv, TypeOK
<1>9. RowsFollowAccount'
  BY <1>1, <1>5, <1>6, <1>7
     DEF LedgerInv, RowsFollowAccount, Stored, Exists, Type, Settled
<1>10. SharesAreSettled'
  BY <1>1, <1>5, <1>6 DEF LedgerInv, SharesAreSettled
<1>11. SavesAreAlone'
  <2> SUFFICES ASSUME NEW d \in Client, request'[d].step = "save.create"
               PROVE  /\ request'[d].tx \in Transaction
                      /\ transaction'[request'[d].tx].type = "unsaved"
                      /\ \A f \in Client : f # d => request'[f].tx # request'[d].tx
    BY DEF SavesAreAlone
  <2>1. d # c /\ request'[d] = request[d]
    BY <1>2, <1>3
  <2>2. /\ request[d].tx \in Transaction
        /\ transaction[request[d].tx].type = "unsaved"
        /\ \A f \in Client : f # d => request[f].tx # request[d].tx
        /\ request[d].tx # t
    BY <2>1, <1>1 DEF LedgerInv, SavesAreAlone
  <2>3. request'[c].tx # request[d].tx
    BY <2>2, <1>2, <1>3, NoneAssumption
  <2> QED
    BY <2>1, <2>2, <2>3, <1>3, <1>5
<1>12. ReadsAreBehind'
  BY <1>1, <1>2, <1>3, <1>5, <1>7 DEF LedgerInv, ReadsAreBehind, Type, Settled
<1>13. CreditsAreOwedOnce'
  <2> SUFFICES ASSUME NEW d \in Client, NEW u \in Transaction \ disturbed',
                      Owes(d, u)', Stored(u)'
               PROVE  /\ counted'[u] = Effect(transaction'[u]) - Sign(request'[d].type)
                      /\ \A f \in Client : Owes(f, u)' => f = d
    BY DEF CreditsAreOwedOnce
  <2>1. CASE d = c
    BY <2>1, <1>1, <1>2, <1>3, <1>5, <1>6, <1>7 DEF Owes, Effect, Sign
  <2>2. CASE d # c
    <3>1. u # t /\ Owes(d, u) /\ Stored(u)
      BY <2>2, <1>1, <1>3, <1>5 DEF Owes, Stored
    <3> QED
      BY <2>2, <3>1, <1>2, <1>3, <1>5, <1>6
         DEF LedgerInv, CreditsAreOwedOnce, Owes
  <2> QED
    BY <2>1, <2>2
<1>14. CountedOnce'
  <2> SUFFICES ASSUME NEW u \in Transaction \ disturbed, Stored(u)', Unowed(u)'
               PROVE  counted'[u] = Effect(transaction'[u])
    BY <1>6 DEF CountedOnce
  <2>1. CASE u = t
    <3>1. type = "pending_payment"
      BY <2>1, <1>2, <1>3 DEF Unowed, Owes
    <3> QED
      BY <2>1, <3>1, <1>1, <1>5, <1>6, <1>7 DEF Effect, Settled
  <2>2. CASE u # t
    <3>1. Stored(u) /\ Unowed(u)
      BY <2>2, <1>3, <1>5 DEF Stored, Unowed, Owes, SaveCreate, t
    <3> QED
      BY <2>2, <3>1, <1>5, <1>6 DEF LedgerInv, CountedOnce
  <2> QED
    BY <2>1, <2>2
<1> QED
  BY <1>8, <1>9, <1>10, <1>11, <1>12, <1>13, <1>14 DEF LedgerInv

\* The owed credit arrives.
LEMMA CreditStep ==
  ASSUME LedgerInv, NEW c \in Client, Credit(c)
  PROVE  LedgerInv'
<1> DEFINE t == request[c].tx
<1>1. /\ t \in Transaction
      /\ request[c].type \in Settled
      /\ transaction[t].type \in Settled
      /\ Stored(t)
      /\ Owes(c, t)
  BY DEF Credit, LedgerInv, TypeOK, RowsFollowAccount, ReadsAreBehind, Exists, Owes,
         Stored, Type, Settled
<1>2. /\ request' \in [Client -> RequestState]
      /\ request'[c] = IdleRequest
      /\ \A d \in Client : d # c => request'[d] = request[d]
  BY IdleShape, BecomeOnly DEF Credit, Finish, LedgerInv, TypeOK
<1>3. /\ counted' \in [Transaction -> Int]
      /\ counted'[t] = counted[t] + Sign(request[c].type)
      /\ \A u \in Transaction : u # t => counted'[u] = counted[u]
  BY <1>1 DEF Credit, Sign, LedgerInv, TypeOK
<1>4. /\ account' = account
      /\ transaction' = transaction
      /\ edit' = edit
      /\ doomed' = doomed
      /\ disturbed' = disturbed
  BY DEF Credit
<1> HIDE DEF t
<1>5. TypeOK'
  BY <1>2, <1>3, <1>4 DEF LedgerInv, TypeOK
<1>6. RowsFollowAccount'
  BY <1>4 DEF LedgerInv, RowsFollowAccount, Stored, Exists
<1>7. SharesAreSettled'
  BY <1>1, <1>3, <1>4 DEF LedgerInv, SharesAreSettled
<1>8. SavesAreAlone'
  BY <1>2, <1>4, NoneAssumption DEF LedgerInv, SavesAreAlone, IdleRequest
<1>9. ReadsAreBehind'
  BY <1>2, <1>4 DEF LedgerInv, ReadsAreBehind, IdleRequest
<1>10. \A d \in Client, u \in Transaction : Owes(d, u)' <=> d # c /\ Owes(d, u)
  BY <1>2 DEF Owes, IdleRequest
<1>11. CreditsAreOwedOnce'
  BY <1>1, <1>2, <1>3, <1>4, <1>10 DEF LedgerInv, CreditsAreOwedOnce, Stored, Owes
<1>12. CountedOnce'
  <2> SUFFICES ASSUME NEW u \in Transaction \ disturbed, Stored(u), Unowed(u)'
               PROVE  counted'[u] = Effect(transaction[u])
    BY <1>4 DEF CountedOnce, Stored
  <2>1. CASE u = t
    <3>1. counted[t] = Effect(transaction[t]) - Sign(request[c].type)
      BY <2>1, <1>1 DEF LedgerInv, CreditsAreOwedOnce
    <3> QED
      BY <2>1, <3>1, <1>3 DEF Effect, Sign
  <2>2. CASE u # t
    <3>1. Unowed(u)
      BY <2>2, <1>1, <1>10 DEF Unowed, Owes, t
    <3> QED
      BY <2>2, <3>1, <1>3 DEF LedgerInv, CountedOnce
  <2> QED
    BY <2>1, <2>2
<1> QED
  BY <1>5, <1>6, <1>7, <1>8, <1>9, <1>11, <1>12 DEF LedgerInv

\* The type of a pending row is settled: the credit is owed from here on.
LEMMA CompleteWriteStep ==
  ASSUME LedgerInv, NEW c \in Client, CompleteWrite(c)
  PROVE  LedgerInv'
<1> DEFINE t == request[c].tx
           type == request[c].type
           row == [transaction[t] EXCEPT !.type = type]
           r == [request[c] EXCEPT !.step = "credit"]
<1>1. /\ t \in Transaction
      /\ type \in Settled
      /\ request[c] \in RequestState
      /\ request[c].row.type = "pending_payment"
      /\ transaction[t] \in Row
      /\ Stored(t)
      /\ ~\E d \in Client : request[d].step = "save.create" /\ request[d].tx = t
  BY DEF LedgerInv, TypeOK, ReadsAreBehind, SavesAreAlone, CompleteWrite
<1>2. /\ r \in RequestState
      /\ r.step = "credit"
      /\ r.tx = t
      /\ r.type = type
      /\ Become(c, r)
  BY <1>1 DEF CompleteWrite, RequestState, RequestStep
<1>3. /\ request' \in [Client -> RequestState]
      /\ request'[c] = r
      /\ \A d \in Client : d # c => request'[d] = request[d]
  BY <1>2, BecomeOnly DEF LedgerInv, TypeOK
<1>4. row \in Row /\ row.type = type /\ row.deleted = transaction[t].deleted
  BY <1>1 DEF Row, Type
<1>5. /\ transaction' \in [Transaction -> Row]
      /\ transaction'[t] = row
      /\ \A u \in Transaction : u # t => transaction'[u] = transaction[u]
  BY <1>1, <1>4 DEF CompleteWrite, LedgerInv, TypeOK
<1>6. /\ account' = account
      /\ counted' = counted
      /\ edit' = edit
      /\ doomed' = doomed
  BY DEF CompleteWrite
<1>7. /\ disturbed' \subseteq Transaction
      /\ disturbed \subseteq disturbed'
      /\ t \notin disturbed' =>
           transaction[t].type = "pending_payment" /\ ~transaction[t].deleted
  <2>1. disturbed' = disturbed \cup (IF Stale(c) \/ transaction[t].deleted THEN {t} ELSE {})
    BY DEF CompleteWrite, Disturb
  <2> QED
    BY <2>1, <1>1 DEF LedgerInv, TypeOK, Stale
<1> HIDE DEF type, row, r
<1>8. TypeOK'
  BY <1>3, <1>5, <1>6, <1>7 DEF LedgerInv, TypeOK
<1>9. RowsFollowAccount'
  BY <1>1, <1>4, <1>5, <1>6
     DEF LedgerInv, RowsFollowAccount, Stored, Exists, Type, Settled
<1>10. SharesAreSettled'
  BY <1>1, <1>4, <1>5, <1>6 DEF LedgerInv, SharesAreSettled
<1>11. SavesAreAlone'
  BY <1>1, <1>2, <1>3, <1>5 DEF LedgerInv, SavesAreAlone
<1>12. ReadsAreBehind'
  BY <1>1, <1>2, <1>3, <1>4, <1>5 DEF LedgerInv, ReadsAreBehind, Settled
<1>13. CreditsAreOwedOnce'
  <2> SUFFICES ASSUME NEW d \in Client, NEW u \in Transaction \ disturbed',
                      Owes(d, u)', Stored(u)'
               PROVE  /\ counted'[u] = Effect(transaction'[u]) - Sign(request'[d].type)
                      /\ \A f \in Client : Owes(f, u)' => f = d
    BY DEF CreditsAreOwedOnce
  <2>1. CASE u = t
    <3>1. counted[t] = 0
      BY <2>1, <1>7 DEF LedgerInv, SharesAreSettled, Settled
    <3>2. \A f \in Client : ~Owes(f, t)
      BY <2>1, <1>7 DEF LedgerInv, ReadsAreBehind, Owes, Settled
    <3>3. \A f \in Client : Owes(f, u)' => f = c
      BY <2>1, <3>2, <1>3 DEF Owes
    <3>4. request'[d].type = type
      BY <3>3, <1>2, <1>3
    <3> QED
      BY <2>1, <3>1, <3>3, <3>4, <1>1, <1>4, <1>5, <1>6, <1>7
         DEF Effect, Sign
  <2>2. CASE u # t
    <3>1. \A f \in Client : Owes(f, u)' => f # c /\ Owes(f, u)
      <4> SUFFICES ASSUME NEW f \in Client, Owes(f, u)' PROVE f # c /\ Owes(f, u)
        OBVIOUS
      <4>1. f # c
        BY <2>2, <1>2, <1>3 DEF Owes
      <4> QED
        BY <4>1, <1>3 DEF Owes
    <3>2. Stored(u) /\ u \notin disturbed
      BY <2>2, <1>5, <1>7 DEF Stored
    <3>3. Owes(d, u) /\ request'[d] = request[d]
      BY <3>1, <1>3
    <3>4. /\ counted[u] = Effect(transaction[u]) - Sign(request[d].type)
          /\ \A f \in Client : Owes(f, u) => f = d
      BY <3>2, <3>3 DEF LedgerInv, CreditsAreOwedOnce
    <3> QED
      BY <2>2, <3>1, <3>3, <3>4, <1>5, <1>6
  <2> QED
    BY <2>1, <2>2
<1>14. CountedOnce'
  <2> SUFFICES ASSUME NEW u \in Transaction \ disturbed', Stored(u)', Unowed(u)'
               PROVE  counted'[u] = Effect(transaction'[u])
    BY DEF CountedOnce
  <2>1. u # t
    BY <1>2, <1>3 DEF Unowed, Owes
  <2>2. Stored(u) /\ Unowed(u) /\ u \notin disturbed
    BY <2>1, <1>2, <1>3, <1>5, <1>7 DEF Stored, Unowed, Owes, CompleteWrite
  <2> QED
    BY <2>1, <2>2, <1>5, <1>6 DEF LedgerInv, CountedOnce
<1> QED
  BY <1>8, <1>9, <1>10, <1>11, <1>12, <1>13, <1>14 DEF LedgerInv

\* A finished request leaves an idle slot, which owes nothing.
LEMMA FinishOnly ==
  ASSUME TypeOK, NEW c \in Client, Finish(c)
  PROVE  /\ request' \in [Client -> RequestState]
         /\ request'[c].step = "idle" /\ request'[c].tx = None
         /\ \A d \in Client : d # c => request'[d] = request[d]
         /\ \A d \in Client, u \in Transaction : Owes(d, u)' <=> d # c /\ Owes(d, u)
<1>1. /\ request' \in [Client -> RequestState]
      /\ request'[c] = IdleRequest
      /\ \A d \in Client : d # c => request'[d] = request[d]
  BY IdleShape, BecomeOnly DEF Finish, TypeOK
<1> QED
  BY <1>1 DEF IdleRequest, Owes

\* The $transaction of delete and of restore: the row's deleted flag and the
\* share move together, by the row that was read.
LEMMA FlipStep ==
  ASSUME LedgerInv, NEW c \in Client, NEW t \in Transaction, Stored(t),
         NEW flag \in BOOLEAN, NEW delta \in Int,
         request[c].step \in {"delete.commit", "restore.commit"}, request[c].tx = t,
         Finish(c),
         counted' = [counted EXCEPT ![t] = @ + delta],
         transaction' = [transaction EXCEPT ![t].deleted = flag],
         disturbed' = disturbed \cup (IF Stale(c) THEN {t} ELSE {}),
         UNCHANGED <<account, edit, doomed>>,
         request[c].row.type \notin Settled => delta = 0,
         ~Stale(c) => delta = Effect([transaction[t] EXCEPT !.deleted = flag])
                                - Effect(transaction[t])
  PROVE  LedgerInv'
<1> DEFINE row == [transaction[t] EXCEPT !.deleted = flag]
<1>1. row \in Row /\ row.type = transaction[t].type /\ row.deleted = flag
  BY DEF LedgerInv, TypeOK, Row
<1>2. /\ request' \in [Client -> RequestState]
      /\ request'[c].step = "idle" /\ request'[c].tx = None
      /\ \A d \in Client : d # c => request'[d] = request[d]
      /\ \A d \in Client, u \in Transaction : Owes(d, u)' <=> d # c /\ Owes(d, u)
  BY FinishOnly DEF LedgerInv
<1>3. /\ transaction' \in [Transaction -> Row]
      /\ transaction'[t] = row
      /\ \A u \in Transaction : u # t => transaction'[u] = transaction[u]
  BY <1>1 DEF LedgerInv, TypeOK
<1>4. /\ counted' \in [Transaction -> Int]
      /\ counted'[t] = counted[t] + delta
      /\ \A u \in Transaction : u # t => counted'[u] = counted[u]
  BY DEF LedgerInv, TypeOK
<1>5. /\ account' = account
      /\ edit' = edit
      /\ doomed' = doomed
  OBVIOUS
<1>6. /\ disturbed' \subseteq Transaction
      /\ disturbed \subseteq disturbed'
      /\ t \notin disturbed' => delta = Effect(row) - Effect(transaction[t])
  BY DEF LedgerInv, TypeOK
<1>7. ~Owes(c, t) /\ \A d \in Client, u \in Transaction : Owes(d, u)' <=> Owes(d, u)
  BY <1>2 DEF Owes
<1> HIDE DEF row
<1>8. TypeOK'
  BY <1>2, <1>3, <1>4, <1>5, <1>6 DEF LedgerInv, TypeOK
<1>9. RowsFollowAccount'
  BY <1>1, <1>3, <1>5 DEF LedgerInv, RowsFollowAccount, Stored, Exists
<1>10. SharesAreSettled'
  <2>1. transaction[t].type \notin Settled => delta = 0
    BY DEF LedgerInv, ReadsAreBehind, Stored, Type, Settled
  <2> QED
    BY <2>1, <1>1, <1>3, <1>4, <1>5 DEF LedgerInv, SharesAreSettled, TypeOK
<1>11. SavesAreAlone'
  BY <1>1, <1>2, <1>3, NoneAssumption DEF LedgerInv, SavesAreAlone
<1>12. ReadsAreBehind'
  BY <1>1, <1>2, <1>3 DEF LedgerInv, ReadsAreBehind
<1>13. \A u \in Transaction : Stored(u)' <=> Stored(u)
  BY <1>1, <1>3 DEF Stored
<1>14. Effect(row) \in Int /\ Effect(transaction[t]) \in Int /\ counted[t] \in Int
  BY DEF Effect, Sign, LedgerInv, TypeOK
<1>15. CreditsAreOwedOnce'
  <2> SUFFICES ASSUME NEW d \in Client, NEW u \in Transaction \ disturbed',
                      Owes(d, u), Stored(u)
               PROVE  /\ counted'[u] = Effect(transaction'[u]) - Sign(request'[d].type)
                      /\ \A f \in Client : Owes(f, u) => f = d
    BY <1>7, <1>13 DEF CreditsAreOwedOnce
  <2>1. /\ counted[u] = Effect(transaction[u]) - Sign(request[d].type)
        /\ \A f \in Client : Owes(f, u) => f = d
        /\ Sign(request[d].type) \in Int
    BY <1>6 DEF LedgerInv, CreditsAreOwedOnce, Sign
  <2>2. request'[d] = request[d]
    BY <1>2, <1>7
  <2>3. CASE u = t
    BY <2>1, <2>2, <2>3, <1>3, <1>4, <1>6, <1>14
  <2>4. CASE u # t
    BY <2>1, <2>2, <2>4, <1>3, <1>4
  <2> QED
    BY <2>3, <2>4
<1>16. CountedOnce'
  <2> SUFFICES ASSUME NEW u \in Transaction \ disturbed', Stored(u), Unowed(u)
               PROVE  counted'[u] = Effect(transaction'[u])
    BY <1>7, <1>13 DEF CountedOnce, Unowed
  <2>1. counted[u] = Effect(transaction[u])
    BY <1>6 DEF LedgerInv, CountedOnce
  <2>2. CASE u = t
    BY <2>1, <2>2, <1>3, <1>4, <1>6, <1>14
  <2>3. CASE u # t
    BY <2>1, <2>3, <1>3, <1>4
  <2> QED
    BY <2>2, <2>3
<1> QED
  BY <1>8, <1>9, <1>10, <1>11, <1>12, <1>15, <1>16 DEF LedgerInv

LEMMA DeleteCommitStep ==
  ASSUME LedgerInv, NEW c \in Client, DeleteCommit(c)
  PROVE  LedgerInv'
<1> DEFINE t == request[c].tx
           delta == -Effect(request[c].row)
<1>1. t \in Transaction /\ Stored(t) /\ request[c].step = "delete.commit"
  BY DEF LedgerInv, ReadsAreBehind, DeleteCommit
<1>2. /\ delta \in Int
      /\ request[c].row.type \notin Settled => delta = 0
  <2>1. /\ Effect(request[c].row) \in Int
        /\ request[c].row.type \notin Settled => Effect(request[c].row) = 0
    BY DEF Effect, Sign
  <2> QED
    BY <2>1
<1>3. counted' = [counted EXCEPT ![t] = @ + delta]
  <2>1. \A x \in Int : x - Effect(request[c].row) = x + delta
    BY DEF Effect, Sign
  <2> QED
    BY <2>1, <1>1 DEF DeleteCommit, LedgerInv, TypeOK
<1>4. ~Stale(c) => delta = Effect([transaction[t] EXCEPT !.deleted = TRUE])
                             - Effect(transaction[t])
  <2>1. Effect([transaction[t] EXCEPT !.deleted = TRUE]) = 0
    BY <1>1 DEF LedgerInv, TypeOK, Row, Effect
  <2> QED
    BY <2>1 DEF Stale, Effect, Sign
<1> HIDE DEF delta
<1> QED
  BY <1>1, <1>2, <1>3, <1>4, FlipStep DEF DeleteCommit, Disturb

LEMMA RestoreCommitStep ==
  ASSUME LedgerInv, NEW c \in Client, RestoreCommit(c)
  PROVE  LedgerInv'
<1> DEFINE t == request[c].tx
           delta == Effect([request[c].row EXCEPT !.deleted = FALSE])
<1>1. /\ t \in Transaction
      /\ Stored(t)
      /\ request[c].step = "restore.commit"
      /\ request[c].row \in Row
      /\ request[c].row.deleted
  BY DEF LedgerInv, TypeOK, RequestState, ReadsAreBehind, RestoreCommit
<1>2. /\ delta \in Int
      /\ request[c].row.type \notin Settled => delta = 0
  BY <1>1 DEF Effect, Sign, Row
<1>3. counted' = [counted EXCEPT ![t] = @ + delta]
  BY DEF RestoreCommit
<1>4. ~Stale(c) => delta = Effect([transaction[t] EXCEPT !.deleted = FALSE])
                             - Effect(transaction[t])
  BY <1>1, <1>2 DEF Stale, Effect, Sign
<1> HIDE DEF delta
<1> QED
  BY <1>1, <1>2, <1>3, <1>4, FlipStep DEF RestoreCommit, Disturb

\* A credit that will never arrive disturbs its transaction.
LEMMA FailStep ==
  ASSUME LedgerInv, NEW c \in Client, Fail(c)
  PROVE  LedgerInv'
<1>1. /\ request' \in [Client -> RequestState]
      /\ request'[c].step = "idle" /\ request'[c].tx = None
      /\ \A d \in Client : d # c => request'[d] = request[d]
      /\ \A d \in Client, u \in Transaction : Owes(d, u)' <=> d # c /\ Owes(d, u)
  BY FinishOnly DEF Fail, LedgerInv
<1>2. /\ account' = account
      /\ transaction' = transaction
      /\ counted' = counted
      /\ edit' = edit
      /\ doomed' = doomed
  BY DEF Fail
<1>3. /\ disturbed' \subseteq Transaction
      /\ disturbed \subseteq disturbed'
      /\ \A u \in Transaction \ disturbed' : Stored(u) => ~Owes(c, u)
  BY DEF Fail, Disturb, Owes, LedgerInv, TypeOK, ReadsAreBehind
<1>4. TypeOK'
  BY <1>1, <1>2, <1>3 DEF LedgerInv, TypeOK
<1>5. RowsFollowAccount'
  BY <1>2 DEF LedgerInv, RowsFollowAccount, Stored, Exists
<1>6. SharesAreSettled'
  BY <1>2 DEF LedgerInv, SharesAreSettled
<1>7. SavesAreAlone'
  BY <1>1, <1>2, NoneAssumption DEF LedgerInv, SavesAreAlone
<1>8. ReadsAreBehind'
  BY <1>1, <1>2 DEF LedgerInv, ReadsAreBehind
<1>9. CreditsAreOwedOnce'
  BY <1>1, <1>2, <1>3 DEF LedgerInv, CreditsAreOwedOnce, Stored
<1>10. CountedOnce'
  BY <1>1, <1>2, <1>3 DEF LedgerInv, CountedOnce, Unowed, Stored
<1> QED
  BY <1>4, <1>5, <1>6, <1>7, <1>8, <1>9, <1>10 DEF LedgerInv

-----------------------------------------------------------------------------
(* Account requests and the cleanup. *)

LEMMA EditShape ==
  ASSUME edit \in [Editor -> EditState], NEW e \in Editor,
         NEW s \in EditState, edit' = [edit EXCEPT ![e] = s]
  PROVE  /\ edit' \in [Editor -> EditState]
         /\ edit'[e] = s
         /\ \A f \in Editor : f # e => edit'[f] = edit[f]
OBVIOUS

\* Steps that change the slot of an account request only: the new slot has
\* no figure of its own, keeps the old one, or copies the balance.
LEMMA EditStepInv ==
  ASSUME LedgerInv, UNCHANGED <<account, transaction, counted, request, doomed, disturbed>>,
         NEW e \in Editor, NEW s \in EditState, edit' = [edit EXCEPT ![e] = s],
         s.step # "idle" => s.account \in Account,
         \A t \in Transaction : s.figure[t] \in {0, edit[e].figure[t], counted[t]}
  PROVE  LedgerInv'
<1>1. /\ edit' \in [Editor -> EditState]
      /\ edit'[e] = s
      /\ \A f \in Editor : f # e => edit'[f] = edit[f]
  BY EditShape DEF LedgerInv, TypeOK
<1>2. /\ account' = account
      /\ transaction' = transaction
      /\ counted' = counted
      /\ request' = request
      /\ doomed' = doomed
      /\ disturbed' = disturbed
  OBVIOUS
<1>3. TypeOK'
  BY <1>1, <1>2 DEF LedgerInv, TypeOK
<1>4. SharesAreSettled'
  BY <1>1, <1>2 DEF LedgerInv, SharesAreSettled
<1> QED
  BY <1>3, <1>4, EditOnly DEF LedgerInv

LEMMA ShowAccountStep ==
  ASSUME LedgerInv, NEW e \in Editor, NEW a \in Account, ShowAccount(e, a)
  PROVE  LedgerInv'
<1> DEFINE s == [step |-> "put.shown", account |-> a,
                 figure |-> [t \in Transaction |-> IF AccountOf[t] = a THEN counted[t] ELSE 0]]
<1>1. s \in EditState /\ s.account \in Account
  BY DEF LedgerInv, TypeOK, EditState, EditStep
<1>2. \A t \in Transaction : s.figure[t] \in {0, edit[e].figure[t], counted[t]}
  OBVIOUS
<1>3. edit' = [edit EXCEPT ![e] = s]
  BY DEF ShowAccount
<1> HIDE DEF s
<1> QED
  BY <1>1, <1>2, <1>3, EditStepInv DEF ShowAccount

LEMMA PutCheckStep ==
  ASSUME LedgerInv, NEW e \in Editor, PutCheck(e)
  PROVE  LedgerInv'
<1> DEFINE s == [edit[e] EXCEPT !.step = "put.write"]
<1>1. s \in EditState /\ s.figure = edit[e].figure /\ s.account \in Account
  BY DEF PutCheck, LedgerInv, TypeOK, EditState, EditStep
<1>2. edit' = [edit EXCEPT ![e] = s]
  BY DEF PutCheck, Proceed
<1> HIDE DEF s
<1> QED
  BY <1>1, <1>2, EditStepInv DEF PutCheck

LEMMA LifeCheckStep ==
  ASSUME LedgerInv, NEW e \in Editor, NEW a \in Account,
         TrashCheck(e, a) \/ RestoreAccountCheck(e, a)
  PROVE  LedgerInv'
<1>1. ASSUME NEW step \in {"trash.write", "restore.write"},
             edit' = [edit EXCEPT ![e] = [IdleEdit EXCEPT !.step = step, !.account = a]]
      PROVE  LedgerInv'
  <2> DEFINE s == [IdleEdit EXCEPT !.step = step, !.account = a]
  <2>1. \A t \in Transaction : IdleEdit.figure[t] = 0
    BY DEF IdleEdit, NoFigure
  <2>2. s \in EditState /\ s.figure = IdleEdit.figure /\ s.account \in Account
    BY IdleShape DEF EditState, EditStep
  <2>3. UNCHANGED <<account, transaction, counted, request, doomed, disturbed>>
    BY DEF TrashCheck, RestoreAccountCheck
  <2>4. \A t \in Transaction : s.figure[t] \in {0, edit[e].figure[t], counted[t]}
    BY <2>1, <2>2
  <2>5. edit' = [edit EXCEPT ![e] = s]
    BY <1>1
  <2> HIDE DEF s
  <2> QED
    BY <2>2, <2>3, <2>4, <2>5, EditStepInv
<1> QED
  BY <1>1 DEF TrashCheck, RestoreAccountCheck

LEMMA EditFailStep ==
  ASSUME LedgerInv, NEW e \in Editor, EditFail(e)
  PROVE  LedgerInv'
<1>1. IdleEdit.step = "idle" /\ \A t \in Transaction : IdleEdit.figure[t] = 0
  BY DEF IdleEdit, NoFigure
<1> QED
  BY <1>1, IdleShape, EditStepInv DEF EditFail, Leave

\* Accounts that come to life, go to the trash, come back, or grow old there.
LEMMA LifeStep ==
  ASSUME LedgerInv,
         \/ \E a \in Account : CreateAccount(a) \/ Expire(a)
         \/ \E e \in Editor : TrashWrite(e) \/ RestoreAccountWrite(e)
  PROVE  LedgerInv'
<1>1. UNCHANGED <<transaction, counted, request, disturbed>> /\ doomed' = doomed
  BY DEF CreateAccount, Expire, TrashWrite, RestoreAccountWrite
<1>2. \/ edit' = edit
      \/ \E e \in Editor : edit' = [edit EXCEPT ![e] = IdleEdit]
  BY DEF CreateAccount, Expire, TrashWrite, RestoreAccountWrite, Leave
<1> DEFINE Moves(a, life) ==
             account[a] # "purged" /\ account' = [account EXCEPT ![a] = life]
<1>3. \E a \in Account, life \in {"live", "trash", "expired"} : Moves(a, life)
  <2>1. CASE \E b \in Account : CreateAccount(b)
    BY <2>1 DEF CreateAccount
  <2>2. CASE \E b \in Account : Expire(b)
    BY <2>2 DEF Expire
  <2>3. ASSUME NEW e \in Editor, TrashWrite(e) \/ RestoreAccountWrite(e)
        PROVE  \E a \in Account, life \in {"live", "trash", "expired"} : Moves(a, life)
    <3>1. edit[e].account \in Account
      BY <2>3 DEF TrashWrite, RestoreAccountWrite, LedgerInv, TypeOK
    <3>2. Moves(edit[e].account, "trash") \/ Moves(edit[e].account, "live")
      BY <2>3 DEF TrashWrite, RestoreAccountWrite, Exists
    <3> QED
      BY <3>1, <3>2
  <2> QED
    BY <2>1, <2>2, <2>3
<1>4. /\ account' \in [Account -> Life]
      /\ RowsFollowAccount'
      /\ SavesAreAlone'
      /\ ReadsAreBehind'
      /\ CreditsAreOwedOnce'
      /\ CountedOnce'
  BY <1>1, <1>3, LifeOnly
<1> DEFINE EditOK == /\ edit \in [Editor -> EditState]
                     /\ \A e \in Editor : edit[e].step # "idle" => edit[e].account \in Account
<1>5. EditOK' /\ SharesAreSettled'
  <2>1. CASE edit' = edit
    BY <2>1, <1>1 DEF LedgerInv, TypeOK, SharesAreSettled
  <2>2. ASSUME NEW e \in Editor, edit' = [edit EXCEPT ![e] = IdleEdit]
        PROVE  EditOK' /\ SharesAreSettled'
    <3>1. /\ edit' \in [Editor -> EditState]
          /\ edit'[e] = IdleEdit
          /\ \A f \in Editor : f # e => edit'[f] = edit[f]
      BY <2>2, IdleShape, EditShape DEF LedgerInv, TypeOK
    <3>2. IdleEdit.step = "idle" /\ \A t \in Transaction : IdleEdit.figure[t] = 0
      BY DEF IdleEdit, NoFigure
    <3>3. EditOK'
      BY <3>1, <3>2 DEF LedgerInv, TypeOK
    <3> QED
      BY <3>1, <3>2, <3>3, <1>1 DEF LedgerInv, SharesAreSettled
  <2> QED
    BY <2>1, <2>2, <1>2
<1>6. TypeOK'
  BY <1>1, <1>4, <1>5 DEF LedgerInv, TypeOK
<1> QED
  BY <1>4, <1>5, <1>6 DEF LedgerInv

\* A figure that is no longer the balance disturbs what it differs on.
LEMMA PutWriteStep ==
  ASSUME LedgerInv, NEW e \in Editor, PutWrite(e)
  PROVE  LedgerInv'
<1> DEFINE a == edit[e].account
           figure == edit[e].figure
           own == {t \in Transaction : AccountOf[t] = a}
<1>1. /\ account' = account
      /\ transaction' = transaction
      /\ request' = request
      /\ doomed' = doomed
      /\ Exists(a)
  BY DEF PutWrite
<1>2. /\ figure \in [Transaction -> Int]
      /\ edit' \in [Editor -> EditState]
      /\ edit'[e] = IdleEdit
      /\ \A f \in Editor : f # e => edit'[f] = edit[f]
  BY IdleShape, EditShape DEF PutWrite, Leave, LedgerInv, TypeOK, EditState
<1>3. /\ IdleEdit.step = "idle"
      /\ \A t \in Transaction : IdleEdit.figure[t] = 0
  BY DEF IdleEdit, NoFigure
<1>4. counted' = [t \in Transaction |-> IF t \in own THEN figure[t] ELSE counted[t]]
  BY DEF PutWrite
<1>5. /\ disturbed' \subseteq Transaction
      /\ disturbed \subseteq disturbed'
      /\ \A t \in Transaction \ disturbed' : counted'[t] = counted[t]
  <2>1. disturbed' = disturbed \cup {t \in own : figure[t] # counted[t]}
    BY DEF PutWrite, Disturb
  <2> QED
    BY <2>1, <1>4 DEF LedgerInv, TypeOK
<1>6. TypeOK'
  BY <1>1, <1>2, <1>3, <1>4, <1>5 DEF LedgerInv, TypeOK
<1>7. RowsFollowAccount'
  BY <1>1 DEF LedgerInv, RowsFollowAccount, Stored, Exists
<1>8. SharesAreSettled'
  <2>1. ASSUME NEW t \in Transaction, transaction[t].type \notin Settled
        PROVE  counted'[t] = 0
    <3>1. CASE t \in own
      <4>1. account[AccountOf[t]] # "purged"
        BY <3>1, <1>1 DEF Exists
      <4>2. transaction[t].type # "purged"
        BY <4>1 DEF LedgerInv, RowsFollowAccount
      <4>3. figure[t] = 0
        BY <2>1, <4>2 DEF LedgerInv, SharesAreSettled
      <4> QED
        BY <3>1, <4>3, <1>4
    <3>2. CASE t \notin own
      BY <2>1, <3>2, <1>4 DEF LedgerInv, SharesAreSettled
    <3> QED
      BY <3>1, <3>2
  <2> QED
    BY <2>1, <1>1, <1>2, <1>3 DEF LedgerInv, SharesAreSettled
<1>9. SavesAreAlone'
  BY <1>1 DEF LedgerInv, SavesAreAlone
<1>10. ReadsAreBehind'
  BY <1>1 DEF LedgerInv, ReadsAreBehind
<1>11. CreditsAreOwedOnce'
  BY <1>1, <1>5 DEF LedgerInv, CreditsAreOwedOnce, Owes, Stored
<1>12. CountedOnce'
  BY <1>1, <1>5 DEF LedgerInv, CountedOnce, Owes, Unowed, Stored
<1> QED
  BY <1>6, <1>7, <1>8, <1>9, <1>10, <1>11, <1>12 DEF LedgerInv

\* The cascade takes the rows and their shares with the account.
LEMMA CleanupDeleteStep ==
  ASSUME LedgerInv, NEW a \in Account, CleanupDelete(a)
  PROVE  LedgerInv'
<1> DEFINE own == {t \in Transaction : AccountOf[t] = a /\ Stored(t)}
<1>1. /\ account' = [account EXCEPT ![a] = "purged"]
      /\ transaction' = [t \in Transaction |-> IF t \in own THEN Purged ELSE transaction[t]]
      /\ counted' = [t \in Transaction |-> IF t \in own THEN 0 ELSE counted[t]]
      /\ doomed' = doomed \ {a}
      /\ request' = request
      /\ edit' = edit
      /\ disturbed' = disturbed
  BY DEF CleanupDelete
<1>2. Purged.type = "purged" /\ \A t \in own : transaction[t].type \in Type
  BY DEF Purged, Stored
<1>3. \A t \in Transaction : Stored(t)' <=> Stored(t) /\ AccountOf[t] # a
  BY <1>1, <1>2 DEF Stored, Type, Settled
<1>4. TypeOK'
  BY <1>1, IdleShape DEF LedgerInv, TypeOK, Life
<1>5. RowsFollowAccount'
  <2> SUFFICES ASSUME NEW t \in Transaction
               PROVE  /\ Stored(t)' => Exists(AccountOf[t])'
                      /\ transaction'[t].type = "purged" => account'[AccountOf[t]] = "purged"
    BY DEF RowsFollowAccount
  <2>1. AccountOf[t] \in Account
    BY AccountOfAssumption
  <2>2. Stored(t)' => Exists(AccountOf[t])'
    BY <2>1, <1>1, <1>3 DEF LedgerInv, TypeOK, RowsFollowAccount, Exists
  <2>3. transaction'[t].type = "purged" => account'[AccountOf[t]] = "purged"
    BY <2>1, <1>1 DEF LedgerInv, TypeOK, RowsFollowAccount
  <2> QED
    BY <2>2, <2>3
<1>6. SharesAreSettled'
  BY <1>1, <1>2 DEF LedgerInv, SharesAreSettled
<1>7. SavesAreAlone'
  BY <1>1, <1>2 DEF LedgerInv, SavesAreAlone, Type, Settled
<1>8. ReadsAreBehind'
  BY <1>1, <1>2 DEF LedgerInv, ReadsAreBehind
<1>9. CreditsAreOwedOnce'
  BY <1>1, <1>3 DEF LedgerInv, CreditsAreOwedOnce, Owes
<1>10. CountedOnce'
  BY <1>1, <1>3 DEF LedgerInv, CountedOnce, Owes, Unowed
<1> QED
  BY <1>4, <1>5, <1>6, <1>7, <1>8, <1>9, <1>10 DEF LedgerInv

LEMMA CleanupLoopStep ==
  ASSUME LedgerInv, CleanupList \/ CleanupStop
  PROVE  LedgerInv'
<1>1. UNCHANGED <<account, transaction, counted, request, edit, disturbed>>
      /\ doomed' \subseteq Account
  BY DEF CleanupList, CleanupStop
<1>2. TypeOK' /\ SharesAreSettled'
  BY <1>1 DEF LedgerInv, TypeOK, SharesAreSettled
<1> QED
  BY <1>1, <1>2, EditOnly DEF LedgerInv

-----------------------------------------------------------------------------
(* The inductive invariant and what follows from it. *)

LEMMA InitLedgerInv == Init => LedgerInv
<1> SUFFICES ASSUME Init PROVE LedgerInv
  OBVIOUS
<1>1. /\ IdleRequest.step = "idle"
      /\ IdleEdit.step = "idle"
      /\ \A t \in Transaction : IdleEdit.figure[t] = 0
      /\ Unsaved.type = "unsaved"
  BY DEF IdleRequest, IdleEdit, NoFigure, Unsaved
<1>2. TypeOK
  BY <1>1, IdleShape DEF Init, TypeOK, Life
<1>3. \A t \in Transaction : ~Stored(t)
  BY <1>1 DEF Init, Stored, Type, Settled
<1>4. RowsFollowAccount
  BY <1>1, <1>3 DEF Init, RowsFollowAccount
<1>5. SharesAreSettled
  BY <1>1 DEF Init, SharesAreSettled
<1>6. SavesAreAlone /\ ReadsAreBehind
  BY <1>1 DEF Init, SavesAreAlone, ReadsAreBehind
<1>7. CreditsAreOwedOnce /\ CountedOnce
  BY <1>3 DEF CreditsAreOwedOnce, CountedOnce
<1> QED
  BY <1>2, <1>4, <1>5, <1>6, <1>7 DEF LedgerInv

LEMMA NextLedgerInv == LedgerInv /\ [Next]_vars => LedgerInv'
<1> SUFFICES ASSUME LedgerInv, [Next]_vars PROVE LedgerInv'
  OBVIOUS
<1>1. CASE SaveNext
  BY <1>1, SaveCheckStep, SaveCreateStep, CreditStep DEF SaveNext
<1>2. CASE CompleteNext
  BY <1>2, CompleteReadStep, CompleteWriteStep DEF CompleteNext
<1>3. CASE DeleteNext
  BY <1>3, DeleteFindStep, DeleteReadStep, DeleteCommitStep DEF DeleteNext
<1>4. CASE RestoreNext
  BY <1>4, RestoreReadStep, RestoreCommitStep DEF RestoreNext
<1>5. CASE \E c \in Client : Fail(c)
  BY <1>5, FailStep
<1>6. CASE AccountNext
  BY <1>6, ShowAccountStep, PutCheckStep, PutWriteStep, LifeCheckStep, LifeStep,
     EditFailStep DEF AccountNext
<1>7. CASE CleanupNext
  BY <1>7, LifeStep, CleanupDeleteStep, CleanupLoopStep DEF CleanupNext
<1>8. CASE UNCHANGED vars
  <2>1. UNCHANGED <<account, transaction, counted, request, edit, doomed, disturbed>>
    BY <1>8 DEF vars
  <2>2. TypeOK' /\ SharesAreSettled'
    BY <2>1 DEF LedgerInv, TypeOK, SharesAreSettled
  <2> QED
    BY <2>1, <2>2, EditOnly DEF LedgerInv
<1> QED
  BY <1>1, <1>2, <1>3, <1>4, <1>5, <1>6, <1>7, <1>8 DEF Next

\* LedgerInv holds in every state of every instance.
THEOREM LedgerInvariant == Spec => []LedgerInv
BY InitLedgerInv, NextLedgerInv, PTL DEF Spec

\* Type correctness.
THEOREM TypeCorrect == Spec => []TypeOK
<1>1. LedgerInv => TypeOK
  BY DEF LedgerInv
<1> QED
  BY <1>1, LedgerInvariant, PTL

\* A transaction that no hazard hit is in the balance exactly as its row says,
\* for any number of accounts, transactions and concurrent requests.
THEOREM BooksAreRight == Spec => []CountedOnce
<1>1. LedgerInv => CountedOnce
  BY DEF LedgerInv
<1> QED
  BY <1>1, LedgerInvariant, PTL

\* Pending payments stay out of the balance, whatever goes wrong.
THEOREM PendingStaysOut == Spec => []PendingUncounted
<1>1. LedgerInv => PendingUncounted
  BY DEF LedgerInv, SharesAreSettled, PendingUncounted, Settled
<1> QED
  BY <1>1, LedgerInvariant, PTL

\* No stored transaction outlives its account.
THEOREM RowsHaveAccounts == Spec => []NoOrphans
<1>1. LedgerInv => NoOrphans
  BY DEF LedgerInv, RowsFollowAccount, NoOrphans
<1> QED
  BY <1>1, LedgerInvariant, PTL

-----------------------------------------------------------------------------
(***************************************************************************)
(* WalletLedger implements AtomicLedger.  In a state that satisfies        *)
(* LedgerInv, the book that the refinement mapping shows is a function of  *)
(* the rows alone (BookFollowsRows); so a step of the code can only be     *)
(* seen when it writes a row or disturbs a transaction, and for each of    *)
(* those there is one step of AtomicLedger.                                *)
(***************************************************************************)

\* The entry that AtomicLedger has for a row.
EntryOf(t) == Atomic!Entry(transaction[t].type, transaction[t].deleted)

\* A share in the balance, or on its way to it, is what the row says.
LEMMA BookFollowsRows ==
  ASSUME LedgerInv
  PROVE  Book = [t \in Transaction \ disturbed |-> EntryOf(t)]
<1> SUFFICES ASSUME NEW t \in Transaction \ disturbed
             PROVE  Promised(t) = EntryOf(t).share
  BY DEF Book, EntryOf, Atomic!Entry
<1>1. /\ transaction[t] \in Row
      /\ counted[t] \in Int
      /\ EntryOf(t).share = Effect(transaction[t])
  BY DEF LedgerInv, TypeOK, Row, EntryOf, Atomic!Entry, Atomic!Settled, Effect, Sign, Settled
<1>2. CASE ~Stored(t)
  BY <1>1, <1>2 DEF LedgerInv, SharesAreSettled, Promised, Stored, Type, Effect
<1>3. CASE Stored(t) /\ Unowed(t)
  BY <1>1, <1>3 DEF LedgerInv, CountedOnce, Promised
<1>4. CASE Stored(t) /\ ~Unowed(t)
  <2> DEFINE c == CHOOSE d \in Client : Owes(d, t)
  <2>1. c \in Client /\ Owes(c, t)
    BY <1>4 DEF Unowed
  <2>2. Promised(t) = counted[t] + Sign(request[c].type)
    BY <1>4 DEF Promised
  <2> HIDE DEF c
  <2>3. counted[t] = Effect(transaction[t]) - Sign(request[c].type)
    BY <2>1, <1>4 DEF LedgerInv, CreditsAreOwedOnce
  <2>4. Effect(transaction[t]) \in Int /\ Sign(request[c].type) \in Int
    BY DEF Effect, Sign
  <2> QED
    BY <1>1, <2>2, <2>3, <2>4
<1> QED
  BY <1>2, <1>3, <1>4

\* In the initial state nothing is in the book but unsaved rows.
LEMMA InitAtomic == Init => Atomic!Init
<1> SUFFICES ASSUME Init PROVE Atomic!Init
  OBVIOUS
<1>1. Book = [t \in Transaction \ disturbed |-> EntryOf(t)]
  BY InitLedgerInv, BookFollowsRows
<1> QED
  BY <1>1 DEF Init, Unsaved, EntryOf, Atomic!Init

-----------------------------------------------------------------------------
(* Rows stands for what BookFollowsRows says of a step's two states.       *)

Rows == Book = [t \in Transaction \ disturbed |-> EntryOf(t)]

\* Nothing is seen of a step that writes no row and disturbs nothing.
LEMMA UnseenStep ==
  ASSUME Rows, Rows', UNCHANGED <<transaction, disturbed>>
  PROVE  UNCHANGED Book
BY DEF Rows, EntryOf

\* Of one that only disturbs, it is seen that the promise is broken.
LEMMA BreakStep ==
  ASSUME Rows, Rows', NEW ts \in SUBSET Transaction,
         disturbed' = disturbed \cup ts, transaction' = transaction
  PROVE  [Atomic!Next]_Book
<1> DEFINE lost == ts \ disturbed
<1>1. DOMAIN Book = Transaction \ disturbed
  BY DEF Rows
<1>2. Transaction \ disturbed' = (DOMAIN Book) \ lost /\ lost \in SUBSET DOMAIN Book
  BY <1>1
<1>3. Book' = [t \in (DOMAIN Book) \ lost |-> EntryOf(t)]
  BY <1>2 DEF Rows, EntryOf
<1>4. \A t \in DOMAIN Book : Book[t] = EntryOf(t)
  BY DEF Rows
<1>5. Atomic!Break(lost)
  BY <1>3, <1>4 DEF Atomic!Break, Atomic!Kept
<1> QED
  BY <1>2, <1>5 DEF Atomic!Next, Atomic!Kept

\* One that writes a single row is seen as that change of its entry.
LEMMA RowStep ==
  ASSUME Rows, Rows', NEW t \in Transaction, NEW row \in Row, NEW hit \in BOOLEAN,
         transaction \in [Transaction -> Row],
         transaction' = [transaction EXCEPT ![t] = row],
         disturbed' = disturbed \cup (IF hit THEN {t} ELSE {})
  PROVE  \/ t \in disturbed' /\ [Atomic!Next]_Book
         \/ /\ t \notin disturbed'
            /\ t \in DOMAIN Book
            /\ Book[t] = EntryOf(t)
            /\ Atomic!Set(t, Atomic!Entry(row.type, row.deleted))
<1>1. /\ transaction'[t] = row
      /\ \A u \in Transaction : u # t => transaction'[u] = transaction[u]
  OBVIOUS
<1>2. DOMAIN Book = Transaction \ disturbed /\ DOMAIN Book' = Transaction \ disturbed'
  BY DEF Rows
<1>3. /\ \A u \in Transaction \ disturbed : Book[u] = EntryOf(u)
      /\ \A u \in Transaction \ disturbed' :
           Book'[u] = Atomic!Entry(transaction'[u].type, transaction'[u].deleted)
  BY DEF Rows, EntryOf
<1>4. CASE t \in disturbed
  <2>1. disturbed' = disturbed
    BY <1>4
  <2>2. Book' = Book
    BY <2>1, <1>1, <1>4 DEF Rows, EntryOf
  <2> QED
    BY <1>4, <2>1, <2>2
<1>5. CASE t \notin disturbed /\ t \in disturbed'
  <2>1. Transaction \ disturbed' = (Transaction \ disturbed) \ {t}
    BY <1>5
  <2>2. Book' = [u \in (DOMAIN Book) \ {t} |-> Book[u]]
    BY <2>1, <1>1, <1>2 DEF Rows, EntryOf
  <2>3. Atomic!Break({t}) /\ {t} \in SUBSET DOMAIN Book
    BY <2>2, <1>2, <1>5 DEF Atomic!Break, Atomic!Kept
  <2> QED
    BY <1>5, <2>3 DEF Atomic!Next, Atomic!Kept
<1>6. CASE t \notin disturbed /\ t \notin disturbed'
  <2>1. disturbed' = disturbed
    BY <1>6
  <2>2. Book' = [Book EXCEPT ![t] = Atomic!Entry(row.type, row.deleted)]
    BY <2>1, <1>1, <1>6 DEF Rows, EntryOf
  <2> QED
    BY <2>2, <1>2, <1>3, <1>6 DEF Atomic!Set
<1> QED
  BY <1>4, <1>5, <1>6

-----------------------------------------------------------------------------
(* The steps that are seen. *)

\* A save takes effect when its row is inserted.
LEMMA SaveCreateIsSave ==
  ASSUME LedgerInv, Rows, Rows', NEW c \in Client, SaveCreate(c)
  PROVE  [Atomic!Next]_Book
<1> DEFINE t == request[c].tx
           row == [type |-> request[c].type, deleted |-> FALSE]
<1>1. /\ t \in Transaction
      /\ transaction \in [Transaction -> Row]
      /\ transaction[t].type = "unsaved"
      /\ request[c].type \in Type
  BY DEF LedgerInv, TypeOK, RequestState, SavesAreAlone, SaveCreate
<1>2. /\ row \in Row
      /\ transaction' = [transaction EXCEPT ![t] = row]
      /\ disturbed' = disturbed
  BY <1>1 DEF SaveCreate, Row
<1>3. \/ t \in disturbed' /\ [Atomic!Next]_Book
      \/ /\ t \in DOMAIN Book
         /\ Book[t] = EntryOf(t)
         /\ Atomic!Set(t, Atomic!Entry(row.type, row.deleted))
  BY <1>1, <1>2, RowStep
<1>4. CASE /\ t \in DOMAIN Book
           /\ Book[t] = EntryOf(t)
           /\ Atomic!Set(t, Atomic!Entry(row.type, row.deleted))
  <2>1. Book[t].type = "unsaved"
    BY <1>1, <1>4 DEF EntryOf, Atomic!Entry
  <2>2. Atomic!Save(t, request[c].type)
    BY <2>1, <1>4 DEF Atomic!Save
  <2> QED
    BY <2>2, <1>1, <1>4 DEF Atomic!Next, Atomic!Kept, Atomic!Type, Atomic!Settled, Type, Settled
<1> QED
  BY <1>3, <1>4

\* A completion takes effect when it writes the type.
LEMMA CompleteWriteIsComplete ==
  ASSUME LedgerInv, Rows, Rows', NEW c \in Client, CompleteWrite(c)
  PROVE  [Atomic!Next]_Book
<1> DEFINE t == request[c].tx
           row == [transaction[t] EXCEPT !.type = request[c].type]
           hit == Stale(c) \/ transaction[t].deleted
<1>1. /\ t \in Transaction
      /\ transaction \in [Transaction -> Row]
      /\ transaction[t] \in Row
      /\ request[c].row.type = "pending_payment"
      /\ request[c].type \in Settled
  BY DEF LedgerInv, TypeOK, ReadsAreBehind, CompleteWrite
<1>2. /\ row \in Row
      /\ row.type = request[c].type
      /\ row.deleted = transaction[t].deleted
      /\ hit \in BOOLEAN
      /\ transaction' = [transaction EXCEPT ![t] = row]
      /\ disturbed' = disturbed \cup (IF hit THEN {t} ELSE {})
  BY <1>1 DEF CompleteWrite, Row, Type, Settled, Disturb, Stale
<1> HIDE DEF row
<1>3. \/ t \in disturbed' /\ [Atomic!Next]_Book
      \/ /\ t \notin disturbed'
         /\ t \in DOMAIN Book
         /\ Book[t] = EntryOf(t)
         /\ Atomic!Set(t, Atomic!Entry(row.type, row.deleted))
  BY <1>1, <1>2, RowStep
<1>4. CASE /\ t \notin disturbed'
           /\ t \in DOMAIN Book
           /\ Book[t] = EntryOf(t)
           /\ Atomic!Set(t, Atomic!Entry(row.type, row.deleted))
  <2>1. transaction[t].type = "pending_payment" /\ transaction[t].deleted = FALSE
    BY <1>1, <1>2, <1>4 DEF Stale, Row
  <2>2. Atomic!Complete(t, request[c].type)
    BY <2>1, <1>2, <1>4 DEF EntryOf, Atomic!Complete
  <2> QED
    BY <2>2, <1>1, <1>4 DEF Atomic!Next, Atomic!Kept, Atomic!Settled, Settled
<1> QED
  BY <1>3, <1>4

\* A delete and a restore take effect when their $transaction commits.
LEMMA CommitIsDeleteOrRestore ==
  ASSUME LedgerInv, Rows, Rows', NEW c \in Client, DeleteCommit(c) \/ RestoreCommit(c)
  PROVE  [Atomic!Next]_Book
<1> DEFINE t == request[c].tx
           row(flag) == [transaction[t] EXCEPT !.deleted = flag]
<1>1. /\ t \in Transaction
      /\ transaction \in [Transaction -> Row]
      /\ transaction[t] \in Row
      /\ transaction[t].type \in Type
  BY DEF LedgerInv, TypeOK, ReadsAreBehind, DeleteCommit, RestoreCommit, Stored
<1>2. PICK flag \in BOOLEAN : transaction' = [transaction EXCEPT ![t] = row(flag)]
  <2>1. \/ transaction' = [transaction EXCEPT ![t] = row(TRUE)]
        \/ transaction' = [transaction EXCEPT ![t] = row(FALSE)]
    BY DEF DeleteCommit, RestoreCommit
  <2> QED
    BY <2>1
<1>3. /\ row(flag) \in Row
      /\ row(flag).type = transaction[t].type
      /\ row(flag).deleted = flag
      /\ Stale(c) \in BOOLEAN
      /\ disturbed' = disturbed \cup (IF Stale(c) THEN {t} ELSE {})
  BY <1>1 DEF DeleteCommit, RestoreCommit, Row, Disturb, Stale
<1> HIDE DEF row
<1>4. \/ t \in disturbed' /\ [Atomic!Next]_Book
      \/ /\ t \in DOMAIN Book
         /\ Book[t] = EntryOf(t)
         /\ Atomic!Set(t, Atomic!Entry(row(flag).type, row(flag).deleted))
  BY <1>1, <1>2, <1>3, RowStep
<1>5. CASE /\ t \in DOMAIN Book
           /\ Book[t] = EntryOf(t)
           /\ Atomic!Set(t, Atomic!Entry(row(flag).type, row(flag).deleted))
  <2>1. Book[t].type = transaction[t].type /\ Book[t].type \in Atomic!Type
    BY <1>1, <1>5 DEF EntryOf, Atomic!Entry, Atomic!Type, Atomic!Settled, Type, Settled
  <2>2. Atomic!Delete(t) \/ Atomic!Restore(t)
    BY <2>1, <1>3, <1>5 DEF Atomic!Delete, Atomic!Restore
  <2> QED
    BY <2>2, <1>5 DEF Atomic!Next, Atomic!Kept
<1> QED
  BY <1>4, <1>5

\* The cascade is a purge of the account's rows.
LEMMA CleanupDeleteIsPurge ==
  ASSUME LedgerInv, Rows, Rows', NEW a \in Account, CleanupDelete(a)
  PROVE  [Atomic!Next]_Book
<1> DEFINE own == {t \in Transaction : AccountOf[t] = a /\ Stored(t)}
           gone == own \ disturbed
<1>1. /\ transaction' = [t \in Transaction |-> IF t \in own THEN Purged ELSE transaction[t]]
      /\ disturbed' = disturbed
  BY DEF CleanupDelete
<1>2. DOMAIN Book = Transaction \ disturbed /\ gone \in SUBSET DOMAIN Book
  BY DEF Rows
<1>3. \A t \in DOMAIN Book : Book[t] = EntryOf(t)
  BY DEF Rows
<1>4. \A t \in gone : Book[t].type \in Atomic!Type
  BY <1>2, <1>3 DEF Stored, EntryOf, Atomic!Entry, Atomic!Type, Atomic!Settled, Type, Settled
<1>5. Book' = [t \in DOMAIN Book |->
                 IF t \in gone THEN Atomic!Entry("purged", FALSE) ELSE Book[t]]
  BY <1>1, <1>2, <1>3 DEF Rows, EntryOf, Purged
<1>6. Atomic!Purge(gone)
  BY <1>4, <1>5 DEF Atomic!Purge, Atomic!Kept
<1> QED
  BY <1>2, <1>6 DEF Atomic!Next, Atomic!Kept

\* A failure and an outdated figure break the promise where they disturb.
LEMMA DisturbIsBreak ==
  ASSUME LedgerInv, Rows, Rows',
         \/ \E c \in Client : Fail(c)
         \/ \E e \in Editor : PutWrite(e)
  PROVE  [Atomic!Next]_Book
<1>1. transaction' = transaction
  BY DEF Fail, PutWrite
<1>2. \E ts \in SUBSET Transaction : disturbed' = disturbed \cup ts
  <2>1. CASE \E c \in Client : Fail(c)
    <3>1. PICK c \in Client : Fail(c)
      BY <2>1
    <3>2. request[c].tx \in Transaction
      BY <3>1 DEF Fail, LedgerInv, ReadsAreBehind
    <3> QED
      BY <3>1, <3>2 DEF Fail, Disturb
  <2>2. CASE \E e \in Editor : PutWrite(e)
    BY <2>2 DEF PutWrite, Disturb
  <2> QED
    BY <2>1, <2>2
<1> QED
  BY <1>1, <1>2, BreakStep

-----------------------------------------------------------------------------
(* The refinement. *)

LEMMA NextAtomic ==
  ASSUME LedgerInv, Rows, Rows', [Next]_vars
  PROVE  [Atomic!Next]_Book
<1>1. CASE SaveNext
  BY <1>1, SaveCreateIsSave, UnseenStep DEF SaveNext, SaveCheck, Credit
<1>2. CASE CompleteNext
  BY <1>2, CompleteWriteIsComplete, UnseenStep DEF CompleteNext, CompleteRead
<1>3. CASE DeleteNext
  BY <1>3, CommitIsDeleteOrRestore, UnseenStep DEF DeleteNext, DeleteFind, DeleteRead
<1>4. CASE RestoreNext
  BY <1>4, CommitIsDeleteOrRestore, UnseenStep DEF RestoreNext, RestoreRead
<1>5. CASE \E c \in Client : Fail(c)
  BY <1>5, DisturbIsBreak
<1>6. CASE AccountNext
  BY <1>6, DisturbIsBreak, UnseenStep
     DEF AccountNext, CreateAccount, ShowAccount, PutCheck, TrashCheck, TrashWrite,
         RestoreAccountCheck, RestoreAccountWrite, EditFail
<1>7. CASE CleanupNext
  BY <1>7, CleanupDeleteIsPurge, UnseenStep DEF CleanupNext, Expire, CleanupList, CleanupStop
<1>8. CASE UNCHANGED vars
  BY <1>8, UnseenStep DEF vars
<1> QED
  BY <1>1, <1>2, <1>3, <1>4, <1>5, <1>6, <1>7, <1>8 DEF Next

\* Whatever overlaps, a request about an undisturbed transaction takes effect
\* at one of its statements: WalletLedger implements AtomicLedger.
THEOREM RequestsAreAtomic == Spec => ActsAtomically
<1>1. LedgerInv => Rows
  BY BookFollowsRows DEF Rows
<1>2. LedgerInv /\ Rows /\ Rows' /\ [Next]_vars => [Atomic!Next]_Book
  BY NextAtomic
<1> QED
  BY <1>1, <1>2, InitAtomic, LedgerInvariant, PTL DEF Spec, ActsAtomically, Atomic!Spec

-----------------------------------------------------------------------------
(* The nightly lists.                                                      *)

\* findDeletedOlderThan: a list of the expired rows, each of them once.
LEMMA ListOfExpired ==
  ASSUME NEW S, IsFiniteSet(S), NEW table \in [S -> RowLife],
         NEW list \in SetToSeqs(Expired(table))
  PROVE  /\ list \in Seq(S)
         /\ \A i \in DOMAIN list : table[list[i]] = "expired"
         /\ \A i, j \in DOMAIN list : i # j => list[i] # list[j]
<1> DEFINE E == Expired(table)
<1>1. E \subseteq S /\ \A id \in E : table[id] = "expired"
  BY DEF Expired
<1>2. IsFiniteSet(E) /\ Cardinality(E) \in Nat
  BY <1>1, FS_Subset, FS_CardinalityType
<1> HIDE DEF E
<1>3. list \in [1 .. Cardinality(E) -> E] /\ \A i, j \in 1 .. Cardinality(E) : i # j => list[i] # list[j]
  BY DEF SetToSeqs, E
<1> QED
  BY <1>1, <1>2, <1>3

\* A list whose head has had its turn.
LEMMA RestOfList ==
  ASSUME NEW S, NEW list \in Seq(S), list # <<>>
  PROVE  /\ Head(list) \in S /\ Head(list) = list[1] /\ 1 \in DOMAIN list
         /\ Tail(list) \in Seq(S)
         /\ \A i \in DOMAIN Tail(list) :
              i + 1 \in DOMAIN list /\ i + 1 # 1 /\ Tail(list)[i] = list[i + 1]
<1>1. Len(list) \in Nat \ {0} /\ DOMAIN list = 1 .. Len(list)
  OBVIOUS
<1>2. Tail(list) \in Seq(S) /\ Len(Tail(list)) = Len(list) - 1
  OBVIOUS
<1> QED
  BY <1>1, <1>2

LEMMA InitTrash == TrashInit => TrashInv
BY CleanupAssumption
   DEF TrashInit, TrashInv, TrashTypeOK, DeletesFindRows, CascadeIsComplete, RowLife

\* A request or time moves rows in and out of the trash, and none that is gone.
LEMMA RowsMoveInTrash ==
  ASSUME TrashInv, UNCHANGED <<loops, stops>>,
         accounts' \in [AccountId -> RowLife], transactions' \in [TransactionId -> RowLife],
         \A a \in AccountId : accounts'[a] = "purged" <=> accounts[a] = "purged",
         \A t \in TransactionId : transactions'[t] = "purged" <=> transactions[t] = "purged"
  PROVE  TrashInv'
<1>1. TrashTypeOK'
  BY DEF TrashInv, TrashTypeOK, loops
<1>2. DeletesFindRows'
  <2>1. \A i \in DOMAIN accountsToDelete : accountsToDelete[i] \in AccountId
    BY DEF TrashInv, TrashTypeOK
  <2> QED
    BY <2>1 DEF TrashInv, DeletesFindRows, loops
<1>3. CascadeIsComplete'
  BY CleanupAssumption DEF TrashInv, CascadeIsComplete
<1> QED
  BY <1>1, <1>2, <1>3 DEF TrashInv

LEMMA RequestsKeepTrash ==
  ASSUME TrashInv,
         \/ \E a \in AccountId : SoftDeleteAccount(a) \/ RestoreAccount(a)
         \/ \E t \in TransactionId : SoftDeleteTransaction(t) \/ RestoreTransaction(t)
         \/ ThirtyDaysPass
  PROVE  TrashInv'
<1>1. accounts \in [AccountId -> RowLife] /\ transactions \in [TransactionId -> RowLife]
  BY DEF TrashInv, TrashTypeOK
<1>2. CASE \E a \in AccountId : SoftDeleteAccount(a) \/ RestoreAccount(a)
  <2>1. PICK a \in AccountId : SoftDeleteAccount(a) \/ RestoreAccount(a)
    BY <1>2
  <2> QED
    BY <1>1, <2>1, RowsMoveInTrash DEF SoftDeleteAccount, RestoreAccount, RowLife
<1>3. CASE \E t \in TransactionId : SoftDeleteTransaction(t) \/ RestoreTransaction(t)
  <2>1. PICK t \in TransactionId : SoftDeleteTransaction(t) \/ RestoreTransaction(t)
    BY <1>3
  <2> QED
    BY <1>1, <2>1, RowsMoveInTrash DEF SoftDeleteTransaction, RestoreTransaction, RowLife
<1>4. CASE ThirtyDaysPass
  BY <1>1, <1>4, RowsMoveInTrash DEF ThirtyDaysPass, RowLife
<1> QED
  BY <1>2, <1>3, <1>4

LEMMA ListsKeepTrash ==
  ASSUME TrashInv, AccountList \/ TransactionList \/ DeleteHard \/ AccountDeleteFails \/ Stop
  PROVE  TrashInv'
<1>0. /\ accounts \in [AccountId -> RowLife] /\ transactions \in [TransactionId -> RowLife]
      /\ accountsToDelete \in Seq(AccountId) /\ txsToDelete \in Seq(TransactionId)
      /\ stops \in 0 .. MaxStops
  BY DEF TrashInv, TrashTypeOK
<1>1. accounts' = accounts /\ transactions' = transactions /\ CascadeIsComplete'
  BY DEF AccountList, TransactionList, DeleteHard, AccountDeleteFails, Stop, tables,
         TrashInv, CascadeIsComplete
<1>2. CASE AccountList
  <2>1. accountsToDelete' \in SetToSeqs(Expired(accounts)) /\ UNCHANGED <<txsToDelete, stops>>
    BY <1>2 DEF AccountList
  <2>2. /\ accountsToDelete' \in Seq(AccountId)
        /\ \A i \in DOMAIN accountsToDelete' : accounts[accountsToDelete'[i]] = "expired"
        /\ \A i, j \in DOMAIN accountsToDelete' : i # j => accountsToDelete'[i] # accountsToDelete'[j]
    BY <1>0, <2>1, ListOfExpired, CleanupAssumption
  <2> QED
    BY <1>0, <1>1, <2>1, <2>2 DEF TrashInv, TrashTypeOK, DeletesFindRows
<1>3. CASE TransactionList
  <2>1. txsToDelete' \in SetToSeqs(Expired(transactions)) /\ UNCHANGED <<accountsToDelete, stops>>
    BY <1>3 DEF TransactionList
  <2>2. txsToDelete' \in Seq(TransactionId)
    BY <1>0, <2>1, ListOfExpired, CleanupAssumption
  <2> QED
    BY <1>0, <1>1, <2>1, <2>2 DEF TrashInv, TrashTypeOK, DeletesFindRows
<1>4. CASE DeleteHard
  <2>1. txsToDelete' \in Seq(TransactionId) /\ UNCHANGED <<accountsToDelete, stops>>
    BY <1>0, <1>4, RestOfList DEF DeleteHard
  <2> QED
    BY <1>0, <1>1, <2>1 DEF TrashInv, TrashTypeOK, DeletesFindRows
<1>5. CASE AccountDeleteFails
  <2>1. accountsToDelete # <<>> /\ accountsToDelete' = Tail(accountsToDelete) /\ UNCHANGED <<txsToDelete, stops>>
    BY <1>5 DEF AccountDeleteFails
  <2>2. DeletesFindRows'
    BY <1>0, <1>1, <2>1, RestOfList DEF TrashInv, DeletesFindRows
  <2>3. accountsToDelete' \in Seq(AccountId)
    BY <1>0, <2>1, RestOfList
  <2> QED
    BY <1>0, <1>1, <2>1, <2>2, <2>3 DEF TrashInv, TrashTypeOK
<1>6. CASE Stop
  <2>1. accountsToDelete' = <<>> /\ txsToDelete' = <<>> /\ stops' \in 0 .. MaxStops
    BY <1>0, <1>6, CleanupAssumption DEF Stop
  <2> QED
    BY <1>0, <1>1, <2>1 DEF TrashInv, TrashTypeOK, DeletesFindRows
<1> QED
  BY <1>2, <1>3, <1>4, <1>5, <1>6

\* The row that goes is on no later place of the list.
LEMMA DeleteKeepsTrash == ASSUME TrashInv, AccountDelete PROVE TrashInv'
<1> DEFINE a == Head(accountsToDelete)
<1>0. /\ accounts \in [AccountId -> RowLife] /\ transactions \in [TransactionId -> RowLife]
      /\ accountsToDelete \in Seq(AccountId) /\ txsToDelete \in Seq(TransactionId)
      /\ stops \in 0 .. MaxStops /\ accountsToDelete # <<>>
  BY DEF TrashInv, TrashTypeOK, AccountDelete
<1>1. /\ a \in AccountId /\ a = accountsToDelete[1] /\ 1 \in DOMAIN accountsToDelete
      /\ Tail(accountsToDelete) \in Seq(AccountId)
      /\ \A i \in DOMAIN Tail(accountsToDelete) :
           i + 1 \in DOMAIN accountsToDelete /\ i + 1 # 1
             /\ Tail(accountsToDelete)[i] = accountsToDelete[i + 1]
  BY <1>0, RestOfList
<1>2. /\ accounts' = [accounts EXCEPT ![a] = "purged"]
      /\ transactions' = [t \in TransactionId |-> IF OwnerOf[t] = a THEN "purged" ELSE transactions[t]]
      /\ accountsToDelete' = Tail(accountsToDelete)
      /\ UNCHANGED <<txsToDelete, stops>>
  BY DEF AccountDelete
<1> HIDE DEF a
<1>3. TrashTypeOK'
  BY <1>0, <1>1, <1>2 DEF TrashTypeOK, RowLife
<1>4. DeletesFindRows'
  <2>1. \A i \in DOMAIN Tail(accountsToDelete) :
          /\ Tail(accountsToDelete)[i] # a /\ Tail(accountsToDelete)[i] \in AccountId
          /\ accounts[Tail(accountsToDelete)[i]] # "purged"
    BY <1>0, <1>1 DEF TrashInv, DeletesFindRows
  <2>2. \A i, j \in DOMAIN Tail(accountsToDelete) :
          i # j => Tail(accountsToDelete)[i] # Tail(accountsToDelete)[j]
    <3> SUFFICES ASSUME NEW i \in DOMAIN Tail(accountsToDelete),
                        NEW j \in DOMAIN Tail(accountsToDelete), i # j
                 PROVE  Tail(accountsToDelete)[i] # Tail(accountsToDelete)[j]
      OBVIOUS
    <3>1. i \in Int /\ j \in Int /\ i + 1 # j + 1
      BY <1>1
    <3> QED
      BY <1>1, <3>1 DEF TrashInv, DeletesFindRows
  <2> QED
    BY <1>0, <1>2, <2>1, <2>2 DEF DeletesFindRows
<1>5. CascadeIsComplete'
  BY <1>0, <1>1, <1>2, CleanupAssumption DEF TrashInv, CascadeIsComplete
<1> QED
  BY <1>3, <1>4, <1>5 DEF TrashInv

\* Whatever is deleted, restored, refused or stopped, and whenever.
THEOREM TrashInvariant == TrashSpec => []TrashInv
<1>1. TrashInv /\ [TrashNext]_trashVars => TrashInv'
  <2> SUFFICES ASSUME TrashInv, [TrashNext]_trashVars PROVE TrashInv'
    OBVIOUS
  <2>1. CASE UNCHANGED trashVars
    BY <2>1, RowsMoveInTrash DEF trashVars, loops, TrashInv, TrashTypeOK
  <2> QED
    BY <2>1, RequestsKeepTrash, ListsKeepTrash, DeleteKeepsTrash DEF TrashNext
<1> QED
  BY <1>1, InitTrash, PTL DEF TrashSpec

\* The loop over the accounts is never asked to delete a row that is gone.
THEOREM DeletesAlwaysFindRows == TrashSpec => []DeletesFindRows
<1>1. TrashInv => DeletesFindRows
  BY DEF TrashInv
<1> QED
  BY <1>1, TrashInvariant, PTL

=============================================================================
