----------------------------- MODULE PagedLists -----------------------------
(***************************************************************************)
(* The lists that a client reads page by page, each page after the last    *)
(* row of the one before: the history of transactions and their trash, the *)
(* accounts and the deleted ones, the shared accounts, the tasks without   *)
(* and with the deleted ones, and what a sync of the tasks answers.        *)
(* Between two pages anything may be written to the rows.                  *)
(*                                                                         *)
(* Of a row there is what a list tells apart: the date that it is ordered  *)
(* by (issued_at, created_at, deleted_at or updated_at), the index of a    *)
(* transaction, whether it is deleted, and whether it fits the filter of   *)
(* the request (account, types, tags, dates, status).                      *)
(***************************************************************************)
EXTENDS Integers, FiniteSets

CONSTANTS
  Id,       \* rows
  List,     \* the lists that are read, of those below
  Take,     \* sizes of a page that are asked for
  MaxDate,  \* the clock stops here
  Issued,   \* dates that clients give transactions
  None,     \* no row yet, no index, no cursor
  Gone      \* a row that was removed

Transactions == {"history", "trash"}
Accounts == {"accounts", "deleted_accounts"}
Shared == {"shared"}
Tasks == {"tasks", "all_tasks", "sync"}

ASSUME ListsAssumption ==
  /\ IsFiniteSet(Id)
  /\ List \subseteq Transactions \cup Accounts \cup Shared \cup Tasks
  /\ Take \subseteq Nat \ {0}
  /\ MaxDate \in Nat
  /\ Issued \subseteq 0 .. MaxDate
  /\ None \notin Int

VARIABLES
  now,   \* the clock
  list,  \* the list that is read
  rows,  \* [Id -> its row]
  walk   \* the pages of the client

vars == <<now, list, rows, walk>>

-----------------------------------------------------------------------------
Date == 0 .. MaxDate
Row == [date: Date, index: Nat \cup {None}, deleted: BOOLEAN, fits: BOOLEAN]
Cursor == [id: Id, by: {"index", "id"}]

ASSUME RowAssumption == None \notin Row \cup Cursor /\ Gone \notin Row \cup {None}

\* open: a page is asked for after cursor.  History: shown, the rows of the
\* pages so far; twice, those that were shown a second time; steady, the rows
\* that are in the list since the walk began, or since they were shown, at the
\* same place; astray, a page was asked for after a row that had moved or left
\* the list, that shared its date, or in another order than the page before.
Walk ==
  [open: BOOLEAN, take: Take \cup {None}, cursor: Cursor \cup {None}, shown: SUBSET Id,
   twice: SUBSET Id, steady: SUBSET Id, astray: BOOLEAN]

Rows == {r \in Id : rows[r] \notin {None, Gone}}

(* The where of each list.                                                 *)

HistoryWhere(row) == row.fits /\ (row.deleted <=> list = "trash")
AccountsWhere(row) == ~row.deleted
DeletedAccountsWhere(row) == row.deleted
SharedWhere(row) == row.fits /\ ~row.deleted
\* include_deleted asks for all of them.
TasksWhere(row) == row.fits /\ (row.deleted => list = "all_tasks")
\* What has changed since last_sync_at, which is date 0, deleted or not.
SyncWhere(row) == row.date > 0

Selects(row) ==
  CASE list \in Transactions -> HistoryWhere(row)
    [] list = "accounts" -> AccountsWhere(row)
    [] list = "deleted_accounts" -> DeletedAccountsWhere(row)
    [] list = "shared" -> SharedWhere(row)
    [] list \in {"tasks", "all_tasks"} -> TasksWhere(row)
    [] list = "sync" -> SyncWhere(row)

Matching == {r \in Rows : Selects(rows[r])}

\* orderBy.  Of the transactions, by index unless the cursor is an id: the
\* later first, and those without an index before all others (PostgreSQL).
Order(cursor) ==
  IF list \in Transactions /\ (cursor = None \/ cursor.by = "index") THEN "index" ELSE "date"

Ahead(order, row, other) ==
  IF order = "index"
  THEN \/ row.index = None /\ other.index # None
       \/ row.index # None /\ other.index # None /\ row.index > other.index
  ELSE IF list = "sync" THEN row.date < other.date ELSE row.date > other.date

Behind(order, r) == {s \in Matching : Ahead(order, rows[r], rows[s])}
Ties(order, r) ==
  {s \in Matching \ {r} : ~Ahead(order, rows[r], rows[s]) /\ ~Ahead(order, rows[s], rows[r])}

\* skip: 1 left out (a plausible bug).
RestWithCursor(cursor) ==
  LET c == cursor.id  order == Order(cursor)
  IN IF cursor = None THEN {Matching}
     ELSE IF c \in Matching
     THEN {Behind(order, c) \cup ties \cup {c} : ties \in SUBSET Ties(order, c)}
     ELSE {{}}

\* The rows after the cursor.  Rows of the same date come in any order, in each
\* query anew.  What Prisma makes of a cursor whose row is not selected, src/
\* does not say: nothing, or the first row after it is skipped in its place.
Rest(cursor) ==
  LET c == cursor.id  order == Order(cursor)
  IN IF cursor = None THEN {Matching}
     ELSE IF c \in Matching THEN {Behind(order, c) \cup ties : ties \in SUBSET Ties(order, c)}
     ELSE IF c \in Rows THEN {{}} \cup {Behind(order, c) \ {s} : s \in Behind(order, c)}
     ELSE {{}}

\* The page is the beginning of the rest, in its order.
IsPage(page, rest, order, take) ==
  /\ page \subseteq rest /\ Cardinality(page) <= take
  /\ page # rest => Cardinality(page) = take
  /\ \A r \in page, s \in rest \ page : ~Ahead(order, rows[s], rows[r])

IsLast(last, page, order) ==
  last \in page /\ \A r \in page : ~Ahead(order, rows[last], rows[r])

\* take instead of take + 1 (a plausible bug).
HasMoreOfTake(page, rest, take) ==
  IF list = "sync" THEN Cardinality(page) > take ELSE Cardinality(page) = take

\* The sync asks for a row more than it answers; the others take a full page
\* for a sign that there is another one.
HasMore(page, rest, take) ==
  IF list = "sync" THEN page # rest ELSE Cardinality(page) = take

\* Without the fallback for a transaction without an index (a plausible bug).
CursorByIndex(r) == [id |-> r, by |-> IF list \in Transactions THEN "index" ELSE "id"]

CursorAt(r) ==
  [id |-> r, by |-> IF list \in Transactions /\ rows[r].index # None THEN "index" ELSE "id"]

-----------------------------------------------------------------------------
Closed ==
  [open |-> FALSE, take |-> None, cursor |-> None, shown |-> {}, twice |-> {}, steady |-> {},
   astray |-> FALSE]

Init ==
  /\ now = 0
  /\ list \in List
  /\ rows = [r \in Id |-> None]
  /\ walk = Closed

Tick == now < MaxDate /\ now' = now + 1 /\ UNCHANGED <<list, rows, walk>>

-----------------------------------------------------------------------------
(* The writers.  What a handler checked before it writes may have changed  *)
(* since: each row that is there may be written.                           *)

\* The list does not see the difference.
LookAlike(row, other) ==
  (Selects(row) <=> Selects(other)) /\ row.date = other.date /\ row.index = other.index

Write(r, row) ==
  /\ rows' = [rows EXCEPT ![r] = row]
  /\ walk' = IF LookAlike(row, rows[r]) THEN walk
             ELSE [walk EXCEPT !.steady = @ \ {r}]
  /\ UNCHANGED <<now, list>>

Create(r, row) ==
  /\ rows[r] = None
  /\ rows' = [rows EXCEPT ![r] = row]
  /\ UNCHANGED <<now, list, walk>>

Erase(r) ==
  /\ r \in Rows
  /\ rows' = [rows EXCEPT ![r] = Gone]
  /\ walk' = [walk EXCEPT !.steady = @ \ {r}]
  /\ UNCHANGED <<now, list>>

NewRow(date, index, fits) == [date |-> date, index |-> index, deleted |-> FALSE, fits |-> fits]

\* The Snowflake id of a created row, which grows with time.
NextIndex == Cardinality({r \in Id : rows[r] # None}) + 1

\* issued_at comes from the client.  A pushed transaction has no index, and may
\* come deleted; a pushed update may change all but the index.
SaveTransaction(r, date, fits) == Create(r, NewRow(date, NextIndex, fits))
PushTransaction(r, date, fits, deleted) ==
  Create(r, [NewRow(date, None, fits) EXCEPT !.deleted = deleted])
PushUpdate(r, date, fits, deleted) ==
  r \in Rows /\ Write(r, [rows[r] EXCEPT !.date = date, !.fits = fits, !.deleted = deleted])

\* The type of a transaction, which the list may ask for, or one of its tags.
CompleteTransaction(r, fits) == r \in Rows /\ Write(r, [rows[r] EXCEPT !.fits = fits])
DeleteTransaction(r) == r \in Rows /\ Write(r, [rows[r] EXCEPT !.deleted = TRUE])
RestoreTransaction(r) ==
  r \in Rows /\ rows[r].deleted /\ Write(r, [rows[r] EXCEPT !.deleted = FALSE])

TransactionWrites(r) ==
  /\ list \in Transactions
  /\ \/ \E date \in Issued, fits \in BOOLEAN : SaveTransaction(r, date, fits)
     \/ \E date \in Issued, fits, deleted \in BOOLEAN :
          PushTransaction(r, date, fits, deleted) \/ PushUpdate(r, date, fits, deleted)
     \/ \E fits \in BOOLEAN : CompleteTransaction(r, fits)
     \/ DeleteTransaction(r) \/ RestoreTransaction(r)
     \/ Erase(r)  \* with its account, by the cleanup

\* The deleted accounts are in the order of deleted_at.  A pushed account has
\* the created_at of its client.
CreateAccount(r) == Create(r, NewRow(now, None, TRUE))
PushAccount(r, date) == Create(r, NewRow(date, None, TRUE))
DeleteAccount(r) ==
  /\ r \in Rows
  /\ Write(r, [rows[r] EXCEPT !.deleted = TRUE, !.date = IF list = "deleted_accounts" THEN now ELSE @])
RestoreAccount(r) ==
  r \in Rows /\ rows[r].deleted /\ Write(r, [rows[r] EXCEPT !.deleted = FALSE])
CleanupAccount(r) == Erase(r)

AccountWrites(r) ==
  /\ list \in Accounts
  /\ \/ CreateAccount(r) \/ \E date \in Date : PushAccount(r, date)
     \/ DeleteAccount(r) \/ RestoreAccount(r) \/ CleanupAccount(r)

\* PUT may move a shared account to another account, which the list may ask for.
SaveShared(r, fits) == Create(r, NewRow(now, None, fits))
PushShared(r, date, fits) == Create(r, NewRow(date, None, fits))
UpdateShared(r, fits) == r \in Rows /\ Write(r, [rows[r] EXCEPT !.fits = fits])
DeleteShared(r) == r \in Rows /\ Write(r, [rows[r] EXCEPT !.deleted = TRUE])
RestoreShared(r) ==
  r \in Rows /\ rows[r].deleted /\ Write(r, [rows[r] EXCEPT !.deleted = FALSE])
HardDeleteShared(r) == Erase(r)

SharedWrites(r) ==
  /\ list \in Shared
  /\ \/ \E fits \in BOOLEAN :
          SaveShared(r, fits) \/ UpdateShared(r, fits) \/ \E date \in Date : PushShared(r, date, fits)
     \/ DeleteShared(r) \/ RestoreShared(r) \/ HardDeleteShared(r)

\* created_at comes from the client; a sync lists by updated_at.
TaskDate(date) == IF list = "sync" THEN now ELSE date
\* It takes no filter.
Fit == IF list = "sync" THEN {TRUE} ELSE BOOLEAN

\* Each write may bring a task into the filter or take it out (since asks for the
\* updated_at); so does the clock, which ends a task that is asked for as active.
CreateTask(r, date, fits) == Create(r, NewRow(date, None, fits))
UpdateTask(r, fits) ==
  r \in Rows /\ Write(r, [rows[r] EXCEPT !.fits = fits, !.date = TaskDate(@)])
RemoveTask(r, fits) ==
  /\ r \in Rows
  /\ Write(r, [rows[r] EXCEPT !.deleted = TRUE, !.fits = fits, !.date = TaskDate(@)])
\* A sync with deleted_at null.
ReviveTask(r, fits) ==
  /\ r \in Rows /\ rows[r].deleted
  /\ Write(r, [rows[r] EXCEPT !.deleted = FALSE, !.fits = fits, !.date = TaskDate(@)])
PurgeTask(r) == Erase(r)

TaskWrites(r) ==
  /\ list \in Tasks
  /\ \/ \E date \in Date, fits \in Fit : CreateTask(r, TaskDate(date), fits)
     \/ \E fits \in Fit : UpdateTask(r, fits) \/ RemoveTask(r, fits) \/ ReviveTask(r, fits)
     \/ PurgeTask(r)

-----------------------------------------------------------------------------
(* The pages.                                                              *)

GoesAstray ==
  LET cursor == walk.cursor  order == Order(cursor)
  IN /\ cursor # None
     /\ \/ cursor.id \notin walk.steady
        \/ list \in Transactions /\ cursor.by = "id"
        \/ Ties(order, cursor.id) # {}

\* The page, and the cursor of the next one if there is one: its last row.
Answer(before, take, page, rest) ==
  LET order == Order(before.cursor)
  IN /\ IsPage(page, rest, order, take)
     /\ \E last \in page \cup {None} :
          /\ IF page = {} THEN last = None ELSE IsLast(last, page, order)
          /\ walk' = [open |-> HasMore(page, rest, take),
                      take |-> take,
                      cursor |-> IF HasMore(page, rest, take) THEN CursorAt(last) ELSE None,
                      shown |-> before.shown \cup page,
                      twice |-> before.twice \cup (before.steady \cap before.shown \cap page),
                      steady |-> before.steady \cup page,
                      astray |-> before.astray \/ GoesAstray]
     /\ UNCHANGED <<now, list, rows>>

\* A request without a cursor.
FirstPage(take, page) ==
  /\ walk = Closed
  /\ Answer([Closed EXCEPT !.steady = Matching], take, page, Matching)

NextPage(page) ==
  /\ walk.open
  /\ \E rest \in Rest(walk.cursor) : Answer(walk, walk.take, page, rest)

Next ==
  \/ Tick
  \/ \E r \in Id : TransactionWrites(r) \/ AccountWrites(r) \/ SharedWrites(r) \/ TaskWrites(r)
  \/ \E page \in SUBSET Id : NextPage(page) \/ \E take \in Take : FirstPage(take, page)

Spec == Init /\ [][Next]_vars

-----------------------------------------------------------------------------
(* Properties.                                                             *)

\* The types; a next page is asked for after a row of a page before, in the
\* order of the index only if that row has one.
PagesInv ==
  /\ now \in Date /\ list \in List
  /\ rows \in [Id -> Row \cup {None, Gone}]
  /\ walk \in Walk
  /\ walk.open <=> walk.cursor # None
  /\ walk.open => /\ walk.cursor.id \in walk.shown /\ walk.take # None
                  /\ walk.cursor.by = "index" =>
                       list \in Transactions /\ rows[walk.cursor.id] \in {Gone} \cup
                         {row \in Row : row.index # None}
  /\ walk.steady \subseteq Matching
  /\ walk.twice \subseteq walk.shown

\* "When next_cursor is null, there are no more pages" (the contract of GET
\* tasks): a walk that has ended has shown every row that was in the list all
\* the time and did not move, whatever was written to the others; but for the
\* walks that went astray.
WalkIsComplete ==
  walk # Closed /\ ~walk.open /\ ~walk.astray => walk.steady \subseteq walk.shown

\* No walk shows a row twice that has not moved, but for those astray.
NothingTwice == ~walk.astray => walk.twice = {}

=============================================================================
