-------------------------- MODULE PagedListsProofs --------------------------
(***************************************************************************)
(* For any number of rows, any sizes of a page and any clock: a walk that  *)
(* did not go astray has shown, at its end, every row that stayed where it *)
(* was, and none twice.                                                    *)
(*                                                                         *)
(* Neither is inductive.  What is, is that the cursor divides the rows: of *)
(* those that stayed, the ones not shown yet are not ahead of its row, and *)
(* it is not ahead of the ones shown.                                      *)
(***************************************************************************)
EXTENDS PagedLists, FiniteSetTheorems, TLAPS

\* The cursor's row is where it was, and the next page comes in the order of
\* the last one.
OnCourse ==
  /\ walk.open /\ walk.cursor.id \in walk.steady
  /\ ~(list \in Transactions /\ walk.cursor.by = "id")

Divided ==
  OnCourse =>
    \A r \in walk.steady :
      IF r \in walk.shown THEN ~Ahead(Order(walk.cursor), rows[walk.cursor.id], rows[r])
      ELSE ~Ahead(Order(walk.cursor), rows[r], rows[walk.cursor.id])

Whole == ~walk.open => walk.steady \subseteq walk.shown

CourseInv == ~walk.astray => /\ walk.twice = {}
                             /\ Divided
                             /\ Whole

IInv == PagesInv /\ CourseInv

-----------------------------------------------------------------------------
LEMMA InitInv == Init => IInv
BY ListsAssumption, RowAssumption
   DEF Init, IInv, PagesInv, CourseInv, Divided, OnCourse, Whole, Closed, Walk, Date, Matching, Rows

\* A row that is there is a row.
LEMMA RowsAreRows ==
  ASSUME PagesInv, NEW r \in Rows PROVE r \in Id /\ rows[r] \in Row
BY DEF PagesInv, Rows

\* Who comes after whom: the orders are irreflexive and transitive, and what is
\* tied with one of two rows is not on the other side of the other.
LEMMA AheadIsAnOrder ==
  ASSUME NEW order, NEW a \in Row, NEW b \in Row, NEW c \in Row
  PROVE  /\ ~(Ahead(order, a, b) /\ Ahead(order, b, a))
         /\ ~Ahead(order, a, a)
         /\ Ahead(order, a, b) /\ ~Ahead(order, c, b) => Ahead(order, a, c)
         /\ Ahead(order, a, b) /\ ~Ahead(order, a, c) => Ahead(order, c, b)
<1>1. CASE order = "index"
  BY <1>1, ListsAssumption DEF Ahead, Row
<1>2. CASE order # "index"
  BY <1>2 DEF Ahead, Row, Date
<1> QED BY <1>1, <1>2

\* Whoever writes: what stays steady keeps its place, so the cursor divides it
\* as before.
LEMMA WritesKeepCourse ==
  ASSUME IInv, list' = list,
         walk' = [walk EXCEPT !.steady = walk'.steady],
         walk'.steady \subseteq walk.steady,
         \A s \in walk'.steady : rows'[s].date = rows[s].date /\ rows'[s].index = rows[s].index
  PROVE  CourseInv'
<1>1. /\ walk'.open = walk.open /\ walk'.cursor = walk.cursor /\ walk'.shown = walk.shown
      /\ walk'.twice = walk.twice /\ walk'.astray = walk.astray
  BY DEF IInv, PagesInv, Walk
<1> SUFFICES ASSUME ~walk.astray PROVE walk'.twice = {} /\ Divided' /\ Whole'
  BY <1>1 DEF CourseInv
<1>2. walk.twice = {} /\ Divided /\ Whole
  BY DEF IInv, CourseInv
<1>3. ASSUME OnCourse' PROVE OnCourse /\ walk.cursor.id \in walk'.steady
  BY <1>1, <1>3 DEF OnCourse
<1>4. ASSUME NEW r \in walk'.steady, NEW s \in walk'.steady
      PROVE  Ahead(Order(walk.cursor), rows[r], rows[s])' <=> Ahead(Order(walk.cursor), rows[r], rows[s])
  BY <1>1 DEF Ahead, Order
<1>5. Divided'
  BY <1>1, <1>2, <1>3, <1>4 DEF Divided
<1>6. Whole'
  BY <1>1, <1>2 DEF Whole
<1> QED BY <1>1, <1>2, <1>5, <1>6
-----------------------------------------------------------------------------
(* The writers.                                                            *)

LEMMA TickKeeps == ASSUME IInv, Tick PROVE IInv'
<1> USE DEF Tick
<1>1. PagesInv'
  <2>1. now' \in Date
    BY ListsAssumption DEF IInv, PagesInv, Date
  <2>2. Matching' = Matching
    BY DEF Matching, Rows, Selects, HistoryWhere, AccountsWhere, DeletedAccountsWhere, SharedWhere, TasksWhere, SyncWhere
  <2> QED BY <2>1, <2>2 DEF IInv, PagesInv
<1>2. CourseInv'
  <2>1. walk' = [walk EXCEPT !.steady = walk'.steady]
    BY DEF IInv, PagesInv, Walk
  <2> QED BY <2>1, WritesKeepCourse
<1> QED BY <1>1, <1>2 DEF IInv

\* A created row is not in the list yet for the walk.
LEMMA CreateKeeps ==
  ASSUME IInv, NEW r \in Id, NEW row \in Row, Create(r, row)
  PROVE  IInv'
<1>1. PagesInv /\ rows[r] = None /\ r \notin walk.steady /\ r \notin Rows
  BY DEF Create, IInv, PagesInv, Matching, Rows
<1>4. /\ rows' \in [Id -> Row \cup {None, Gone}] /\ UNCHANGED <<now, list, walk>>
      /\ \A s \in Id \ {r} : rows'[s] = rows[s]
  BY <1>1 DEF Create, PagesInv
<1>5. PagesInv'
  <2>1. walk.steady \subseteq Matching'
    BY <1>1, <1>4 DEF PagesInv, Matching, Rows, Selects, HistoryWhere, AccountsWhere, DeletedAccountsWhere, SharedWhere, TasksWhere, SyncWhere
  <2>2. ASSUME walk.open, walk.cursor.by = "index"
        PROVE  rows'[walk.cursor.id] \in {Gone} \cup {w \in Row : w.index # None}
    <3>1. walk.cursor.id \in Id /\ rows[walk.cursor.id] \in {Gone} \cup {w \in Row : w.index # None}
      BY <1>1, <2>2 DEF PagesInv, Walk, Cursor
    <3>2. walk.cursor.id # r
      BY <1>1, <3>1, RowAssumption
    <3> QED BY <1>4, <3>1, <3>2
  <2> QED BY <1>1, <1>4, <2>1, <2>2 DEF PagesInv, Walk, Date
<1>6. CourseInv'
  <2>1. walk' = [walk EXCEPT !.steady = walk'.steady]
    BY <1>1, <1>4 DEF PagesInv, Walk
  <2>2. \A s \in walk.steady : rows'[s] = rows[s]
    BY <1>1, <1>4 DEF PagesInv, Matching, Rows
  <2> QED BY <2>1, <2>2, <1>4, WritesKeepCourse
<1> QED BY <1>5, <1>6 DEF IInv

\* Delete, Restore and Edit write a row that is there.
LEMMA WriteKeeps ==
  ASSUME IInv, NEW r \in Rows, NEW row \in Row, row.index = rows[r].index, Write(r, row)
  PROVE  IInv'
<1>1. /\ PagesInv /\ r \in Id /\ rows[r] \in Row
      /\ rows' = [rows EXCEPT ![r] = row] /\ UNCHANGED <<now, list>>
  BY RowsAreRows DEF IInv, Write
<1>2. /\ rows' \in [Id -> Row \cup {None, Gone}] /\ rows'[r] = row
      /\ \A s \in Id \ {r} : rows'[s] = rows[s]
  BY <1>1 DEF PagesInv
<1>3. /\ walk' \in Walk
      /\ walk' = [walk EXCEPT !.steady = walk'.steady]
      /\ walk'.steady \subseteq walk.steady
      /\ r \in walk'.steady => LookAlike(row, rows[r])
  <2>1. CASE LookAlike(row, rows[r])
    BY <1>1, <2>1 DEF Write, PagesInv, Walk
  <2>2. CASE ~LookAlike(row, rows[r])
    BY <1>1, <2>2 DEF Write, PagesInv, Walk
  <2> QED BY <2>1, <2>2
<1>4. \A s \in walk'.steady : /\ s \in Matching /\ s \in Id
                              /\ LookAlike(rows'[s], rows[s])
  BY <1>1, <1>2, <1>3 DEF PagesInv, Matching, Rows, LookAlike
<1>5. walk'.steady \subseteq Matching'
  <2> SUFFICES ASSUME NEW s \in walk'.steady PROVE s \in Matching'
    OBVIOUS
  <2>1. s \in Id /\ s \in Matching /\ (Selects(rows'[s]) <=> Selects(rows[s]))
    BY <1>4 DEF LookAlike
  <2>2. rows'[s] \notin {None, Gone}
    BY <1>2, <2>1, RowAssumption DEF Matching, Rows
  <2>3. Selects(rows[s])' <=> Selects(rows'[s])
    BY <1>1 DEF Selects, HistoryWhere, AccountsWhere, DeletedAccountsWhere, SharedWhere, TasksWhere, SyncWhere
  <2> QED BY <2>1, <2>2, <2>3 DEF Matching, Rows
<1>6. PagesInv'
  <2>1. /\ walk'.open = walk.open /\ walk'.cursor = walk.cursor /\ walk'.shown = walk.shown
        /\ walk'.twice = walk.twice /\ walk'.take = walk.take
    BY <1>1, <1>3 DEF PagesInv, Walk
  <2>2. ASSUME walk.open, walk.cursor.by = "index"
        PROVE  rows'[walk.cursor.id] \in {Gone} \cup {w \in Row : w.index # None}
    <3>1. walk.cursor.id \in Id /\ rows[walk.cursor.id] \in {Gone} \cup {w \in Row : w.index # None}
      BY <1>1, <2>2 DEF PagesInv, Walk, Cursor
    <3>2. CASE walk.cursor.id = r
      BY <1>1, <1>2, <3>1, <3>2, RowAssumption
    <3>3. CASE walk.cursor.id # r
      BY <1>2, <3>1, <3>3
    <3> QED BY <3>2, <3>3
  <2> QED BY <1>1, <1>2, <1>3, <1>5, <2>1, <2>2 DEF PagesInv, Date
<1>7. CourseInv'
  <2>1. \A s \in walk'.steady : rows'[s].date = rows[s].date /\ rows'[s].index = rows[s].index
    BY <1>4 DEF LookAlike
  <2> QED BY <1>1, <1>3, <2>1, WritesKeepCourse
<1> QED BY <1>6, <1>7 DEF IInv

LEMMA EraseKeeps == ASSUME IInv, NEW r \in Id, Erase(r) PROVE IInv'
<1>1. PagesInv /\ r \in Rows /\ UNCHANGED <<now, list>>
  BY DEF IInv, Erase
<1>2. /\ rows' \in [Id -> Row \cup {None, Gone}] /\ rows'[r] = Gone
      /\ \A s \in Id \ {r} : rows'[s] = rows[s]
  BY <1>1 DEF Erase, PagesInv
<1>3. /\ walk' \in Walk /\ walk' = [walk EXCEPT !.steady = walk'.steady]
      /\ walk'.steady = walk.steady \ {r}
      /\ walk'.open = walk.open /\ walk'.cursor = walk.cursor /\ walk'.shown = walk.shown
      /\ walk'.twice = walk.twice /\ walk'.take = walk.take
  BY <1>1 DEF Erase, PagesInv, Walk
<1>4. \A s \in walk'.steady : s \in Id /\ rows'[s] = rows[s]
  BY <1>1, <1>2, <1>3 DEF PagesInv, Matching, Rows
<1>5. walk'.steady \subseteq Matching'
  BY <1>1, <1>3, <1>4 DEF PagesInv, Matching, Rows, Selects, HistoryWhere, AccountsWhere, DeletedAccountsWhere, SharedWhere, TasksWhere, SyncWhere
<1>6. PagesInv'
  <2>1. ASSUME walk.open, walk.cursor.by = "index"
        PROVE  rows'[walk.cursor.id] \in {Gone} \cup {w \in Row : w.index # None}
    <3>1. walk.cursor.id \in Id /\ rows[walk.cursor.id] \in {Gone} \cup {w \in Row : w.index # None}
      BY <1>1, <2>1 DEF PagesInv, Walk, Cursor
    <3> QED BY <1>2, <3>1
  <2> QED BY <1>1, <1>2, <1>3, <1>5, <2>1 DEF PagesInv, Date
<1>7. CourseInv'
  BY <1>1, <1>3, <1>4, WritesKeepCourse
<1> QED BY <1>6, <1>7 DEF IInv

LEMMA NewRowsAreRows ==
  ASSUME NEW date \in Date, NEW fits \in BOOLEAN
  PROVE  /\ NewRow(date, NextIndex, fits) \in Row /\ NewRow(date, None, fits) \in Row
         /\ \A deleted \in BOOLEAN : [NewRow(date, None, fits) EXCEPT !.deleted = deleted] \in Row
<1>1. NextIndex \in Nat
  <2>1. IsFiniteSet({s \in Id : rows[s] # None})
    BY ListsAssumption, FS_Subset
  <2> QED BY <2>1, FS_CardinalityType DEF NextIndex
<1> QED BY <1>1 DEF NewRow, Row

\* What the handlers write of a row is a row, with its index.
LEMMA WrittenRows ==
  ASSUME PagesInv, NEW r \in Rows, NEW fits \in BOOLEAN
  PROVE  LET row == rows[r]
             date(d) == IF list = "deleted_accounts" THEN now ELSE d
         IN \A w \in {[row EXCEPT !.fits = fits], [row EXCEPT !.deleted = TRUE],
                      [row EXCEPT !.deleted = FALSE],
                      [row EXCEPT !.deleted = TRUE, !.date = date(@)],
                      [row EXCEPT !.fits = fits, !.date = TaskDate(@)],
                      [row EXCEPT !.deleted = TRUE, !.fits = fits, !.date = TaskDate(@)],
                      [row EXCEPT !.deleted = FALSE, !.fits = fits, !.date = TaskDate(@)]} :
              w \in Row /\ w.index = row.index
<1>1. rows[r] \in Row /\ now \in Date
  BY RowsAreRows DEF PagesInv
<1> QED BY <1>1 DEF Row, TaskDate

LEMMA TransactionsKeep == ASSUME IInv, NEW r \in Id, TransactionWrites(r) PROVE IInv'
<1> USE DEF TransactionWrites
<1>6. Issued \subseteq Date
  BY ListsAssumption DEF Date
<1>1. ASSUME NEW date \in Date, NEW fits \in BOOLEAN,
             SaveTransaction(r, date, fits) \/ \E deleted \in BOOLEAN : PushTransaction(r, date, fits, deleted)
      PROVE  IInv'
  BY <1>1, NewRowsAreRows, CreateKeeps DEF SaveTransaction, PushTransaction
<1>5. ASSUME NEW date \in Date, NEW fits \in BOOLEAN, NEW deleted \in BOOLEAN,
             PushUpdate(r, date, fits, deleted)
      PROVE  IInv'
  <2>1. r \in Rows /\ rows[r] \in Row
    BY <1>5, RowsAreRows DEF PushUpdate, IInv
  <2> DEFINE row == [rows[r] EXCEPT !.date = date, !.fits = fits, !.deleted = deleted]
  <2>2. row \in Row /\ row.index = rows[r].index
    BY <2>1 DEF Row
  <2>3. Write(r, row)
    BY <1>5 DEF PushUpdate
  <2> QED BY <2>1, <2>2, <2>3, WriteKeeps
<1>2. ASSUME NEW fits \in BOOLEAN, CompleteTransaction(r, fits) PROVE IInv'
  BY <1>2, WrittenRows, WriteKeeps DEF CompleteTransaction, IInv
<1>3. CASE DeleteTransaction(r)
  BY <1>3, WrittenRows, WriteKeeps DEF DeleteTransaction, IInv
<1>4. CASE RestoreTransaction(r)
  BY <1>4, WrittenRows, WriteKeeps DEF RestoreTransaction, IInv
<1> QED BY <1>1, <1>2, <1>3, <1>4, <1>5, <1>6, EraseKeeps

LEMMA AccountsKeep == ASSUME IInv, NEW r \in Id, AccountWrites(r) PROVE IInv'
<1> USE DEF AccountWrites
<1>1. ASSUME CreateAccount(r) \/ \E date \in Date : PushAccount(r, date) PROVE IInv'
  BY <1>1, NewRowsAreRows, CreateKeeps DEF CreateAccount, PushAccount, IInv, PagesInv
<1>2. CASE DeleteAccount(r)
  BY <1>2, WrittenRows, WriteKeeps DEF DeleteAccount, IInv
<1>3. CASE RestoreAccount(r)
  BY <1>3, WrittenRows, WriteKeeps DEF RestoreAccount, IInv
<1> QED BY <1>1, <1>2, <1>3, EraseKeeps DEF CleanupAccount

LEMMA SharedKeep == ASSUME IInv, NEW r \in Id, SharedWrites(r) PROVE IInv'
<1> USE DEF SharedWrites
<1>1. ASSUME NEW fits \in BOOLEAN, SaveShared(r, fits) \/ \E date \in Date : PushShared(r, date, fits)
      PROVE  IInv'
  BY <1>1, NewRowsAreRows, CreateKeeps DEF SaveShared, PushShared, IInv, PagesInv
<1>2. ASSUME NEW fits \in BOOLEAN, UpdateShared(r, fits) PROVE IInv'
  BY <1>2, WrittenRows, WriteKeeps DEF UpdateShared, IInv
<1>3. CASE DeleteShared(r)
  BY <1>3, WrittenRows, WriteKeeps DEF DeleteShared, IInv
<1>4. CASE RestoreShared(r)
  BY <1>4, WrittenRows, WriteKeeps DEF RestoreShared, IInv
<1> QED BY <1>1, <1>2, <1>3, <1>4, EraseKeeps DEF HardDeleteShared

LEMMA TasksKeep == ASSUME IInv, NEW r \in Id, TaskWrites(r) PROVE IInv'
<1> USE DEF TaskWrites
<1>1. ASSUME NEW date \in Date, NEW fits \in Fit, CreateTask(r, TaskDate(date), fits) PROVE IInv'
  <2>1. TaskDate(date) \in Date /\ fits \in BOOLEAN
    BY DEF TaskDate, Fit, IInv, PagesInv
  <2> QED BY <1>1, <2>1, NewRowsAreRows, CreateKeeps DEF CreateTask
<1>2. ASSUME NEW fits \in Fit, UpdateTask(r, fits) PROVE IInv'
  BY <1>2, WrittenRows, WriteKeeps DEF UpdateTask, Fit, IInv
<1>3. ASSUME NEW fits \in Fit, RemoveTask(r, fits) PROVE IInv'
  BY <1>3, WrittenRows, WriteKeeps DEF RemoveTask, Fit, IInv
<1>4. ASSUME NEW fits \in Fit, ReviveTask(r, fits) PROVE IInv'
  BY <1>4, WrittenRows, WriteKeeps DEF ReviveTask, Fit, IInv
<1> QED BY <1>1, <1>2, <1>3, <1>4, EraseKeeps DEF PurgeTask

-----------------------------------------------------------------------------
(* The pages.                                                              *)

\* A page that is not the last one ends at a row of it; after the last one, it
\* is all the rest.
LEMMA PagesEndAtARow ==
  ASSUME PagesInv, NEW take \in Take, NEW rest \in SUBSET Matching, NEW page,
         NEW last \in page \cup {None},
         IsPage(page, rest, Order(walk.cursor), take),
         IF page = {} THEN last = None ELSE IsLast(last, page, Order(walk.cursor))
  PROVE  /\ page \subseteq Rows
         /\ HasMore(page, rest, take) \in BOOLEAN
         /\ ~HasMore(page, rest, take) => page = rest
         /\ HasMore(page, rest, take) => IsLast(last, page, Order(walk.cursor)) /\ last \in page
<1>1. page \subseteq rest /\ page \subseteq Rows
  BY DEF IsPage, Matching
<1>2. take \in Nat \ {0}
  BY ListsAssumption
<1>3. ~HasMore(page, rest, take) => page = rest
  BY DEF HasMore, IsPage
<1>4. HasMore(page, rest, take) => page # {}
  <2>1. CASE list = "sync" /\ page = {} /\ page # rest
    BY <1>2, <2>1, FS_EmptySet DEF IsPage
  <2>2. CASE list # "sync" /\ page = {}
    BY <1>2, <2>2, FS_EmptySet DEF HasMore
  <2> QED BY <2>1, <2>2 DEF HasMore
<1> QED BY <1>1, <1>3, <1>4 DEF HasMore, IsLast

\* before is the walk, or what it is before its first page.
Before(before) ==
  \/ before = walk /\ walk.open
  \/ before = [Closed EXCEPT !.steady = Matching] /\ walk = Closed

LEMMA AnswersKeepTypes ==
  ASSUME PagesInv, NEW before, Before(before), NEW take \in Take, NEW page,
         NEW rest \in SUBSET Matching, Answer(before, take, page, rest)
  PROVE  PagesInv'
<1>1. /\ before \in Walk /\ before.cursor = walk.cursor /\ before.astray = walk.astray
      /\ before.steady \subseteq Matching /\ before.twice \subseteq before.shown
  BY DEF Before, Closed, PagesInv, Walk, Matching, Rows
<1>2. PICK last \in page \cup {None} :
        /\ IF page = {} THEN last = None ELSE IsLast(last, page, Order(walk.cursor))
        /\ walk' = [open |-> HasMore(page, rest, take),
                    take |-> take,
                    cursor |-> IF HasMore(page, rest, take) THEN CursorAt(last) ELSE None,
                    shown |-> before.shown \cup page,
                    twice |-> before.twice \cup (before.steady \cap before.shown \cap page),
                    steady |-> before.steady \cup page,
                    astray |-> before.astray \/ GoesAstray]
  BY <1>1 DEF Answer
<1>3. /\ IsPage(page, rest, Order(walk.cursor), take) /\ page \subseteq rest
      /\ UNCHANGED <<now, list, rows>>
  BY <1>1 DEF Answer, IsPage
<1>4. /\ page \subseteq Rows /\ HasMore(page, rest, take) \in BOOLEAN
      /\ HasMore(page, rest, take) => last \in page
  BY <1>2, <1>3, PagesEndAtARow
<1>5. HasMore(page, rest, take) => CursorAt(last) \in Cursor /\ CursorAt(last) # None
  BY <1>4, RowAssumption DEF CursorAt, Cursor, Rows
<1>6. GoesAstray \in BOOLEAN
  BY DEF GoesAstray
<1>7. walk' \in Walk
  BY <1>1, <1>2, <1>4, <1>5, <1>6 DEF Walk, Rows, Matching
<1>8. Matching' = Matching
  BY <1>3 DEF Matching, Rows, Selects, HistoryWhere, AccountsWhere, DeletedAccountsWhere, SharedWhere, TasksWhere, SyncWhere
<1>9. ASSUME HasMore(page, rest, take), CursorAt(last).by = "index"
      PROVE  list \in Transactions /\ rows[last] \in Row /\ rows[last].index # None
  BY <1>4, <1>9, RowsAreRows DEF CursorAt
<1>10. walk'.cursor # None <=> walk'.open
  BY <1>2, <1>4, <1>5
<1>11. walk'.open => walk'.cursor.id = last /\ walk'.cursor = CursorAt(last) /\ walk'.take # None
  BY <1>2, ListsAssumption DEF CursorAt
<1> QED
  BY <1>1, <1>2, <1>3, <1>4, <1>7, <1>8, <1>9, <1>10, <1>11 DEF PagesInv, Date

\* A page that does not go astray: the steady rows that were not shown are in
\* the rest, and those that were are not.
LEMMA RestIsUnshown ==
  ASSUME IInv, ~walk.astray, ~GoesAstray, walk.open, NEW rest \in Rest(walk.cursor),
         NEW r \in walk.steady
  PROVE  /\ r \in rest <=> r \notin walk.shown
         /\ r \in walk.shown => \/ r = walk.cursor.id
                                \/ Ahead(Order(walk.cursor), rows[r], rows[walk.cursor.id])
<1> DEFINE c == walk.cursor.id
           o == Order(walk.cursor)
<1>1. /\ PagesInv /\ walk.cursor # None /\ c \in walk.steady /\ c \in walk.shown
      /\ walk.steady \subseteq Matching /\ Ties(o, c) = {}
      /\ ~(list \in Transactions /\ walk.cursor.by = "id")
  BY DEF IInv, PagesInv, GoesAstray
<1>2. rest = Behind(o, c)
  BY <1>1 DEF Rest
<1>3. r \in Rows /\ c \in Rows /\ rows[r] \in Row /\ rows[c] \in Row
  BY <1>1, RowsAreRows DEF Matching
<1>4. IF r \in walk.shown THEN ~Ahead(o, rows[c], rows[r]) ELSE ~Ahead(o, rows[r], rows[c])
  BY <1>1 DEF IInv, CourseInv, Divided, OnCourse
<1>5. r = c \/ Ahead(o, rows[c], rows[r]) \/ Ahead(o, rows[r], rows[c])
  BY <1>1 DEF Ties
<1> QED BY <1>1, <1>2, <1>3, <1>4, <1>5, AheadIsAnOrder DEF Behind

\* A page leaves the rows divided by its last one, and shows none twice.
LEMMA AnswersKeepCourse ==
  ASSUME IInv, NEW before, Before(before), NEW take \in Take, NEW page,
         NEW rest \in SUBSET Matching, Answer(before, take, page, rest),
         walk.open => rest \in Rest(walk.cursor),
         ~walk.open => rest = Matching
  PROVE  CourseInv'
<1> DEFINE o == Order(walk.cursor)
<1>1. /\ PagesInv /\ before \in Walk /\ before.cursor = walk.cursor /\ before.astray = walk.astray
      /\ before.steady \subseteq Matching
  BY DEF Before, Closed, IInv, PagesInv, Walk, Matching, Rows
<1>2. PICK last \in page \cup {None} :
        /\ IF page = {} THEN last = None ELSE IsLast(last, page, o)
        /\ walk' = [open |-> HasMore(page, rest, take),
                    take |-> take,
                    cursor |-> IF HasMore(page, rest, take) THEN CursorAt(last) ELSE None,
                    shown |-> before.shown \cup page,
                    twice |-> before.twice \cup (before.steady \cap before.shown \cap page),
                    steady |-> before.steady \cup page,
                    astray |-> before.astray \/ GoesAstray]
  BY <1>1 DEF Answer
<1>3. /\ IsPage(page, rest, o, take) /\ page \subseteq rest
      /\ UNCHANGED <<now, list, rows>>
  BY <1>1 DEF Answer, IsPage
<1>4. /\ HasMore(page, rest, take) \in BOOLEAN
      /\ ~HasMore(page, rest, take) => page = rest
      /\ HasMore(page, rest, take) => IsLast(last, page, o) /\ last \in page
  BY <1>1, <1>2, <1>3, PagesEndAtARow
<1> SUFFICES ASSUME ~walk'.astray PROVE walk'.twice = {} /\ Divided' /\ Whole'
  BY DEF CourseInv
<1>5. ~walk.astray /\ ~GoesAstray /\ before.twice = {}
  BY <1>1, <1>2 DEF Before, Closed, IInv, CourseInv
<1>6. \A r \in before.steady :
        /\ r \in rest <=> r \notin before.shown
        /\ r \in before.shown => \A p \in rest : Ahead(o, rows[r], rows[p])
  <2>1. CASE before = walk /\ walk.open
    <3> TAKE r \in before.steady
    <3>1. r \in rest <=> r \notin walk.shown
      BY <1>5, <2>1, RestIsUnshown
    <3>2. ASSUME r \in walk.shown, NEW p \in rest PROVE Ahead(o, rows[r], rows[p])
      <4> DEFINE c == walk.cursor.id
      <4>1. r = c \/ Ahead(o, rows[r], rows[c])
        BY <1>5, <2>1, <3>2, RestIsUnshown
      <4>2. c \in walk.steady /\ walk.cursor # None /\ Ties(o, c) = {}
        BY <2>1, <1>1, <1>5 DEF PagesInv, GoesAstray
      <4>3. Ahead(o, rows[c], rows[p])
        BY <1>1, <2>1, <4>2 DEF Rest, Behind
      <4>4. rows[r] \in Row /\ rows[c] \in Row /\ rows[p] \in Row
        BY <1>1, <2>1, <4>2, RowsAreRows DEF Matching
      <4> QED BY <4>1, <4>3, <4>4, AheadIsAnOrder
    <3> QED BY <2>1, <3>1, <3>2
  <2>2. CASE before = [Closed EXCEPT !.steady = Matching] /\ walk = Closed
    BY <2>2 DEF Closed
  <2> QED BY <2>1, <2>2 DEF Before
<1>7. walk'.twice = {}
  BY <1>2, <1>3, <1>5, <1>6
<1>8. Whole'
  BY <1>2, <1>4, <1>6 DEF Whole
<1>9. Divided'
  <2> SUFFICES ASSUME OnCourse', NEW r \in before.steady \cup page
               PROVE  IF r \in before.shown \cup page
                      THEN ~Ahead(Order(walk.cursor), rows[walk.cursor.id], rows[r])'
                      ELSE ~Ahead(Order(walk.cursor), rows[r], rows[walk.cursor.id])'
    BY <1>2, <1>3 DEF Divided
  <2>1. walk'.open /\ walk'.cursor = CursorAt(last) /\ last \in page /\ IsLast(last, page, o)
    BY <1>2, <1>4 DEF OnCourse
  <2>2. walk'.cursor.id = last /\ walk'.cursor # None
    <3>1. CursorAt(last) \in Cursor
      BY <1>1, <1>3, <2>1 DEF CursorAt, Cursor, Matching, Rows
    <3> QED BY <2>1, <3>1, RowAssumption DEF CursorAt
  <2>3. Order(walk.cursor)' = o
    <3>1. CASE list \notin Transactions
      BY <1>3, <3>1 DEF Order
    <3>2. CASE list \in Transactions
      <4>1. walk.cursor = None \/ walk.cursor.by = "index"
        BY <1>1, <1>5, <3>2 DEF GoesAstray, PagesInv, Walk, Cursor
      <4>2. walk'.cursor.by = "index"
        BY <1>3, <2>1, <3>2 DEF OnCourse, CursorAt
      <4> QED BY <1>3, <3>2, <4>1, <4>2 DEF Order
    <3> QED BY <3>1, <3>2
  <2>4. \A p \in rest : rows[p] \in Row
    BY <1>1, RowsAreRows DEF Matching
  <2>5. rows[r] \in Row /\ rows[last] \in Row
    BY <1>1, <1>3, <2>1, <2>4, RowsAreRows DEF Matching
  <2>6. CASE r \in page
    BY <1>3, <2>1, <2>2, <2>3, <2>6 DEF IsLast, Ahead
  <2>7. CASE r \in before.shown \ page
    <3>1. Ahead(o, rows[r], rows[last])
      BY <1>3, <1>6, <2>1, <2>7
    <3>2. ~Ahead(o, rows[last], rows[r])
      BY <2>5, <3>1, AheadIsAnOrder
    <3> QED BY <1>3, <2>2, <2>3, <2>7, <3>2 DEF Ahead
  <2>8. CASE r \notin before.shown \cup page
    <3>1. r \in rest \ page /\ ~Ahead(o, rows[r], rows[last])
      BY <1>3, <1>6, <2>1, <2>8 DEF IsPage
    <3> QED BY <1>3, <2>2, <2>3, <2>8, <3>1 DEF Ahead
  <2> QED BY <2>6, <2>7, <2>8
<1> QED BY <1>7, <1>8, <1>9

LEMMA PagesKeep ==
  ASSUME IInv, NEW page,
         NextPage(page) \/ (\E take \in Take : FirstPage(take, page))
  PROVE  IInv'
<1>1. PagesInv
  BY DEF IInv
<1>2. CASE NextPage(page)
  <2>1. PICK rest \in Rest(walk.cursor) : Answer(walk, walk.take, page, rest)
    BY <1>2 DEF NextPage
  <2>2. walk.open /\ Before(walk) /\ walk.take \in Take
    BY <1>1, <1>2 DEF NextPage, Before, PagesInv, Walk
  <2>3. rest \in SUBSET Matching
    BY DEF Rest, Behind, Ties
  <2> QED BY <1>1, <2>1, <2>2, <2>3, AnswersKeepTypes, AnswersKeepCourse DEF IInv
<1>3. ASSUME NEW take \in Take, FirstPage(take, page) PROVE IInv'
  <2> DEFINE before == [Closed EXCEPT !.steady = Matching]
  <2>1. Before(before) /\ Answer(before, take, page, Matching) /\ ~walk.open
    BY <1>3 DEF FirstPage, Before, Closed
  <2> QED BY <1>1, <2>1, AnswersKeepTypes, AnswersKeepCourse DEF IInv
<1> QED BY <1>2, <1>3

-----------------------------------------------------------------------------
LEMMA Inductive == IInv /\ [Next]_vars => IInv'
<1> SUFFICES ASSUME IInv, [Next]_vars PROVE IInv'
  OBVIOUS
<1>1. CASE Tick
  BY <1>1, TickKeeps
<1>2. ASSUME NEW r \in Id,
             TransactionWrites(r) \/ AccountWrites(r) \/ SharedWrites(r) \/ TaskWrites(r)
      PROVE  IInv'
  BY <1>2, TransactionsKeep, AccountsKeep, SharedKeep, TasksKeep
<1>5. ASSUME NEW page \in SUBSET Id, NextPage(page) \/ (\E take \in Take : FirstPage(take, page))
      PROVE  IInv'
  BY <1>5, PagesKeep
<1>6. CASE UNCHANGED vars
  <2>1. walk' = [walk EXCEPT !.steady = walk'.steady]
    BY <1>6 DEF vars, IInv, PagesInv, Walk
  <2>2. PagesInv'
    BY <1>6 DEF vars, IInv, PagesInv, Matching, Rows, Selects, HistoryWhere, AccountsWhere, DeletedAccountsWhere, SharedWhere, TasksWhere, SyncWhere, Walk, Date
  <2>3. CourseInv'
    BY <1>6, <2>1, WritesKeepCourse DEF vars
  <2> QED BY <2>2, <2>3 DEF IInv
<1> QED BY <1>1, <1>2, <1>5, <1>6 DEF Next

\* The types of the model and the cursor's (HasMore and CursorAt of the lists),
\* in every state of every instance.
THEOREM PagesTyped == Spec => []PagesInv
<1>1. IInv => PagesInv
  BY DEF IInv
<1> QED BY <1>1, InitInv, Inductive, PTL DEF Spec

\* Every list, read to its end by pages of any size while its rows are created,
\* deleted, restored, edited and removed, has shown each row that stayed in its
\* place, unless a page was asked for after a row that did not.
THEOREM ListsAreComplete == Spec => []WalkIsComplete
<1>1. IInv => WalkIsComplete
  BY DEF IInv, CourseInv, Whole, WalkIsComplete
<1> QED BY <1>1, InitInv, Inductive, PTL DEF Spec

\* And none of them twice.
THEOREM ListsShowOnce == Spec => []NothingTwice
<1>1. IInv => NothingTwice
  BY DEF IInv, CourseInv, NothingTwice
<1> QED BY <1>1, InitInv, Inductive, PTL DEF Spec

=============================================================================
