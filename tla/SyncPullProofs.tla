--------------------------- MODULE SyncPullProofs ---------------------------
(***************************************************************************)
(* UpToDate of SyncPull for every set of records, every page size and any  *)
(* clock: the invariant PullInv, which adds what is known of the page of   *)
(* an answer that is under way, is inductive.                              *)
(***************************************************************************)
EXTENDS SyncPull, TLAPS

\* A Date is a date, and not a later one.
LEMMA MsDate == ASSUME NEW date \in Nat PROVE Ms(date) \in Nat /\ Ms(date) <= date
BY DEF Ms

LEMMA NothingTypes == NoPull \in Pull /\ NoWrite \in Write /\ ~NoPull.on
<1>1. Nothing \in Version
  BY DEF Nothing, Version, State
<1>2. [r \in Record |-> Nothing] \in [Record -> Version]
  BY <1>1
<1> QED BY <1>2 DEF NoPull, Pull, NoWrite, Write

LEMMA InitPull == Init => PullInv
<1> SUFFICES ASSUME Init PROVE PullInv
  OBVIOUS
<1>1. row \in [Record -> Row]
  BY DEF Init, Row, State
<1>2. Nothing \in Version
  BY DEF Nothing, Version, State
<1>3. TypeOK
  BY <1>1, <1>2, NothingTypes DEF Init, TypeOK
<1>4. \A r \in Record : ~There(r)
  BY DEF Init, There
<1> QED BY <1>3, <1>4 DEF PullInv, UpToDate, PageIsCurrent

\* Only the row changes that a write is about: it is enough that the write
\* leaves that record hit, gone, or with a date that nobody has passed.
LEMMA WriteKeeps ==
  ASSUME PullInv, TypeOK', NEW r \in Record, UNCHANGED device,
         \A s \in Record \ {r} : row'[s] = row[s],
         \A s \in Record \ {r} : s \in late' \cup undated' \cup split' <=> s \in late \cup undated \cup split,
         \/ r \in late' \cup undated' \cup split'
         \/ ~There(r)'
         \/ ~Passed(row'[r].date)
         \/ row'[r] = row[r] /\ r \notin late \cup undated \cup split
  PROVE  PullInv'
<1> DEFINE hit == late \cup undated \cup split
<1> USE DEF device
<1>1. ASSUME NEW s \in Record, s \notin hit', There(s)'
      PROVE  /\ row'[s].date <= cursor => copy[s] = VersionOf(s)'
             /\ pull.on =>
                  /\ row'[s].date <= cursor => s \notin pull.page
                  /\ row'[s].date > cursor /\ Passed(row'[s].date) =>
                       s \in pull.page /\ pull.items[s] = VersionOf(s)'
  <2>1. CASE row'[s] = row[s] /\ s \notin hit
    BY <1>1, <2>1 DEF PullInv, UpToDate, PageIsCurrent, There, VersionOf
  <2>2. CASE s = r /\ ~Passed(row'[r].date)
    BY <2>2 DEF Passed, PullInv, TypeOK, Row, Pull
  <2> QED BY <1>1, <2>1, <2>2
<1> QED
  BY <1>1 DEF PullInv, UpToDate, PageIsCurrent, Passed

LEMMA ReadKeeps ==
  ASSUME PullInv, TypeOK', NEW page \in SUBSET Record, PullRead(page)
  PROVE  PullInv'
<1> DEFINE newer == {s \in Record : There(s) /\ row[s].date > cursor}
           full == Cardinality(page) = Limit
<1>1. PICK last \in LastDates(page) : pull' = PullOf(page, full, last)
  BY DEF PullRead
<1>2. page \subseteq newer /\ UNCHANGED <<row, cursor, copy>>
  BY DEF PullRead, server
<1>3. UpToDate'
  BY <1>2 DEF PullInv, UpToDate, PullRead, There, VersionOf
<1>4. ASSUME NEW s \in Record, s \notin late' \cup undated' \cup split', There(s)',
             row'[s].date > cursor', Passed(row[s].date)'
      PROVE  s \in page /\ pull'.items[s] = VersionOf(s)'
  <2>1. s \in newer
    BY <1>2, <1>4 DEF There
  <2>2. full => row[s].date <= last
    <3>1. row[s].date \in Nat /\ cursor \in Nat
      BY DEF PullInv, TypeOK, Row
    <3>2. pull'.on /\ pull'.full = full /\ pull'.last = last
      BY <1>1 DEF PullOf
    <3> HIDE DEF full
    <3> QED BY <1>2, <1>4, <3>1, <3>2 DEF Passed
  <2>3. CASE page = newer
    BY <1>1, <1>2, <2>1, <2>3 DEF PullOf, VersionOf
  <2>4. CASE full /\ s \notin page
    <3>1. CASE page = {}
      BY <1>1, <1>2, <1>4, <2>2, <2>4, <3>1 DEF LastDates, PullInv, TypeOK, Row
    <3>2. CASE page # {}
      <4>1. PICK p \in page : last = Ms(row[p].date)
        BY <1>1, <3>2 DEF LastDates
      <4>2. row[p].date \in Nat /\ row[s].date \in Nat
        BY DEF PullInv, TypeOK, Row
      <4>3. row[p].date <= row[s].date
        BY <2>1, <2>4 DEF PullRead
      <4>4. row[p].date = row[s].date
        BY <2>2, <2>4, <4>1, <4>2, <4>3, MsDate
      <4> QED BY <1>4, <2>1, <2>4, <4>4 DEF PullRead
    <3> QED BY <3>1, <3>2
  <2>5. CASE s \in page
    BY <1>1, <1>2, <2>5 DEF PullOf, VersionOf
  <2> QED BY <2>3, <2>4, <2>5 DEF PullRead
<1>5. PageIsCurrent'
  BY <1>1, <1>2, <1>4 DEF PageIsCurrent, PullOf, PullInv, TypeOK, Row
<1> QED BY <1>3, <1>5 DEF PullInv

LEMMA AnswerKeeps == ASSUME PullInv, TypeOK', PullAnswer PROVE PullInv'
<1>1. ~pull'.on
  BY DEF PullAnswer, NoPull
<1>2. ASSUME NEW s \in Record, s \notin late \cup undated \cup split, There(s), row[s].date <= cursor'
      PROVE  copy'[s] = VersionOf(s)
  <2>1. row[s].date \in Nat /\ cursor \in Nat /\ pull.last \in Nat
    BY DEF PullInv, TypeOK, Row, Pull
  <2>2. Passed(row[s].date)
    BY <1>2, <2>1 DEF PullAnswer, Passed
  <2>3. CASE row[s].date <= cursor
    BY <1>2, <2>3 DEF PullInv, UpToDate, PageIsCurrent, PullAnswer
  <2>4. CASE row[s].date > cursor
    BY <1>2, <2>2, <2>4 DEF PullInv, PageIsCurrent, PullAnswer
  <2> QED BY <2>1, <2>3, <2>4
<1>3. UpToDate'
  BY <1>2 DEF UpToDate, PullAnswer, server, history, There, VersionOf
<1> QED BY <1>1, <1>3 DEF PullInv, PageIsCurrent

-----------------------------------------------------------------------------
(* The state keeps its type.                                               *)

LEMMA RowOfWrite ==
  ASSUME TypeOK, NEW r \in Record
  PROVE  /\ row[r].state \in State /\ row[r].rev \in Nat /\ row[r].date \in Nat
         /\ write[r].state \in State /\ write[r].date \in Nat
         /\ VersionOf(r) \in Version
BY DEF TypeOK, Row, Write, State, VersionOf, Version

LEMMA PullOfType ==
  ASSUME TypeOK, NEW page \in SUBSET Record, NEW full \in BOOLEAN, NEW last \in Nat
  PROVE  PullOf(page, full, last) \in Pull
<1>1. Nothing \in Version
  BY DEF Nothing, Version, State
<1>2. [r \in Record |-> IF r \in page THEN VersionOf(r) ELSE Nothing] \in [Record -> Version]
  BY <1>1, RowOfWrite
<1> QED BY <1>2 DEF PullOf, Pull

LEMMA LastDatesType ==
  ASSUME TypeOK, NEW page \in SUBSET Record
  PROVE  LastDates(page) \subseteq Nat
<1>1. CASE page = {}
  BY <1>1 DEF LastDates, TypeOK
<1>2. CASE page # {}
  BY <1>2, MsDate, RowOfWrite DEF LastDates
<1> QED BY <1>1, <1>2

LEMMA TypeKept == ASSUME TypeOK, [Next]_vars PROVE TypeOK'
<1> USE DEF server, device, history
<1>1. CASE Tick
  BY <1>1 DEF Tick, TypeOK
<1>2. ASSUME NEW r \in Record, NEW state \in {"live", "deleted"}, DatedBegin(r, state)
      PROVE  TypeOK'
  <2>1. [on |-> TRUE, state |-> state, date |-> Now] \in Write
    BY MsDate DEF Write, Now, TypeOK
  <2> QED BY <1>2, <2>1 DEF DatedBegin, TypeOK
<1>3. ASSUME NEW r \in Record, DatedCommit(r) PROVE TypeOK'
  <2>1. [state |-> write[r].state, rev |-> row[r].rev + 1, date |-> write[r].date] \in Row
    BY RowOfWrite DEF Row
  <2>2. row' \in [Record -> Row] /\ write' \in [Record -> Write]
    BY <1>3, <2>1, NothingTypes DEF DatedCommit, TypeOK
  <2>3. late' \subseteq Record /\ undated' \subseteq Record /\ split' \subseteq Record
    BY <1>3 DEF DatedCommit, TypeOK
  <2> QED BY <1>3, <2>2, <2>3 DEF DatedCommit, TypeOK
<1>4. ASSUME NEW r \in Record, DatedFail(r) PROVE TypeOK'
  BY <1>4, NothingTypes DEF DatedFail, TypeOK
<1>5. ASSUME NEW r \in Record, SaveTransaction(r) PROVE TypeOK'
  <2>1. PICK date \in {clock, Now} :
          write' = [write EXCEPT ![r] = [on |-> TRUE, state |-> "live", date |-> date]]
    BY <1>5 DEF SaveTransaction
  <2>2. [on |-> TRUE, state |-> "live", date |-> date] \in Write
    BY MsDate DEF Write, Now, TypeOK
  <2> QED BY <1>5, <2>1, <2>2 DEF SaveTransaction, TypeOK
<1>6. ASSUME NEW r \in Record, NEW state \in {"live", "deleted"}, Undated(r, state) PROVE TypeOK'
  <2>1. [row[r] EXCEPT !.state = state, !.rev = @ + 1] \in Row
    <3>1. row[r] \in Row /\ row[r].rev + 1 \in Nat /\ state \in State
      BY RowOfWrite DEF TypeOK, State
    <3> QED BY <3>1 DEF Row
  <2>2. row' \in [Record -> Row]
    BY <1>6, <2>1 DEF Undated, TypeOK
  <2> QED BY <1>6, <2>2 DEF Undated, TypeOK
<1>7. ASSUME NEW r \in Record, Purge(r) PROVE TypeOK'
  <2>1. [row[r] EXCEPT !.state = "absent"] \in Row
    BY DEF Row, State, TypeOK
  <2> QED BY <1>7, <2>1 DEF Purge, TypeOK
<1>8. ASSUME NEW page \in SUBSET Record, PullRead(page) PROVE TypeOK'
  <2>1. PICK last \in LastDates(page) : pull' = PullOf(page, Cardinality(page) = Limit, last)
    BY <1>8 DEF PullRead
  <2>2. pull' \in Pull
    BY <2>1, PullOfType, LastDatesType
  <2>3. split' \subseteq Record
    BY <1>8 DEF PullRead, TypeOK
  <2> QED BY <1>8, <2>2, <2>3 DEF PullRead, TypeOK
<1>9. CASE PullAnswer
  <2>1. pull.last \in Nat /\ pull.full \in BOOLEAN /\ pull.items \in [Record -> Version] /\ Now \in Nat
    BY MsDate DEF TypeOK, Pull, Now
  <2>2. copy' \in [Record -> Version]
    BY <1>9, <2>1 DEF PullAnswer, TypeOK
  <2> QED BY <1>9, <2>1, <2>2, NothingTypes DEF PullAnswer, TypeOK
<1>10. CASE PullFail
  BY <1>10, NothingTypes DEF PullFail, TypeOK
<1>11. CASE UNCHANGED vars
  BY <1>11 DEF vars, TypeOK
<1> QED
  BY <1>1, <1>2, <1>3, <1>4, <1>5, <1>6, <1>7, <1>8, <1>9, <1>10, <1>11
  DEF Next, Change, DeleteTransaction, RestoreTransaction

-----------------------------------------------------------------------------
(* Every step keeps the invariant.                                         *)

LEMMA StepPull == ASSUME PullInv, [Next]_vars PROVE PullInv'
<1> USE DEF server, device, history
<1> TypeOK /\ TypeOK'
  BY TypeKept DEF PullInv
<1>1. CASE UNCHANGED <<row, device, history>>
  BY <1>1 DEF PullInv, UpToDate, PageIsCurrent, Passed, There, VersionOf
<1>2. ASSUME NEW r \in Record, DatedCommit(r) PROVE PullInv'
  <2>1. row'[r].date = write[r].date /\ UNCHANGED device
    BY <1>2 DEF DatedCommit, TypeOK
  <2>2. CASE Passed(write[r].date)
    BY <1>2, <2>2, WriteKeeps DEF DatedCommit, TypeOK
  <2>3. CASE ~Passed(write[r].date)
    BY <1>2, <2>1, <2>3, WriteKeeps DEF DatedCommit, TypeOK
  <2> QED BY <2>2, <2>3
<1>3. ASSUME NEW r \in Record, SaveTransaction(r) PROVE PullInv'
  BY <1>1, <1>3 DEF SaveTransaction
<1>4. ASSUME NEW r \in Record, NEW state \in {"live", "deleted"}, Undated(r, state) PROVE PullInv'
  <2>1. row'[r].date = row[r].date
    BY <1>4 DEF Undated, TypeOK, Row
  <2> QED BY <1>4, <2>1, WriteKeeps DEF Undated, TypeOK
<1>5. ASSUME NEW r \in Record, Purge(r) PROVE PullInv'
  <2>1. ~There(r)'
    BY <1>5 DEF Purge, There, TypeOK, Row
  <2> QED BY <1>5, <2>1, WriteKeeps DEF Purge, TypeOK
<1>6. ASSUME NEW page \in SUBSET Record, PullRead(page) PROVE PullInv'
  BY <1>6, ReadKeeps
<1>7. CASE PullAnswer
  BY <1>7, AnswerKeeps
<1>8. CASE PullFail
  BY <1>8, NothingTypes DEF PullFail, PullInv, UpToDate, PageIsCurrent, There, VersionOf
<1>9. CASE Tick
  BY <1>1, <1>9 DEF Tick
<1>10. ASSUME NEW r \in Record, NEW state \in {"live", "deleted"}, DatedBegin(r, state) PROVE PullInv'
  BY <1>1, <1>10 DEF DatedBegin
<1>11. ASSUME NEW r \in Record, DatedFail(r) PROVE PullInv'
  BY <1>1, <1>11 DEF DatedFail
<1>12. CASE UNCHANGED vars
  BY <1>1, <1>12 DEF vars
<1> QED
  BY <1>2, <1>3, <1>4, <1>5, <1>6, <1>7, <1>8, <1>9, <1>10, <1>11, <1>12
  DEF Next, Change, DeleteTransaction, RestoreTransaction

\* What the device has passed it has as it is, and what the answer under way
\* will make it pass is on its page: PullRead, PullAnswer and every write keep
\* it, for any records, page size and clock.
THEOREM PullInvariant == Spec => []PullInv
<1>1. PullInv /\ [Next]_vars => PullInv'
  BY StepPull
<1> QED BY <1>1, InitPull, PTL DEF Spec

\* A device is up to date with all that is dated before its cursor, but for the
\* records that were hit by a late commit, an undated write or a split page.
THEOREM DeviceIsUpToDate == Spec => []UpToDate
<1>1. PullInv => UpToDate
  BY DEF PullInv
<1> QED BY <1>1, PullInvariant, PTL

=============================================================================
