------------------------------ MODULE SyncPull ------------------------------
(***************************************************************************)
(* GET sync/:entity/pull: a device asks for the records of one entity that *)
(* are dated after its cursor, in pages, oldest first.  The page's last    *)
(* date is the next cursor as long as pages are full.  What the device     *)
(* gets thus hangs on how every other route dates what it writes: a pushed *)
(* operation and the trash of an account take new Date() before they send  *)
(* their statement, the insert of POST transactions/save leaves the date   *)
(* to the database, and the routes that complete, delete and restore a     *)
(* transaction or move and PUT a balance leave it as it was.               *)
(*                                                                         *)
(* The database dates in microseconds and a JavaScript Date in             *)
(* milliseconds.  Two ticks of the clock are a millisecond here, so that   *)
(* the even dates are the ones a Date can say.                             *)
(*                                                                         *)
(* The device is not in this repository: it repeats the pull with the      *)
(* next_cursor of the answer, and after the last page with its             *)
(* server_clock or the date of the last item.  Records of others are       *)
(* filtered by the query and left out; so are the assignments of tags,     *)
(* whose pull knows no dates.                                              *)
(***************************************************************************)
EXTENDS Naturals, FiniteSets

CONSTANTS
  Record,    \* ids of one entity of one user
  Stamped,   \* the records inserted by POST transactions/save
  Limit,     \* items of a page
  MaxClock,  \* bound on the clock
  MaxRev     \* bound on how often a record is written

\* Limit rows of one millisecond that are dated between two milliseconds are
\* served again and again: next_cursor is before them.
ASSUME PullAssumption ==
  /\ Stamped \subseteq Record /\ IsFiniteSet(Record)
  /\ Limit \in Nat /\ Limit > Cardinality(Stamped)
  /\ MaxClock \in Nat /\ MaxRev \in Nat

VARIABLES
  clock,    \* the time, in half milliseconds
  row,      \* [Record -> the row]
  write,    \* [Record -> the write under way that has its date already]
  copy,     \* [Record -> what the device has]
  cursor,   \* the cursor the device will send
  pull,     \* the pull being served
  more,     \* the last answer had a next_cursor
  late, undated, split  \* history: records that a hazard below has hit

server == <<clock, row, write>>
device == <<copy, cursor, pull, more>>
history == <<late, undated, split>>
vars == <<server, device, history>>

-----------------------------------------------------------------------------
\* rev counts the writes of a record.
State == {"absent", "live", "deleted"}
Version == [state: State, rev: Nat]
Row == [state: State, rev: Nat, date: Nat]
There(r) == row[r].state # "absent"
VersionOf(r) == [state |-> row[r].state, rev |-> row[r].rev]

Ms(date) == date - (date % 2)
Now == Ms(clock)

Write == [on: BOOLEAN, state: {"live", "deleted"}, date: Nat]
NoWrite == [on |-> FALSE, state |-> "live", date |-> 0]

\* items: what the page says of its records.  full: it has a next_cursor.
\* last: the date of its last item, as the answer says it.
Pull == [on: BOOLEAN, page: SUBSET Record, items: [Record -> Version], full: BOOLEAN, last: Nat]
Nothing == [state |-> "absent", rev |-> 0]
NoPull == [on |-> FALSE, page |-> {}, items |-> [r \in Record |-> Nothing],
           full |-> FALSE, last |-> 0]

PullOf(page, full, last) ==
  [on |-> TRUE, page |-> page, full |-> full, last |-> last,
   items |-> [r \in Record |-> IF r \in page THEN VersionOf(r) ELSE Nothing]]

\* The date of the last item of a page, as a Date says it.
LastDates(page) ==
  IF page = {} THEN {cursor}
  ELSE {Ms(row[r].date) : r \in {r \in page : \A s \in page : row[s].date <= row[r].date}}

\* No later pull will ask for a date like this: it is not after the cursor, or
\* will not be after the answer that is under way.
Passed(date) == date <= cursor \/ (pull.on /\ (pull.full => date <= pull.last))

-----------------------------------------------------------------------------
Init ==
  /\ clock = 2
  /\ row = [r \in Record |-> [state |-> "absent", rev |-> 0, date |-> 0]]
  /\ write = [r \in Record |-> NoWrite]
  /\ copy = [r \in Record |-> Nothing]
  /\ cursor = 0
  /\ pull = NoPull
  /\ more = FALSE
  /\ late = {} /\ undated = {} /\ split = {}

Tick ==
  /\ clock < MaxClock
  /\ clock' = clock + 1
  /\ UNCHANGED <<row, write, device, history>>

-----------------------------------------------------------------------------
(* Plausible bugs.                                                         *)

\* A pull that leaves the deleted records out, as the lists of the wallet do.
PullReadLive(page) ==
  LET newer == {r \in Record : row[r].state = "live" /\ row[r].date > cursor}
      full == Cardinality(page) = Limit
  IN /\ ~pull.on
     /\ page \subseteq newer
     /\ Cardinality(page) <= Limit
     /\ full \/ page = newer
     /\ \A r \in page, s \in newer \ page : row[r].date <= row[s].date
     /\ \E last \in LastDates(page) : pull' = PullOf(page, full, last)
     /\ split' = split \cup
          IF full THEN {s \in newer \ page : \E r \in page : row[r].date = row[s].date} ELSE {}
     /\ UNCHANGED <<server, copy, cursor, more, late, undated>>

\* A pull that cuts its page before it orders the records by date.
PullReadUnordered(page) ==
  LET newer == {r \in Record : There(r) /\ row[r].date > cursor}
      full == Cardinality(page) = Limit
  IN /\ ~pull.on
     /\ page \subseteq newer
     /\ Cardinality(page) <= Limit
     /\ full \/ page = newer
     /\ \E last \in LastDates(page) : pull' = PullOf(page, full, last)
     /\ split' = split \cup
          IF full THEN {s \in newer \ page : \E r \in page : row[r].date = row[s].date} ELSE {}
     /\ UNCHANGED <<server, copy, cursor, more, late, undated>>

\* The next cursor of a full page is the one that was sent.
PullAnswerSameCursor ==
  /\ pull.on
  /\ copy' = [r \in Record |-> IF r \in pull.page THEN pull.items[r] ELSE copy[r]]
  /\ cursor' = IF pull.full THEN cursor ELSE Now
  /\ more' = pull.full
  /\ pull' = NoPull
  /\ UNCHANGED <<server, history>>

-----------------------------------------------------------------------------
(* Writes.                                                                 *)

\* A dated write takes its date and sends its statement: a push, which may
\* create a transaction that is deleted already, the trash of an account and
\* its restoration.
DatedBegin(r, state) ==
  /\ ~write[r].on
  /\ row[r].rev < MaxRev
  /\ There(r) \/ (r \notin Stamped /\ row[r].rev = 0)
  /\ write' = [write EXCEPT ![r] = [on |-> TRUE, state |-> state, date |-> Now]]
  /\ UNCHANGED <<clock, row, device, history>>

\* POST transactions/save gives no date: the row has the default now() of the
\* schema, by the clock of the database or by that of its client.
SaveTransaction(r) ==
  /\ ~write[r].on
  /\ r \in Stamped /\ row[r].rev = 0
  /\ \E date \in {clock, Now} :
       write' = [write EXCEPT ![r] = [on |-> TRUE, state |-> "live", date |-> date]]
  /\ UNCHANGED <<clock, row, device, history>>

\* It is visible when its transaction has committed, under the date it took.
DatedCommit(r) ==
  /\ write[r].on
  /\ There(r) \/ row[r].rev = 0
  /\ row' = [row EXCEPT ![r] =
       [state |-> write[r].state, rev |-> @.rev + 1, date |-> write[r].date]]
  /\ write' = [write EXCEPT ![r] = NoWrite]
  /\ IF Passed(write[r].date)
     THEN late' = late \cup {r} /\ UNCHANGED <<undated, split>>
     ELSE late' = late \ {r} /\ undated' = undated \ {r} /\ split' = split \ {r}
  /\ UNCHANGED <<clock, device>>

\* Its row is gone, the database refuses or the process stops.
DatedFail(r) ==
  /\ write[r].on
  /\ write' = [write EXCEPT ![r] = NoWrite]
  /\ UNCHANGED <<clock, row, device, history>>

\* A write that says nothing of updated_at.
Undated(r, state) ==
  /\ There(r)
  /\ row[r].rev < MaxRev
  /\ row' = [row EXCEPT ![r].state = state, ![r].rev = @ + 1]
  /\ undated' = IF Passed(row[r].date) THEN undated \cup {r} ELSE undated
  /\ UNCHANGED <<clock, write, device, late, split>>

\* PUT transactions/complete, PUT account, a balance that is moved.
Change(r) == row[r].state = "live" /\ Undated(r, "live")
DeleteTransaction(r) == row[r].state = "live" /\ Undated(r, "deleted")
RestoreTransaction(r) == row[r].state = "deleted" /\ Undated(r, "live")

\* The cleanup deletes an account for good, and its transactions.  Nothing is
\* left that a pull could tell.
Purge(r) ==
  /\ There(r)
  /\ row' = [row EXCEPT ![r].state = "absent"]
  /\ UNCHANGED <<clock, write, device, history>>

-----------------------------------------------------------------------------
(* The pull.                                                               *)

\* findMany: updated_at after the cursor, ordered by it, the first Limit; the
\* order of equal dates is the database's.  A full page ends at a date that
\* records outside of it may share.
PullRead(page) ==
  LET newer == {r \in Record : There(r) /\ row[r].date > cursor}
      full == Cardinality(page) = Limit
  IN /\ ~pull.on
     /\ page \subseteq newer
     /\ Cardinality(page) <= Limit
     /\ full \/ page = newer
     /\ \A r \in page, s \in newer \ page : row[r].date <= row[s].date
     /\ \E last \in LastDates(page) : pull' = PullOf(page, full, last)
     /\ split' = split \cup
          IF full THEN {s \in newer \ page : \E r \in page : row[r].date = row[s].date} ELSE {}
     /\ UNCHANGED <<server, copy, cursor, more, late, undated>>

\* The answer, with server_clock := new Date(), and what the device makes of it.
PullAnswer ==
  /\ pull.on
  /\ copy' = [r \in Record |-> IF r \in pull.page THEN pull.items[r] ELSE copy[r]]
  /\ cursor' \in IF pull.full THEN {pull.last} ELSE {pull.last, Now}
  /\ more' = pull.full
  /\ pull' = NoPull
  /\ UNCHANGED <<server, history>>

\* The answer is lost; the device will ask again from the same cursor.
PullFail ==
  /\ pull.on
  /\ pull' = NoPull
  /\ UNCHANGED <<server, copy, cursor, more, history>>

-----------------------------------------------------------------------------
Next ==
  \/ Tick
  \/ \E r \in Record :
       \/ \E state \in {"live", "deleted"} : DatedBegin(r, state)
       \/ DatedCommit(r) \/ DatedFail(r)
       \/ SaveTransaction(r)
       \/ Change(r) \/ DeleteTransaction(r) \/ RestoreTransaction(r)
       \/ Purge(r)
  \/ \E page \in SUBSET Record : PullRead(page)
  \/ PullAnswer
  \/ PullFail

Spec == Init /\ [][Next]_vars

\* A device that has been told of more goes on asking, and not every answer is
\* lost.
FairSpec ==
  /\ Spec
  /\ WF_vars(more /\ \E page \in SUBSET Record : PullRead(page))
  /\ SF_vars(PullAnswer)

-----------------------------------------------------------------------------
TypeOK ==
  /\ clock \in Nat
  /\ row \in [Record -> Row]
  /\ write \in [Record -> Write]
  /\ copy \in [Record -> Version]
  /\ cursor \in Nat
  /\ pull \in Pull
  /\ more \in BOOLEAN
  /\ late \subseteq Record /\ undated \subseteq Record /\ split \subseteq Record

\* What is dated before the cursor the device has, in its last state, however
\* pages, writes, lost answers and purges interleave, with the three
\* exceptions that the dates bring about: a write that committed under a date
\* that had passed, one that left the date as it was, and a page that ended
\* between two records of the same date.
UpToDate ==
  \A r \in Record \ (late \cup undated \cup split) :
    There(r) /\ row[r].date <= cursor => copy[r] = VersionOf(r)

\* A device that follows next_cursor comes to a page without one.
PagesEnd == more ~> ~more

-----------------------------------------------------------------------------
(* The inductive invariant behind UpToDate.                                *)

\* What the device will pass with the answer under way is on its page, as it
\* is now; what it has passed already is not.
PageIsCurrent ==
  \A r \in Record \ (late \cup undated \cup split) :
    pull.on /\ There(r) =>
      /\ row[r].date <= cursor => r \notin pull.page
      /\ row[r].date > cursor /\ Passed(row[r].date) =>
           r \in pull.page /\ pull.items[r] = VersionOf(r)

PullInv == TypeOK /\ UpToDate /\ PageIsCurrent

-----------------------------------------------------------------------------
(* What a comment of the code says; pull_deletions shows that it does not  *)
(* hold.                                                                   *)

\* "Soft-delete: mark deleted_at and updated_at": a deletion that was neither
\* late nor split off reaches a device that is past its date.
DeletionsArrive ==
  \A r \in Record \ (late \cup split) :
    row[r].state = "deleted" /\ row[r].date <= cursor => copy[r].state = "deleted"

=============================================================================
