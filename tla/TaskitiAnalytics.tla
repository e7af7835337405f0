-------------------------- MODULE TaskitiAnalytics --------------------------
(***************************************************************************)
(* The daily records that TaskitiAnalyticsService keeps of a user's tasks, *)
(* and the streaks it counts in them.                                      *)
(*                                                                         *)
(* A record is computed anew from the rows of the tasks: that of yesterday *)
(* every hour, those of today and of later days by each GET analytics.     *)
(* Meanwhile tasks are written, and another hourly job purges those that   *)
(* were completed more than a day ago.                                     *)
(*                                                                         *)
(* Of a record only the completed tasks are kept, as the set whose size is *)
(* stored; the other numbers are counted from the same rows.  Time passes  *)
(* in hours, Hours of them to a day; what happens in an hour happens after *)
(* its jobs are due.  A write is dated when it commits: the gap is a       *)
(* matter of TaskitiSync, as are deleted tasks, which are purged after 30  *)
(* days, longer than any record is computed.                               *)
(* The created_at of a task comes from its client and is taken to be no    *)
(* later than the day of its completion: computeDay ignores a later one.   *)
(*                                                                         *)
(* Its names are none of TaskitiSync's: TaskitiProofs is about both.       *)
(***************************************************************************)
EXTENDS Integers, FiniteSets, FiniteSetsExt, Sequences

CONSTANTS
  TaskId,      \* tasks of the user
  Job,       \* slots for jobs and requests that compute records
  Hours,     \* hours of a day
  FirstDay,  \* the day the clock starts; records of earlier ones may be there
  LastDay,   \* the clock stops at its end
  None       \* no row, no date, no job

ASSUME AnalyticsAssumption ==
  /\ Hours \in Nat \ {0} /\ FirstDay \in Nat \ {0} /\ LastDay \in Nat
  /\ FirstDay <= LastDay

VARIABLES
  now,       \* the hour
  due,       \* hourly jobs that have not begun
  tasks,     \* [Task -> its row]
  records,   \* [recorded days -> the tasks counted as completed]
  jobs,      \* [Job -> what is being computed]
  purged,    \* history: tasks that were purged
  done,      \* history: [Day -> tasks completed on the day and not reopened on it]
  settled    \* history: days whose record was last computed from rows read
             \* after the day

analyticsVars == <<now, due, tasks, records, jobs, purged, done, settled>>

-----------------------------------------------------------------------------
Day == 0 .. LastDay
Hour == 0 .. (LastDay + 1) * Hours - 1
Today == now \div Hours

TaskRow == [completed: BOOLEAN, completed_at: Hour \cup {None}, updated_at: Day]

\* todo: days to compute; day: the one whose rows were read; seen: the tasks
\* counted; over: the day was over then.  known (history): what was completed
\* on the day of a request when it began and is unchanged since.  clashed
\* (history): another computation of that day overlapped, or the record of the
\* day could not be written.
Computation ==
  [op: {"precompute", "request"}, today: Day, todo: SUBSET Day, day: Day \cup {None},
   seen: SUBSET TaskId, over: BOOLEAN, known: SUBSET TaskId, clashed: BOOLEAN]

ASSUME NoneAssumption == None \notin Nat \cup TaskRow \cup Computation

Rows == {t \in TaskId : tasks[t] # None}
Busy == {j \in Job : jobs[j] # None}
Reading(d) == {j \in Busy : jobs[j].day = d}
Proceed(j, step) == jobs' = [jobs EXCEPT ![j] = step]

\* A write to the tasks ts is not known to the requests under way.
Forget(ts) == [j \in Job |-> IF j \in Busy THEN [jobs[j] EXCEPT !.known = @ \ ts] ELSE None]

\* computeDay counts a task as completed on the day of its last write.
Counted(d) == {t \in Rows : tasks[t].completed /\ tasks[t].updated_at = d}

-----------------------------------------------------------------------------
(* computeStreaks: the records, newest first.                              *)

GRACE_DAYS == 3
Recorded == DOMAIN records
Active == {d \in Recorded : records[d] # {}}

\* The calendar backwards, and the records of its first n days.
Back(n) == LastDay + 1 - n
Newest[n \in 0 .. LastDay + 1] ==
  IF n = 0 THEN <<>>
  ELSE IF Back(n) \in Recorded THEN Append(Newest[n - 1], Back(n)) ELSE Newest[n - 1]
NewestFirst == Newest[LastDay + 1]

\* How many elements s begins with that are in S.
Leading(s, S) ==
  CHOOSE n \in 0 .. Len(s) :
    (\A i \in 1 .. n : s[i] \in S) /\ (n = Len(s) \/ s[n + 1] \notin S)

Larger(m, n) == IF m > n THEN m ELSE n

\* The body of the first loop, and what it has counted after those records.
Count(d, before) ==
  IF d \in Active THEN [run |-> before.run + 1, longest |-> before.longest]
  ELSE [run |-> 0, longest |-> Larger(before.longest, before.run)]
Runs[n \in 0 .. LastDay + 1] ==
  IF n = 0 THEN [run |-> 0, longest |-> 0]
  ELSE IF Back(n) \in Recorded THEN Count(Back(n), Runs[n - 1]) ELSE Runs[n - 1]
Counts == Runs[LastDay + 1]

\* A loop without the comparison after it (a plausible bug).
LongestInside == Counts.longest
Longest == Larger(Counts.longest, Counts.run)

ColdDays == Leading(NewestFirst, Recorded \ Active)
Current ==
  IF ColdDays >= GRACE_DAYS THEN 0
  ELSE Leading(SubSeq(NewestFirst, ColdDays + 1, Len(NewestFirst)), Active)

-----------------------------------------------------------------------------
\* The records of the past: any days, with or without completions.
AnalyticsInit ==
  /\ now = FirstDay * Hours
  /\ due = {}
  /\ tasks = [t \in TaskId |-> None]
  /\ \E days \in SUBSET (0 .. FirstDay - 1) : records \in [days -> {{}, TaskId}]
  /\ jobs = [j \in Job |-> None]
  /\ purged = {}
  /\ done = [d \in Day |-> {}]
  /\ settled = {}

HourPasses ==
  /\ due = {} /\ now + 1 \in Hour
  /\ now' = now + 1
  /\ due' = {"precompute", "purge"}
  /\ UNCHANGED <<tasks, records, jobs, purged, done, settled>>

\* The process is down at the hour; what it was doing is over.
Down ==
  /\ due # {}
  /\ due' = {}
  /\ jobs' = [j \in Job |-> None]
  /\ UNCHANGED <<now, tasks, records, purged, done, settled>>

-----------------------------------------------------------------------------
(* The tasks.                                                              *)

\* POST tasks, and a sync, which may bring a task that is completed.
CreateTask(t, completed) ==
  /\ tasks[t] = None /\ t \notin purged
  /\ tasks' = [tasks EXCEPT ![t] =
       [completed |-> completed, completed_at |-> IF completed THEN now ELSE None,
        updated_at |-> Today]]
  /\ done' = IF completed THEN [done EXCEPT ![Today] = @ \cup {t}] ELSE done
  /\ UNCHANGED <<now, due, records, jobs, purged, settled>>

\* PATCH tasks/:id and a sync that changes the task.
Complete(t) ==
  /\ t \in Rows
  /\ tasks' = [tasks EXCEPT ![t] =
       [completed |-> TRUE, completed_at |-> now, updated_at |-> Today]]
  /\ done' = IF tasks[t].completed THEN done ELSE [done EXCEPT ![Today] = @ \cup {t}]
  /\ jobs' = Forget({t})
  /\ UNCHANGED <<now, due, records, purged, settled>>

\* A PATCH that leaves completed_at as it was (a plausible bug).
ReopenKeepsDate(t) ==
  /\ t \in Rows
  /\ tasks' = [tasks EXCEPT ![t].completed = FALSE, ![t].updated_at = Today]
  /\ done' = [done EXCEPT ![Today] = @ \ {t}]
  /\ jobs' = Forget({t})
  /\ UNCHANGED <<now, due, records, purged, settled>>

Reopen(t) ==
  /\ t \in Rows
  /\ tasks' = [tasks EXCEPT ![t] =
       [completed |-> FALSE, completed_at |-> None, updated_at |-> Today]]
  /\ done' = [done EXCEPT ![Today] = @ \ {t}]
  /\ jobs' = Forget({t})
  /\ UNCHANGED <<now, due, records, purged, settled>>

\* A PATCH without completed, and DELETE tasks/:id, leave the completion.
EditTask(t) ==
  /\ t \in Rows
  /\ tasks' = [tasks EXCEPT ![t].updated_at = Today]
  /\ jobs' = Forget({t})
  /\ UNCHANGED <<now, due, records, purged, done, settled>>

\* A sync that finds a completed task unchanged dates its completion anew.
SyncUnchanged(t) ==
  /\ t \in Rows /\ tasks[t].completed
  /\ tasks' = [tasks EXCEPT ![t].completed_at = now]
  /\ UNCHANGED <<now, due, records, jobs, purged, done, settled>>

\* purgeCompletedTasks: completed for more than 24 hours; a part of them, or
\* none, when the statement fails and its error is logged.
PurgeCompleted ==
  LET old == {t \in Rows : /\ tasks[t].completed /\ tasks[t].completed_at # None
                           /\ tasks[t].completed_at < now - Hours}
  IN /\ "purge" \in due
     /\ due' = due \ {"purge"}
     /\ \E gone \in {old, {}} :
          /\ tasks' = [t \in TaskId |-> IF t \in gone THEN None ELSE tasks[t]]
          /\ purged' = purged \cup gone
          /\ jobs' = Forget(gone)
     /\ UNCHANGED <<now, records, done, settled>>

-----------------------------------------------------------------------------
(* The computations.                                                       *)

Begin(op, todo, known) ==
  [op |-> op, today |-> Today, todo |-> todo, day |-> None, seen |-> {}, over |-> FALSE,
   known |-> known, clashed |-> FALSE]

\* precomputeDaily and POST analytics/refresh: yesterday of every user; the
\* loop goes on with the next one whatever happens to this.
Precompute(j) ==
  /\ jobs[j] = None
  /\ due' \in {due, due \ {"precompute"}}
  /\ Proceed(j, Begin("precompute", {Today - 1}, {}))
  /\ UNCHANGED <<now, tasks, records, purged, done, settled>>

\* A request that leaves out today (a plausible bug).
GetAnalyticsLater(j, first, to) ==
  /\ jobs[j] = None
  /\ Proceed(j, Begin("request", Today + 1 .. to,
                      IF Today \in first .. to THEN Counted(Today) ELSE {}))
  /\ UNCHANGED <<now, due, tasks, records, purged, done, settled>>

\* GET analytics: of the days asked for those that are not over, first..to.
GetAnalytics(j, first, to) ==
  /\ jobs[j] = None
  /\ Proceed(j, Begin("request", first .. to,
                      IF Today \in first .. to THEN Counted(Today) ELSE {}))
  /\ UNCHANGED <<now, due, tasks, records, purged, done, settled>>

\* What has happened to the record of d is of interest to a request of that day.
Clash(r, d) == [r EXCEPT !.clashed = @ \/ r.today = d]

\* computeDay reads the rows; whoever has read them before it clashes with it.
Read(j) ==
  LET d == Min(jobs[j].todo)
      r == [jobs[j] EXCEPT !.todo = @ \ {d}, !.day = d, !.seen = Counted(d), !.over = d < Today]
  IN /\ j \in Busy /\ jobs[j].day = None /\ jobs[j].todo # {}
     /\ jobs' = [k \in Job |->
          IF k = j THEN IF Reading(d) = {} THEN r ELSE Clash(r, d)
          ELSE IF k \in Reading(d) THEN Clash(jobs[k], d) ELSE jobs[k]]
     /\ UNCHANGED <<now, due, tasks, records, purged, done, settled>>

\* A precomputation is over; a request goes on.
AfterDay(j) ==
  IF jobs[j].op = "precompute" THEN None
  ELSE [jobs[j] EXCEPT !.day = None, !.seen = {}, !.over = FALSE]

\* An upsert that keeps what is there (a plausible bug).
InsertOnly(j) ==
  LET d == jobs[j].day
  IN /\ j \in Busy /\ d # None
     /\ records' = [e \in Recorded \cup {d} |-> IF e \in Recorded THEN records[e] ELSE jobs[j].seen]
     /\ settled' = IF jobs[j].over THEN settled \cup {d} ELSE settled \ {d}
     /\ Proceed(j, AfterDay(j))
     /\ UNCHANGED <<now, due, tasks, purged, done>>

Upsert(j) ==
  LET d == jobs[j].day
  IN /\ j \in Busy /\ d # None
     /\ records' = [e \in Recorded \cup {d} |-> IF e = d THEN jobs[j].seen ELSE records[e]]
     /\ settled' = IF jobs[j].over THEN settled \cup {d} ELSE settled \ {d}
     /\ Proceed(j, AfterDay(j))
     /\ UNCHANGED <<now, due, tasks, purged, done>>

\* What the upsert throws is swallowed.
UpsertFails(j) ==
  /\ j \in Busy /\ jobs[j].day # None
  /\ Proceed(j, IF jobs[j].op = "precompute" THEN None
                ELSE Clash(AfterDay(j), jobs[j].day))
  /\ UNCHANGED <<now, due, tasks, records, purged, done, settled>>

Answering(j) == j \in Busy /\ jobs[j].op = "request" /\ jobs[j].todo = {} /\ jobs[j].day = None

\* The records of the range and the streaks are read and sent.
SendAnalytics(j) ==
  /\ Answering(j)
  /\ Proceed(j, None)
  /\ UNCHANGED <<now, due, tasks, records, purged, done, settled>>

\* A read fails, which is a 500 or a line in the log, or the process stops.
JobFails(j) ==
  /\ j \in Busy
  /\ Proceed(j, None)
  /\ UNCHANGED <<now, due, tasks, records, purged, done, settled>>

AnalyticsNext ==
  \/ HourPasses \/ Down \/ PurgeCompleted
  \/ \E t \in TaskId :
       \/ \E completed \in BOOLEAN : CreateTask(t, completed)
       \/ Complete(t) \/ Reopen(t) \/ EditTask(t) \/ SyncUnchanged(t)
  \/ \E j \in Job :
       \/ Precompute(j)
       \/ \E first \in Today .. LastDay, to \in Today - 1 .. LastDay : GetAnalytics(j, first, to)
       \/ Read(j) \/ Upsert(j) \/ UpsertFails(j) \/ SendAnalytics(j) \/ JobFails(j)

AnalyticsSpec == AnalyticsInit /\ [][AnalyticsNext]_analyticsVars

-----------------------------------------------------------------------------
\* And what the purge relies on: a task has a date of its completion exactly
\* when it is completed, and no date that is to come; what is purged stays so.
AnalyticsTypeOK ==
  /\ \A t \in Rows :
       /\ IF tasks[t].completed THEN tasks[t].completed_at \in 0 .. now ELSE tasks[t].completed_at = None
       /\ tasks[t].updated_at <= Today /\ t \notin purged
  /\ now \in Hour /\ Today >= FirstDay /\ due \subseteq {"precompute", "purge"}
  /\ tasks \in [TaskId -> TaskRow \cup {None}]
  /\ Recorded \subseteq Day /\ records \in [Recorded -> SUBSET TaskId]
  /\ jobs \in [Job -> Computation \cup {None}]
  /\ purged \subseteq TaskId /\ settled \subseteq Recorded
  /\ done \in [Day -> SUBSET TaskId]

\* Once a day is settled its record has every task that was completed on it,
\* but for those that were purged or written again on a later day; no other
\* failure or edit, and no overlap of computations, loses one.
PastIsCounted ==
  \A d \in settled, t \in TaskId : t \in done[d] =>
    \/ t \in records[d] \cup purged
    \/ t \in Rows /\ tasks[t].updated_at > d

\* A request for today answers with what was completed when it was sent, and
\* is so still, unless another computation of the day overlapped with its own.
AnswersAreFresh ==
  \A j \in Job : Answering(j) =>
    LET d == jobs[j].today
    IN \/ jobs[j].clashed \/ jobs[j].known = {}
       \/ d \in Recorded /\ jobs[j].known \subseteq records[d]

-----------------------------------------------------------------------------
(* The inductive invariant behind the two.                                 *)

\* Of t a record of day d needs no more: it has been purged, or written later.
LeftDay(t, d) == t \in purged \/ (t \in Rows /\ tasks[t].updated_at > d)

\* What was completed on a day is, unless it has left it, a row that is
\* completed and was written last on that day.
DoneIsThere ==
  \A d \in Day : \A t \in done[d] :
    d <= Today /\ (LeftDay(t, d) \/ t \in Counted(d))

\* A computation that read its rows after the day has seen all of them, and
\* so has a record that such a computation wrote (PastIsCounted).
SeenIsComplete ==
  \A j \in Busy : jobs[j].over =>
    /\ jobs[j].day \in 0 .. Today - 1
    /\ \A t \in done[jobs[j].day] : t \in jobs[j].seen \/ LeftDay(t, jobs[j].day)

SettledIsPast == \A d \in settled : d < Today

TodoIsRange ==
  \A j \in Busy : \E first \in 0 .. LastDay + 1, to \in Day : jobs[j].todo = first .. to

\* What a request must answer with is counted in the rows; once it has read
\* them, in what it has seen, which nobody else is about to overwrite; and once
\* it has written the record, there, whoever is about to write it again.
KnownIsKept ==
  \A j \in Busy :
    LET r == jobs[j]
        d == r.today
    IN /\ r.known \subseteq Counted(d)
       /\ r.known # {} /\ d \notin r.todo /\ ~r.clashed =>
            IF r.day = d THEN r.known \subseteq r.seen /\ Reading(d) = {j}
            ELSE /\ d \in Recorded /\ r.known \subseteq records[d]
                 /\ \A k \in Reading(d) : r.known \subseteq jobs[k].seen

AnalyticsInv ==
  /\ AnalyticsTypeOK
  /\ DoneIsThere
  /\ SeenIsComplete
  /\ SettledIsPast
  /\ TodoIsRange
  /\ KnownIsKept
  /\ PastIsCounted

-----------------------------------------------------------------------------
\* The lengths of the runs of days, all in S, whose last day is in ends.
RunLengths(S, ends) ==
  {p[2] - p[1] + 1 : p \in {q \in Day \X ends : q[1] <= q[2] /\ q[1] .. q[2] \subseteq S}}
LongestRun(S) == Max({0} \cup RunLengths(S, Day))

NoGaps == \A d \in Day : d \in Recorded \/ \A e \in Recorded : e < d \/ \A f \in Recorded : d < f

\* The streaks, which are counted record by record, are those of the calendar
\* as long as no day is missing between two recorded ones; the current one
\* survives two days without a completion before the newest record.
StreaksAreDays ==
  Recorded # {} /\ NoGaps =>
    /\ Longest = LongestRun(Active)
    /\ Current = IF Active = {} \/ Max(Recorded) - Max(Active) >= GRACE_DAYS THEN 0
                 ELSE Max(RunLengths(Active, {Max(Active)}))

=============================================================================
