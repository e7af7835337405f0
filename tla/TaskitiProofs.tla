--------------------------- MODULE TaskitiProofs ---------------------------
(***************************************************************************)
(* The two modules about a user's tasks.                                   *)
(*                                                                         *)
(* DeliveryInv is an inductive invariant of TaskitiSync, for every set of  *)
(* tasks, devices and contents and every bound on the clock; Delivered and *)
(* VersionsGrow follow.                                                    *)
(*                                                                         *)
(* A step writes rows, or a copy, or the slot of a request.  Rows are      *)
(* written by four statements, and what each of them writes unnoticed is   *)
(* disturbed (WriteKeeps).                                                 *)
(*                                                                         *)
(* AnalyticsInv is an inductive invariant of TaskitiAnalytics, for every   *)
(* set of tasks, number of computations, length of a day and calendar;     *)
(* PastIsCounted and AnswersAreFresh follow.                               *)
(*                                                                         *)
(* A step writes rows, which what is under way forgets (RowsMove), or is   *)
(* of one computation (JobsMove, and OneJob for what becomes of the        *)
(* others).                                                                *)
(*                                                                         *)
(* StreaksAreDays follows from the type of the records alone: it is about  *)
(* what the loop of computeStreaks counts, whatever was recorded.          *)
(***************************************************************************)
EXTENDS TaskitiSync, TaskitiAnalytics, WellFoundedInduction, TLAPS

LEMMA MaxOfTwo ==
  ASSUME NEW a \in Nat, NEW b \in Nat
  PROVE  Max({a, b}) \in Nat /\ Max({a, b}) >= a /\ Max({a, b}) >= b
<1>1. \E x \in {a, b} : \A y \in {a, b} : x >= y
  OBVIOUS
<1> QED
  BY <1>1 DEF Max

LEMMA Constants ==
  /\ Anything \in Content
  /\ Absent \in Row /\ NoCopy \in Copy /\ Idle \in Request
  /\ ~There(Absent)
<1>1. Anything \in Content
  BY TaskitiAssumption DEF Anything
<1> QED
  BY <1>1 DEF Absent, Row, NoCopy, Copy, Idle, Request, Step, There

LEMMA CopiesOfRows ==
  ASSUME NEW r \in Row
  PROVE  /\ CopyOf(r) \in Copy
         /\ There(r) => Shows(CopyOf(r), r)
         /\ CopyOf(r).state \notin {"edited", "dropped"}
BY DEF CopyOf, Row, Copy, There, Shows

(* What a slot holds after a request has been put into it.                 *)
LEMMA Slot ==
  ASSUME TypeOK, NEW d \in Device, NEW r \in Request, Become(d, r)
  PROVE  /\ request' \in [Device -> Request]
         /\ request'[d] = r
         /\ \A e \in Device \ {d} : request'[e] = request[e]
BY DEF TypeOK, Become

LEMMA Cells ==
  ASSUME TypeOK, NEW d \in Device
  PROVE  /\ request[d] \in Request /\ request[d].now \in Nat /\ request[d].content \in Content
         /\ request[d].sent \subseteq Task /\ lastSync[d] \in Nat /\ clock \in Nat
         /\ \A t \in Task :
              row[t] \in Row /\ copy[d][t] \in Copy /\ request[d].read[t] \in Row
BY TaskitiAssumption DEF TypeOK, Request

LEMMA InitDelivery == Init => DeliveryInv
<1> SUFFICES ASSUME Init PROVE DeliveryInv
  OBVIOUS
<1>1. TypeOK
  BY Constants, TaskitiAssumption DEF Init, TypeOK, Idle
<1>2. OneTask /\ SentIsDirty /\ AnswersAreCurrent
  BY DEF Init, OneTask, Writing, SentIsDirty, Syncing, AnswersAreCurrent, Idle
<1>3. Delivered
  BY Constants DEF Init, Delivered, Covers
<1> QED
  BY <1>1, <1>2, <1>3 DEF DeliveryInv

-----------------------------------------------------------------------------
(* Steps that write no row and no copy.                                    *)

LEMMA TickKeeps == ASSUME DeliveryInv, Tick PROVE DeliveryInv'
<1>1. /\ row' = row /\ copy' = copy /\ lastSync' = lastSync /\ request' = request
      /\ disturbed' = disturbed /\ clock' = clock + 1 /\ clock < MaxClock
  BY DEF Tick, devices
<1>2. TypeOK'
  <2>1. clock' \in 1..MaxClock
    BY <1>1, TaskitiAssumption DEF DeliveryInv, TypeOK
  <2>2. \A d \in Device : request[d].now <= clock'
    BY <1>1, Cells DEF DeliveryInv, TypeOK
  <2> QED
    BY <1>1, <2>1, <2>2 DEF DeliveryInv, TypeOK
<1>3. OneTask' /\ SentIsDirty' /\ AnswersAreCurrent' /\ Delivered'
  BY <1>1 DEF DeliveryInv, OneTask, Writing, SentIsDirty, Syncing, Dirty, AnswersAreCurrent,
              Resolved, Conflict, Delivered, Covers
<1> QED
  BY <1>2, <1>3 DEF DeliveryInv

\* A request begins or ends.
LEMMA SlotKeeps ==
  ASSUME DeliveryInv, NEW d \in Device, NEW r \in Request, Become(d, r),
         UNCHANGED <<server, devices, disturbed>>,
         r.now <= clock,
         r.step \in {"patch", "delete"} => \E t \in Task : r.sent = {t},
         r.step = "sync.commit" => r.sent = {t \in Task : Dirty(d, t)},
         r.step # "sync.pull"
  PROVE  DeliveryInv'
<1> USE DEF DeliveryInv
<1>1. /\ request' \in [Device -> Request] /\ request'[d] = r
      /\ \A e \in Device \ {d} : request'[e] = request[e]
  BY Slot
<1>2. /\ row' = row /\ clock' = clock /\ copy' = copy /\ lastSync' = lastSync
      /\ disturbed' = disturbed
  BY DEF server, devices
<1>3. TypeOK'
  BY <1>1, <1>2 DEF TypeOK
<1>4. OneTask'
  BY <1>1 DEF OneTask, Writing
<1>5. SentIsDirty'
  BY <1>1, <1>2 DEF SentIsDirty, Syncing, Dirty
<1>6. AnswersAreCurrent'
  BY <1>1, <1>2 DEF AnswersAreCurrent, Resolved, Conflict
<1>7. Delivered'
  BY <1>2 DEF Delivered, Covers, Dirty
<1> QED
  BY <1>3, <1>4, <1>5, <1>6, <1>7

LEMMA UpdateReadKeeps ==
  ASSUME DeliveryInv, NEW d \in Device, NEW t \in Task, NEW c \in Content, UpdateRead(d, t, c)
  PROVE  DeliveryInv'
<1> DEFINE r == [step |-> "patch", now |-> clock, read |-> [Idle.read EXCEPT ![t] = row[t]],
                 sent |-> {t}, content |-> c]
<1>1. row[t] \in Row /\ clock \in Nat
  BY Cells DEF DeliveryInv
<1>2. r \in Request
  BY <1>1, Constants DEF Request, Step, Idle
<1>3. Become(d, r) /\ UNCHANGED <<server, devices, disturbed>>
  BY DEF UpdateRead
<1>4. r.now <= clock /\ r.sent = {t} /\ r.step = "patch"
  BY <1>1
<1> HIDE DEF r
<1> QED
  BY <1>2, <1>3, <1>4, SlotKeeps

LEMMA RemoveReadKeeps ==
  ASSUME DeliveryInv, NEW d \in Device, NEW t \in Task, RemoveRead(d, t)
  PROVE  DeliveryInv'
<1> DEFINE r == [Idle EXCEPT !.step = "delete", !.now = clock, !.sent = {t}, !.read[t] = row[t]]
<1>1. row[t] \in Row /\ clock \in Nat
  BY Cells DEF DeliveryInv
<1>2. r \in Request
  BY <1>1, Constants DEF Request, Step, Idle
<1>3. Become(d, r) /\ UNCHANGED <<server, devices, disturbed>>
  BY DEF RemoveRead
<1>4. r.now <= clock /\ r.sent = {t} /\ r.step = "delete"
  BY <1>1 DEF Idle
<1> HIDE DEF r
<1> QED
  BY <1>2, <1>3, <1>4, SlotKeeps

LEMMA SyncBeginKeeps ==
  ASSUME DeliveryInv, NEW d \in Device, SyncBegin(d)
  PROVE  DeliveryInv'
<1> DEFINE r == [Idle EXCEPT !.step = "sync.read", !.now = clock]
<1>1. clock \in Nat
  BY Cells DEF DeliveryInv
<1>2. r \in Request
  BY <1>1, Constants DEF Request, Step, Idle
<1>3. Become(d, r) /\ UNCHANGED <<server, devices, disturbed>>
  BY DEF SyncBegin
<1>4. r.now <= clock /\ r.step = "sync.read"
  BY <1>1 DEF Idle
<1> HIDE DEF r
<1> QED
  BY <1>2, <1>3, <1>4, SlotKeeps

LEMMA SyncReadKeeps ==
  ASSUME DeliveryInv, NEW d \in Device, SyncRead(d)
  PROVE  DeliveryInv'
<1> DEFINE sent == {t \in Task : Dirty(d, t)}
           read == [t \in Task |-> IF t \in sent THEN row[t] ELSE Absent]
           r == [request[d] EXCEPT !.step = "sync.commit", !.sent = sent, !.read = read]
<1>1. read \in [Task -> Row]
  BY Constants DEF DeliveryInv, TypeOK
<1>2. Become(d, r) /\ UNCHANGED <<server, devices, disturbed>>
  BY DEF SyncRead
<1>3. sent \subseteq Task
  OBVIOUS
<1>4. request[d] \in Request /\ request[d].now <= clock
  BY Cells DEF DeliveryInv, TypeOK
<1> HIDE DEF sent, read
<1>5. r \in Request /\ r.now = request[d].now /\ r.sent = sent /\ r.step = "sync.commit"
  BY <1>1, <1>3, <1>4 DEF Request, Step
<1> HIDE DEF r
<1> QED
  BY <1>2, <1>4, <1>5, SlotKeeps DEF sent

LEMMA FailKeeps == ASSUME DeliveryInv, NEW d \in Device, Fail(d) PROVE DeliveryInv'
<1>1. Idle.now <= clock /\ Idle.step = "idle"
  BY TaskitiAssumption DEF Idle, DeliveryInv, TypeOK
<1> QED
  BY <1>1, Constants, SlotKeeps DEF Fail

-----------------------------------------------------------------------------
(* Steps that write rows.                                                  *)

\* The request of d, or d by itself, writes rows and copies of its own.  What is
\* not disturbed is dated after every last_sync_at and no other sync pushes it.
LEMMA WriteKeeps ==
  ASSUME DeliveryInv, NEW d \in Device,
         row' \in [Task -> Row], copy' \in [Device -> [Task -> Copy]],
         request' \in [Device -> Request],
         UNCHANGED <<clock, lastSync>>,
         disturbed \subseteq disturbed', disturbed' \subseteq Task,
         request'[d] = Idle,
         \A e \in Device \ {d} : copy'[e] = copy[e] /\ request'[e] = request[e],
         \A t \in Task \ disturbed' :
           \/ row'[t] = row[t]
           \/ /\ \A e \in Device : ~(row'[t].updated <= lastSync[e])
              /\ \A e \in Device \ {d} : ~(Syncing(e) /\ t \in request[e].sent),
         \A t \in Task \ disturbed' :
           \/ copy'[d][t] = copy[d][t]
           \/ Dirty(d, t)'
           \/ There(row'[t]) => Shows(copy'[d][t], row'[t])
  PROVE  DeliveryInv'
<1> USE DEF DeliveryInv
<1>1. TypeOK'
  <2>1. \A e \in Device : request'[e].now <= clock
    BY TaskitiAssumption DEF TypeOK, Idle
  <2> QED
    BY <2>1 DEF TypeOK
<1>2. OneTask'
  BY DEF OneTask, Writing, Idle
<1>3. SentIsDirty'
  BY DEF SentIsDirty, Syncing, Dirty, Idle
<1>4. AnswersAreCurrent'
  <2> SUFFICES ASSUME NEW e \in Device, NEW t \in Task \ disturbed',
                      (request[e].step = "sync.pull" /\ t \in request[e].sent /\ There(row[t]))'
               PROVE  Shows(Resolved(e, t), row[t])'
    BY DEF AnswersAreCurrent
  <2>1. e # d /\ request'[e] = request[e] /\ copy'[e] = copy[e]
    BY DEF Idle
  <2>2. Resolved(e, t)' = Resolved(e, t)
    BY <2>1 DEF Resolved, Conflict
  <2>3. row'[t] = row[t]
    BY <2>1 DEF Syncing
  <2> QED
    BY <2>1, <2>2, <2>3 DEF AnswersAreCurrent
<1>5. Delivered'
  <2> SUFFICES ASSUME NEW e \in Device, NEW t \in Task \ disturbed', Covers(e, t)'
               PROVE  Shows(copy[e][t], row[t])'
    BY DEF Delivered
  <2>1. row'[t] = row[t]
    BY DEF Covers
  <2>2. CASE copy'[e][t] = copy[e][t]
    BY <2>1, <2>2 DEF Delivered, Covers, Dirty
  <2>3. CASE e = d /\ copy'[d][t] # copy[d][t]
    BY <2>3 DEF Covers
  <2> QED
    BY <2>2, <2>3
<1> QED
  BY <1>1, <1>2, <1>3, <1>4, <1>5

\* A copy that is written alone has the types and leaves the others.
LEMMA CopyOnly ==
  ASSUME TypeOK, NEW d \in Device, NEW t \in Task, NEW c \in Copy,
         copy' = [copy EXCEPT ![d][t] = c]
  PROVE  /\ copy' \in [Device -> [Task -> Copy]]
         /\ copy'[d][t] = c
         /\ \A u \in Task \ {t} : copy'[d][u] = copy[d][u]
         /\ \A e \in Device \ {d} : copy'[e] = copy[e]
BY DEF TypeOK

LEMMA AnswerOnly ==
  ASSUME TypeOK, NEW d \in Device, NEW t \in Task, NEW c \in Copy, Answer(d, t, c)
  PROVE  /\ copy' \in [Device -> [Task -> Copy]]
         /\ copy'[d][t] \in {copy[d][t], c}
         /\ \A u \in Task \ {t} : copy'[d][u] = copy[d][u]
         /\ \A e \in Device \ {d} : copy'[e] = copy[e]
<1>1. CASE copy' = copy
  BY <1>1 DEF TypeOK
<1>2. CASE copy' = [copy EXCEPT ![d][t] = c]
  BY <1>2, CopyOnly
<1> QED
  BY <1>1, <1>2 DEF Answer

\* A row that is written alone.
LEMMA RowOnly ==
  ASSUME TypeOK, NEW t \in Task, NEW r \in Row, row' = [row EXCEPT ![t] = r]
  PROVE  /\ row' \in [Task -> Row]
         /\ row'[t] = r
         /\ \A u \in Task \ {t} : row'[u] = row[u]
BY DEF TypeOK

\* What a device does to its own copy, offline.
LEMMA OfflineKeeps ==
  ASSUME DeliveryInv, NEW d \in Device, NEW t \in Task, NEW c \in Copy,
         request[d] = Idle, c.state \in {"edited", "dropped"},
         copy' = [copy EXCEPT ![d][t] = c],
         UNCHANGED <<server, lastSync, request, disturbed>>
  PROVE  DeliveryInv'
<1>1. /\ row' = row /\ clock' = clock /\ lastSync' = lastSync /\ request' = request
      /\ disturbed' = disturbed
  BY DEF server
<1>2. TypeOK
  BY DEF DeliveryInv
<1>3. Dirty(d, t)'
  BY <1>2, CopyOnly DEF Dirty
<1>4. /\ row' \in [Task -> Row] /\ request' \in [Device -> Request]
      /\ disturbed' \subseteq Task
  BY <1>1, <1>2 DEF TypeOK
<1>5. /\ copy' \in [Device -> [Task -> Copy]]
      /\ \A u \in Task \ {t} : copy'[d][u] = copy[d][u]
      /\ \A e \in Device \ {d} : copy'[e] = copy[e]
  BY <1>2, CopyOnly
<1>6. \A u \in Task : copy'[d][u] = copy[d][u] \/ Dirty(d, u)'
  BY <1>3, <1>5
<1> QED
  BY <1>1, <1>4, <1>5, <1>6, WriteKeeps

LEMMA EditKeeps ==
  ASSUME DeliveryInv, NEW d \in Device, NEW t \in Task, NEW c \in Content, Edit(d, t, c)
  PROVE  DeliveryInv'
<1> DEFINE new == [state |-> "edited", version |-> copy[d][t].version + 1, content |-> c]
<1>1. copy[d][t] \in Copy
  BY Cells DEF DeliveryInv
<1>2. new \in Copy /\ new.state = "edited"
  BY <1>1 DEF Copy
<1>3. /\ copy' = [copy EXCEPT ![d][t] = new]
      /\ request[d] = Idle
      /\ UNCHANGED <<server, lastSync, request, disturbed>>
  BY DEF Edit, DeliveryInv, TypeOK
<1> HIDE DEF new
<1> QED
  BY <1>2, <1>3, OfflineKeeps

LEMMA DropKeeps ==
  ASSUME DeliveryInv, NEW d \in Device, NEW t \in Task, Drop(d, t)
  PROVE  DeliveryInv'
<1> DEFINE new == [copy[d][t] EXCEPT !.state = "dropped"]
<1>1. copy[d][t] \in Copy
  BY Cells DEF DeliveryInv
<1>2. new \in Copy /\ new.state = "dropped"
  BY <1>1 DEF Copy
<1>3. /\ copy' = [copy EXCEPT ![d][t] = new]
      /\ request[d] = Idle
      /\ UNCHANGED <<server, lastSync, request, disturbed>>
  BY DEF Drop, DeliveryInv, TypeOK
<1> HIDE DEF new
<1> QED
  BY <1>2, <1>3, OfflineKeeps

\* A route of its own writes the row of one task and answers with it.
LEMMA RouteKeeps ==
  ASSUME DeliveryInv, NEW d \in Device, NEW t \in Task, NEW r \in Row, NEW c \in Copy,
         row' = [row EXCEPT ![t] = r], Answer(d, t, c), Shows(c, r),
         Disturb(IF Unnoticed(d, t, r.updated) THEN {t} ELSE {}),
         Become(d, Idle), UNCHANGED <<clock, lastSync>>
  PROVE  DeliveryInv'
<1>1. TypeOK
  BY DEF DeliveryInv
<1>2. /\ request' \in [Device -> Request] /\ request'[d] = Idle
      /\ \A e \in Device \ {d} : request'[e] = request[e]
  BY <1>1, Constants, Slot
<1>3. /\ copy' \in [Device -> [Task -> Copy]]
      /\ copy'[d][t] \in {copy[d][t], c}
      /\ \A u \in Task \ {t} : copy'[d][u] = copy[d][u]
      /\ \A e \in Device \ {d} : copy'[e] = copy[e]
  BY <1>1, AnswerOnly
<1>4. /\ row' \in [Task -> Row] /\ row'[t] = r
      /\ \A u \in Task \ {t} : row'[u] = row[u]
  BY <1>1, RowOnly
<1>5. disturbed \subseteq disturbed' /\ disturbed' \subseteq Task
  BY <1>1 DEF Disturb, TypeOK
<1>6. ASSUME t \notin disturbed'
      PROVE  /\ \A e \in Device : ~(r.updated <= lastSync[e])
             /\ \A e \in Device \ {d} : ~(Syncing(e) /\ t \in request[e].sent)
  BY <1>6 DEF Disturb, Unnoticed, Syncing
<1>7. \A u \in Task \ disturbed' :
        \/ row'[u] = row[u]
        \/ /\ \A e \in Device : ~(row'[u].updated <= lastSync[e])
           /\ \A e \in Device \ {d} : ~(Syncing(e) /\ u \in request[e].sent)
  BY <1>4, <1>6
<1>8. \A u \in Task \ disturbed' :
        copy'[d][u] = copy[d][u] \/ (There(row'[u]) => Shows(copy'[d][u], row'[u]))
  BY <1>3, <1>4
<1> QED
  BY <1>2, <1>3, <1>4, <1>5, <1>7, <1>8, WriteKeeps

LEMMA CreateKeeps ==
  ASSUME DeliveryInv, NEW d \in Device, NEW t \in Task, NEW c \in Content,
         NEW date \in 1 .. clock, Create(d, t, c, date)
  PROVE  DeliveryInv'
<1> DEFINE new == [state |-> "live", version |-> 1, content |-> c, updated |-> date]
<1>1. TypeOK /\ row[t] \in Row /\ date \in Nat
  BY Cells DEF DeliveryInv
<1>2. Become(d, Idle)
  BY <1>1 DEF Create, Become, TypeOK
<1>3. CASE There(row[t])
  <2>1. /\ row' = row /\ disturbed' = disturbed /\ Answer(d, t, CopyOf(row[t]))
        /\ clock' = clock /\ lastSync' = lastSync /\ request' = request
        /\ request[d] = Idle
    BY <1>1, <1>3 DEF Create, TypeOK, Disturb
  <2>2. CopyOf(row[t]) \in Copy /\ Shows(CopyOf(row[t]), row[t])
    BY <1>1, <1>3, CopiesOfRows
  <2>3. /\ copy' \in [Device -> [Task -> Copy]]
        /\ copy'[d][t] \in {copy[d][t], CopyOf(row[t])}
        /\ \A u \in Task \ {t} : copy'[d][u] = copy[d][u]
        /\ \A e \in Device \ {d} : copy'[e] = copy[e]
    BY <1>1, <2>1, <2>2, AnswerOnly
  <2>4. \A u \in Task : copy'[d][u] = copy[d][u] \/ Shows(copy'[d][u], row'[u])
    BY <2>1, <2>2, <2>3
  <2>5. /\ row' \in [Task -> Row] /\ request' \in [Device -> Request]
        /\ disturbed' \subseteq Task
    BY <1>1, <2>1 DEF TypeOK
  <2> QED
    BY <2>1, <2>3, <2>4, <2>5, WriteKeeps
<1>4. CASE ~There(row[t])
  <2>1. new \in Row /\ There(new) /\ new.updated = date
    BY <1>1 DEF Row, There
  <2>2. CopyOf(new) \in Copy /\ Shows(CopyOf(new), new)
    BY <2>1, CopiesOfRows
  <2>3. /\ row' = [row EXCEPT ![t] = new] /\ Answer(d, t, CopyOf(new))
        /\ Disturb(IF Unnoticed(d, t, date) THEN {t} ELSE {})
        /\ UNCHANGED <<clock, lastSync>>
    BY <1>4 DEF Create
  <2> HIDE DEF new
  <2> QED
    BY <1>2, <2>1, <2>2, <2>3, RouteKeeps
<1> QED
  BY <1>3, <1>4

LEMMA DatesAreNatural ==
  ASSUME TypeOK, NEW d \in Device, NEW date \in Dates(d)
  PROVE  date \in Nat
BY Cells DEF Dates

\* The task that a PATCH or a DELETE is about.
LEMMA TheTask ==
  ASSUME DeliveryInv, NEW d \in Device, Writing(d)
  PROVE  Only(d) \in Task /\ request[d].sent = {Only(d)}
BY DEF DeliveryInv, OneTask, Only

LEMMA UpdateWriteKeeps ==
  ASSUME DeliveryInv, NEW d \in Device, NEW date \in Dates(d), UpdateWrite(d, date)
  PROVE  DeliveryInv'
<1> DEFINE t == Only(d)
           version == Max({request[d].read[t].version, copy[d][t].version}) + 1
           new == [row[t] EXCEPT !.version = version, !.content = request[d].content,
                                 !.updated = date]
<1>1. t \in Task
  BY TheTask DEF UpdateWrite, Writing
<1>2. /\ row[t] \in Row /\ request[d].read[t] \in Row /\ copy[d][t] \in Copy
      /\ request[d].content \in Content /\ date \in Nat
  BY <1>1, Cells, DatesAreNatural DEF DeliveryInv
<1>3. version \in Nat
  <2>1. request[d].read[t].version \in Nat /\ copy[d][t].version \in Nat
    BY <1>2 DEF Row, Copy
  <2> QED
    BY <2>1, MaxOfTwo
<1>4. /\ There(row[t]) /\ row' = [row EXCEPT ![t] = new] /\ Answer(d, t, CopyOf(new))
      /\ Become(d, Idle) /\ UNCHANGED <<clock, lastSync>>
      /\ Disturb(IF Unnoticed(d, t, date) THEN {t} ELSE {})
  BY DEF UpdateWrite
<1> HIDE DEF version, t
<1>5. new \in Row /\ There(new) /\ new.updated = date
  BY <1>2, <1>3, <1>4 DEF Row, There
<1> HIDE DEF new
<1>6. CopyOf(new) \in Copy /\ Shows(CopyOf(new), new)
  BY <1>5, CopiesOfRows
<1> QED
  BY <1>1, <1>4, <1>5, <1>6, RouteKeeps

LEMMA RemoveWriteKeeps ==
  ASSUME DeliveryInv, NEW d \in Device, NEW date \in Dates(d), RemoveWrite(d, date)
  PROVE  DeliveryInv'
<1> DEFINE t == Only(d)
           new == [row[t] EXCEPT !.state = "deleted", !.updated = date]
           gone == [copy[d][t] EXCEPT !.state = "gone"]
<1>1. t \in Task
  BY TheTask DEF RemoveWrite, Writing
<1>2. row[t] \in Row /\ copy[d][t] \in Copy /\ date \in Nat
  BY <1>1, Cells, DatesAreNatural DEF DeliveryInv
<1>3. TypeOK
  BY DEF DeliveryInv
<1>4. /\ row' = [row EXCEPT ![t] = new] /\ Answer(d, t, gone)
      /\ Become(d, Idle) /\ UNCHANGED <<clock, lastSync>>
      /\ Disturb(IF Unnoticed(d, t, date) THEN {t} ELSE {})
  BY <1>1, <1>3 DEF RemoveWrite, TypeOK
<1> HIDE DEF t
<1>5. new \in Row /\ gone \in Copy /\ Shows(gone, new) /\ new.updated = date
  BY <1>2 DEF Row, Copy, Shows
<1> HIDE DEF new, gone
<1> QED
  BY <1>1, <1>4, <1>5, RouteKeeps

LEMMA PurgeKeeps ==
  ASSUME DeliveryInv, NEW t \in Task, Purge(t)
  PROVE  DeliveryInv'
<1> USE DEF DeliveryInv
<1>1. /\ row' \in [Task -> Row] /\ ~There(row'[t])
      /\ \A u \in Task \ {t} : row'[u] = row[u]
  BY Constants, RowOnly DEF Purge
<1>2. /\ clock' = clock /\ copy' = copy /\ lastSync' = lastSync /\ request' = request
      /\ disturbed' = disturbed
  BY DEF Purge, devices
<1>3. TypeOK'
  BY <1>1, <1>2 DEF TypeOK
<1>4. OneTask' /\ SentIsDirty'
  BY <1>2 DEF OneTask, Writing, SentIsDirty, Syncing, Dirty
<1>5. AnswersAreCurrent'
  BY <1>1, <1>2 DEF AnswersAreCurrent, Resolved, Conflict
<1>6. Delivered'
  BY <1>1, <1>2 DEF Delivered, Covers, Dirty
<1> QED
  BY <1>3, <1>4, <1>5, <1>6

-----------------------------------------------------------------------------
(* The sync.                                                               *)

LEMMA ResolvedCopies ==
  ASSUME TypeOK, NEW d \in Device, NEW t \in Task
  PROVE  Resolved(d, t) \in Copy
<1>1. copy[d][t] \in Copy /\ CopyOf(request[d].read[t]) \in Copy
  BY Cells, CopiesOfRows
<1> QED
  BY <1>1 DEF Resolved, Copy

LEMMA PushedRows ==
  ASSUME TypeOK, NEW d \in Device, NEW t \in Task
  PROVE  Pushed(d, t) \in Row
<1>1. /\ row[t] \in Row /\ request[d].read[t] \in Row /\ copy[d][t] \in Copy
      /\ request[d].now \in Nat
  BY Cells
<1>2. request[d].read[t].version \in Nat /\ copy[d][t].version \in Nat
  BY <1>1 DEF Row, Copy
<1> DEFINE version == Max({request[d].read[t].version, copy[d][t].version}) + 1
<1>3. version \in Nat
  BY <1>2, MaxOfTwo
<1>4. [state |-> "live", version |-> copy[d][t].version, content |-> copy[d][t].content,
       updated |-> request[d].now] \in Row
  BY <1>1, <1>2 DEF Row, Copy
<1>5. request[d].read[t].version + 1 \in Nat
  BY <1>2
<1>6. [row[t] EXCEPT !.state = "deleted", !.version = request[d].read[t].version + 1,
                     !.updated = request[d].now] \in Row
  BY <1>1, <1>5 DEF Row
<1> HIDE DEF version
<1>7. [row[t] EXCEPT !.state = "live", !.content = copy[d][t].content, !.version = version,
                     !.updated = IF Changed(d, t) THEN request[d].now ELSE @] \in Row
  BY <1>1, <1>3 DEF Row, Copy
<1> QED
  BY <1>1, <1>4, <1>6, <1>7 DEF Pushed, version

\* The decisions exclude each other, and one that writes nothing is none.
LEMMA Decided ==
  ASSUME NEW d \in Device, NEW t \in Task,
         row[t] = request[d].read[t],
         ~Creates(d, t), ~Deletes(d, t), ~Updates(d, t)
  PROVE  Pushed(d, t) = row[t]
BY DEF Pushed

\* Of a row that is as it was read, the device shows what the push makes of it.
LEMMA PushedIsShown ==
  ASSUME TypeOK, NEW d \in Device, NEW t \in Task, Dirty(d, t),
         row[t] = request[d].read[t], There(Pushed(d, t))
  PROVE  Shows(Resolved(d, t), Pushed(d, t))
<1>1. row[t] \in Row /\ copy[d][t] \in Copy
  BY Cells
<1>2. CASE Conflict(d, t)
  <2>1. Pushed(d, t) = row[t]
    BY <1>2, Decided DEF Conflict, Creates, Deletes, Updates
  <2> QED
    BY <1>1, <1>2, <2>1, CopiesOfRows DEF Resolved
<1>3. CASE ~Conflict(d, t) /\ copy[d][t].state = "edited"
  <2>1. \/ Creates(d, t) /\ ~There(row[t])
        \/ ~Creates(d, t) /\ ~Deletes(d, t) /\ Updates(d, t)
    BY <1>3 DEF Creates, Deletes, Updates
  <2>2. Pushed(d, t).state = "live" /\ Pushed(d, t).content = copy[d][t].content
    BY <1>1, <2>1 DEF Pushed, Creates, Deletes, Updates, Row, Copy
  <2> QED
    BY <1>1, <1>3, <2>2 DEF Resolved, Shows, Copy
<1>4. CASE copy[d][t].state = "dropped"
  <2>1. Resolved(d, t).state = "gone"
    BY <1>1, <1>4 DEF Resolved, Conflict, Copy
  <2>2. Pushed(d, t).state = "deleted"
    BY <1>1, <1>4 DEF Pushed, Creates, Deletes, Updates, There, Row
  <2> QED
    BY <2>1, <2>2 DEF Shows
<1> QED
  BY <1>2, <1>3, <1>4 DEF Dirty

LEMMA SyncCommitKeeps ==
  ASSUME DeliveryInv, NEW d \in Device, SyncCommit(d)
  PROVE  DeliveryInv'
<1> DEFINE sent == request[d].sent
           next == [request[d] EXCEPT !.step = "sync.pull"]
<1> USE DEF DeliveryInv
<1>1. sent \subseteq Task /\ next \in Request /\ next.step = "sync.pull" /\ next.sent = sent
      /\ next.now = request[d].now /\ next.read = request[d].read
  BY Cells DEF Request, Step
<1>2. /\ request' \in [Device -> Request] /\ request'[d] = next
      /\ \A e \in Device \ {d} : request'[e] = request[e]
  BY <1>1, Slot DEF SyncCommit
<1>3. sent = {t \in Task : Dirty(d, t)}
  BY DEF SyncCommit, SentIsDirty, Syncing
<1>4. /\ copy' = copy /\ lastSync' = lastSync /\ clock' = clock
      /\ row' = [t \in Task |-> IF t \in sent THEN Pushed(d, t) ELSE row[t]]
  BY DEF SyncCommit, devices
<1>5. row' \in [Task -> Row]
  BY <1>4, PushedRows DEF TypeOK
<1>6. disturbed \subseteq disturbed' /\ disturbed' \subseteq Task
  BY <1>1 DEF SyncCommit, Disturb, TypeOK
<1>7. ASSUME NEW t \in sent, t \notin disturbed'
      PROVE  /\ row[t] = request[d].read[t]
             /\ Creates(d, t) \/ Deletes(d, t) \/ Updates(d, t) => ~Unnoticed(d, t, request[d].now)
  BY <1>7 DEF SyncCommit, Disturb
<1>8. \A e \in Device, t \in Task : Resolved(e, t)' = Resolved(e, t)
  <2> TAKE e \in Device, t \in Task
  <2>1. request'[e].read = request[e].read
    BY <1>1, <1>2
  <2> QED
    BY <1>4, <2>1 DEF Resolved, Conflict
<1> HIDE DEF next
<1>9. TypeOK'
  <2>1. \A e \in Device : request'[e].now <= clock
    BY <1>1, <1>2 DEF TypeOK
  <2> QED
    BY <1>2, <1>4, <1>5, <1>6, <2>1 DEF TypeOK
<1>10. OneTask'
  BY <1>1, <1>2 DEF OneTask, Writing
<1>11. SentIsDirty'
  BY <1>1, <1>2, <1>3, <1>4 DEF SentIsDirty, Syncing, Dirty
<1>12. AnswersAreCurrent'
  <2> SUFFICES ASSUME NEW e \in Device, NEW t \in Task \ disturbed',
                      (request[e].step = "sync.pull" /\ t \in request[e].sent /\ There(row[t]))'
               PROVE  Shows(Resolved(e, t), row'[t])
    BY <1>8 DEF AnswersAreCurrent
  <2>1. CASE e = d
    <3>1. t \in sent /\ Dirty(d, t) /\ row'[t] = Pushed(d, t) /\ row[t] = request[d].read[t]
      BY <1>1, <1>2, <1>3, <1>4, <1>7, <2>1
    <3> QED
      BY <2>1, <3>1, PushedIsShown
  <2>2. CASE e # d
    <3>1. request[e].step = "sync.pull" /\ t \in request[e].sent
      BY <1>2, <2>2
    <3>2. row'[t] = row[t]
      <4>1. CASE t \in sent
        <5>1. ~(Creates(d, t) \/ Deletes(d, t) \/ Updates(d, t))
          BY <1>7, <2>2, <3>1, <4>1 DEF Unnoticed
        <5> QED
          BY <1>4, <1>7, <4>1, <5>1, Decided
      <4>2. CASE t \notin sent
        BY <1>4, <4>2
      <4> QED
        BY <4>1, <4>2
    <3> QED
      BY <1>6, <3>1, <3>2 DEF AnswersAreCurrent
  <2> QED
    BY <2>1, <2>2
<1>13. Delivered'
  <2> SUFFICES ASSUME NEW e \in Device, NEW t \in Task \ disturbed', Covers(e, t)'
               PROVE  Shows(copy[e][t], row'[t])
    BY <1>4 DEF Delivered
  <2>1. /\ There(row'[t]) /\ row'[t].updated <= lastSync[e] /\ ~Dirty(e, t)
    BY <1>4 DEF Covers, Dirty
  <2>2. CASE row'[t] = row[t]
    BY <1>6, <2>1, <2>2 DEF Delivered, Covers
  <2>3. CASE row'[t] # row[t]
    <3>1. /\ t \in sent /\ row'[t] = Pushed(d, t) /\ row[t] = request[d].read[t]
          /\ ~Unnoticed(d, t, request[d].now)
          /\ row[t] \in Row /\ copy[d][t] \in Copy
      BY <1>4, <1>7, <2>3, Decided, Cells
    <3>2. ~(request[d].now <= lastSync[e])
      BY <3>1 DEF Unnoticed
    <3>3. Updates(d, t) /\ ~Changed(d, t)
      <4>1. CASE Creates(d, t)
        BY <2>1, <3>1, <3>2, <4>1 DEF Pushed, Creates
      <4>2. CASE Deletes(d, t)
        BY <2>1, <3>1, <3>2, <4>2 DEF Pushed, Creates, Deletes, Row
      <4>3. CASE Updates(d, t)
        BY <2>1, <3>1, <3>2, <4>3 DEF Pushed, Creates, Deletes, Updates, Row
      <4> QED
        BY <2>3, <3>1, <4>1, <4>2, <4>3, Decided
    <3>4. /\ row[t].state = "live" /\ row'[t].state = "live"
          /\ row'[t].content = row[t].content /\ row'[t].updated = row[t].updated
      BY <3>1, <3>3 DEF Pushed, Creates, Deletes, Updates, Changed, There, Row
    <3>5. Shows(copy[e][t], row[t])
      BY <1>6, <2>1, <3>4 DEF Delivered, Covers, There
    <3> QED
      BY <3>4, <3>5 DEF Shows
  <2> QED
    BY <2>2, <2>3
<1> QED
  BY <1>9, <1>10, <1>11, <1>12, <1>13

LEMMA SyncPullKeeps ==
  ASSUME DeliveryInv, NEW d \in Device, NEW since, NEW sync_at \in 0 .. MaxClock,
         SyncPull(d, since, sync_at)
  PROVE  DeliveryInv'
<1> DEFINE sent == request[d].sent
           Changes(date) == {t \in Task \ sent : There(row[t]) /\ row[t].updated > date}
           pulled == Changes(since)
           missed == Changes(lastSync[d]) \ Changes(since)
           Shown(t) == CASE t \in pulled -> CopyOf(row[t])
                         [] t \in sent -> Resolved(d, t)
                         [] OTHER -> copy[d][t]
<1> USE DEF DeliveryInv
<1>1. /\ row' = row /\ clock' = clock /\ disturbed' = disturbed \cup missed
      /\ copy' = [copy EXCEPT ![d] = [t \in Task |-> Shown(t)]]
      /\ lastSync' = [lastSync EXCEPT ![d] = sync_at]
      /\ Become(d, Idle)
  BY DEF SyncPull, server, Disturb
<1>2. /\ request' \in [Device -> Request] /\ request'[d] = Idle
      /\ \A e \in Device \ {d} : request'[e] = request[e]
  BY <1>1, Constants, Slot
<1>3. sent = {t \in Task : Dirty(d, t)} /\ request[d].step = "sync.pull"
  BY DEF SyncPull, SentIsDirty, Syncing
<1>4. \A t \in Task : Shown(t) \in Copy
  BY Cells, CopiesOfRows, ResolvedCopies
<1>5. /\ \A t \in Task : copy'[d][t] = Shown(t)
      /\ \A e \in Device \ {d} : copy'[e] = copy[e] /\ lastSync'[e] = lastSync[e]
      /\ copy' \in [Device -> [Task -> Copy]]
      /\ lastSync'[d] = sync_at
  BY <1>1, <1>4 DEF TypeOK
<1>6. TypeOK'
  <2>1. disturbed' \subseteq Task
    BY <1>1 DEF TypeOK
  <2>2. \A e \in Device : request'[e].now <= clock
    BY <1>2, TaskitiAssumption DEF TypeOK, Idle
  <2> QED
    BY <1>1, <1>2, <1>5, <2>1, <2>2 DEF TypeOK
<1>7. OneTask' /\ SentIsDirty'
  <2>1. OneTask'
    BY <1>2 DEF OneTask, Writing, Idle
  <2>2. ASSUME NEW e \in Device, Syncing(e)'
        PROVE  request'[e].sent = {t \in Task : Dirty(e, t)'}
    <3>1. e # d /\ request'[e] = request[e] /\ copy'[e] = copy[e]
      BY <1>2, <1>5, <2>2 DEF Syncing, Idle
    <3> QED
      BY <2>2, <3>1 DEF SentIsDirty, Syncing, Dirty
  <2> QED
    BY <2>1, <2>2 DEF SentIsDirty
<1>8. AnswersAreCurrent'
  <2> SUFFICES ASSUME NEW e \in Device, NEW t \in Task \ disturbed',
                      request'[e].step = "sync.pull", t \in request'[e].sent, There(row[t])
               PROVE  Shows(Resolved(e, t)', row[t])
    BY <1>1 DEF AnswersAreCurrent
  <2>1. e # d /\ request'[e] = request[e] /\ copy'[e] = copy[e]
    BY <1>2, <1>5 DEF Idle
  <2>2. Resolved(e, t)' = Resolved(e, t)
    BY <2>1 DEF Resolved, Conflict
  <2> QED
    BY <1>1, <2>1, <2>2 DEF AnswersAreCurrent
<1>9. Delivered'
  <2> SUFFICES ASSUME NEW e \in Device, NEW t \in Task \ disturbed', Covers(e, t)'
               PROVE  Shows(copy'[e][t], row[t])
    BY <1>1 DEF Delivered
  <2>1. CASE e # d
    BY <1>1, <1>5, <2>1 DEF Delivered, Covers, Dirty
  <2>2. CASE e = d
    <3>1. There(row[t]) /\ row[t] \in Row /\ lastSync[d] \in Nat
      BY <1>1, Cells DEF Covers
    <3>2. CASE t \in pulled
      BY <1>5, <2>2, <3>1, <3>2, CopiesOfRows
    <3>3. CASE t \in sent
      BY <1>1, <1>3, <1>5, <2>2, <3>1, <3>3 DEF AnswersAreCurrent
    <3>4. CASE t \notin pulled /\ t \notin sent
      <4>1. t \notin missed /\ t \notin disturbed
        BY <1>1
      <4>2. row[t].updated <= lastSync[d] /\ ~Dirty(d, t)
        BY <1>3, <3>1, <3>4, <4>1 DEF Row
      <4> QED
        BY <1>5, <2>2, <3>1, <3>4, <4>1, <4>2 DEF Delivered, Covers
    <3> QED
      BY <3>2, <3>3, <3>4
  <2> QED
    BY <2>1, <2>2
<1> QED
  BY <1>6, <1>7, <1>8, <1>9

-----------------------------------------------------------------------------
LEMMA SyncPullsKeep ==
  ASSUME DeliveryInv, NEW d \in Device, SyncPullOne(d) \/ SyncPullBatches(d)
  PROVE  DeliveryInv'
<1>1. request[d].now \in 0 .. MaxClock /\ clock \in 0 .. MaxClock
  BY Cells, TaskitiAssumption DEF DeliveryInv, TypeOK
<1>2. \E since, sync_at : sync_at \in 0 .. MaxClock /\ SyncPull(d, since, sync_at)
  BY <1>1, TaskitiAssumption DEF SyncPullOne, SyncPullBatches
<1> QED
  BY <1>2, SyncPullKeeps

LEMMA StutterKeeps == DeliveryInv /\ UNCHANGED vars => DeliveryInv'
BY DEF DeliveryInv, vars, TypeOK, OneTask, Writing, SentIsDirty, Syncing, Dirty, AnswersAreCurrent,
       Resolved, Conflict, Delivered, Covers

LEMMA NextKeeps == DeliveryInv /\ [Next]_vars => DeliveryInv'
<1> SUFFICES ASSUME DeliveryInv, [Next]_vars PROVE DeliveryInv'
  OBVIOUS
<1>1. CASE Tick
  BY <1>1, TickKeeps
<1>2. ASSUME NEW d \in Device, NEW t \in Task, NEW c \in Content, Edit(d, t, c)
      PROVE  DeliveryInv'
  BY <1>2, EditKeeps
<1>3. ASSUME NEW d \in Device, NEW t \in Task, NEW c \in Content, NEW date \in 1 .. clock,
             Create(d, t, c, date)
      PROVE  DeliveryInv'
  BY <1>3, CreateKeeps
<1>4. ASSUME NEW d \in Device, NEW t \in Task, NEW c \in Content, UpdateRead(d, t, c)
      PROVE  DeliveryInv'
  BY <1>4, UpdateReadKeeps
<1>5. ASSUME NEW d \in Device, NEW t \in Task, Drop(d, t) \/ RemoveRead(d, t)
      PROVE  DeliveryInv'
  BY <1>5, DropKeeps, RemoveReadKeeps
<1>6. ASSUME NEW d \in Device, NEW date \in Dates(d), UpdateWrite(d, date) \/ RemoveWrite(d, date)
      PROVE  DeliveryInv'
  BY <1>6, UpdateWriteKeeps, RemoveWriteKeeps
<1>7. ASSUME NEW d \in Device, SyncBegin(d) \/ SyncRead(d) \/ SyncCommit(d)
      PROVE  DeliveryInv'
  BY <1>7, SyncBeginKeeps, SyncReadKeeps, SyncCommitKeeps
<1>8. ASSUME NEW d \in Device, SyncPullOne(d) \/ SyncPullBatches(d)
      PROVE  DeliveryInv'
  BY <1>8, SyncPullsKeep
<1>9. ASSUME NEW d \in Device, Fail(d)
      PROVE  DeliveryInv'
  BY <1>9, FailKeeps
<1>10. ASSUME NEW t \in Task, Purge(t)
       PROVE  DeliveryInv'
  BY <1>10, PurgeKeeps
<1>11. CASE UNCHANGED vars
  BY <1>11, StutterKeeps
<1> QED
  BY <1>1, <1>2, <1>3, <1>4, <1>5, <1>6, <1>7, <1>8, <1>9, <1>10, <1>11 DEF Next

\* The inductive invariant, for any tasks, devices and contents.
THEOREM DeliveryInvariant == Spec => []DeliveryInv
<1> QED
  BY InitDelivery, NextKeeps, PTL DEF Spec

\* A row that has not changed since a device's last_sync_at is what the device
\* shows, unless the row was written behind another's back.
THEOREM ChangesReachDevices == Spec => []Delivered
<1>1. DeliveryInv => Delivered
  BY DEF DeliveryInv
<1> QED
  BY <1>1, DeliveryInvariant, PTL

-----------------------------------------------------------------------------
(* Versions.                                                               *)

Outdone(t) ==
  There(row[t]) /\ There(row'[t]) /\ row'[t].content # row[t].content
    => row'[t].version > row[t].version

\* POST writes a row that was not there, or nothing.
LEMMA CreateOutdoes ==
  ASSUME TypeOK, NEW d \in Device, NEW t \in Task, NEW c \in Content,
         NEW date \in 1 .. clock, Create(d, t, c, date), NEW u \in Task
  PROVE  Outdone(u)
BY DEF Create, TypeOK, Outdone

\* PATCH counts on from the row it read, which is the one it writes.
LEMMA UpdateOutdoes ==
  ASSUME DeliveryInv, NEW d \in Device, NEW date \in Dates(d), UpdateWrite(d, date),
         NEW u \in Task \ disturbed'
  PROVE  Outdone(u)
<1> DEFINE t == Only(d)
           version == Max({request[d].read[t].version, copy[d][t].version}) + 1
<1>1. t \in Task
  BY TheTask DEF UpdateWrite, Writing
<1>2. row[t] \in Row /\ request[d].read[t] \in Row /\ copy[d][t] \in Copy /\ TypeOK
  BY <1>1, Cells DEF DeliveryInv
<1>3. request[d].read[t].version \in Nat /\ copy[d][t].version \in Nat
  BY <1>2 DEF Row, Copy
<1>4. version \in Nat /\ version > request[d].read[t].version
  BY <1>3, MaxOfTwo
<1>5. /\ row' = [row EXCEPT ![t] = [row[t] EXCEPT !.version = version, !.content = request[d].content,
                                                  !.updated = date]]
      /\ t \in disturbed' \/ row[t] = request[d].read[t]
  BY DEF UpdateWrite, Disturb, Unnoticed
<1> HIDE DEF t, version
<1>6. row'[t].version = version /\ \A v \in Task \ {t} : row'[v] = row[v]
  BY <1>1, <1>2, <1>5 DEF TypeOK, Row
<1> QED
  BY <1>4, <1>5, <1>6 DEF Outdone

\* DELETE leaves the content as it is.
LEMMA RemoveOutdoes ==
  ASSUME DeliveryInv, NEW d \in Device, NEW date \in Dates(d), RemoveWrite(d, date),
         NEW u \in Task
  PROVE  Outdone(u)
<1>1. Only(d) \in Task /\ TypeOK /\ row[u] \in Row
  BY TheTask, Cells DEF RemoveWrite, Writing, DeliveryInv
<1>2. row'[u].content = row[u].content
  BY <1>1 DEF RemoveWrite, TypeOK, Row
<1> QED
  BY <1>2 DEF Outdone

\* A sync writes a new content over the row it read only, counting on from both
\* versions.
LEMMA SyncOutdoes ==
  ASSUME DeliveryInv, NEW d \in Device, SyncCommit(d), NEW u \in Task \ disturbed'
  PROVE  Outdone(u)
<1>1. /\ row[u] \in Row /\ request[d].read[u] \in Row /\ copy[d][u] \in Copy
  BY Cells DEF DeliveryInv
<1>2. CASE u \notin request[d].sent
  BY <1>2 DEF SyncCommit, Outdone
<1>3. CASE u \in request[d].sent
  <2>1. row'[u] = Pushed(d, u) /\ row[u] = request[d].read[u]
    BY <1>3 DEF SyncCommit, Disturb
  <2>2. CASE Creates(d, u)
    BY <2>1, <2>2 DEF Creates, Outdone
  <2>3. CASE Deletes(d, u)
    BY <1>1, <2>1, <2>3 DEF Pushed, Creates, Deletes, Updates, Outdone, Row
  <2>4. CASE Updates(d, u)
    <3> DEFINE version == Max({request[d].read[u].version, copy[d][u].version}) + 1
    <3>1. request[d].read[u].version \in Nat /\ copy[d][u].version \in Nat
      BY <1>1 DEF Row, Copy
    <3>2. version \in Nat /\ version > request[d].read[u].version
      BY <3>1, MaxOfTwo
    <3>3. row'[u].version = version
      BY <1>1, <2>1, <2>4 DEF Pushed, Creates, Deletes, Updates, Row
    <3> QED
      BY <2>1, <3>2, <3>3 DEF Outdone
  <2> QED
    BY <2>1, <2>2, <2>3, <2>4, Decided DEF Outdone
<1> QED
  BY <1>2, <1>3

LEMMA StepsOutdo ==
  ASSUME DeliveryInv, [Next]_vars, NEW u \in Task \ disturbed'
  PROVE  Outdone(u)
<1>1. TypeOK
  BY DEF DeliveryInv
<1>2. CASE row' = row
  BY <1>2 DEF Outdone
<1>3. ASSUME NEW t \in Task, Purge(t)
      PROVE  Outdone(u)
  BY <1>1, <1>3, Constants DEF Purge, TypeOK, Outdone
<1>4. ASSUME NEW d \in Device, NEW t \in Task
      PROVE  /\ \A c \in Content : Edit(d, t, c) \/ UpdateRead(d, t, c) => row' = row
             /\ Drop(d, t) \/ RemoveRead(d, t) => row' = row
  BY DEF Edit, UpdateRead, Drop, RemoveRead, server
<1>5. ASSUME NEW d \in Device
      PROVE  /\ SyncBegin(d) \/ SyncRead(d) \/ Fail(d) => row' = row
             /\ SyncPullOne(d) \/ SyncPullBatches(d) => row' = row
  BY DEF SyncBegin, SyncRead, Fail, SyncPullOne, SyncPullBatches, SyncPull, server
<1>6. (Tick \/ UNCHANGED vars) => row' = row
  BY DEF Tick, vars
<1> QED
  BY <1>1, <1>2, <1>3, <1>4, <1>5, <1>6, CreateOutdoes, UpdateOutdoes, RemoveOutdoes, SyncOutdoes
     DEF Next

\* Two contents of a task never carry the same version or a falling one, unless
\* the second was written over a row that had changed since it was read.
THEOREM VersionsAlwaysGrow == Spec => VersionsGrow
<1>1. DeliveryInv /\ [Next]_vars =>
        [\A t \in Task \ disturbed' :
           There(row[t]) /\ There(row'[t]) /\ row'[t].content # row[t].content
             => row'[t].version > row[t].version]_vars
  BY StepsOutdo DEF Outdone
<1> QED
  BY <1>1, DeliveryInvariant, PTL DEF Spec, VersionsGrow

-----------------------------------------------------------------------------
(* The records of the analytics.  Hours and days.                          *)

LEMMA Division ==
  ASSUME NEW h \in Nat \ {0}, NEW n \in Nat
  PROVE  n \div h \in Nat /\ h * (n \div h) <= n /\ n < h * (n \div h) + h
OBVIOUS

LEMMA Products ==
  ASSUME NEW h \in Nat \ {0}, NEW a \in Int, NEW b \in Int
  PROVE  /\ h * a \in Int
         /\ h * a < h * b + h => a <= b
         /\ a <= b => h * a <= h * b
OBVIOUS

LEMMA FirstHour ==
  FirstDay * Hours \in Hour /\ (FirstDay * Hours) \div Hours = FirstDay
<1>1. /\ Hours \in Nat \ {0} /\ FirstDay \in Nat /\ LastDay \in Nat
      /\ FirstDay <= LastDay
  BY AnalyticsAssumption
<1>2. FirstDay * Hours \in Nat /\ Hours * FirstDay = FirstDay * Hours
  BY <1>1
<1>3. (LastDay + 1) * Hours = Hours * LastDay + Hours
  BY <1>1
<1>4. Hours * FirstDay <= Hours * LastDay
  BY <1>1, Products
<1>5. FirstDay * Hours \in Hour
  BY <1>1, <1>2, <1>3, <1>4, Products DEF Hour
<1>6. (FirstDay * Hours) \div Hours <= FirstDay /\ FirstDay <= (FirstDay * Hours) \div Hours
  <2> DEFINE q == (FirstDay * Hours) \div Hours
  <2>1. q \in Nat /\ Hours * q <= Hours * FirstDay /\ Hours * FirstDay < Hours * q + Hours
    BY <1>1, <1>2, Division
  <2>2. Hours * q < Hours * FirstDay + Hours
    BY <1>1, <2>1, Products
  <2> HIDE DEF q
  <2>3. q <= FirstDay /\ FirstDay <= q
    BY <1>1, <2>1, <2>2, Products
  <2> QED
    BY <2>3 DEF q
<1>7. (FirstDay * Hours) \div Hours \in Nat
  BY <1>1, <1>2, Division
<1> QED
  BY <1>1, <1>5, <1>6, <1>7

LEMMA HoursAreOfDays ==
  ASSUME NEW h \in Hour
  PROVE  h \in Nat /\ h \div Hours \in Day
<1>1. Hours \in Nat \ {0} /\ LastDay \in Nat /\ h \in Nat
  BY AnalyticsAssumption DEF Hour
<1>2. h < Hours * LastDay + Hours
  BY <1>1, Products DEF Hour
<1> DEFINE q == h \div Hours
<1>3. q \in Nat /\ Hours * q <= h
  BY <1>1, Division
<1>4. Hours * q < Hours * LastDay + Hours
  BY <1>1, <1>2, <1>3, Products
<1> HIDE DEF q
<1>5. q <= LastDay
  BY <1>1, <1>3, <1>4, Products
<1>6. q \in Day
  BY <1>1, <1>3, <1>5 DEF Day
<1> QED
  BY <1>1, <1>6 DEF q

LEMMA DaysFollow ==
  ASSUME NEW h \in Nat
  PROVE  h \div Hours <= (h + 1) \div Hours
<1>1. Hours \in Nat \ {0}
  BY AnalyticsAssumption
<1> DEFINE p == h \div Hours
           q == (h + 1) \div Hours
<1>2. p \in Nat /\ Hours * p <= h
  BY <1>1, Division
<1>3. q \in Nat /\ h + 1 < Hours * q + Hours
  BY <1>1, Division
<1>4. Hours * p < Hours * q + Hours
  BY <1>1, <1>2, <1>3, Products
<1> HIDE DEF p, q
<1>5. p <= q
  BY <1>1, <1>2, <1>3, <1>4, Products
<1> QED
  BY <1>5 DEF p, q

LEMMA Calendar ==
  ASSUME AnalyticsTypeOK
  PROVE  /\ now \in Nat /\ Today \in Day /\ Today \in Nat \ {0}
         /\ LastDay \in Nat /\ Day \subseteq Nat /\ Hour \subseteq Nat
         /\ None \notin Day /\ None \notin Hour /\ None \notin TaskRow /\ None \notin Computation
<1>1. now \in Hour /\ FirstDay \in Nat \ {0} /\ LastDay \in Nat /\ Today >= FirstDay
  BY AnalyticsAssumption DEF AnalyticsTypeOK
<1>2. now \in Nat /\ Today \in Day
  BY <1>1, HoursAreOfDays DEF Today
<1>3. Day \subseteq Nat /\ Hour \subseteq Nat
  BY <1>1, HoursAreOfDays DEF Day
<1>4. Today \in Nat \ {0}
  BY <1>1, <1>2, <1>3
<1>5. None \notin Nat /\ None \notin TaskRow /\ None \notin Computation
  BY NoneAssumption
<1> QED
  BY <1>1, <1>2, <1>3, <1>4, <1>5

LEMMA Slots ==
  ASSUME AnalyticsTypeOK
  PROVE  /\ jobs \in [Job -> Computation \cup {None}]
         /\ \A j \in Busy :
              /\ j \in Job /\ jobs[j] \in Computation /\ jobs[j] # None
              /\ jobs[j].op \in {"precompute", "request"} /\ jobs[j].today \in Day
              /\ jobs[j].todo \subseteq Day /\ jobs[j].day \in Day \cup {None}
              /\ jobs[j].seen \subseteq TaskId /\ jobs[j].known \subseteq TaskId
              /\ jobs[j].over \in BOOLEAN /\ jobs[j].clashed \in BOOLEAN
         /\ \A j \in Job \ Busy : jobs[j] = None
BY DEF AnalyticsTypeOK, Busy, Computation

LEMMA InitAnalytics == AnalyticsInit => AnalyticsInv
<1> SUFFICES ASSUME AnalyticsInit PROVE AnalyticsInv
  OBVIOUS
<1>1. Today = FirstDay /\ now \in Hour /\ FirstDay \in Nat /\ FirstDay <= LastDay /\ LastDay \in Nat
  BY FirstHour, AnalyticsAssumption DEF AnalyticsInit, Today
<1>2. Rows = {} /\ Busy = {} /\ settled = {} /\ \A d \in Day : done[d] = {}
  BY DEF AnalyticsInit, Rows, Busy
<1>3. Recorded \subseteq Day /\ records \in [Recorded -> SUBSET TaskId]
  <2>1. PICK days \in SUBSET (0 .. FirstDay - 1) : records \in [days -> {{}, TaskId}]
    BY DEF AnalyticsInit
  <2>2. 0 .. FirstDay - 1 \subseteq Day
    BY <1>1 DEF Day
  <2> QED
    BY <2>1, <2>2 DEF Recorded
<1>4. AnalyticsTypeOK
  BY <1>1, <1>2, <1>3 DEF AnalyticsInit, AnalyticsTypeOK
<1> QED
  BY <1>2, <1>4 DEF AnalyticsInv, DoneIsThere, SeenIsComplete, SettledIsPast, TodoIsRange,
     KnownIsKept, PastIsCounted

-----------------------------------------------------------------------------
(* The tasks are written.  What is under way only forgets those tasks.     *)
Forgotten(ts) ==
  /\ Busy' = Busy
  /\ \A j \in Busy :
       /\ jobs'[j].today = jobs[j].today /\ jobs'[j].todo = jobs[j].todo
       /\ jobs'[j].day = jobs[j].day /\ jobs'[j].seen = jobs[j].seen
       /\ jobs'[j].over = jobs[j].over /\ jobs'[j].clashed = jobs[j].clashed
       /\ jobs'[j].known = jobs[j].known \ ts

LEMMA ForgetForgets ==
  ASSUME AnalyticsTypeOK, NEW ts, jobs' = Forget(ts)
  PROVE  Forgotten(ts) /\ jobs' \in [Job -> Computation \cup {None}]
<1>1. None \notin Computation
  BY Calendar
<1>2. \A j \in Job : jobs'[j] = IF j \in Busy THEN [jobs[j] EXCEPT !.known = @ \ ts] ELSE None
  BY DEF Forget
<1>3. \A j \in Busy : jobs[j] \in Computation
  BY Slots
<1>4. \A j \in Busy : jobs'[j] \in Computation
  <2> SUFFICES ASSUME NEW j \in Busy PROVE jobs'[j] \in Computation
    OBVIOUS
  <2>1. jobs'[j] = [jobs[j] EXCEPT !.known = @ \ ts]
    BY <1>2 DEF Busy
  <2>2. jobs[j] \in Computation /\ jobs[j].known \ ts \subseteq TaskId
    BY <1>3 DEF Computation
  <2> QED
    BY <2>1, <2>2 DEF Computation
<1>5. Busy' = Busy
  BY <1>1, <1>2, <1>4 DEF Busy
<1>6. Forgotten(ts)
  BY <1>2, <1>3, <1>5 DEF Forgotten, Busy, Computation
<1>7. jobs' \in [Job -> Computation \cup {None}]
  BY <1>2, <1>4 DEF Forget
<1> QED
  BY <1>6, <1>7

LEMMA SameForgets ==
  ASSUME NEW ts, jobs' = jobs, \A j \in Busy : jobs[j].known \cap ts = {},
         AnalyticsTypeOK
  PROVE  Forgotten(ts)
<1>1. \A j \in Busy : jobs[j].known \ ts = jobs[j].known
  BY Slots
<1> QED
  BY <1>1 DEF Forgotten, Busy

LEMMA RowsMove ==
  ASSUME AnalyticsInv, AnalyticsTypeOK', DoneIsThere', NEW ts, Forgotten(ts),
         UNCHANGED <<now, records, settled>>,
         \A d \in Day : \A u \in Counted(d) \ ts : u \in Counted(d)',
         \A d \in 0 .. Today - 1 : done'[d] = done[d],
         \A d \in 0 .. Today - 1 : \A u \in TaskId : LeftDay(u, d) => LeftDay(u, d)'
  PROVE  AnalyticsInv'
<1>1. /\ AnalyticsTypeOK /\ Today' = Today /\ Recorded' = Recorded
      /\ Today \in Nat /\ Today <= LastDay /\ LastDay \in Nat
  BY Calendar DEF AnalyticsInv, Today, Recorded, Day
<1>2. \A d \in 0 .. Today - 1 : d \in Day /\ done[d] \subseteq TaskId
  BY <1>1, Calendar DEF AnalyticsTypeOK, Day
<1>3. \A d : Reading(d)' = Reading(d)
  BY DEF Forgotten, Reading
<1>4. SeenIsComplete'
  <2> SUFFICES ASSUME NEW j \in Busy, jobs[j].over, NEW d, d = jobs[j].day
               PROVE  /\ d \in 0 .. Today - 1
                      /\ \A t \in done[d] : t \in jobs[j].seen \/ LeftDay(t, d)'
    <3>1. \A d : \A j \in Busy : jobs[j].over /\ d = jobs[j].day =>
            d \in 0 .. Today - 1 /\ done'[d] = done[d]
      BY DEF SeenIsComplete, AnalyticsInv
    <3> QED
      BY <1>1, <3>1 DEF SeenIsComplete, Forgotten
  <2>1. d \in 0 .. Today - 1 /\ \A t \in done[d] : t \in jobs[j].seen \/ LeftDay(t, d)
    BY DEF SeenIsComplete, AnalyticsInv
  <2> QED
    BY <1>2, <2>1
<1>5. SettledIsPast'
  BY <1>1 DEF SettledIsPast, AnalyticsInv
<1>6. TodoIsRange'
  BY DEF TodoIsRange, Forgotten, AnalyticsInv
<1>7. PastIsCounted'
  <2>1. \A d \in settled : d \in 0 .. Today - 1
    <3>1. \A d \in settled : d \in Day /\ d < Today
      BY <1>1 DEF AnalyticsInv, SettledIsPast, AnalyticsTypeOK
    <3> QED
      BY <1>1, <3>1 DEF Day
  <2> SUFFICES ASSUME NEW d \in settled, NEW t \in TaskId, t \in done[d]
               PROVE  t \in records[d] \/ LeftDay(t, d)'
    BY <2>1 DEF PastIsCounted, LeftDay
  <2>2. t \in records[d] \/ LeftDay(t, d)
    BY DEF AnalyticsInv, PastIsCounted, LeftDay
  <2> QED
    BY <2>1, <2>2, <1>2
<1>8. KnownIsKept'
  <2> SUFFICES ASSUME NEW j \in Busy, NEW d, d = jobs[j].today
               PROVE  /\ jobs'[j].known \subseteq Counted(d)'
                      /\ jobs'[j].known # {} /\ d \notin jobs[j].todo /\ ~jobs[j].clashed =>
                           IF jobs[j].day = d
                           THEN jobs'[j].known \subseteq jobs[j].seen /\ Reading(d) = {j}
                           ELSE /\ d \in Recorded /\ jobs'[j].known \subseteq records[d]
                                /\ \A k \in Reading(d) : jobs'[j].known \subseteq jobs'[k].seen
    BY <1>1, <1>3 DEF KnownIsKept, Forgotten
  <2>1. /\ d \in Day /\ jobs[j].known \subseteq Counted(d)
        /\ jobs[j].known # {} /\ d \notin jobs[j].todo /\ ~jobs[j].clashed =>
             IF jobs[j].day = d THEN jobs[j].known \subseteq jobs[j].seen /\ Reading(d) = {j}
             ELSE /\ d \in Recorded /\ jobs[j].known \subseteq records[d]
                  /\ \A k \in Reading(d) : jobs[j].known \subseteq jobs[k].seen
    BY <1>1, Slots DEF AnalyticsInv, KnownIsKept
  <2>2. jobs'[j].known \subseteq jobs[j].known /\ jobs'[j].known \cap ts = {}
    BY DEF Forgotten
  <2>3. jobs'[j].known \subseteq Counted(d)'
    <3>1. \A u \in Counted(d) \ ts : u \in Counted(d)'
      BY <2>1
    <3> QED
      BY <2>1, <2>2, <3>1
  <2>4. \A k \in Reading(d) : jobs'[k].seen = jobs[k].seen
    BY DEF Reading, Forgotten
  <2> QED
    BY <2>1, <2>2, <2>3, <2>4 DEF Forgotten
<1> QED
  BY <1>4, <1>5, <1>6, <1>7, <1>8 DEF AnalyticsInv

\* One row is written, dated today.
LEMMA WriteRow ==
  ASSUME AnalyticsInv, NEW t \in TaskId, NEW r \in TaskRow, r.updated_at = Today,
         IF r.completed THEN r.completed_at \in 0 .. now ELSE r.completed_at = None,
         tasks' = [tasks EXCEPT ![t] = r],
         jobs' = Forget({t}) \/ (jobs' = jobs /\ t \notin Rows),
         done' \in [Day -> SUBSET TaskId],
         \A d \in Day \ {Today} : done'[d] = done[d],
         \A u \in TaskId \ {t} : u \in done'[Today] <=> u \in done[Today],
         t \in done'[Today] => r.completed,
         t \notin purged,
         UNCHANGED <<now, due, records, purged, settled>>
  PROVE  AnalyticsInv'
<1>1. AnalyticsTypeOK /\ Today' = Today
  BY DEF AnalyticsInv, Today
<1>2. /\ now \in Nat /\ Today \in Day /\ Day \subseteq Nat
      /\ None \notin TaskRow
  BY <1>1, Calendar
<1>3. Forgotten({t}) /\ jobs' \in [Job -> Computation \cup {None}]
  <2>1. CASE jobs' = Forget({t})
    BY <2>1, <1>1, ForgetForgets
  <2>2. CASE jobs' = jobs /\ t \notin Rows
    <3>1. \A j \in Busy : t \notin jobs[j].known
      BY <2>2 DEF AnalyticsInv, KnownIsKept, Counted
    <3> QED
      BY <2>2, <3>1, <1>1, SameForgets DEF AnalyticsTypeOK
  <2> QED
    BY <2>1, <2>2
<1>4. /\ Rows' = Rows \cup {t}
      /\ tasks'[t] = r
      /\ \A u \in TaskId \ {t} : tasks'[u] = tasks[u]
      /\ tasks' \in [TaskId -> TaskRow \cup {None}]
  BY <1>1, <1>2 DEF AnalyticsTypeOK, Rows
<1>5. AnalyticsTypeOK'
  <2>1. \A u \in Rows' :
          /\ IF tasks'[u].completed THEN tasks'[u].completed_at \in 0 .. now
             ELSE tasks'[u].completed_at = None
          /\ tasks'[u].updated_at <= Today /\ u \notin purged
    BY <1>1, <1>2, <1>4 DEF AnalyticsTypeOK, Rows
  <2>2. Recorded' = Recorded
    BY DEF Recorded
  <2> QED
    BY <1>1, <1>3, <1>4, <2>1, <2>2 DEF AnalyticsTypeOK
<1>6. \A d \in Day : \A u \in TaskId \ {t} :
        /\ LeftDay(u, d) => LeftDay(u, d)'
        /\ u \in Counted(d) => u \in Counted(d)'
  BY <1>4 DEF LeftDay, Rows, Counted
<1>7. \A d \in 0 .. Today - 1 : LeftDay(t, d)'
  BY <1>2, <1>4 DEF LeftDay
<1>8. DoneIsThere'
  <2> SUFFICES ASSUME NEW d \in Day, NEW u \in done'[d]
               PROVE  d <= Today /\ (LeftDay(u, d)' \/ u \in Counted(d)')
    BY <1>1 DEF DoneIsThere
  <2>1. u \in TaskId /\ d \in Nat /\ Today \in Nat
    BY <1>2
  <2>2. CASE u = t /\ d = Today
    BY <2>2, <1>4, <2>1 DEF Counted
  <2>3. CASE u # t \/ d # Today
    <3>1. u \in done[d]
      BY <2>1, <2>3
    <3>2. d <= Today /\ (LeftDay(u, d) \/ u \in Counted(d))
      BY <3>1 DEF AnalyticsInv, DoneIsThere
    <3>3. CASE u # t
      BY <3>2, <3>3, <1>6, <2>1
    <3>4. CASE u = t /\ d # Today
      BY <3>2, <3>4, <1>7, <2>1
    <3> QED
      BY <2>3, <3>3, <3>4
  <2> QED
    BY <2>2, <2>3
<1>9. \A d \in 0 .. Today - 1 : d \in Day /\ d # Today
  BY <1>1, Calendar DEF Day
<1>10. \A d \in Day : \A u \in Counted(d) \ {t} : u \in Counted(d)'
  BY <1>6 DEF Counted, Rows
<1> QED
  BY <1>3, <1>5, <1>6, <1>7, <1>8, <1>9, <1>10, RowsMove

LEMMA TasksAreWritten ==
  ASSUME AnalyticsInv, NEW t \in TaskId,
         \/ \E completed \in BOOLEAN : CreateTask(t, completed)
         \/ Complete(t) \/ Reopen(t) \/ EditTask(t)
  PROVE  AnalyticsInv'
<1>1. /\ Today \in Day /\ now \in Hour /\ done \in [Day -> SUBSET TaskId]
      /\ tasks \in [TaskId -> TaskRow \cup {None}]
      /\ None \notin TaskRow /\ now \in Nat
      /\ \A u \in Rows :
           /\ IF tasks[u].completed THEN tasks[u].completed_at \in 0 .. now
              ELSE tasks[u].completed_at = None
           /\ tasks[u].updated_at <= Today /\ u \notin purged
  BY Calendar DEF AnalyticsInv, AnalyticsTypeOK
<1>2. ASSUME NEW completed \in BOOLEAN, CreateTask(t, completed)
      PROVE  AnalyticsInv'
  <2> DEFINE r == [completed |-> completed, completed_at |-> IF completed THEN now ELSE None,
                   updated_at |-> Today]
  <2>1. r \in TaskRow
    BY <1>1 DEF TaskRow
  <2>2. tasks' = [tasks EXCEPT ![t] = r] /\ t \notin Rows
    BY <1>2 DEF CreateTask, Rows
  <2>3. /\ done' \in [Day -> SUBSET TaskId]
        /\ \A d \in Day \ {Today} : done'[d] = done[d]
        /\ \A u \in TaskId \ {t} : u \in done'[Today] <=> u \in done[Today]
        /\ t \in done'[Today] => r.completed
    <3>1. t \notin done[Today]
      BY <1>1, <1>2, <2>2 DEF AnalyticsInv, DoneIsThere, LeftDay, Counted, CreateTask
    <3> QED
      BY <1>1, <1>2, <3>1 DEF CreateTask
  <2>4. /\ r.updated_at = Today
        /\ IF r.completed THEN r.completed_at \in 0 .. now ELSE r.completed_at = None
    BY <1>1
  <2>5. jobs' = jobs /\ t \notin purged /\ UNCHANGED <<now, due, records, purged, settled>>
    BY <1>2 DEF CreateTask
  <2> HIDE DEF r
  <2> QED
    BY <2>1, <2>2, <2>3, <2>4, <2>5, WriteRow
<1>3. CASE Complete(t)
  <2> DEFINE r == [completed |-> TRUE, completed_at |-> now, updated_at |-> Today]
  <2>1. r \in TaskRow
    BY <1>1 DEF TaskRow
  <2>2. tasks' = [tasks EXCEPT ![t] = r] /\ t \in Rows /\ jobs' = Forget({t})
    BY <1>3 DEF Complete
  <2>3. /\ done' \in [Day -> SUBSET TaskId]
        /\ \A d \in Day \ {Today} : done'[d] = done[d]
        /\ \A u \in TaskId \ {t} : u \in done'[Today] <=> u \in done[Today]
    BY <1>1, <1>3 DEF Complete
  <2>4. /\ r.updated_at = Today
        /\ IF r.completed THEN r.completed_at \in 0 .. now ELSE r.completed_at = None
    BY <1>1
  <2>5. /\ t \in done'[Today] => r.completed
        /\ t \notin purged /\ UNCHANGED <<now, due, records, purged, settled>>
    BY <1>1, <1>3, <2>3 DEF Complete, Rows
  <2> HIDE DEF r
  <2> QED
    BY <2>1, <2>2, <2>3, <2>4, <2>5, WriteRow
<1>4. CASE Reopen(t)
  <2> DEFINE r == [completed |-> FALSE, completed_at |-> None, updated_at |-> Today]
  <2>1. r \in TaskRow
    BY <1>1 DEF TaskRow
  <2>2. tasks' = [tasks EXCEPT ![t] = r] /\ t \in Rows /\ jobs' = Forget({t})
    BY <1>4 DEF Reopen
  <2>3. /\ done' \in [Day -> SUBSET TaskId]
        /\ \A d \in Day \ {Today} : done'[d] = done[d]
        /\ \A u \in TaskId \ {t} : u \in done'[Today] <=> u \in done[Today]
        /\ t \notin done'[Today]
    BY <1>1, <1>4 DEF Reopen
  <2>4. /\ r.updated_at = Today
        /\ IF r.completed THEN r.completed_at \in 0 .. now ELSE r.completed_at = None
    BY <1>1
  <2>5. /\ t \in done'[Today] => r.completed
        /\ t \notin purged /\ UNCHANGED <<now, due, records, purged, settled>>
    BY <1>1, <1>4, <2>3 DEF Reopen, Rows
  <2> HIDE DEF r
  <2> QED
    BY <2>1, <2>2, <2>3, <2>4, <2>5, WriteRow
<1>5. CASE EditTask(t)
  <2> DEFINE r == [tasks[t] EXCEPT !.updated_at = Today]
  <2>1. t \in Rows /\ tasks[t] \in TaskRow
    BY <1>1, <1>5 DEF EditTask, Rows
  <2>2. r \in TaskRow /\ r.updated_at = Today
    BY <1>1, <2>1 DEF TaskRow
  <2>3. r.completed = tasks[t].completed /\ r.completed_at = tasks[t].completed_at
    BY <2>1 DEF TaskRow
  <2>4. tasks' = [tasks EXCEPT ![t] = r] /\ jobs' = Forget({t})
    BY <1>5 DEF EditTask
  <2>5. t \in done[Today] => r.completed
    <3>1. ~LeftDay(t, Today)
      BY <1>1, <2>1, Calendar DEF LeftDay, TaskRow, AnalyticsInv
    <3> QED
      BY <1>1, <2>3, <3>1 DEF AnalyticsInv, DoneIsThere, Counted
  <2>6. done' = done /\ UNCHANGED <<now, due, records, purged, settled>>
    BY <1>5 DEF EditTask
  <2> HIDE DEF r
  <2>7. IF r.completed THEN r.completed_at \in 0 .. now ELSE r.completed_at = None
    BY <1>1, <2>1, <2>3
  <2> QED
    BY <1>1, <2>1, <2>2, <2>4, <2>5, <2>6, <2>7, WriteRow
<1> QED
  BY <1>2, <1>3, <1>4, <1>5

LEMMA SyncedAnew ==
  ASSUME AnalyticsInv, NEW t \in TaskId, SyncUnchanged(t)
  PROVE  AnalyticsInv'
<1>1. /\ AnalyticsTypeOK /\ Today' = Today /\ UNCHANGED <<now, due, records, jobs, purged, done, settled>>
      /\ t \in Rows /\ tasks[t].completed /\ tasks' = [tasks EXCEPT ![t].completed_at = now]
  BY DEF AnalyticsInv, SyncUnchanged, Today
<1>2. now \in Hour /\ now \in Nat /\ None \notin TaskRow
  BY <1>1, Calendar DEF AnalyticsTypeOK
<1>3. /\ tasks' \in [TaskId -> TaskRow \cup {None}] /\ Rows' = Rows
      /\ tasks'[t].completed_at = now
      /\ \A u \in TaskId \ {t} : tasks'[u] = tasks[u]
      /\ tasks'[t].completed = tasks[t].completed /\ tasks'[t].updated_at = tasks[t].updated_at
  <2>1. tasks[t] \in TaskRow /\ [tasks[t] EXCEPT !.completed_at = now] \in TaskRow
    BY <1>1, <1>2 DEF AnalyticsTypeOK, Rows, TaskRow
  <2>2. tasks' = [tasks EXCEPT ![t] = [tasks[t] EXCEPT !.completed_at = now]]
    BY <1>1
  <2>3. /\ [tasks[t] EXCEPT !.completed_at = now].completed_at = now
        /\ [tasks[t] EXCEPT !.completed_at = now].completed = tasks[t].completed
        /\ [tasks[t] EXCEPT !.completed_at = now].updated_at = tasks[t].updated_at
    BY <2>1 DEF TaskRow
  <2>4. tasks \in [TaskId -> TaskRow \cup {None}]
    BY <1>1 DEF AnalyticsTypeOK
  <2>5. /\ tasks' \in [TaskId -> TaskRow \cup {None}]
        /\ tasks'[t] = [tasks[t] EXCEPT !.completed_at = now]
        /\ \A u \in TaskId \ {t} : tasks'[u] = tasks[u]
    BY <2>1, <2>2, <2>4
  <2>6. Rows' = Rows
    BY <1>1, <1>2, <2>1, <2>5 DEF Rows
  <2> QED
    BY <2>3, <2>5, <2>6
<1>4. \A d, u : Counted(d)' = Counted(d) /\ LeftDay(u, d)' = LeftDay(u, d)
  BY <1>1, <1>3 DEF Counted, LeftDay, Rows
<1>5. AnalyticsTypeOK'
  <2>1. \A u \in Rows' :
          /\ IF tasks'[u].completed THEN tasks'[u].completed_at \in 0 .. now
             ELSE tasks'[u].completed_at = None
          /\ tasks'[u].updated_at <= Today /\ u \notin purged
    BY <1>1, <1>2, <1>3 DEF AnalyticsTypeOK, Rows
  <2> QED
    BY <1>1, <1>3, <2>1 DEF AnalyticsTypeOK, Recorded
<1>6. DoneIsThere'
  BY <1>1, <1>4 DEF DoneIsThere, AnalyticsInv
<1>7. Forgotten({})
  BY <1>1, SameForgets
<1> QED
  BY <1>1, <1>4, <1>5, <1>6, <1>7, RowsMove

LEMMA TasksArePurged ==
  ASSUME AnalyticsInv, PurgeCompleted
  PROVE  AnalyticsInv'
<1>1. /\ AnalyticsTypeOK /\ Today' = Today /\ UNCHANGED <<now, records, done, settled>>
      /\ due' \subseteq due
  BY DEF AnalyticsInv, PurgeCompleted, Today
<1>2. PICK gone \in SUBSET Rows :
        /\ tasks' = [t \in TaskId |-> IF t \in gone THEN None ELSE tasks[t]]
        /\ purged' = purged \cup gone
        /\ jobs' = Forget(gone)
  BY DEF PurgeCompleted
<1>3. Forgotten(gone) /\ jobs' \in [Job -> Computation \cup {None}]
  BY <1>1, <1>2, ForgetForgets
<1>4. /\ tasks' \in [TaskId -> TaskRow \cup {None}]
      /\ Rows' = Rows \ gone
      /\ \A t \in Rows' : tasks'[t] = tasks[t]
  BY <1>1, <1>2 DEF AnalyticsTypeOK, Rows
<1>5. AnalyticsTypeOK'
  <2>1. \A u \in Rows' :
          /\ IF tasks'[u].completed THEN tasks'[u].completed_at \in 0 .. now
             ELSE tasks'[u].completed_at = None
          /\ tasks'[u].updated_at <= Today /\ u \notin purged'
    BY <1>1, <1>2, <1>4 DEF AnalyticsTypeOK
  <2>2. purged' \subseteq TaskId
    BY <1>1, <1>2 DEF AnalyticsTypeOK, Rows
  <2> QED
    BY <1>1, <1>3, <1>4, <2>1, <2>2 DEF AnalyticsTypeOK, Recorded
<1>6. \A d, u : LeftDay(u, d) => LeftDay(u, d)'
  BY <1>2, <1>4 DEF LeftDay
<1>7. \A d : \A u \in Counted(d) \ gone : u \in Counted(d)'
  BY <1>4 DEF Counted
<1>8. DoneIsThere'
  <2>1. \A d : \A u \in gone : LeftDay(u, d)'
    BY <1>2 DEF LeftDay
  <2> QED
    BY <1>1, <1>6, <1>7, <2>1 DEF DoneIsThere, AnalyticsInv
<1> QED
  BY <1>1, <1>3, <1>5, <1>6, <1>7, <1>8, RowsMove

LEMMA AnHourPasses ==
  ASSUME AnalyticsInv, HourPasses
  PROVE  AnalyticsInv'
<1>1. /\ AnalyticsTypeOK /\ now' = now + 1 /\ now' \in Hour /\ now \in Nat
      /\ due' = {"precompute", "purge"}
      /\ UNCHANGED <<tasks, records, jobs, purged, done, settled>>
  BY Calendar DEF AnalyticsInv, HourPasses
<1>2. Today \in Nat /\ Today' \in Nat /\ Today <= Today'
  BY <1>1, Calendar, DaysFollow, HoursAreOfDays DEF Today, Day
<1>3. /\ Rows' = Rows /\ Busy' = Busy /\ Recorded' = Recorded
      /\ \A d : Counted(d)' = Counted(d) /\ Reading(d)' = Reading(d)
      /\ \A t, d : LeftDay(t, d)' = LeftDay(t, d)
  BY <1>1 DEF Rows, Busy, Recorded, Counted, Reading, LeftDay
<1>4. AnalyticsTypeOK'
  <2>1. \A u \in Rows : tasks[u] \in TaskRow /\ tasks[u].updated_at \in Nat
    BY <1>1, Calendar DEF AnalyticsTypeOK, Rows, TaskRow
  <2>2. Today' >= FirstDay
    BY <1>1, <1>2, AnalyticsAssumption DEF AnalyticsTypeOK
  <2>3. \A u \in Rows :
          /\ IF tasks[u].completed THEN tasks[u].completed_at \in 0 .. now'
             ELSE tasks[u].completed_at = None
          /\ tasks[u].updated_at <= Today' /\ u \notin purged
    BY <1>1, <1>2, <2>1 DEF AnalyticsTypeOK
  <2> QED
    BY <1>1, <1>3, <2>2, <2>3 DEF AnalyticsTypeOK
<1>5. DoneIsThere'
  <2>1. \A d \in Day : d \in Nat
    BY <1>1, Calendar
  <2> QED
    BY <1>1, <1>2, <1>3, <2>1 DEF DoneIsThere, AnalyticsInv
<1>6. SeenIsComplete'
  <2>1. \A d \in 0 .. Today - 1 : d \in 0 .. Today' - 1
    <3>1. \A a, b \in Nat : a <= b => \A d \in 0 .. a - 1 : d \in 0 .. b - 1
      OBVIOUS
    <3> QED
      BY <1>2, <3>1
  <2>2. \A d : \A j \in Busy : jobs[j].over /\ d = jobs[j].day =>
          d \in 0 .. Today' - 1 /\ \A t \in done[d] : t \in jobs[j].seen \/ LeftDay(t, d)'
    BY <1>3, <2>1 DEF SeenIsComplete, AnalyticsInv
  <2> QED
    BY <1>1, <1>3, <2>2 DEF SeenIsComplete
<1>7. SettledIsPast'
  <2>1. \A d \in settled : d \in Nat
    BY <1>1, Calendar DEF AnalyticsTypeOK
  <2> QED
    BY <1>1, <1>2, <2>1 DEF SettledIsPast, AnalyticsInv
<1>8. TodoIsRange' /\ PastIsCounted'
  BY <1>1, <1>3 DEF TodoIsRange, PastIsCounted, AnalyticsInv
<1>9. KnownIsKept'
  <2>1. \A d : \A j \in Busy : d = jobs[j].today =>
          LET r == jobs[j]
          IN /\ r.known \subseteq Counted(d)'
             /\ r.known # {} /\ d \notin r.todo /\ ~r.clashed =>
                  IF r.day = d THEN r.known \subseteq r.seen /\ Reading(d)' = {j}
                  ELSE /\ d \in Recorded /\ r.known \subseteq records[d]
                       /\ \A k \in Reading(d)' : r.known \subseteq jobs[k].seen
    BY <1>3 DEF KnownIsKept, AnalyticsInv
  <2> QED
    BY <1>1, <1>3, <2>1 DEF KnownIsKept
<1> QED
  BY <1>4, <1>5, <1>6, <1>7, <1>8, <1>9 DEF AnalyticsInv

-----------------------------------------------------------------------------
(* The computations.  The rows stay as they are.                           *)
LEMMA RowsStay ==
  ASSUME UNCHANGED <<now, tasks, purged, done>>
  PROVE  /\ Today' = Today /\ Rows' = Rows
         /\ \A d : Counted(d)' = Counted(d)
         /\ \A t, d : LeftDay(t, d)' = LeftDay(t, d)
BY DEF Today, Rows, Counted, LeftDay

\* What must hold of a computation of its request and of the records.
KeptBy(j) ==
  \A d : d = jobs[j].today =>
    /\ jobs[j].known \subseteq Counted(d)
    /\ jobs[j].known # {} /\ d \notin jobs[j].todo /\ ~jobs[j].clashed =>
         /\ jobs[j].day = d => jobs[j].known \subseteq jobs[j].seen /\ Reading(d) = {j}
         /\ jobs[j].day # d =>
              /\ d \in Recorded /\ jobs[j].known \subseteq records[d]
              /\ \A k \in Reading(d) : jobs[j].known \subseteq jobs[k].seen

CompleteBy(j) ==
  \A d : jobs[j].over /\ d = jobs[j].day =>
    d \in 0 .. Today - 1 /\ \A t \in done[d] : t \in jobs[j].seen \/ LeftDay(t, d)

RangeOf(j) == \E first \in 0 .. LastDay + 1, to \in Day : jobs[j].todo = first .. to

LEMMA ByJob ==
  /\ KnownIsKept <=> \A j \in Busy : KeptBy(j)
  /\ SeenIsComplete <=> \A j \in Busy : CompleteBy(j)
  /\ TodoIsRange <=> \A j \in Busy : RangeOf(j)
<1>1. KnownIsKept <=> \A j \in Busy : KeptBy(j)
  BY DEF KnownIsKept, KeptBy
<1>2. SeenIsComplete <=> \A j \in Busy : CompleteBy(j)
  BY DEF SeenIsComplete, CompleteBy
<1>3. TodoIsRange <=> \A j \in Busy : RangeOf(j)
  BY DEF TodoIsRange, RangeOf
<1> QED
  BY <1>1, <1>2, <1>3

LEMMA JobsMove ==
  ASSUME AnalyticsInv, UNCHANGED <<now, tasks, records, purged, done, settled>>,
         due' \subseteq due, jobs' \in [Job -> Computation \cup {None}],
         \A j \in Busy' : RangeOf(j)' /\ CompleteBy(j)' /\ KeptBy(j)'
  PROVE  AnalyticsInv'
<1>1. /\ Today' = Today /\ Rows' = Rows /\ Recorded' = Recorded
      /\ \A d : Counted(d)' = Counted(d)
      /\ \A t, d : LeftDay(t, d)' = LeftDay(t, d)
  BY RowsStay DEF Recorded
<1>2. AnalyticsTypeOK' /\ DoneIsThere' /\ SettledIsPast' /\ PastIsCounted'
  BY <1>1 DEF AnalyticsInv, AnalyticsTypeOK, DoneIsThere, SettledIsPast, PastIsCounted
<1>3. TodoIsRange' /\ SeenIsComplete' /\ KnownIsKept'
  BY DEF TodoIsRange, SeenIsComplete, KnownIsKept, RangeOf, CompleteBy, KeptBy
<1> QED
  BY <1>2, <1>3 DEF AnalyticsInv

\* One of them takes a step.
LEMMA OneJob ==
  ASSUME AnalyticsTypeOK, NEW j \in Job, NEW step \in Computation \cup {None},
         Proceed(j, step)
  PROVE  /\ jobs' \in [Job -> Computation \cup {None}]
         /\ jobs'[j] = step /\ (j \in Busy' <=> step # None)
         /\ \A k \in Busy' \ {j} : k \in Busy /\ jobs'[k] = jobs[k]
         /\ \A d : \A k \in Reading(d) \ {j} : k \in Reading(d)'
         /\ \A d : \A k \in Reading(d)' : IF k = j THEN step # None /\ step.day = d
                                         ELSE k \in Reading(d)
         /\ \A d : step # None /\ step.day = d => j \in Reading(d)'
BY DEF AnalyticsTypeOK, Proceed, Busy, Reading

\* One of them that writes no record is over, or goes on with no rows read.
LEMMA JobLetsGo ==
  ASSUME AnalyticsInv, UNCHANGED <<now, tasks, records, purged, done, settled>>,
         due' \subseteq due, NEW j \in Job, NEW step \in Computation \cup {None},
         Proceed(j, step),
         step # None =>
           /\ step.day = None /\ ~step.over
           /\ \E first \in 0 .. LastDay + 1, to \in Day : step.todo = first .. to
           /\ step.known \subseteq Counted(step.today)
           /\ step.known # {} /\ step.today \notin step.todo /\ ~step.clashed =>
                /\ j \in Busy /\ jobs[j].day # step.today /\ jobs[j].today = step.today
                /\ jobs[j].todo = step.todo /\ jobs[j].clashed = step.clashed
                /\ jobs[j].known = step.known
  PROVE  AnalyticsInv'
<1>1. AnalyticsTypeOK /\ None \notin Day
  BY Calendar DEF AnalyticsInv
<1>2. /\ jobs' \in [Job -> Computation \cup {None}]
      /\ jobs'[j] = step /\ (j \in Busy' <=> step # None)
      /\ \A k \in Busy' \ {j} : k \in Busy /\ jobs'[k] = jobs[k]
      /\ \A d : \A k \in Reading(d) \ {j} : k \in Reading(d)'
      /\ \A d \in Day : \A k \in Reading(d)' : k # j /\ k \in Reading(d)
  BY <1>1, OneJob
<1>3. /\ Today' = Today /\ Recorded' = Recorded
      /\ \A d : Counted(d)' = Counted(d)
      /\ \A t, d : LeftDay(t, d)' = LeftDay(t, d)
  BY RowsStay DEF Recorded
<1>4. \A k \in Busy : RangeOf(k) /\ CompleteBy(k) /\ KeptBy(k)
  BY ByJob DEF AnalyticsInv
<1>5. \A d \in Day : \A k \in Reading(d)' : jobs'[k] = jobs[k]
  BY <1>2 DEF Reading
<1>6. ASSUME NEW k \in Busy' \ {j}
      PROVE  RangeOf(k)' /\ CompleteBy(k)' /\ KeptBy(k)'
  <2>1. k \in Busy /\ jobs'[k] = jobs[k] /\ jobs[k].today \in Day
    BY <1>1, <1>2, Slots
  <2>2. RangeOf(k)' /\ CompleteBy(k)'
    BY <1>3, <1>4, <2>1 DEF RangeOf, CompleteBy
  <2>3. KeptBy(k)'
    <3> SUFFICES ASSUME NEW d, d = jobs[k].today
                 PROVE  /\ jobs[k].known \subseteq Counted(d)
                        /\ jobs[k].known # {} /\ d \notin jobs[k].todo /\ ~jobs[k].clashed =>
                             /\ jobs[k].day = d => jobs[k].known \subseteq jobs[k].seen /\ Reading(d)' = {k}
                             /\ jobs[k].day # d =>
                                  /\ d \in Recorded /\ jobs[k].known \subseteq records[d]
                                  /\ \A i \in Reading(d)' : jobs[k].known \subseteq jobs'[i].seen
      BY <1>3, <2>1 DEF KeptBy
    <3>1. d \in Day
      BY <2>1
    <3>2. jobs[k].day = d => k \in Reading(d)
      BY <2>1 DEF Reading
    <3>3. Reading(d) = {k} => Reading(d)' = {k}
      BY <1>2, <3>1
    <3>4. \A i \in Reading(d)' : i \in Reading(d) /\ jobs'[i].seen = jobs[i].seen
      BY <1>2, <1>5, <3>1
    <3> QED
      BY <1>4, <2>1, <3>3, <3>4 DEF KeptBy
  <2> QED
    BY <2>2, <2>3
<1>7. ASSUME step # None
      PROVE  RangeOf(j)' /\ CompleteBy(j)' /\ KeptBy(j)'
  <2>1. step.today \in Day /\ jobs'[j] = step /\ None # step.today
    BY <1>1, <1>2, <1>7 DEF Computation
  <2>2. RangeOf(j)' /\ CompleteBy(j)'
    BY <1>7, <2>1 DEF RangeOf, CompleteBy
  <2>3. KeptBy(j)'
    <3> SUFFICES ASSUME NEW d, d = step.today, step.known # {}, d \notin step.todo, ~step.clashed
                 PROVE  /\ d \in Recorded /\ step.known \subseteq records[d]
                        /\ \A i \in Reading(d)' : step.known \subseteq jobs'[i].seen
      BY <1>3, <1>7, <2>1 DEF KeptBy
    <3>1. /\ d \in Recorded /\ step.known \subseteq records[d]
          /\ \A i \in Reading(d) : step.known \subseteq jobs[i].seen
      BY <1>4, <1>7 DEF KeptBy
    <3> QED
      BY <1>2, <1>5, <2>1, <3>1
  <2> QED
    BY <2>2, <2>3
<1>8. \A k \in Busy' : RangeOf(k)' /\ CompleteBy(k)' /\ KeptBy(k)'
  BY <1>2, <1>6, <1>7
<1> QED
  BY <1>2, <1>8, JobsMove

LEMMA JobsBegin ==
  ASSUME AnalyticsInv, NEW j \in Job,
         \/ Precompute(j)
         \/ \E first \in Today .. LastDay, to \in Today - 1 .. LastDay : GetAnalytics(j, first, to)
  PROVE  AnalyticsInv'
<1>1. /\ AnalyticsTypeOK /\ Today \in Day /\ Today \in Nat \ {0} /\ LastDay \in Nat /\ Today <= LastDay
  BY Calendar DEF AnalyticsInv, Day
<1>2. ASSUME NEW op \in {"precompute", "request"}, NEW todo \in SUBSET Day, NEW known \in SUBSET TaskId
      PROVE  LET step == Begin(op, todo, known)
             IN /\ step \in Computation /\ step.today = Today /\ step.todo = todo
                /\ step.known = known /\ step.day = None /\ step.over = FALSE
  BY <1>1 DEF Begin, Computation
<1>3. CASE Precompute(j)
  <2>1. /\ {Today - 1} \in SUBSET Day /\ {Today - 1} = Today - 1 .. Today - 1
        /\ Today - 1 \in 0 .. LastDay + 1 /\ Today - 1 \in Day
    BY <1>1 DEF Day
  <2> DEFINE step == Begin("precompute", {Today - 1}, {})
  <2>2. /\ step \in Computation /\ step.todo = {Today - 1}
        /\ step.known = {} /\ step.day = None /\ step.over = FALSE
    BY <1>1, <2>1 DEF Begin, Computation
  <2>3. Proceed(j, step) /\ due' \subseteq due /\ UNCHANGED <<now, tasks, records, purged, done, settled>>
    BY <1>3 DEF Precompute
  <2> HIDE DEF step
  <2> QED
    BY <2>1, <2>2, <2>3, JobLetsGo
<1>4. ASSUME NEW first \in Today .. LastDay, NEW to \in Today - 1 .. LastDay,
             GetAnalytics(j, first, to)
      PROVE  AnalyticsInv'
  <2>1. /\ first .. to \in SUBSET Day /\ first \in 0 .. LastDay + 1 /\ to \in Day
    BY <1>1 DEF Day
  <2> DEFINE known == IF Today \in first .. to THEN Counted(Today) ELSE {}
             step == Begin("request", first .. to, known)
  <2>2. known \in SUBSET TaskId /\ known \subseteq Counted(Today)
    BY DEF Counted, Rows
  <2>3. known # {} => Today \in first .. to
    OBVIOUS
  <2>4. Proceed(j, step) /\ due' \subseteq due /\ UNCHANGED <<now, tasks, records, purged, done, settled>>
    BY <1>4 DEF GetAnalytics
  <2> HIDE DEF known
  <2>5. /\ step \in Computation /\ step.today = Today /\ step.todo = first .. to
        /\ step.known = known /\ step.day = None /\ step.over = FALSE
    BY <1>2, <2>1, <2>2
  <2> HIDE DEF step
  <2>6. step.known \subseteq Counted(step.today) /\ (step.known # {} => step.today \in step.todo)
    BY <2>2, <2>3, <2>5
  <2> QED
    BY <2>1, <2>4, <2>5, <2>6, JobLetsGo
<1> QED
  BY <1>3, <1>4

LEMMA JobsEnd ==
  ASSUME AnalyticsInv, NEW j \in Job, SendAnalytics(j) \/ JobFails(j)
  PROVE  AnalyticsInv'
<1>1. Proceed(j, None) /\ due' \subseteq due /\ UNCHANGED <<now, tasks, records, purged, done, settled>>
  BY DEF SendAnalytics, JobFails
<1> QED
  BY <1>1, JobLetsGo

LEMMA TheProcessIsDown ==
  ASSUME AnalyticsInv, Down
  PROVE  AnalyticsInv'
<1>1. Busy' = {} /\ due' \subseteq due /\ UNCHANGED <<now, tasks, records, purged, done, settled>>
  BY DEF Down, Busy
<1>2. jobs' \in [Job -> Computation \cup {None}]
  BY DEF Down
<1> QED
  BY <1>1, <1>2, JobsMove

\* What is left of a computation once a day is done with.
LEMMA NextDay ==
  ASSUME AnalyticsTypeOK, NEW j \in Busy, jobs[j].op # "precompute"
  PROVE  LET step == AfterDay(j)
         IN /\ step \in Computation /\ step.day = None /\ step.over = FALSE
            /\ step.today = jobs[j].today /\ step.todo = jobs[j].todo
            /\ step.known = jobs[j].known /\ step.clashed = jobs[j].clashed
<1>1. jobs[j] \in Computation
  BY Slots
<1> QED
  BY <1>1 DEF AfterDay, Computation

LEMMA Clashes ==
  ASSUME NEW r \in Computation, NEW d
  PROVE  /\ Clash(r, d) \in Computation
         /\ Clash(r, d).clashed = (r.clashed \/ r.today = d)
         /\ Clash(r, d).today = r.today /\ Clash(r, d).todo = r.todo /\ Clash(r, d).day = r.day
         /\ Clash(r, d).seen = r.seen /\ Clash(r, d).over = r.over /\ Clash(r, d).known = r.known
<1>1. (r.clashed \/ r.today = d) \in BOOLEAN
  BY DEF Computation
<1> DEFINE c == (r.clashed \/ r.today = d)
<1>2. Clash(r, d) = [r EXCEPT !.clashed = c]
  BY DEF Clash
<1> HIDE DEF c
<1>3. c \in BOOLEAN
  BY <1>1 DEF c
<1>4. /\ Clash(r, d) \in Computation /\ Clash(r, d).clashed = c
      /\ Clash(r, d).today = r.today /\ Clash(r, d).todo = r.todo /\ Clash(r, d).day = r.day
      /\ Clash(r, d).seen = r.seen /\ Clash(r, d).over = r.over /\ Clash(r, d).known = r.known
  BY <1>2, <1>3 DEF Computation
<1> QED
  BY <1>4 DEF c

LEMMA NoRecordIsWritten ==
  ASSUME AnalyticsInv, NEW j \in Job, UpsertFails(j)
  PROVE  AnalyticsInv'
<1>1. /\ AnalyticsTypeOK /\ j \in Busy /\ jobs[j].day # None
      /\ UNCHANGED <<now, due, tasks, records, purged, done, settled>>
      /\ Proceed(j, IF jobs[j].op = "precompute" THEN None
                    ELSE Clash(AfterDay(j), jobs[j].day))
  BY DEF AnalyticsInv, UpsertFails
<1>2. CASE jobs[j].op = "precompute"
  BY <1>1, <1>2, JobLetsGo
<1>3. CASE jobs[j].op # "precompute"
  <2> DEFINE step == Clash(AfterDay(j), jobs[j].day)
  <2>1. /\ step \in Computation /\ step.day = None /\ step.over = FALSE
        /\ step.today = jobs[j].today /\ step.todo = jobs[j].todo
        /\ step.known = jobs[j].known
        /\ step.clashed = (jobs[j].clashed \/ jobs[j].today = jobs[j].day)
    <3> DEFINE after == AfterDay(j)
    <3>1. /\ after \in Computation /\ after.day = None /\ after.over = FALSE
          /\ after.today = jobs[j].today /\ after.todo = jobs[j].todo
          /\ after.known = jobs[j].known /\ after.clashed = jobs[j].clashed
      BY <1>1, <1>3, NextDay
    <3> HIDE DEF after
    <3>2. /\ Clash(after, jobs[j].day) \in Computation
          /\ Clash(after, jobs[j].day).clashed = (after.clashed \/ after.today = jobs[j].day)
          /\ Clash(after, jobs[j].day).today = after.today
          /\ Clash(after, jobs[j].day).todo = after.todo
          /\ Clash(after, jobs[j].day).day = after.day
          /\ Clash(after, jobs[j].day).over = after.over
          /\ Clash(after, jobs[j].day).known = after.known
      BY <3>1, Clashes
    <3>3. step = Clash(after, jobs[j].day)
      BY DEF after
    <3> HIDE DEF step
    <3> QED
      BY <3>1, <3>2, <3>3
  <2>2. Proceed(j, step)
    BY <1>1, <1>3
  <2> HIDE DEF step
  <2>3. /\ RangeOf(j) /\ jobs[j].known \subseteq Counted(jobs[j].today)
    BY <1>1, ByJob DEF AnalyticsInv, KeptBy
  <2>4. step.clashed = jobs[j].clashed \/ step.clashed
    BY <1>1, <2>1, Slots
  <2> QED
    BY <1>1, <2>1, <2>2, <2>3, <2>4, JobLetsGo DEF RangeOf
<1> QED
  BY <1>2, <1>3

LEMMA FirstOfRange ==
  ASSUME NEW a \in Int, NEW b \in Int, a .. b # {}
  PROVE  a <= b /\ Min(a .. b) = a /\ (a .. b) \ {a} = a + 1 .. b
<1>1. a <= b
  OBVIOUS
<1>2. a \in a .. b /\ \A y \in a .. b : a <= y
  BY <1>1
<1>3. \A x \in a .. b : (\A y \in a .. b : x <= y) => x = a
  BY <1>2
<1>4. Min(a .. b) = a
  BY <1>2, <1>3 DEF Min
<1>5. (a .. b) \ {a} = a + 1 .. b
  BY <1>1
<1> QED
  BY <1>1, <1>4, <1>5

LEMMA RowsAreRead ==
  ASSUME AnalyticsInv, NEW j \in Job, Read(j)
  PROVE  AnalyticsInv'
<1> DEFINE d == Min(jobs[j].todo)
           r == [jobs[j] EXCEPT !.todo = @ \ {d}, !.day = d, !.seen = Counted(d), !.over = d < Today]
<1>1. /\ AnalyticsTypeOK /\ j \in Busy /\ jobs[j].day = None /\ jobs[j].todo # {}
      /\ jobs' = [k \in Job |->
           IF k = j THEN IF Reading(d) = {} THEN r ELSE Clash(r, d)
           ELSE IF k \in Reading(d) THEN Clash(jobs[k], d) ELSE jobs[k]]
      /\ UNCHANGED <<now, due, tasks, records, purged, done, settled>>
  BY DEF AnalyticsInv, Read
<1>2. /\ \A k \in Busy : k \in Job /\ jobs[k] \in Computation /\ jobs[k].today \in Day
      /\ None \notin Computation /\ None \notin Day
      /\ Today \in Nat /\ LastDay \in Nat
  BY <1>1, Slots, Calendar
<1>3. \A k \in Busy : RangeOf(k) /\ CompleteBy(k) /\ KeptBy(k)
  BY ByJob DEF AnalyticsInv
<1>4. PICK first \in 0 .. LastDay + 1, to \in Day :
        jobs[j].todo = first .. to /\ d = first /\ first <= to /\ jobs[j].todo \ {d} = first + 1 .. to
  BY <1>1, <1>2, <1>3, Calendar, FirstOfRange DEF RangeOf
<1>5. d \in Day /\ d \in Nat /\ first + 1 \in 0 .. LastDay + 1 /\ jobs[j].todo \ {d} \in SUBSET Day
  BY <1>2, <1>4 DEF Day
<1>6. Counted(d) \in SUBSET TaskId /\ (d < Today) \in BOOLEAN
  BY DEF Counted, Rows
<1> HIDE DEF d
<1> DEFINE todo == jobs[j].todo \ {d}
           seen == Counted(d)
           over == d < Today
<1>7. r = [jobs[j] EXCEPT !.todo = todo, !.day = d, !.seen = seen, !.over = over]
  BY <1>1, <1>2 DEF Computation
<1> HIDE DEF todo, seen, over, r
<1>8. /\ r \in Computation /\ r.todo = todo /\ r.day = d /\ r.seen = seen /\ r.over = over
      /\ r.today = jobs[j].today /\ r.known = jobs[j].known /\ r.clashed = jobs[j].clashed
  <2>1. jobs[j] \in Computation /\ todo \in SUBSET Day /\ seen \in SUBSET TaskId /\ over \in BOOLEAN
    BY <1>1, <1>2, <1>5, <1>6 DEF todo, seen, over
  <2> QED
    BY <1>5, <1>7, <2>1 DEF Computation
<1>9. \A k \in Busy :
        LET before == IF k = j THEN r ELSE jobs[k]
        IN /\ jobs'[k] \in Computation
           /\ jobs'[k].today = before.today /\ jobs'[k].todo = before.todo
           /\ jobs'[k].day = before.day /\ jobs'[k].seen = before.seen
           /\ jobs'[k].over = before.over /\ jobs'[k].known = before.known
           /\ ~jobs'[k].clashed => ~before.clashed /\ ~(before.today = d /\ Reading(d) # {} /\ (k = j \/ k \in Reading(d)))
  <2> SUFFICES ASSUME NEW k \in Busy, NEW before, before = IF k = j THEN r ELSE jobs[k]
               PROVE  /\ jobs'[k] \in Computation
                      /\ jobs'[k].today = before.today /\ jobs'[k].todo = before.todo
                      /\ jobs'[k].day = before.day /\ jobs'[k].seen = before.seen
                      /\ jobs'[k].over = before.over /\ jobs'[k].known = before.known
                      /\ ~jobs'[k].clashed => ~before.clashed /\ ~(before.today = d /\ Reading(d) # {} /\ (k = j \/ k \in Reading(d)))
    OBVIOUS
  <2>1. before \in Computation /\ k \in Job
    BY <1>2, <1>8
  <2>2. CASE jobs'[k] = before /\ ~(Reading(d) # {} /\ (k = j \/ k \in Reading(d)))
    BY <2>1, <2>2
  <2>3. CASE jobs'[k] = Clash(before, d)
    <3>1. /\ Clash(before, d) \in Computation
          /\ Clash(before, d).clashed = (before.clashed \/ before.today = d)
          /\ Clash(before, d).today = before.today /\ Clash(before, d).todo = before.todo
          /\ Clash(before, d).day = before.day /\ Clash(before, d).seen = before.seen
          /\ Clash(before, d).over = before.over /\ Clash(before, d).known = before.known
      BY <2>1, Clashes
    <3>2. ~jobs'[k].clashed => ~before.clashed /\ before.today # d
      BY <2>3, <3>1, Zenon
    <3> QED
      BY <2>3, <3>1, <3>2
  <2>4. jobs'[k] = IF k = j THEN IF Reading(d) = {} THEN r ELSE Clash(r, d)
                   ELSE IF k \in Reading(d) THEN Clash(jobs[k], d) ELSE jobs[k]
    BY <1>1, <2>1
  <2> QED
    BY <2>2, <2>3, <2>4
<1>10. Busy' = Busy /\ jobs' \in [Job -> Computation \cup {None}]
  <2>1. \A k \in Job \ Busy : jobs'[k] = None
    BY <1>1 DEF Reading, Busy
  <2> QED
    BY <1>1, <1>2, <1>9, <2>1 DEF Busy
<1>11. \A e \in Day : Reading(e)' = IF e = d THEN Reading(d) \cup {j} ELSE Reading(e)
  <2>1. \A k \in Busy : jobs'[k].day = IF k = j THEN d ELSE jobs[k].day
    BY <1>8, <1>9
  <2> QED
    BY <1>1, <1>2, <1>10, <2>1 DEF Reading
<1>12. /\ Today' = Today /\ Recorded' = Recorded
       /\ \A e : Counted(e)' = Counted(e)
       /\ \A t, e : LeftDay(t, e)' = LeftDay(t, e)
  BY <1>1, RowsStay DEF Recorded
<1>13. /\ jobs'[j].today = jobs[j].today /\ jobs'[j].known = jobs[j].known /\ jobs'[j].todo = todo
       /\ jobs'[j].day = d /\ jobs'[j].seen = seen /\ jobs'[j].over = over
  BY <1>1, <1>8, <1>9
<1>14. \A k \in Busy \ {j} :
        /\ jobs'[k].today = jobs[k].today /\ jobs'[k].known = jobs[k].known /\ jobs'[k].todo = jobs[k].todo
        /\ jobs'[k].day = jobs[k].day /\ jobs'[k].seen = jobs[k].seen /\ jobs'[k].over = jobs[k].over
  BY <1>9
<1>15. ~jobs'[j].clashed => ~jobs[j].clashed /\ ~(jobs[j].today = d /\ Reading(d) # {})
  BY <1>1, <1>8, <1>9
<1>16. \A k \in Busy \ {j} :
        ~jobs'[k].clashed => ~jobs[k].clashed /\ ~(jobs[k].today = d /\ k \in Reading(d))
  BY <1>9
<1>17. \A k \in Busy : RangeOf(k)' /\ CompleteBy(k)'
  <2>1. ASSUME NEW k \in Busy \ {j} PROVE RangeOf(k)' /\ CompleteBy(k)'
    <3>1. /\ jobs'[k].todo = jobs[k].todo /\ jobs'[k].day = jobs[k].day
          /\ jobs'[k].seen = jobs[k].seen /\ jobs'[k].over = jobs[k].over
      BY <1>14
    <3>2. RangeOf(k) /\ CompleteBy(k)
      BY <1>3
    <3>3. RangeOf(k)'
      BY <3>1, <3>2 DEF RangeOf
    <3>4. CompleteBy(k)'
      BY <1>1, <1>12, <3>1, <3>2 DEF CompleteBy
    <3> QED
      BY <3>3, <3>4
  <2>2. RangeOf(j)'
    BY <1>4, <1>5, <1>13 DEF RangeOf, todo
  <2>3. CompleteBy(j)'
    <3>1. over => d \in 0 .. Today - 1
      BY <1>2, <1>5 DEF over
    <3>2. \A t \in done[d] : t \in seen \/ LeftDay(t, d)
      BY <1>5 DEF AnalyticsInv, DoneIsThere, seen
    <3> QED
      BY <1>1, <1>13, <1>12, <3>1, <3>2 DEF CompleteBy
  <2> QED
    BY <2>1, <2>2, <2>3
<1>18. ASSUME NEW k \in Busy PROVE KeptBy(k)'
  <2> SUFFICES ASSUME NEW e, e = jobs[k].today
               PROVE  /\ jobs[k].known \subseteq Counted(e)
                      /\ jobs[k].known # {} /\ e \notin jobs'[k].todo /\ ~jobs'[k].clashed =>
                           /\ jobs'[k].day = e => jobs[k].known \subseteq jobs'[k].seen /\ Reading(e)' = {k}
                           /\ jobs'[k].day # e =>
                                /\ e \in Recorded /\ jobs[k].known \subseteq records[e]
                                /\ \A i \in Reading(e)' : jobs[k].known \subseteq jobs'[i].seen
    <3>1. jobs'[k].today = jobs[k].today /\ jobs'[k].known = jobs[k].known
      BY <1>13, <1>14
    <3> QED
      BY <1>1, <1>12, <3>1 DEF KeptBy
  <2>1. e \in Day /\ jobs[k].known \subseteq Counted(e)
    BY <1>2, <1>3 DEF KeptBy
  <2>2. SUFFICES ASSUME jobs[k].known # {}, e \notin jobs'[k].todo, ~jobs'[k].clashed
                 PROVE  /\ jobs'[k].day = e => jobs[k].known \subseteq jobs'[k].seen /\ Reading(e)' = {k}
                        /\ jobs'[k].day # e =>
                             /\ e \in Recorded /\ jobs[k].known \subseteq records[e]
                             /\ \A i \in Reading(e)' : jobs[k].known \subseteq jobs'[i].seen
    BY <2>1
  <2>3. \A i \in Reading(e) : i \in Busy /\ (i # j => jobs'[i].seen = jobs[i].seen)
    BY <1>14 DEF Reading
  <2>4. jobs'[j].seen = seen /\ jobs'[j].day = d /\ jobs'[j].todo = todo /\ j \notin Reading(e)
    BY <1>1, <1>2, <1>13, <2>1 DEF Reading
  <2>5. CASE k = j /\ e = d
    <3>1. Reading(d) = {}
      BY <1>15, <2>2, <2>5
    <3> QED
      BY <1>5, <1>11, <2>1, <2>4, <2>5, <3>1 DEF seen
  <2>6. CASE k = j /\ e # d
    <3>1. e \notin jobs[j].todo /\ ~jobs[j].clashed /\ jobs[j].day # e
      BY <1>1, <1>2, <1>13, <1>15, <2>1, <2>2, <2>6 DEF todo
    <3>2. /\ e \in Recorded /\ jobs[k].known \subseteq records[e]
          /\ \A i \in Reading(e) : jobs[k].known \subseteq jobs[i].seen
      BY <1>3, <2>2, <2>6, <3>1 DEF KeptBy
    <3> QED
      BY <1>11, <2>1, <2>3, <2>4, <2>6, <3>2
  <2>7. CASE k # j
    <3>1. /\ e \notin jobs[k].todo /\ ~jobs[k].clashed /\ jobs'[k].day = jobs[k].day
          /\ jobs'[k].seen = jobs[k].seen /\ ~(e = d /\ k \in Reading(d))
      BY <1>14, <1>16, <2>2, <2>7
    <3>2. /\ jobs[k].day = e => jobs[k].known \subseteq jobs[k].seen /\ Reading(e) = {k}
          /\ jobs[k].day # e =>
               /\ e \in Recorded /\ jobs[k].known \subseteq records[e]
               /\ \A i \in Reading(e) : jobs[k].known \subseteq jobs[i].seen
      BY <1>3, <2>2, <3>1 DEF KeptBy
    <3>3. CASE jobs[k].day = e
      <4>1. k \in Reading(e)
        BY <3>3 DEF Reading
      <4>2. e # d
        BY <3>1, <4>1
      <4> QED
        BY <1>11, <2>1, <3>1, <3>2, <3>3, <4>2
    <3>4. CASE jobs[k].day # e
      BY <1>11, <2>1, <2>3, <2>4, <3>1, <3>2, <3>4 DEF seen
    <3> QED
      BY <3>3, <3>4
  <2> QED
    BY <2>5, <2>6, <2>7
<1>19. \A k \in Busy' : RangeOf(k)' /\ CompleteBy(k)' /\ KeptBy(k)'
  BY <1>10, <1>17, <1>18
<1> QED
  BY <1>1, <1>10, <1>19, JobsMove

LEMMA RecordIsWritten ==
  ASSUME AnalyticsInv, NEW j \in Job, Upsert(j)
  PROVE  AnalyticsInv'
<1> DEFINE d == jobs[j].day
           seen == jobs[j].seen
           step == AfterDay(j)
<1>1. /\ AnalyticsTypeOK /\ j \in Busy /\ d # None
      /\ records' = [e \in Recorded \cup {d} |-> IF e = d THEN seen ELSE records[e]]
      /\ settled' = IF jobs[j].over THEN settled \cup {d} ELSE settled \ {d}
      /\ Proceed(j, step)
      /\ UNCHANGED <<now, due, tasks, purged, done>>
  BY DEF AnalyticsInv, Upsert
<1>2. /\ \A k \in Busy : k \in Job /\ jobs[k] \in Computation /\ jobs[k].today \in Day
      /\ d \in Day /\ seen \in SUBSET TaskId /\ None \notin Computation /\ None \notin Day
  BY <1>1, Slots, Calendar
<1>3. \A k \in Busy : RangeOf(k) /\ CompleteBy(k) /\ KeptBy(k)
  BY ByJob DEF AnalyticsInv
<1>4. /\ Today' = Today
      /\ \A e : Counted(e)' = Counted(e)
      /\ \A t, e : LeftDay(t, e)' = LeftDay(t, e)
      /\ Rows' = Rows
  BY <1>1, RowsStay
<1>5. /\ step \in Computation \cup {None}
      /\ step # None => /\ step.day = None /\ step.over = FALSE
                        /\ step.today = jobs[j].today /\ step.todo = jobs[j].todo
                        /\ step.known = jobs[j].known /\ step.clashed = jobs[j].clashed
  <2>1. CASE jobs[j].op = "precompute"
    BY <2>1 DEF AfterDay
  <2>2. CASE jobs[j].op # "precompute"
    BY <1>1, <2>2, NextDay
  <2> QED
    BY <2>1, <2>2
<1> HIDE DEF step
<1>6. /\ jobs' \in [Job -> Computation \cup {None}]
      /\ jobs'[j] = step /\ (j \in Busy' <=> step # None)
      /\ \A k \in Busy' \ {j} : k \in Busy /\ jobs'[k] = jobs[k]
      /\ \A e : \A k \in Reading(e) \ {j} : k \in Reading(e)'
      /\ \A e \in Day : \A k \in Reading(e)' : k # j /\ k \in Reading(e)
  BY <1>1, <1>2, <1>5, OneJob
<1>7. j \in Reading(d) /\ \A e : e # d => j \notin Reading(e)
  BY <1>1 DEF Reading
<1>8. /\ Recorded' = Recorded \cup {d} /\ records'[d] = seen
      /\ \A e \in Recorded \ {d} : records'[e] = records[e]
  BY <1>1 DEF Recorded
<1> HIDE DEF d, seen
<1>9. jobs[j].over => d \in 0 .. Today - 1 /\ \A t \in done[d] : t \in seen \/ LeftDay(t, d)
  BY <1>1, <1>3 DEF CompleteBy, d, seen
<1>10. AnalyticsTypeOK'
  <2>1. /\ records' \in [Recorded' -> SUBSET TaskId] /\ Recorded' \subseteq Day
    BY <1>1, <1>2, <1>8 DEF AnalyticsTypeOK
  <2>2. settled' \subseteq Recorded'
    BY <1>1, <1>8 DEF AnalyticsTypeOK
  <2> QED
    BY <1>1, <1>4, <1>6, <2>1, <2>2 DEF AnalyticsTypeOK
<1>11. DoneIsThere'
  BY <1>1, <1>4 DEF DoneIsThere, AnalyticsInv
<1>12. SettledIsPast'
  <2>1. d \in 0 .. Today - 1 => d < Today
    BY <1>1, Calendar
  <2> QED
    BY <1>1, <1>4, <1>9, <2>1 DEF SettledIsPast, AnalyticsInv
<1>13. PastIsCounted'
  <2> SUFFICES ASSUME NEW e \in settled', NEW t \in TaskId, t \in done[e]
               PROVE  t \in records'[e] \/ LeftDay(t, e)
    BY <1>1, <1>4 DEF PastIsCounted, LeftDay
  <2>1. CASE e = d
    BY <1>1, <1>8, <1>9, <2>1
  <2>2. CASE e # d
    <3>1. e \in settled /\ e \in Recorded
      BY <1>1, <2>2 DEF AnalyticsTypeOK
    <3> QED
      BY <1>8, <2>2, <3>1 DEF AnalyticsInv, PastIsCounted, LeftDay
  <2> QED
    BY <2>1, <2>2
<1>14. \A e \in Day : \A k \in Reading(e)' : jobs'[k] = jobs[k]
  BY <1>6 DEF Reading
<1>15. ASSUME NEW k \in Busy' \ {j}
       PROVE  RangeOf(k)' /\ CompleteBy(k)' /\ KeptBy(k)'
  <2>1. k \in Busy /\ jobs'[k] = jobs[k] /\ jobs[k].today \in Day
    BY <1>2, <1>6
  <2>2. RangeOf(k)' /\ CompleteBy(k)'
    BY <1>1, <1>3, <1>4, <2>1 DEF RangeOf, CompleteBy
  <2>3. KeptBy(k)'
    <3> SUFFICES ASSUME NEW e, e = jobs[k].today
                 PROVE  /\ jobs[k].known \subseteq Counted(e)
                        /\ jobs[k].known # {} /\ e \notin jobs[k].todo /\ ~jobs[k].clashed =>
                             /\ jobs[k].day = e => jobs[k].known \subseteq jobs[k].seen /\ Reading(e)' = {k}
                             /\ jobs[k].day # e =>
                                  /\ e \in Recorded' /\ jobs[k].known \subseteq records'[e]
                                  /\ \A i \in Reading(e)' : jobs[k].known \subseteq jobs'[i].seen
      BY <1>4, <2>1 DEF KeptBy
    <3>1. e \in Day
      BY <2>1
    <3>2. jobs[k].day = e => k \in Reading(e)
      BY <2>1 DEF Reading
    <3>3. Reading(e) = {k} => Reading(e)' = {k}
      BY <1>6, <3>1
    <3>4. \A i \in Reading(e)' : i \in Reading(e) /\ jobs'[i].seen = jobs[i].seen
      BY <1>6, <1>14, <3>1
    <3>5. e \in Recorded => e \in Recorded' /\ (e = d => records'[e] = jobs[j].seen)
                                          /\ (e # d => records'[e] = records[e])
      BY <1>8 DEF seen
    <3>6. e = d => j \in Reading(e)
      BY <1>7
    <3> QED
      BY <1>3, <2>1, <3>3, <3>4, <3>5, <3>6 DEF KeptBy
  <2> QED
    BY <2>2, <2>3
<1>16. ASSUME step # None
       PROVE  RangeOf(j)' /\ CompleteBy(j)' /\ KeptBy(j)'
  <2>1. /\ jobs'[j] = step /\ step.today \in Day /\ step.day = None /\ step.over = FALSE
        /\ step.today = jobs[j].today /\ step.todo = jobs[j].todo /\ step.known = jobs[j].known
    BY <1>1, <1>2, <1>5, <1>6, <1>16
  <2>2. RangeOf(j)' /\ CompleteBy(j)'
    BY <1>1, <1>3, <2>1 DEF RangeOf, CompleteBy
  <2>3. KeptBy(j)'
    <3> SUFFICES ASSUME NEW e, e = jobs[j].today
                 PROVE  /\ jobs[j].known \subseteq Counted(e)
                        /\ jobs[j].known # {} /\ e \notin jobs[j].todo /\ ~step.clashed =>
                             /\ e \in Recorded' /\ jobs[j].known \subseteq records'[e]
                             /\ \A i \in Reading(e)' : jobs[j].known \subseteq jobs'[i].seen
      BY <1>2, <1>4, <2>1 DEF KeptBy
    <3>1. jobs[j].known \subseteq Counted(e) /\ e \in Day
      BY <1>1, <1>3, <2>1 DEF KeptBy
    <3>2. SUFFICES ASSUME jobs[j].known # {}, e \notin jobs[j].todo, ~jobs[j].clashed
                   PROVE  /\ e \in Recorded' /\ jobs[j].known \subseteq records'[e]
                          /\ \A i \in Reading(e)' : jobs[j].known \subseteq jobs'[i].seen
      BY <1>5, <1>16, <3>1
    <3>3. CASE e = d
      <4>1. jobs[j].known \subseteq seen /\ Reading(e) = {j}
        BY <1>1, <1>3, <3>2, <3>3 DEF KeptBy, d, seen
      <4> QED
        BY <1>6, <1>8, <3>1, <3>3, <4>1
    <3>4. CASE e # d
      <4>1. /\ e \in Recorded /\ jobs[j].known \subseteq records[e]
            /\ \A i \in Reading(e) : jobs[j].known \subseteq jobs[i].seen
        BY <1>1, <1>3, <3>2, <3>4 DEF KeptBy, d
      <4> QED
        BY <1>6, <1>8, <1>14, <3>1, <3>4, <4>1
    <3> QED
      BY <3>3, <3>4
  <2> QED
    BY <2>2, <2>3
<1>17. \A k \in Busy' : RangeOf(k)' /\ CompleteBy(k)' /\ KeptBy(k)'
  BY <1>6, <1>15, <1>16
<1>18. TodoIsRange' /\ SeenIsComplete' /\ KnownIsKept'
  BY <1>17 DEF TodoIsRange, SeenIsComplete, KnownIsKept, RangeOf, CompleteBy, KeptBy
<1> QED
  BY <1>10, <1>11, <1>12, <1>13, <1>18 DEF AnalyticsInv

LEMMA AnalyticsStep == AnalyticsInv /\ [AnalyticsNext]_analyticsVars => AnalyticsInv'
<1> SUFFICES ASSUME AnalyticsInv, [AnalyticsNext]_analyticsVars PROVE AnalyticsInv'
  OBVIOUS
<1>1. CASE HourPasses \/ Down \/ PurgeCompleted
  BY <1>1, AnHourPasses, TheProcessIsDown, TasksArePurged
<1>2. ASSUME NEW t \in TaskId,
             \/ \E completed \in BOOLEAN : CreateTask(t, completed)
             \/ Complete(t) \/ Reopen(t) \/ EditTask(t) \/ SyncUnchanged(t)
      PROVE  AnalyticsInv'
  BY <1>2, TasksAreWritten, SyncedAnew
<1>3. ASSUME NEW j \in Job,
             \/ Precompute(j)
             \/ \E first \in Today .. LastDay, to \in Today - 1 .. LastDay : GetAnalytics(j, first, to)
             \/ Read(j) \/ Upsert(j) \/ UpsertFails(j) \/ SendAnalytics(j) \/ JobFails(j)
      PROVE  AnalyticsInv'
  BY <1>3, JobsBegin, RowsAreRead, RecordIsWritten, NoRecordIsWritten, JobsEnd
<1>4. CASE UNCHANGED analyticsVars
  BY <1>4 DEF analyticsVars, AnalyticsInv, AnalyticsTypeOK, DoneIsThere, SeenIsComplete,
     SettledIsPast, TodoIsRange, KnownIsKept, PastIsCounted, LeftDay, Counted, Rows, Busy,
     Reading, Recorded, Today
<1> QED
  BY <1>1, <1>2, <1>3, <1>4 DEF AnalyticsNext

-----------------------------------------------------------------------------
\* The rows, the records and what is being computed agree: AnalyticsInv holds
\* however writes, the purge, requests and the hourly job interleave.
THEOREM AnalyticsInvariant == AnalyticsSpec => []AnalyticsInv
<1> QED
  BY InitAnalytics, AnalyticsStep, PTL DEF AnalyticsSpec

\* The record of a day that was computed after it has all that was completed on
\* the day and neither purged nor written again later.
THEOREM PastStaysCounted == AnalyticsSpec => []PastIsCounted
<1>1. AnalyticsInv => PastIsCounted
  BY DEF AnalyticsInv
<1> QED
  BY <1>1, AnalyticsInvariant, PTL

\* GET analytics answers with what was completed today when it was sent, unless
\* another computation of today overlapped or the record was not written.
THEOREM AnswersStayFresh == AnalyticsSpec => []AnswersAreFresh
<1>1. AnalyticsInv => AnswersAreFresh
  <2> SUFFICES ASSUME AnalyticsInv, NEW j \in Job, Answering(j), jobs[j].known # {}, ~jobs[j].clashed
               PROVE  jobs[j].today \in Recorded /\ jobs[j].known \subseteq records[jobs[j].today]
    BY DEF AnswersAreFresh
  <2>1. j \in Busy /\ jobs[j].todo = {} /\ jobs[j].day = None
    BY DEF Answering
  <2>2. jobs[j].day # jobs[j].today
    BY <2>1, Slots, Calendar DEF AnalyticsInv
  <2> QED
    BY <2>1, <2>2 DEF AnalyticsInv, KnownIsKept
<1> QED
  BY <1>1, AnalyticsInvariant, PTL

-----------------------------------------------------------------------------
(* Streaks.  First what stands in for induction: the least element of a    *)
(* set of numbers, steps up to a number, and functions given by recursion. *)

LEMMA LeastNatural ==
  ASSUME NEW S \in SUBSET Nat, S # {}
  PROVE  \E n \in S : \A m \in S : n <= m
<1> DEFINE R == {p \in Nat \X Nat : p[1] < p[2]}
<1>1. OpToRel(<, Nat) = R
  BY DEF OpToRel
<1>2. IsWellFoundedOn(R, Nat)
  BY NatLessThanWellFounded, <1>1
<1>3. \A m, n \in Nat : m < n => <<m, n>> \in R
  OBVIOUS
<1> HIDE DEF R
<1>4. PICK n \in S : \A m \in S : <<m, n>> \notin R
  BY <1>2, WFMin
<1>5. ASSUME NEW m \in S PROVE n <= m
  <2>1. m \in Nat /\ n \in Nat
    OBVIOUS
  <2>2. ~(m < n)
    BY <1>3, <1>4, <2>1
  <2> QED
    BY <2>1, <2>2
<1> QED
  BY <1>5

LEMMA GreatestNatural ==
  ASSUME NEW k \in Nat, NEW S \in SUBSET (0 .. k), S # {}
  PROVE  \E n \in S : \A m \in S : m <= n
<1> DEFINE T == {i \in Nat : k - i \in S}
<1>1. T # {} /\ T \subseteq Nat
  <2>1. PICK s \in S : TRUE
    OBVIOUS
  <2>2. k - s \in Nat /\ k - (k - s) = s
    BY <2>1
  <2>3. k - s \in T
    BY <2>1, <2>2
  <2> QED
    BY <2>3
<1> HIDE DEF T
<1>2. PICK i \in T : \A j \in T : i <= j
  BY <1>1, LeastNatural
<1> USE DEF T
<1>3. k - i \in S
  BY <1>2
<1>4. ASSUME NEW m \in S PROVE m <= k - i
  <2>1. k - m \in Nat /\ k - (k - m) = m
    OBVIOUS
  <2>2. k - m \in T
    BY <2>1
  <2>3. i <= k - m /\ i \in Nat
    BY <1>2, <2>2
  <2> QED
    BY <2>1, <2>3
<1> QED
  BY <1>3, <1>4

LEMMA StepByStep ==
  ASSUME NEW n \in Nat, NEW S, 0 \in S, \A i \in 1 .. n : i - 1 \in S => i \in S
  PROVE  \A i \in 0 .. n : i \in S
<1> DEFINE T == (0 .. n) \ S
<1>1. T \in SUBSET Nat
  OBVIOUS
<1>2. SUFFICES ASSUME T # {} PROVE FALSE
  OBVIOUS
<1> HIDE DEF T
<1>3. PICK i \in T : \A j \in T : i <= j
  BY <1>1, <1>2, LeastNatural
<1> USE DEF T
<1>4. i \in 1 .. n /\ i - 1 \notin T
  BY <1>3
<1> QED
  BY <1>3, <1>4

\* f is what the steps G lead to from b.
Unfolds(f, n, b, G) == f[0] = b /\ \A i \in 1 .. n : f[i] = G[i][f[i - 1]]

LEMMA Recursion ==
  ASSUME NEW S, NEW n \in Nat, NEW b \in S, NEW G \in [1 .. n -> [S -> S]]
  PROVE  \E f \in [0 .. n -> S] : Unfolds(f, n, b, G)
<1> DEFINE Good(k, f) == f \in [0 .. k -> S] /\ f[0] = b /\ \A i \in 1 .. k : f[i] = G[i][f[i - 1]]
           Reached == {k \in 0 .. n : \E f : Good(k, f)}
<1>1. 0 \in Reached
  <2>1. Good(0, [i \in 0 .. 0 |-> b])
    OBVIOUS
  <2> HIDE DEF Good
  <2> QED
    BY <2>1
<1>2. ASSUME NEW k \in 1 .. n, k - 1 \in Reached PROVE k \in Reached
  <2>1. PICK f : Good(k - 1, f)
    BY <1>2
  <2> DEFINE g == [i \in 0 .. k |-> IF i = k THEN G[k][f[k - 1]] ELSE f[i]]
  <2>2. f[k - 1] \in S
    BY <2>1
  <2>3. Good(k, g)
    BY <2>1, <2>2
  <2> HIDE DEF Good, g
  <2> QED
    BY <2>3
<1> HIDE DEF Reached
<1>3. \A k \in 0 .. n : k \in Reached
  BY <1>1, <1>2, StepByStep
<1> USE DEF Reached
<1>4. PICK f : Good(n, f)
  <2>1. n \in Reached
    BY <1>3
  <2> QED
    BY <2>1
<1> QED
  BY <1>4 DEF Unfolds

LEMMA MaxIs ==
  ASSUME NEW S \in SUBSET Int, NEW x \in S, \A y \in S : x >= y
  PROVE  Max(S) = x
<1>1. \A z \in S : (\A y \in S : z >= y) => z = x
  OBVIOUS
<1> QED
  BY <1>1 DEF Max

LEMMA LeadingIs ==
  ASSUME NEW s, NEW S, Len(s) \in Nat, NEW n \in 0 .. Len(s),
         \A i \in 1 .. n : s[i] \in S, n = Len(s) \/ s[n + 1] \notin S
  PROVE  Leading(s, S) = n
<1> DEFINE Is(m) == (\A i \in 1 .. m : s[i] \in S) /\ (m = Len(s) \/ s[m + 1] \notin S)
<1>1. ASSUME NEW m \in 0 .. Len(s), Is(m) PROVE m = n
  <2>1. CASE m < n
    <3>1. m + 1 \in 1 .. n /\ m # Len(s)
      BY <2>1
    <3> QED
      BY <1>1, <3>1
  <2>2. CASE n < m
    <3>1. n + 1 \in 1 .. m /\ n # Len(s)
      BY <2>2
    <3> QED
      BY <1>1, <3>1
  <2> QED
    BY <2>1, <2>2
<1>2. Is(n)
  OBVIOUS
<1> HIDE DEF Is
<1>3. Leading(s, S) = CHOOSE m \in 0 .. Len(s) : Is(m)
  BY DEF Leading, Is
<1> QED
  BY <1>1, <1>2, <1>3

\* Days is what both loops of computeStreaks count to.
Days == LastDay + 1

LEMMA CountedDays ==
  /\ LastDay \in Nat /\ Days \in Nat
  /\ \A n \in 1 .. Days : Back(n) = Days - n /\ Back(n) \in Day
  /\ \A d \in Day : d \in Nat /\ d < Days
BY AnalyticsAssumption DEF Days, Day, Back

NextNewest(n, s) == IF Back(n) \in Recorded THEN Append(s, Back(n)) ELSE s

LEMMA NewestUnfolds ==
  /\ Newest \in [0 .. Days -> Seq(Day)]
  /\ Newest[0] = <<>>
  /\ \A n \in 1 .. Days : Newest[n] = NextNewest(n, Newest[n - 1])
<1> DEFINE S == Seq(Day)
           G == [n \in 1 .. Days |-> [s \in S |-> NextNewest(n, s)]]
<1>1. Days \in Nat /\ <<>> \in S
  BY CountedDays
<1>2. \A n \in 1 .. Days, s \in S : NextNewest(n, s) \in S
  <2> SUFFICES ASSUME NEW n \in 1 .. Days, NEW s \in S PROVE NextNewest(n, s) \in S
    OBVIOUS
  <2>1. Back(n) \in Day
    BY CountedDays
  <2>2. Append(s, Back(n)) \in S
    BY <2>1
  <2> QED
    BY <2>2 DEF NextNewest
<1> HIDE DEF S
<1>3. G \in [1 .. Days -> [S -> S]]
  BY <1>2
<1>4. \A n \in 1 .. Days, s \in S : G[n][s] = NextNewest(n, s)
  OBVIOUS
<1> HIDE DEF G
<1>5. PICK f \in [0 .. Days -> S] : Unfolds(f, Days, <<>>, G)
  BY <1>1, <1>3, Recursion
<1>6. f[0] = <<>> /\ \A n \in 1 .. Days : f[n] = NextNewest(n, f[n - 1])
  <2>1. \A n \in 1 .. Days : f[n - 1] \in S
    BY <1>1
  <2> QED
    BY <1>4, <1>5, <2>1 DEF Unfolds
<1>7. f = [n \in 0 .. Days |-> IF n = 0 THEN <<>> ELSE NextNewest(n, f[n - 1])]
  <2>1. \A n \in 0 .. Days : f[n] = IF n = 0 THEN <<>> ELSE NextNewest(n, f[n - 1])
    BY <1>1, <1>6
  <2> QED
    BY <2>1
<1>8. Newest = [n \in 0 .. Days |-> IF n = 0 THEN <<>> ELSE NextNewest(n, Newest[n - 1])]
  BY <1>7, Zenon DEF Newest, NextNewest, Days
<1>9. Newest[0] = <<>> /\ \A n \in 1 .. Days : Newest[n] = NextNewest(n, Newest[n - 1])
  BY <1>1, <1>8
<1>10. \A n \in 0 .. Days : Newest[n] \in S
  <2> DEFINE T == {n \in 0 .. Days : Newest[n] \in S}
  <2>1. 0 \in T
    BY <1>1, <1>9
  <2>2. \A n \in 1 .. Days : n - 1 \in T => n \in T
    BY <1>1, <1>2, <1>9
  <2> HIDE DEF T
  <2>3. \A n \in 0 .. Days : n \in T
    BY <1>1, <2>1, <2>2, StepByStep
  <2> QED
    BY <2>3 DEF T
<1>11. Newest \in [0 .. Days -> S]
  BY <1>8, <1>10
<1> QED
  BY <1>9, <1>11 DEF S

LEMMA LargerOfTwo ==
  ASSUME NEW a \in Nat, NEW b \in Nat
  PROVE  Larger(a, b) \in {a, b} /\ Larger(a, b) >= a /\ Larger(a, b) >= b
BY DEF Larger

Counting == [run: Nat, longest: Nat]
NextCount(n, c) == IF Back(n) \in Recorded THEN Count(Back(n), c) ELSE c

LEMMA RunsUnfold ==
  /\ Runs \in [0 .. Days -> Counting]
  /\ Runs[0] = [run |-> 0, longest |-> 0]
  /\ \A n \in 1 .. Days : Runs[n] = NextCount(n, Runs[n - 1])
<1> DEFINE zero == [run |-> 0, longest |-> 0]
           G == [n \in 1 .. Days |-> [c \in Counting |-> NextCount(n, c)]]
<1>1. Days \in Nat /\ zero \in Counting
  BY CountedDays DEF Counting
<1>2. \A n \in 1 .. Days, c \in Counting : NextCount(n, c) \in Counting
  BY LargerOfTwo DEF NextCount, Count, Counting
<1>3. G \in [1 .. Days -> [Counting -> Counting]]
  BY <1>2
<1>4. \A n \in 1 .. Days, c \in Counting : G[n][c] = NextCount(n, c)
  OBVIOUS
<1> HIDE DEF G, zero
<1>5. PICK f \in [0 .. Days -> Counting] : Unfolds(f, Days, zero, G)
  BY <1>1, <1>3, Recursion
<1>6. f[0] = zero /\ \A n \in 1 .. Days : f[n] = NextCount(n, f[n - 1])
  <2>1. \A n \in 1 .. Days : f[n - 1] \in Counting
    BY <1>1
  <2> QED
    BY <1>4, <1>5, <2>1 DEF Unfolds
<1>7. f = [n \in 0 .. Days |-> IF n = 0 THEN zero ELSE NextCount(n, f[n - 1])]
  <2>1. \A n \in 0 .. Days : f[n] = IF n = 0 THEN zero ELSE NextCount(n, f[n - 1])
    BY <1>1, <1>6
  <2> QED
    BY <2>1
<1>8. Runs = [n \in 0 .. Days |-> IF n = 0 THEN zero ELSE NextCount(n, Runs[n - 1])]
  BY <1>7, Zenon DEF Runs, NextCount, Days, zero
<1>9. Runs[0] = zero /\ \A n \in 1 .. Days : Runs[n] = NextCount(n, Runs[n - 1])
  BY <1>1, <1>8
<1>10. \A n \in 0 .. Days : Runs[n] \in Counting
  <2> DEFINE T == {n \in 0 .. Days : Runs[n] \in Counting}
  <2>1. 0 \in T
    BY <1>1, <1>9
  <2>2. \A n \in 1 .. Days : n - 1 \in T => n \in T
    BY <1>1, <1>2, <1>9
  <2> HIDE DEF T
  <2>3. \A n \in 0 .. Days : n \in T
    BY <1>1, <2>1, <2>2, StepByStep
  <2> QED
    BY <2>3 DEF T
<1>11. Runs \in [0 .. Days -> Counting]
  BY <1>8, <1>10
<1> QED
  BY <1>9, <1>11 DEF zero

\* What is recorded is the days from lo to hi.
From(lo, hi) == lo \in Day /\ hi \in Day /\ lo <= hi /\ Recorded = lo .. hi

LEMMA RecordedIsRange ==
  ASSUME Recorded \subseteq Day, Recorded # {}, NoGaps
  PROVE  \E lo, hi \in Day : From(lo, hi)
<1>1. Day = 0 .. LastDay /\ LastDay \in Nat
  BY CountedDays DEF Day
<1>2. PICK lo \in Recorded : \A d \in Recorded : lo <= d
  BY <1>1, LeastNatural
<1>3. PICK hi \in Recorded : \A d \in Recorded : d <= hi
  BY <1>1, GreatestNatural
<1>4. lo \in Day /\ hi \in Day /\ lo <= hi /\ Recorded \subseteq lo .. hi
  BY <1>1, <1>2, <1>3
<1>5. ASSUME NEW d \in lo .. hi PROVE d \in Recorded
  <2>1. d \in Day /\ ~(hi < d) /\ ~(d < lo)
    BY <1>1, <1>4
  <2> QED
    BY <1>2, <1>3, <2>1 DEF NoGaps
<1> QED
  BY <1>4, <1>5 DEF From

\* The records of the first n days of the calendar backwards are those of hi
\* down to the later of lo and Days - n.
LEMMA NewestIsDown ==
  ASSUME NEW lo, NEW hi, From(lo, hi)
  PROVE  /\ NewestFirst \in Seq(Day)
         /\ Len(NewestFirst) = hi - lo + 1
         /\ \A i \in 1 .. hi - lo + 1 : NewestFirst[i] = hi + 1 - i
<1>1. lo \in Nat /\ hi \in Nat /\ lo <= hi /\ hi < Days /\ Days \in Nat
  BY CountedDays DEF From
<1> DEFINE length(n) == IF hi < Days - n THEN 0 ELSE hi + 1 - Larger(Days - n, lo)
           Is(n) == Len(Newest[n]) = length(n) /\ \A i \in 1 .. length(n) : Newest[n][i] = hi + 1 - i
           T == {n \in 0 .. Days : Is(n)}
<1>2. 0 \in T
  BY <1>1, NewestUnfolds
<1>3. ASSUME NEW n \in 1 .. Days, n - 1 \in T PROVE n \in T
  <2>1. n - 1 \in 0 .. Days /\ n \in 0 .. Days /\ Days - n \in Nat /\ Days - (n - 1) = Days - n + 1
    BY <1>1
  <2>2. Newest[n - 1] \in Seq(Day) /\ Newest[n] = NextNewest(n, Newest[n - 1]) /\ Back(n) = Days - n
    BY <2>1, NewestUnfolds, CountedDays
  <2>3. CASE Days - n \in lo .. hi
    <3>1. Newest[n] = Append(Newest[n - 1], Days - n)
      BY <2>2, <2>3 DEF NextNewest, From
    <3>2. length(n) = length(n - 1) + 1 /\ length(n) = hi + 1 - (Days - n) /\ length(n - 1) \in Nat
      BY <1>1, <2>1, <2>3 DEF Larger
    <3>3. Len(Newest[n]) = length(n)
      BY <1>3, <2>2, <3>1, <3>2
    <3>4. ASSUME NEW i \in 1 .. length(n) PROVE Newest[n][i] = hi + 1 - i
      <4>1. CASE i = length(n)
        BY <1>1, <1>3, <2>1, <2>2, <3>1, <3>2, <4>1
      <4>2. CASE i # length(n)
        <5>1. i \in 1 .. length(n - 1)
          BY <3>2, <4>2
        <5> QED
          BY <1>3, <2>2, <3>1, <5>1
      <4> QED
        BY <4>1, <4>2
    <3> QED
      BY <2>1, <3>3, <3>4
  <2>4. CASE Days - n \notin lo .. hi
    <3>1. Newest[n] = Newest[n - 1]
      BY <2>2, <2>4 DEF NextNewest, From
    <3>2. length(n) = length(n - 1)
      BY <1>1, <2>1, <2>4 DEF Larger
    <3> QED
      BY <1>3, <2>1, <3>1, <3>2
  <2> QED
    BY <2>3, <2>4
<1> HIDE DEF T
<1>4. \A n \in 0 .. Days : n \in T
  BY <1>1, <1>2, <1>3, StepByStep
<1>5. Days \in T
  BY <1>1, <1>4
<1>6. length(Days) = hi - lo + 1
  BY <1>1 DEF Larger
<1>7. Newest[Days] \in Seq(Day)
  BY <1>1, NewestUnfolds
<1>8. NewestFirst = Newest[Days]
  BY DEF NewestFirst, Days
<1>9. Is(Days)
  BY <1>5 DEF T
<1> HIDE DEF length
<1> QED
  BY <1>6, <1>7, <1>8, <1>9

\* a to b is a run of days in S.
RunIn(S, a, b) == a \in Day /\ b \in Day /\ a <= b /\ \A d \in a .. b : d \in S

LEMMA RunsHaveLengths ==
  ASSUME NEW S, NEW ends \in SUBSET Day
  PROVE  /\ RunLengths(S, ends) \subseteq Nat
         /\ \A x \in RunLengths(S, ends) :
              \E a, b \in Day : RunIn(S, a, b) /\ b \in ends /\ x = b - a + 1
         /\ \A a, b \in Day : RunIn(S, a, b) /\ b \in ends => b - a + 1 \in RunLengths(S, ends)
<1> DEFINE Pairs == {q \in Day \X ends : q[1] <= q[2] /\ q[1] .. q[2] \subseteq S}
<1>1. RunLengths(S, ends) = {p[2] - p[1] + 1 : p \in Pairs}
  BY DEF RunLengths
<1>2. \A p \in Pairs : p[1] \in Day /\ p[2] \in ends /\ RunIn(S, p[1], p[2])
  BY DEF RunIn
<1>3. \A a, b \in Day : RunIn(S, a, b) /\ b \in ends => <<a, b>> \in Pairs
  BY DEF RunIn
<1> HIDE DEF Pairs
<1>4. \A x \in RunLengths(S, ends) : \E a, b \in Day : RunIn(S, a, b) /\ b \in ends /\ x = b - a + 1
  BY <1>1, <1>2
<1>5. \A a, b \in Day : RunIn(S, a, b) /\ b \in ends => b - a + 1 \in RunLengths(S, ends)
  <2> SUFFICES ASSUME NEW a \in Day, NEW b \in Day, RunIn(S, a, b), b \in ends
               PROVE  b - a + 1 \in RunLengths(S, ends)
    OBVIOUS
  <2>1. <<a, b>> \in Pairs
    BY <1>3
  <2>2. <<a, b>>[2] - <<a, b>>[1] + 1 = b - a + 1
    OBVIOUS
  <2> QED
    BY <1>1, <2>1, <2>2
<1>6. RunLengths(S, ends) \subseteq Nat
  BY <1>4, CountedDays DEF RunIn
<1> QED
  BY <1>4, <1>5, <1>6

\* After the records of d and later days the loop is in a run that begins at
\* start, the later of lo and d, and has seen none that is longer than both of
\* its counts.
Bounded(d, c) ==
  \A a, b \in Day : RunIn(Active, a, b) /\ d <= a => b - a + 1 <= c.longest \/ b - a + 1 <= c.run
Begins(start, c) ==
  /\ \A e \in start .. start + c.run - 1 : e \in Active
  /\ start + c.run \notin Active
Attained(c) == c.longest = 0 \/ \E a, b \in Day : RunIn(Active, a, b) /\ c.longest = b - a + 1
Sound(lo, d, c) == Bounded(d, c) /\ Begins(Larger(d, lo), c) /\ Attained(c)

LEMMA CountKeeps ==
  ASSUME NEW lo, NEW hi, From(lo, hi), NEW n \in 1 .. Days, NEW c \in Counting,
         Sound(lo, Days - n + 1, c)
  PROVE  Sound(lo, Days - n, NextCount(n, c))
<1> DEFINE d == Days - n
           after == NextCount(n, c)
<1>1. /\ lo \in Nat /\ hi \in Nat /\ lo <= hi /\ hi < Days /\ Days \in Nat /\ Recorded = lo .. hi
      /\ d \in Day /\ d \in Nat /\ Back(n) = d /\ Day \subseteq Nat /\ Active \subseteq lo .. hi
      /\ c.run \in Nat /\ c.longest \in Nat
  BY CountedDays DEF From, Active, Counting
<1>2. Bounded(d + 1, c) /\ Begins(Larger(d + 1, lo), c) /\ Attained(c)
  BY DEF Sound
<1>3. \A a, b \in Day : RunIn(Active, a, b) /\ d <= a => a = d \/ d + 1 <= a
  BY <1>1
<1>4. CASE d \in Active
  <2>1. after.run = c.run + 1 /\ after.longest = c.longest
    BY <1>1, <1>4 DEF NextCount, Count
  <2>2. Larger(d + 1, lo) = d + 1 /\ Larger(d, lo) = d
    BY <1>1, <1>4 DEF Larger
  <2>3. (\A e \in d + 1 .. d + c.run : e \in Active) /\ d + 1 + c.run \notin Active
    BY <1>1, <1>2, <2>2 DEF Begins
  <2>4. Begins(d, after)
    BY <1>1, <1>4, <2>1, <2>3 DEF Begins
  <2>5. ASSUME NEW a \in Day, NEW b \in Day, RunIn(Active, a, b), d <= a
        PROVE  b - a + 1 <= after.longest \/ b - a + 1 <= after.run
    <3>1. CASE a = d
      <4>1. d + 1 + c.run \notin a .. b
        BY <2>3, <2>5 DEF RunIn
      <4> QED
        BY <1>1, <2>1, <3>1, <4>1
    <3>2. CASE d + 1 <= a
      BY <1>1, <1>2, <2>1, <2>5, <3>2 DEF Bounded
    <3> QED
      BY <1>3, <2>5, <3>1, <3>2
  <2> QED
    BY <1>2, <2>1, <2>2, <2>4, <2>5 DEF Sound, Bounded, Attained
<1>5. CASE d \notin Active
  <2>1. \A a, b \in Day : RunIn(Active, a, b) => a # d
    BY <1>1, <1>5 DEF RunIn
  <2>2. CASE d \in lo .. hi
    <3>1. after.run = 0 /\ after.longest = Larger(c.longest, c.run)
      BY <1>1, <1>5, <2>2 DEF NextCount, Count
    <3>2. Larger(d + 1, lo) = d + 1 /\ Larger(d, lo) = d
      BY <1>1, <2>2 DEF Larger
    <3>3. Begins(d, after)
      BY <1>1, <1>5, <3>1 DEF Begins
    <3>4. Bounded(d, after)
      BY <1>1, <1>2, <1>3, <2>1, <3>1, LargerOfTwo DEF Bounded
    <3>5. Attained(after)
      <4>1. CASE after.longest = c.longest \/ c.run = 0
        BY <1>1, <1>2, <3>1, <4>1, LargerOfTwo DEF Attained
      <4>2. CASE after.longest = c.run /\ c.run # 0
        <5>1. \A e \in d + 1 .. d + c.run : e \in Active
          BY <1>1, <1>2, <3>2 DEF Begins
        <5>2. d + 1 \in Active /\ d + c.run \in Active
          BY <1>1, <4>2, <5>1
        <5>3. d + 1 \in Day /\ d + c.run \in Day
          <6>1. d + 1 \in lo .. hi /\ d + c.run \in lo .. hi
            BY <1>1, <5>2
          <6> QED
            BY <1>1, <6>1, CountedDays DEF From, Day
        <5>4. RunIn(Active, d + 1, d + c.run) /\ (d + c.run) - (d + 1) + 1 = c.run
          BY <1>1, <4>2, <5>1, <5>3 DEF RunIn
        <5> QED
          BY <4>2, <5>3, <5>4 DEF Attained
      <4> QED
        BY <1>1, <3>1, <4>1, <4>2, LargerOfTwo
    <3> QED
      BY <3>2, <3>3, <3>4, <3>5 DEF Sound
  <2>3. CASE d \notin lo .. hi
    <3>1. after = c
      BY <1>1, <2>3 DEF NextCount
    <3>2. Bounded(d, c)
      BY <1>2, <1>3, <2>1 DEF Bounded
    <3>3. Begins(Larger(d, lo), c)
      <4>1. CASE d < lo
        <5>1. Larger(d, lo) = lo /\ Larger(d + 1, lo) = lo
          BY <1>1, <4>1 DEF Larger
        <5> QED
          BY <1>2, <5>1
      <4>2. CASE hi < d
        <5>1. Larger(d, lo) = d /\ Larger(d + 1, lo) = d + 1
          BY <1>1, <4>2 DEF Larger
        <5>2. c.run = 0
          BY <1>1, <1>2, <4>2, <5>1 DEF Begins
        <5> QED
          BY <1>1, <1>5, <5>1, <5>2 DEF Begins
      <4> QED
        BY <1>1, <2>3, <4>1, <4>2
    <3> QED
      BY <1>2, <3>1, <3>2, <3>3 DEF Sound
  <2> QED
    BY <2>2, <2>3
<1> QED
  BY <1>4, <1>5

LEMMA LongestIsLongest ==
  ASSUME NEW lo, NEW hi, From(lo, hi)
  PROVE  Longest = LongestRun(Active)
<1>1. /\ lo \in Nat /\ hi \in Nat /\ lo <= hi /\ hi < Days /\ Days \in Nat /\ Recorded = lo .. hi
      /\ Active \subseteq lo .. hi /\ Day \subseteq Nat
  BY CountedDays DEF From, Active
<1> DEFINE T == {n \in 0 .. Days : Sound(lo, Days - n, Runs[n])}
<1>2. 0 \in T
  <2>1. Runs[0].run = 0 /\ Runs[0].longest = 0
    BY RunsUnfold
  <2>2. Bounded(Days, Runs[0])
    <3>1. \A a \in Day : a \in Nat /\ a < Days
      BY CountedDays
    <3>2. \A a \in Day : ~(Days <= a)
      BY <1>1, <3>1
    <3> QED
      BY <3>2 DEF Bounded
  <2>3. Larger(Days, lo) = Days
    BY <1>1 DEF Larger
  <2>4. Begins(Days, Runs[0])
    BY <1>1, <2>1 DEF Begins
  <2>5. Sound(lo, Days, Runs[0])
    BY <2>1, <2>2, <2>3, <2>4 DEF Sound, Attained
  <2> QED
    BY <1>1, <2>5
<1>3. ASSUME NEW n \in 1 .. Days, n - 1 \in T PROVE n \in T
  <2>1. n - 1 \in 0 .. Days /\ n \in 0 .. Days /\ Days - (n - 1) = Days - n + 1
    BY <1>1
  <2>2. Runs[n - 1] \in Counting /\ Runs[n] = NextCount(n, Runs[n - 1])
    BY <2>1, RunsUnfold
  <2>3. Sound(lo, Days - n + 1, Runs[n - 1])
    BY <1>3, <2>1
  <2>4. Sound(lo, Days - n, Runs[n])
    BY <2>2, <2>3, CountKeeps
  <2> QED
    BY <2>1, <2>4
<1> HIDE DEF T
<1>4. \A n \in 0 .. Days : n \in T
  BY <1>1, <1>2, <1>3, StepByStep
<1>5. Counts \in Counting /\ Sound(lo, 0, Counts)
  <2>1. Days \in T /\ Days - Days = 0 /\ Days \in 0 .. Days
    BY <1>1, <1>4
  <2>2. Counts = Runs[Days]
    BY DEF Counts, Days
  <2> QED
    BY <2>1, <2>2, RunsUnfold DEF T
<1>6. Counts.run \in Nat /\ Counts.longest \in Nat /\ Larger(0, lo) = lo
  BY <1>1, <1>5 DEF Counting, Larger
<1>7. Longest \in {Counts.run, Counts.longest} /\ Longest >= Counts.run /\ Longest >= Counts.longest
  BY <1>6, LargerOfTwo DEF Longest
<1> DEFINE lengths == {0} \cup RunLengths(Active, Day)
<1>8. lengths \subseteq Nat
  BY RunsHaveLengths
<1>9. \A x \in lengths : Longest >= x
  <2> SUFFICES ASSUME NEW x \in RunLengths(Active, Day) PROVE Longest >= x
    BY <1>6, <1>7
  <2>1. PICK a, b \in Day : RunIn(Active, a, b) /\ x = b - a + 1
    BY RunsHaveLengths
  <2>2. x <= Counts.longest \/ x <= Counts.run
    BY <1>1, <1>5, <2>1 DEF Sound, Bounded
  <2> QED
    BY <1>6, <1>7, <1>8, <2>2
<1>10. Longest \in lengths
  <2>1. CASE Longest = 0
    BY <2>1
  <2>2. CASE Longest # 0 /\ Longest = Counts.longest
    BY <1>5, <2>2, RunsHaveLengths DEF Sound, Attained
  <2>3. CASE Longest # 0 /\ Longest = Counts.run
    <3>1. \A e \in lo .. lo + Counts.run - 1 : e \in Active
      BY <1>5, <1>6 DEF Sound, Begins
    <3>2. lo \in Active /\ lo + Counts.run - 1 \in Active
      BY <1>1, <1>6, <2>3, <3>1
    <3>3. lo \in Day /\ lo + Counts.run - 1 \in Day
      <4>1. lo \in lo .. hi /\ lo + Counts.run - 1 \in lo .. hi
        BY <1>1, <3>2
      <4> QED
        BY <1>1, <4>1, CountedDays DEF From, Day
    <3>4. RunIn(Active, lo, lo + Counts.run - 1) /\ (lo + Counts.run - 1) - lo + 1 = Counts.run
      BY <1>1, <1>6, <2>3, <3>1, <3>3 DEF RunIn
    <3> QED
      BY <2>3, <3>3, <3>4, RunsHaveLengths
  <2> QED
    BY <1>7, <2>1, <2>2, <2>3
<1> HIDE DEF lengths
<1>11. Max(lengths) = Longest
  BY <1>8, <1>9, <1>10, MaxIs
<1> QED
  BY <1>11 DEF LongestRun, lengths

\* The leading records without completions are those after the last with some.
LEMMA ColdDaysAre ==
  ASSUME NEW lo, NEW hi, From(lo, hi), NEW n \in 0 .. hi - lo + 1,
         \A d \in hi - n + 1 .. hi : d \notin Active, n = hi - lo + 1 \/ hi - n \in Active
  PROVE  ColdDays = n
<1>1. lo \in Nat /\ hi \in Nat /\ lo <= hi /\ Recorded = lo .. hi /\ n \in Nat
  BY CountedDays DEF From
<1>2. Len(NewestFirst) = hi - lo + 1 /\ \A i \in 1 .. hi - lo + 1 : NewestFirst[i] = hi + 1 - i
  BY NewestIsDown
<1>3. ASSUME NEW i \in 1 .. n PROVE NewestFirst[i] \in Recorded \ Active
  <2>1. i \in 1 .. hi - lo + 1 /\ hi + 1 - i \in lo .. hi /\ hi + 1 - i \in hi - n + 1 .. hi
    BY <1>1
  <2> QED
    BY <1>1, <1>2, <2>1
<1>4. n = Len(NewestFirst) \/ NewestFirst[n + 1] \notin Recorded \ Active
  <2>1. CASE n = hi - lo + 1
    BY <1>2, <2>1
  <2>2. CASE n # hi - lo + 1
    <3>1. n + 1 \in 1 .. hi - lo + 1 /\ hi + 1 - (n + 1) = hi - n
      BY <1>1, <2>2
    <3> QED
      BY <1>2, <2>2, <3>1
  <2> QED
    BY <2>1, <2>2
<1>5. Len(NewestFirst) \in Nat /\ n \in 0 .. Len(NewestFirst)
  BY <1>1, <1>2
<1>6. Leading(NewestFirst, Recorded \ Active) = n
  BY <1>3, <1>4, <1>5, LeadingIs
<1> QED
  BY <1>6 DEF ColdDays

LEMMA CurrentIsCurrent ==
  ASSUME NEW lo, NEW hi, From(lo, hi)
  PROVE  Current = IF Active = {} \/ Max(Recorded) - Max(Active) >= GRACE_DAYS THEN 0
                   ELSE Max(RunLengths(Active, {Max(Active)}))
<1>1. /\ lo \in Nat /\ hi \in Nat /\ lo <= hi /\ hi < Days /\ Recorded = lo .. hi
      /\ Active \subseteq lo .. hi /\ Day \subseteq Nat /\ lo .. hi \subseteq Day
  BY CountedDays DEF From, Active, Day
<1>2. /\ NewestFirst \in Seq(Day) /\ Len(NewestFirst) = hi - lo + 1
      /\ \A i \in 1 .. hi - lo + 1 : NewestFirst[i] = hi + 1 - i
  BY NewestIsDown
<1> DEFINE rest == SubSeq(NewestFirst, ColdDays + 1, Len(NewestFirst))
<1>3. CASE Active = {}
  <2>1. ColdDays = hi - lo + 1
    BY <1>1, <1>3, ColdDaysAre
  <2>2. Len(rest) = 0
    BY <1>1, <1>2, <2>1
  <2> HIDE DEF rest
  <2>3. Leading(rest, Active) = 0
    <3>1. Len(rest) \in Nat /\ 0 \in 0 .. Len(rest) /\ 0 = Len(rest) /\ \A i \in 1 .. 0 : rest[i] \in Active
      BY <2>2
    <3> QED
      BY <3>1, LeadingIs
  <2> QED
    BY <1>3, <2>3 DEF Current, rest
<1>4. CASE Active # {}
  <2>1. PICK last \in Active : \A d \in Active : d <= last
    <3>1. Active \in SUBSET (0 .. hi)
      BY <1>1
    <3> QED
      BY <1>1, <1>4, <3>1, GreatestNatural
  <2>2. last \in lo .. hi /\ last \in Nat /\ last \in Day
    BY <1>1
  <2>3. Max(Active) = last
    BY <1>1, <2>1, MaxIs
  <2>4. Max(Recorded) = hi
    <3>1. Recorded \in SUBSET Int /\ hi \in Recorded /\ \A d \in Recorded : hi >= d
      BY <1>1
    <3> QED
      BY <3>1, MaxIs
  <2>5. ColdDays = hi - last
    <3>1. hi - last \in 0 .. hi - lo + 1 /\ hi - (hi - last) = last
      BY <1>1, <2>2
    <3>2. ASSUME NEW d \in hi - (hi - last) + 1 .. hi PROVE d \notin Active
      BY <1>1, <2>1, <2>2
    <3> QED
      BY <3>1, <3>2, ColdDaysAre
  <2> DEFINE Streak == {d \in lo .. last : d .. last \subseteq Active}
  <2>6. last \in Streak /\ Streak \subseteq Nat
    BY <1>1, <2>2
  <2>7. PICK first \in Streak : \A d \in Streak : first <= d
    BY <2>6, LeastNatural
  <2>8. first \in lo .. last /\ first \in Day /\ first \in Nat /\ first .. last \subseteq Active
    BY <1>1, <2>2
  <2>9. \A d \in lo .. last : d .. last \subseteq Active => first <= d
    BY <2>7
  <2> HIDE DEF Streak
  <2> DEFINE n == last - first + 1
  <2>10. n \in Nat /\ n \in 0 .. last - lo + 1
    BY <1>1, <2>2, <2>8
  <2>11. Leading(rest, Active) = n
    <3>1. /\ Len(rest) = last - lo + 1
          /\ \A i \in 1 .. last - lo + 1 : rest[i] = last + 1 - i
      <4>1. Len(rest) = last - lo + 1
        BY <1>1, <1>2, <2>2, <2>5
      <4>2. ASSUME NEW i \in 1 .. last - lo + 1 PROVE rest[i] = last + 1 - i
        <5>1. i + (hi - last) \in 1 .. hi - lo + 1 /\ hi + 1 - (i + (hi - last)) = last + 1 - i
          BY <1>1, <2>2
        <5>2. rest[i] = NewestFirst[i + (hi - last)]
          BY <1>1, <1>2, <2>2, <2>5
        <5> QED
          BY <1>2, <5>1, <5>2
      <4> QED
        BY <4>1, <4>2
    <3> HIDE DEF rest
    <3>2. ASSUME NEW i \in 1 .. n PROVE rest[i] \in Active
      <4>1. i \in 1 .. last - lo + 1 /\ last + 1 - i \in first .. last
        BY <1>1, <2>2, <2>8
      <4> QED
        BY <2>8, <3>1, <4>1
    <3>3. n = Len(rest) \/ rest[n + 1] \notin Active
      <4>1. SUFFICES ASSUME first # lo PROVE rest[n + 1] \notin Active
        BY <1>1, <2>2, <2>8, <3>1
      <4>2. n + 1 \in 1 .. last - lo + 1 /\ last + 1 - (n + 1) = first - 1 /\ first - 1 \in lo .. last
        BY <1>1, <2>2, <2>8, <4>1
      <4>3. SUFFICES ASSUME first - 1 \in Active PROVE FALSE
        BY <3>1, <4>2
      <4>4. first - 1 .. last \subseteq Active
        <5>1. \A d \in first - 1 .. last : d = first - 1 \/ d \in first .. last
          BY <2>2, <2>8
        <5> QED
          BY <2>8, <4>3, <5>1
      <4>5. first <= first - 1
        BY <2>9, <4>2, <4>4
      <4> QED
        BY <2>8, <4>5
    <3>4. Len(rest) \in Nat /\ n \in 0 .. Len(rest)
      BY <1>1, <2>2, <2>10, <3>1
    <3> HIDE DEF n
    <3> QED
      BY <3>2, <3>3, <3>4, LeadingIs
  <2>12. Max(RunLengths(Active, {last})) = n
    <3>1. n \in RunLengths(Active, {last})
      <4>1. RunIn(Active, first, last)
        BY <2>2, <2>8 DEF RunIn
      <4> QED
        BY <2>2, <2>8, <4>1, RunsHaveLengths
    <3>2. ASSUME NEW x \in RunLengths(Active, {last}) PROVE n >= x
      <4>1. PICK a, b \in Day : RunIn(Active, a, b) /\ b \in {last} /\ x = b - a + 1
        BY <2>2, RunsHaveLengths
      <4>2. a \in Active /\ a \in Nat /\ a <= last /\ a .. last \subseteq Active
        BY <1>1, <4>1 DEF RunIn
      <4>3. first <= a
        BY <1>1, <2>2, <2>9, <4>2
      <4> QED
        BY <2>2, <2>8, <4>1, <4>2, <4>3
    <3>3. {last} \in SUBSET Day
      BY <2>2
    <3>4. RunLengths(Active, {last}) \subseteq Nat
      BY <3>3, RunsHaveLengths
    <3>5. RunLengths(Active, {last}) \in SUBSET Int
      BY <3>4
    <3> HIDE DEF n
    <3> QED
      BY <3>1, <3>2, <3>5, MaxIs
  <2> HIDE DEF rest, n
  <2>13. Current = IF hi - last >= GRACE_DAYS THEN 0 ELSE n
    BY <2>5, <2>11 DEF Current, rest
  <2> QED
    BY <1>4, <2>3, <2>4, <2>12, <2>13
<1> QED
  BY <1>3, <1>4

LEMMA StreaksOfRecords == Recorded \subseteq Day => StreaksAreDays
<1> SUFFICES ASSUME Recorded \subseteq Day, Recorded # {}, NoGaps
             PROVE  /\ Longest = LongestRun(Active)
                    /\ Current = IF Active = {} \/ Max(Recorded) - Max(Active) >= GRACE_DAYS THEN 0
                                 ELSE Max(RunLengths(Active, {Max(Active)}))
  BY DEF StreaksAreDays
<1>1. PICK lo, hi \in Day : From(lo, hi)
  BY RecordedIsRange
<1> QED
  BY <1>1, LongestIsLongest, CurrentIsCurrent

\* The longest and the current streak, which a loop counts record by record,
\* are those of the calendar as long as no day is missing between two records.
THEOREM StreaksFollowDays == AnalyticsSpec => []StreaksAreDays
<1>1. AnalyticsInv => Recorded \subseteq Day
  BY DEF AnalyticsInv, AnalyticsTypeOK, Recorded
<1>2. AnalyticsInv => StreaksAreDays
  BY <1>1, StreaksOfRecords
<1> QED
  BY <1>2, AnalyticsInvariant, PTL

=============================================================================
