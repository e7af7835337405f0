----------------------------- MODULE TaskitiSync -----------------------------
(***************************************************************************)
(* The tasks of one Taskiti user and the devices that keep copies of them. *)
(* A device works offline and syncs: POST /tasks/sync pushes what it has   *)
(* edited or deleted and answers what changed since the device's           *)
(* last_sync_at.  Online it may use POST, PATCH and DELETE /tasks instead. *)
(* An answer may be lost, so that the device does not learn of its write.  *)
(* Every step is one database statement of the handler; what the handler   *)
(* has read before is carried from one to the next.                        *)
(*                                                                         *)
(* The devices are not in this repository.  What they do is taken from the *)
(* contract: an offline edit raises the version by one, the sync_at of an  *)
(* answer is the next last_sync_at, and a conflict is resolved by showing  *)
(* the server's task.  Rows of other users are skipped or refused by the   *)
(* code before any write, and are left out; so are the pages of a long     *)
(* answer.  The fields of a task are one content.                          *)
(***************************************************************************)
EXTENDS Naturals, FiniteSetsExt

CONSTANTS
  Task,      \* ids, generated by the devices
  Device,    \* devices of the user, with at most one request under way each
  Content,   \* what the fields of a task may say
  Completed, \* the contents in which completed is true
  MaxClock   \* bound on the server's clock, in ticks of its resolution

ASSUME TaskitiAssumption ==
  Completed \subseteq Content /\ Content # {} /\ MaxClock \in Nat \ {0}

VARIABLES
  clock,     \* what new Date() returns
  row,       \* [Task -> the taskiti_tasks row]
  copy,      \* [Device -> [Task -> the device's copy]]
  lastSync,  \* [Device -> the last_sync_at it will send]
  request,   \* [Device -> the request under way]
  disturbed  \* history: tasks whose row was written behind another's back

server == <<clock, row>>
devices == <<copy, lastSync>>
vars == <<clock, row, copy, lastSync, request, disturbed>>

-----------------------------------------------------------------------------
Anything == CHOOSE c \in Content : TRUE
Row == [state: {"absent", "live", "deleted"}, version: Nat, content: Content, updated: Nat]
Absent == [state |-> "absent", version |-> 0, content |-> Anything, updated |-> 0]
There(r) == r.state # "absent"

\* "edited" and "dropped" copies have changes to push.
Copy == [state: {"none", "clean", "gone", "edited", "dropped"}, version: Nat, content: Content]
NoCopy == [state |-> "none", version |-> 0, content |-> Anything]
CopyOf(r) ==
  [state |-> CASE r.state = "live" -> "clean" [] r.state = "deleted" -> "gone" [] OTHER -> "none",
   version |-> r.version, content |-> r.content]
Dirty(d, t) == copy[d][t].state \in {"edited", "dropped"}

Step == {"idle", "patch", "delete", "sync.read", "sync.commit", "sync.pull"}

\* now: the date the handler of a sync took; of a PATCH or DELETE, which dates its
\* write after its read, when it read.  read: the rows as it found them.
\* sent: the task of a PATCH or DELETE, the tasks a sync pushes or deletes.
Request == [step: Step, now: Nat, read: [Task -> Row], sent: SUBSET Task, content: Content]
Idle == [step |-> "idle", now |-> 0, read |-> [t \in Task |-> Absent],
         sent |-> {}, content |-> Anything]
Become(d, r) == request' = [request EXCEPT ![d] = r]
Only(d) == CHOOSE t \in Task : request[d].sent = {t}

\* The write of d's request on t may go unnoticed: the row is no longer the one
\* the request has read, its date is not after the last_sync_at of some device,
\* or another device has a sync under way whose answer will leave t out.
Unnoticed(d, t, date) ==
  \/ row[t] # request[d].read[t]
  \/ \E e \in Device :
       \/ date <= lastSync[e]
       \/ e # d /\ request[e].step \in {"sync.commit", "sync.pull"} /\ t \in request[e].sent
Disturb(ts) == disturbed' = disturbed \cup ts

\* The answer shows the device the task as c, or is lost.
Answer(d, t, c) == copy' \in {copy, [copy EXCEPT ![d][t] = c]}

-----------------------------------------------------------------------------
Init ==
  /\ clock = 1
  /\ row = [t \in Task |-> Absent]
  /\ copy = [d \in Device |-> [t \in Task |-> NoCopy]]
  /\ lastSync = [d \in Device |-> 0]
  /\ request = [d \in Device |-> Idle]
  /\ disturbed = {}

Tick ==
  /\ clock < MaxClock
  /\ clock' = clock + 1
  /\ UNCHANGED <<row, devices, request, disturbed>>

-----------------------------------------------------------------------------
(* Plausible bugs.                                                         *)

\* The version of a PATCH counted on from the one the device sent.
UpdateWriteSentVersion(d, date) ==
  LET t == Only(d)
      new == [row[t] EXCEPT !.version = copy[d][t].version + 1, !.content = request[d].content,
                            !.updated = date]
  IN /\ request[d].step = "patch"
     /\ There(row[t])
     /\ row' = [row EXCEPT ![t] = new]
     /\ Answer(d, t, CopyOf(new))
     /\ Become(d, Idle)
     /\ Disturb(IF Unnoticed(d, t, date) THEN {t} ELSE {})
     /\ UNCHANGED <<clock, lastSync>>

\* A soft delete that sets deleted_at and leaves updated_at as it was.
RemoveWriteUndated(d, date) ==
  LET t == Only(d)
  IN /\ request[d].step = "delete"
     /\ There(row[t])
     /\ row' = [row EXCEPT ![t].state = "deleted"]
     /\ Answer(d, t, [copy[d][t] EXCEPT !.state = "gone"])
     /\ Become(d, Idle)
     /\ Disturb(IF Unnoticed(d, t, date) THEN {t} ELSE {})
     /\ UNCHANGED <<clock, lastSync>>

\* A soft delete that marks the row in a way nobody else knows.
RemoveWriteOwnMark(d, date) ==
  LET t == Only(d)
  IN /\ request[d].step = "delete"
     /\ There(row[t])
     /\ row' = [row EXCEPT ![t].state = "archived"]
     /\ Become(d, Idle)
     /\ UNCHANGED <<clock, devices, disturbed>>

-----------------------------------------------------------------------------
(* A device on its own.                                                    *)

\* A new task, or another edit of one that is not deleted here.
Edit(d, t, content) ==
  /\ request[d] = Idle
  /\ copy[d][t].state \in {"clean", "edited"}
       \/ (copy[d][t].state = "none" /\ \A e \in Device : copy[e][t] = NoCopy /\ ~There(row[t]))
  /\ content # copy[d][t].content \/ copy[d][t].state = "none"
  /\ copy' = [copy EXCEPT ![d][t] =
       [state |-> "edited", version |-> @.version + 1, content |-> content]]
  /\ UNCHANGED <<server, lastSync, request, disturbed>>

Drop(d, t) ==
  /\ request[d] = Idle
  /\ copy[d][t].state \in {"clean", "edited"}
  /\ copy' = [copy EXCEPT ![d][t].state = "dropped"]
  /\ UNCHANGED <<server, lastSync, request, disturbed>>

-----------------------------------------------------------------------------
\* POST /tasks: one insert, of version 1 and never completed.  The default now()
\* dates it when the statement begins, which may be a while before it commits;
\* an id that is taken, as by an earlier attempt whose answer was lost, answers
\* the row as it is.
Create(d, t, content, date) ==
  LET new == IF There(row[t]) THEN row[t]
             ELSE [state |-> "live", version |-> 1, content |-> content, updated |-> date]
  IN /\ request[d] = Idle
     /\ copy[d][t] = NoCopy
     /\ There(row[t]) \/ \A e \in Device : copy[e][t] = NoCopy
     /\ content \notin Completed
     /\ row' = [row EXCEPT ![t] = new]
     /\ Answer(d, t, CopyOf(new))
     /\ Disturb(IF ~There(row[t]) /\ Unnoticed(d, t, date) THEN {t} ELSE {})
     /\ UNCHANGED <<clock, lastSync, request>>

(* PATCH and DELETE /tasks/:id: read the row, then write it under a date   *)
(* taken in between.                                                       *)
Dates(d) == request[d].now .. clock

UpdateRead(d, t, content) ==
  /\ request[d] = Idle
  /\ copy[d][t].state = "clean"
  /\ There(row[t])
  /\ Become(d, [step |-> "patch", now |-> clock, read |-> [Idle.read EXCEPT ![t] = row[t]],
               sent |-> {t}, content |-> content])
  /\ UNCHANGED <<server, devices, disturbed>>

\* The version the device sends takes part in the maximum and in no test.
UpdateWrite(d, date) ==
  LET t == Only(d)
      version == Max({request[d].read[t].version, copy[d][t].version}) + 1
      new == [row[t] EXCEPT !.version = version, !.content = request[d].content,
                            !.updated = date]
  IN /\ request[d].step = "patch"
     /\ There(row[t])
     /\ row' = [row EXCEPT ![t] = new]
     /\ Answer(d, t, CopyOf(new))
     /\ Become(d, Idle)
     /\ Disturb(IF Unnoticed(d, t, date) THEN {t} ELSE {})
     /\ UNCHANGED <<clock, lastSync>>

RemoveRead(d, t) ==
  /\ request[d] = Idle
  /\ copy[d][t].state = "clean"
  /\ There(row[t])
  /\ Become(d, [Idle EXCEPT !.step = "delete", !.now = clock, !.sent = {t},
                            !.read[t] = row[t]])
  /\ UNCHANGED <<server, devices, disturbed>>

\* The version stays.
RemoveWrite(d, date) ==
  LET t == Only(d)
  IN /\ request[d].step = "delete"
     /\ There(row[t])
     /\ row' = [row EXCEPT ![t].state = "deleted", ![t].updated = date]
     /\ Answer(d, t, [copy[d][t] EXCEPT !.state = "gone"])
     /\ Become(d, Idle)
     /\ Disturb(IF Unnoticed(d, t, date) THEN {t} ELSE {})
     /\ UNCHANGED <<clock, lastSync>>

-----------------------------------------------------------------------------
(* POST /tasks/sync.                                                       *)

SyncBegin(d) ==
  /\ request[d] = Idle
  /\ Become(d, [Idle EXCEPT !.step = "sync.read", !.now = clock])
  /\ UNCHANGED <<server, devices, disturbed>>

\* What the device pushes: its copies wait for the answer.
SyncRead(d) ==
  /\ request[d].step = "sync.read"
  /\ LET sent == {t \in Task : Dirty(d, t)}
     IN Become(d, [request[d] EXCEPT !.step = "sync.commit", !.sent = sent,
                     !.read = [t \in Task |-> IF t \in sent THEN row[t] ELSE Absent]])
  /\ UNCHANGED <<server, devices, disturbed>>

\* What the handler decides for each task of the push, by the rows it read.
Conflict(d, t) ==
  LET r == request[d].read[t]
  IN copy[d][t].state = "edited" /\ There(r) /\ copy[d][t].version < r.version
Creates(d, t) == copy[d][t].state = "edited" /\ ~There(request[d].read[t])
Deletes(d, t) == copy[d][t].state = "dropped" /\ request[d].read[t].state = "live"
Updates(d, t) ==
  copy[d][t].state = "edited" /\ There(request[d].read[t]) /\ ~Conflict(d, t)

\* hasContentChanged; a pushed task carries deleted_at null.
Changed(d, t) ==
  copy[d][t].content # request[d].read[t].content \/ request[d].read[t].state = "deleted"

Pushed(d, t) ==
  LET r == request[d].read[t]
      c == copy[d][t]
      now == request[d].now
  IN CASE Creates(d, t) /\ There(row[t]) -> row[t]  \* skipDuplicates
       [] Creates(d, t) -> [state |-> "live", version |-> c.version,
                            content |-> c.content, updated |-> now]
       [] Deletes(d, t) -> [row[t] EXCEPT !.state = "deleted", !.version = r.version + 1,
                                          !.updated = now]
       [] Updates(d, t) -> [row[t] EXCEPT !.state = "live", !.content = c.content,
                                          !.version = Max({r.version, c.version}) + 1,
                                          !.updated = IF Changed(d, t) THEN now ELSE @]
       [] OTHER -> row[t]

\* One $transaction of the inserts and the updates that were decided; an
\* update whose row is gone fails all of them.
SyncCommit(d) ==
  LET sent == request[d].sent
      written == {t \in sent : Creates(d, t) \/ Deletes(d, t) \/ Updates(d, t)}
  IN /\ request[d].step = "sync.commit"
     /\ \A t \in sent : Deletes(d, t) \/ Updates(d, t) => There(row[t])
     /\ row' = [t \in Task |-> IF t \in sent THEN Pushed(d, t) ELSE row[t]]
     /\ Become(d, [request[d] EXCEPT !.step = "sync.pull"])
     /\ Disturb({t \in written : Unnoticed(d, t, request[d].now)}
                  \cup {t \in sent : row[t] # request[d].read[t]})
     /\ UNCHANGED <<clock, devices>>

\* What the device shows of a task it has pushed: in a conflict the row the
\* handler read, else its own.
Resolved(d, t) ==
  IF Conflict(d, t) THEN CopyOf(request[d].read[t])
  ELSE [copy[d][t] EXCEPT !.state = IF @ = "edited" THEN "clean" ELSE "gone"]

\* The answer: what has changed since the date, without the ids of the push, and
\* the next last_sync_at.  What a device has missed by sending no date is disturbed.
SyncPull(d, since, sync_at) ==
  LET sent == request[d].sent
      Changes(date) == {t \in Task \ sent : There(row[t]) /\ row[t].updated > date}
      Shown(t) == CASE t \in Changes(since) -> CopyOf(row[t])
                    [] t \in sent -> Resolved(d, t)
                    [] OTHER -> copy[d][t]
  IN /\ request[d].step = "sync.pull"
     /\ copy' = [copy EXCEPT ![d] = [t \in Task |-> Shown(t)]]
     /\ lastSync' = [lastSync EXCEPT ![d] = sync_at]
     /\ Become(d, Idle)
     /\ Disturb(Changes(lastSync[d]) \ Changes(since))
     /\ UNCHANGED server

\* A device that sends no last_sync_at is taken to have sent the present date.
SyncPullOne(d) ==
  \E since \in {lastSync[d], request[d].now} : SyncPull(d, since, request[d].now)

\* A body of batches: without a date the device has never synced, and the sync_at
\* is taken after the last of them, when other requests may have written since
\* the rows were read.
SyncPullBatches(d) ==
  \E since \in {lastSync[d], 0}, sync_at \in (clock .. clock + 1) \cap (1 .. MaxClock) :
    SyncPull(d, since, sync_at)

\* The request fails or its answer is lost; what it has written stays.
Fail(d) ==
  /\ request[d] # Idle
  /\ Become(d, Idle)
  /\ UNCHANGED <<server, devices, disturbed>>

-----------------------------------------------------------------------------
(* TaskitiAnalyticsService deletes tasks that were completed over a day or *)
(* deleted over 30 days ago, which is not seen from updated_at: an edit of *)
(* another field dates the row anew and leaves completed_at as it was.     *)
Purge(t) ==
  /\ clock > 1
  /\ row[t].state = "deleted" \/ (row[t].state = "live" /\ row[t].content \in Completed)
  /\ row' = [row EXCEPT ![t] = Absent]
  /\ UNCHANGED <<clock, devices, request, disturbed>>

-----------------------------------------------------------------------------
Next ==
  \/ Tick
  \/ \E d \in Device, t \in Task :
       \/ \E c \in Content : Edit(d, t, c) \/ UpdateRead(d, t, c)
       \/ \E c \in Content, date \in 1 .. clock : Create(d, t, c, date)
       \/ Drop(d, t)
       \/ RemoveRead(d, t)
  \/ \E d \in Device :
       \/ \E date \in Dates(d) : UpdateWrite(d, date) \/ RemoveWrite(d, date)
       \/ SyncBegin(d) \/ SyncRead(d) \/ SyncCommit(d)
       \/ SyncPullOne(d) \/ SyncPullBatches(d)
       \/ Fail(d)
  \/ \E t \in Task : Purge(t)

Spec == Init /\ [][Next]_vars

-----------------------------------------------------------------------------
TypeOK ==
  /\ clock \in 1..MaxClock
  /\ row \in [Task -> Row]
  /\ copy \in [Device -> [Task -> Copy]]
  /\ lastSync \in [Device -> 0..MaxClock]
  /\ request \in [Device -> Request]
  /\ \A d \in Device : request[d].now <= clock
  /\ disturbed \subseteq Task

Shows(c, r) ==
  /\ r.state = "live" => c.state = "clean" /\ c.content = r.content
  /\ r.state = "deleted" => c.state \in {"none", "gone"}
Covers(d, t) == There(row[t]) /\ row[t].updated <= lastSync[d] /\ ~Dirty(d, t)

\* No change is lost on the way to a device: a row that has not changed since
\* the device's last_sync_at is what the device shows, whatever pushes,
\* conflicts, lost answers, POSTs, PATCHes, DELETEs and purges came in between, on
\* this device or another.  The exception is disturbed: a write on a row that
\* had changed since it was read, or whose date some device's last_sync_at had
\* already passed, or that met a sync pushing the same task, or that a device
\* missed which sent no date.
Delivered ==
  \A d \in Device, t \in Task \ disturbed : Covers(d, t) => Shows(copy[d][t], row[t])

\* The version moves with the content: two contents a task has had one after
\* the other never carry the same version or a falling one, unless the second
\* was written over a row that had changed since it was read.
VersionsGrow ==
  [][\A t \in Task \ disturbed' :
       There(row[t]) /\ There(row'[t]) /\ row'[t].content # row[t].content
         => row'[t].version > row[t].version]_vars

-----------------------------------------------------------------------------
(* The inductive invariant behind Delivered.                               *)

Writing(d) == request[d].step \in {"patch", "delete"}
Syncing(d) == request[d].step \in {"sync.commit", "sync.pull"}

\* A PATCH and a DELETE are about one task.
OneTask == \A d \in Device : Writing(d) => \E t \in Task : request[d].sent = {t}

\* While a sync is under way its device keeps what it has pushed as it was.
SentIsDirty ==
  \A d \in Device : Syncing(d) => request[d].sent = {t \in Task : Dirty(d, t)}

\* What the device will show of a task it has pushed is the row that is there.
AnswersAreCurrent ==
  \A d \in Device, t \in Task \ disturbed :
    request[d].step = "sync.pull" /\ t \in request[d].sent /\ There(row[t])
      => Shows(Resolved(d, t), row[t])

DeliveryInv ==
  /\ TypeOK
  /\ OneTask
  /\ SentIsDirty
  /\ AnswersAreCurrent
  /\ Delivered

=============================================================================
