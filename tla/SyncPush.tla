------------------------------- MODULE SyncPush -------------------------------
(***************************************************************************)
(* POST sync/push: a device sends the operations it has queued offline,    *)
(* each with a client_id of its own, and sends again what it has not been  *)
(* told is accepted.  For each operation the handler looks for the cached  *)
(* answer of an earlier push, looks at the record it is about, applies it  *)
(* in a $transaction and caches the answer in client_ops in a statement of *)
(* its own.  Pushes overlap when a device gives up waiting or two of them  *)
(* share a queue.                                                          *)
(*                                                                         *)
(* Operations that are malformed, of an unknown entity or about a record   *)
(* of somebody else are refused before any write and are left out; so are  *)
(* what the operations write into the records, and the update of an        *)
(* assignment, which writes nothing.  A batch is a set: the handler takes  *)
(* its operations in the order of the list, which is any.                  *)
(***************************************************************************)
EXTENDS Naturals

CONSTANTS
  Op,        \* operations of one user, each known by its client_id
  Record,    \* records that the updates and deletes are about
  Client,    \* slots for concurrent pushes
  Kind,      \* what each operation is, one of Kinds
  Target,    \* the record of each operation that is about one
  At,        \* its client_updated_at; later than any date if Date cannot read it
  MaxClock,  \* bound on the server's clock
  None       \* the operation of a push that is not at one

\* "create.tag" inserts a row with a unique slug; "assign" upserts and
\* "unassign" deletes a transaction_tag_assignment; the others are creates,
\* updates and soft deletes of the other entities.
Creates == {"create", "create.tag", "assign"}
Kinds == Creates \cup {"update", "delete", "unassign"}

ASSUME KindAssumption == Kind \in [Op -> Kinds]
ASSUME TargetAssumption == Target \in [Op -> Record]
ASSUME ClockAssumption == At \in [Op -> Nat] /\ MaxClock \in Nat
ASSUME NoneAssumption == None \notin Op

VARIABLES
  clock,      \* what new Date() returns
  row,        \* [Record -> the row]
  applied,    \* [Op -> how often its $transaction has committed]
  clientOps,  \* operations with a client_ops row
  told,       \* [Op -> what the device was told since it last sent it]
  request,    \* [Client -> the push being served]
  torn,       \* history: applied by a push that did not get to cache it, or
              \* looked up by a push while another one was at it
  resent      \* history: sent while an earlier push of it was not answered

vars == <<clock, row, applied, clientOps, told, request, torn, resent>>
history == <<torn, resent>>

-----------------------------------------------------------------------------
Row == [there: BOOLEAN, deleted: BOOLEAN, updated: Nat]

Verdict == {"none", "accepted", "rejected"}
Step == {"idle", "next", "find", "apply", "cache"}

\* todo: what is left of the batch after op.
Request == [step: Step, op: Op \cup {None}, batch: SUBSET Op, todo: SUBSET Op,
            result: [Op -> Verdict]]
NoResult == [op \in Op |-> "none"]
Idle == [step |-> "idle", op |-> None, batch |-> {}, todo |-> {}, result |-> NoResult]

Become(c, r) == request' = [request EXCEPT ![c] = r]
Goto(c, step) == Become(c, [request[c] EXCEPT !.step = step])
Answered(c, op, verdict) ==
  Become(c, [request[c] EXCEPT !.step = "next", !.op = None,
                               !.todo = @ \ {op}, !.result[op] = verdict])
Reject(c) == Answered(c, request[c].op, "rejected")

\* The push of c is between the lookup of op and the end of its work on it.
AtWork(c, op) == request[c].op = op /\ request[c].step \in {"find", "apply", "cache"}

-----------------------------------------------------------------------------
Init ==
  /\ clock = 0
  /\ row \in [Record -> [there: BOOLEAN, deleted: {FALSE}, updated: {0}]]
  /\ applied = [op \in Op |-> 0]
  /\ clientOps = {}
  /\ told = NoResult
  /\ request = [c \in Client |-> Idle]
  /\ torn = {}
  /\ resent = {}

-----------------------------------------------------------------------------
(* Plausible bugs.                                                         *)

\* Only the creates are cached.
CacheCreates(c) ==
  LET op == request[c].op
  IN /\ request[c].step = "cache"
     /\ clientOps' = IF Kind[op] \in Creates THEN clientOps \cup {op} ELSE clientOps
     /\ Answered(c, op, "accepted")
     /\ UNCHANGED <<clock, row, applied, told, history>>

\* The answer is cached before the operation is applied.
FindAndCache(c) ==
  LET op == request[c].op
  IN /\ request[c].step = "find"
     /\ row[Target[op]].there
     /\ clientOps' = clientOps \cup {op}
     /\ Goto(c, "apply")
     /\ UNCHANGED <<clock, row, applied, told, history>>

\* The $transaction commits and what builds the answer from its row throws.
ApplyThrows(c) ==
  LET op == request[c].op
  IN /\ request[c].step = "apply"
     /\ applied' = [applied EXCEPT ![op] = @ + 1]
     /\ Reject(c)
     /\ UNCHANGED <<clock, row, clientOps, told, history>>

-----------------------------------------------------------------------------
(* The device and the rest of the server.                                  *)

Push(c, batch) ==
  /\ request[c] = Idle
  /\ batch # {}
  /\ \A op \in batch : told[op] # "accepted"
  /\ Become(c, [Idle EXCEPT !.step = "next", !.batch = batch, !.todo = batch])
  /\ told' = [op \in Op |-> IF op \in batch THEN "none" ELSE told[op]]
  /\ resent' = resent \cup {op \in batch : \E d \in Client : op \in request[d].batch}
  /\ UNCHANGED <<clock, row, applied, clientOps, torn>>

\* Other routes and other devices write the record, dating it or not.
Touch(r) ==
  /\ \E there, deleted \in BOOLEAN, updated \in {row[r].updated, clock} :
       row' = [row EXCEPT ![r] = [there |-> there, deleted |-> deleted, updated |-> updated]]
  /\ UNCHANGED <<clock, applied, clientOps, told, request, history>>

Tick ==
  /\ clock < MaxClock
  /\ clock' = clock + 1
  /\ UNCHANGED <<row, applied, clientOps, told, request, history>>

-----------------------------------------------------------------------------
(* The handler, operation by operation.                                    *)

\* findCachedOp.
Lookup(c, op) ==
  /\ request[c].step = "next"
  /\ op \in request[c].todo
  /\ IF op \in clientOps
     THEN Answered(c, op, "accepted") /\ UNCHANGED torn
     ELSE /\ Become(c, [request[c] EXCEPT !.op = op,
                          !.step = IF Kind[op] \in Creates THEN "apply" ELSE "find"])
          /\ torn' = IF \E d \in Client : AtWork(d, op) THEN torn \cup {op} ELSE torn
  /\ UNCHANGED <<clock, row, applied, clientOps, told, resent>>

\* findByServerId: the row that the operation names, a deleted one too.
Found(op) == row[Target[op]]

\* The refusals that are decided by what it finds.
Find(c) ==
  LET op == request[c].op
      r == Found(op)
      refused == \/ ~r.there                              \* not_found
                 \/ Kind[op] = "delete" /\ r.deleted      \* already_deleted
                 \/ r.updated > At[op]                    \* version_conflict
  IN /\ request[c].step = "find"
     /\ IF refused THEN Reject(c) ELSE Goto(c, "apply")
     /\ UNCHANGED <<clock, row, applied, clientOps, told, history>>

\* The row of the operation's $transaction, where it is about a record.
Written(op) ==
  LET r == row[Target[op]]
  IN CASE Kind[op] = "update" -> [r EXCEPT !.updated = clock]
       [] Kind[op] = "delete" -> [r EXCEPT !.updated = clock, !.deleted = TRUE]
       [] Kind[op] = "assign" /\ ~r.there -> [there |-> TRUE, deleted |-> FALSE, updated |-> clock]
       [] Kind[op] = "unassign" -> [r EXCEPT !.there = FALSE]
       [] OTHER -> r

\* The database refuses: the record has gone, or the tag's slug is taken by
\* the row of an earlier attempt.
Impossible(op) ==
  \/ Kind[op] \notin Creates /\ ~row[Target[op]].there
  \/ Kind[op] = "create.tag" /\ applied[op] > 0

Apply(c) ==
  LET op == request[c].op
  IN /\ request[c].step = "apply"
     /\ ~Impossible(op)
     /\ row' = [row EXCEPT ![Target[op]] = Written(op)]
     /\ applied' = [applied EXCEPT ![op] = @ + 1]
     /\ Goto(c, "cache")
     /\ UNCHANGED <<clock, clientOps, told, history>>

\* Whatever is thrown is a validation_error, and the loop goes on.
Refuse(c) ==
  /\ request[c].step \in {"find", "apply"}
  /\ Reject(c)
  /\ UNCHANGED <<clock, row, applied, clientOps, told, history>>

\* client_ops.create, with its unique index.
Cache(c) ==
  LET op == request[c].op
  IN /\ request[c].step = "cache"
     /\ op \notin clientOps
     /\ clientOps' = clientOps \cup {op}
     /\ Answered(c, op, "accepted")
     /\ UNCHANGED <<clock, row, applied, told, history>>

\* The insert fails, for the index or otherwise: a validation_error too, of
\* an operation that has been applied.
CacheFails(c) ==
  LET op == request[c].op
  IN /\ request[c].step = "cache"
     /\ Reject(c)
     /\ torn' = torn \cup {op}
     /\ UNCHANGED <<clock, row, applied, clientOps, told, resent>>

\* A rejection names its operation, an acceptance does not (its client_id is the
\* empty string): accepted, to the device, are those of the batch that are not
\* named among the rejected.
Answer(c) ==
  LET r == request[c]
      rejected == {op \in r.batch : r.result[op] = "rejected"}
  IN /\ r.step = "next"
     /\ r.todo = {}
     /\ told' = [op \in Op |-> CASE op \in rejected -> "rejected"
                                [] op \in r.batch \ rejected -> "accepted"
                                [] OTHER -> told[op]]
     /\ Become(c, Idle)
     /\ UNCHANGED <<clock, row, applied, clientOps, history>>

\* The push ends at any await, or its answer is lost.
Fail(c) ==
  /\ request[c].step # "idle"
  /\ Become(c, Idle)
  /\ torn' = IF request[c].step = "cache" THEN torn \cup {request[c].op} ELSE torn
  /\ UNCHANGED <<clock, row, applied, clientOps, told, resent>>

Next ==
  \/ \E c \in Client :
       \/ \E batch \in SUBSET Op : Push(c, batch)
       \/ \E op \in Op : Lookup(c, op)
       \/ Find(c) \/ Apply(c) \/ Refuse(c)
       \/ Cache(c) \/ CacheFails(c)
       \/ Answer(c) \/ Fail(c)
  \/ \E r \in Record : Touch(r)
  \/ Tick

Spec == Init /\ [][Next]_vars

-----------------------------------------------------------------------------
TypeOK ==
  /\ clock \in Nat
  /\ row \in [Record -> Row]
  /\ applied \in [Op -> Nat]
  /\ clientOps \subseteq Op
  /\ told \in [Op -> Verdict]
  /\ request \in [Client -> Request]
  /\ \A c \in Client : request[c].step \in {"find", "apply", "cache"} => request[c].op \in Op
  /\ torn \subseteq Op
  /\ resent \subseteq Op

Cached(op) == op \in clientOps \/ \E c \in Client : request[c].step = "cache" /\ request[c].op = op

\* However often a device pushes an operation, and whatever was refused, lost
\* or interrupted in between, it is applied once: exactly when its answer is
\* cached or about to be.  The two ways around that are what torn records: a
\* push that stops or fails between the $transaction and the insert of the
\* answer, and two pushes that are both at the operation.
AppliedOnce ==
  \A op \in Op \ torn : applied[op] = IF Cached(op) THEN 1 ELSE 0

\* What the device is told is so: accepted operations have been applied, and
\* one that was rejected has not been, on any of the attempts - unless it was
\* sent again before the answer of an earlier push, or was torn.
AnswersAreTrue ==
  \A op \in Op :
    /\ told[op] = "accepted" => applied[op] > 0
    /\ told[op] = "rejected" /\ op \notin torn \cup resent => applied[op] = 0

-----------------------------------------------------------------------------
(* The inductive invariant behind the two.                                 *)

\* Of an operation that is not torn, one push at most is past the lookup.
OneAtWork ==
  \A op \in Op \ torn, c, d \in Client : AtWork(c, op) /\ AtWork(d, op) => c = d

\* Before it is applied it is not cached.
NotYetCached ==
  \A op \in Op \ torn, c \in Client :
    AtWork(c, op) => op \notin clientOps

\* A push is at an operation of its batch, and has a verdict on those that it
\* is done with.
BatchInOrder ==
  \A c \in Client :
    LET r == request[c]
    IN /\ r.todo \subseteq r.batch
       /\ \A op \in Op : AtWork(c, op) => op \in r.todo
       /\ r.step = "cache" => applied[r.op] > 0
       /\ \A op \in Op : r.result[op] # "none" <=> op \in r.batch \ r.todo

\* An operation that was not resent is in one batch at most, of which the
\* device has not heard.
BatchesApart ==
  \A op \in Op \ resent, c \in Client :
    op \in request[c].batch =>
      /\ told[op] = "none"
      /\ \A d \in Client : op \in request[d].batch => d = c

\* A cached answer is about an operation that was applied; so is a verdict.
VerdictsAreTrue ==
  /\ \A op \in clientOps : applied[op] > 0
  /\ \A c \in Client, op \in Op :
       /\ request[c].result[op] = "accepted" => applied[op] > 0
       /\ request[c].result[op] = "rejected" /\ op \notin torn \cup resent => applied[op] = 0

PushInv ==
  /\ TypeOK
  /\ OneAtWork
  /\ NotYetCached
  /\ BatchInOrder
  /\ BatchesApart
  /\ VerdictsAreTrue
  /\ AppliedOnce
  /\ AnswersAreTrue

-----------------------------------------------------------------------------
(* SyncPush implements AtMostOnce.                                         *)

\* Of a torn operation nothing is promised.
Heard == [op \in Op \ torn |-> told[op]]
Done == [op \in Op \ torn |-> applied[op]]
Twice == resent \ torn

Device == INSTANCE AtMostOnce WITH told <- Heard, done <- Done, twice <- Twice

\* Lookups, refusals, ends and lost answers go unnoticed: to its device an
\* operation that is not torn takes effect once at most, by one $transaction
\* between a push of it and the answer that says so; and after an answer that
\* rejects it, unless two pushes of it overlapped, not before it is sent again.
AppliesAtMostOnce == Device!Spec

=============================================================================
