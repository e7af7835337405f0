--------------------------- MODULE TransactionTags ---------------------------
(***************************************************************************)
(* The tags of a user and their assignment to transactions: the routes of  *)
(* TransactionTagController, the tags of a saved transaction, and the two  *)
(* tag entities of the sync.                                               *)
(*                                                                         *)
(* A handler is a sequence of statements.  What it has read is in          *)
(* request[r] until the statement that uses it, and every other request    *)
(* may run in between.  The tags are of one user, and a request that names *)
(* a tag of another one ends before it writes anything.  The routes that   *)
(* assign and remove tags do not ask whose the transaction is, nor does    *)
(* any action here: they stand for the transactions of whichever user.     *)
(***************************************************************************)
EXTENDS Naturals, FiniteSets

CONSTANTS
    Tags,           \* ids of tags
    TxIds,          \* ids of transactions
    Names,          \* names a client gives to tags
    Slugs,          \* values of the column slug
    LowerOf,        \* name -> slug: name.toLowerCase()
    SlugOf,         \* name -> slug: normalizeSlug(name)
    Requests,       \* slots for REST requests under way
    Limit,          \* how many tags a transaction may have (10)
    Page,           \* how many assignments a pull returns
    None            \* neither a row nor a request

ASSUME NamesAssumption ==
    /\ LowerOf \in [Names -> Slugs]
    /\ SlugOf \in [Names -> Slugs]

ASSUME TagsAreFinite == IsFiniteSet(Tags) /\ IsFiniteSet(TxIds)

ASSUME LimitsAssumption == Limit \in Nat /\ Page \in Nat \ {0}

Row == [slug : Slugs, deleted : BOOLEAN]

Pairs == TxIds \X Tags

AssignRequest ==
    [op : {"assign"}, step : {"check", "insert"}, tx : TxIds, tag : Tags,
     seen : SUBSET Tags, overtaken : BOOLEAN]

Request ==
    AssignRequest
        \union [op : {"create"}, name : Names]
        \union [op : {"update"}, tag : Tags, row : Row]
        \union [op : {"delete"}, tag : Tags]
        \union [op : {"remove"}, tx : TxIds, tag : Tags]
        \union [op : {"save"}, tx : TxIds, tags : SUBSET Tags]

ASSUME NoneAssumption == None \notin Row \union Request

VARIABLES
    tag,            \* transaction_tag: a row, or None
    tx,             \* of each id: "unsaved", "saved" or "purged"
    assigned,       \* transaction_tag_assignment
    request,        \* the REST requests under way
    untold,         \* assignments made since the device last pulled
    missed,         \* older assignments that no page has contained
    ended,          \* the last pull was told that there is no more
    (* History, for the properties. *)
    intended,       \* of each tag, what the last request that changed it wrote
    clobbered,      \* tags changed while an update of them was under way
    unlimited       \* transactions that a named hazard took past the limit

rows == <<tag, tx, assigned, request>>
pulls == <<untold, missed, ended>>
history == <<intended, clobbered, unlimited>>
vars == <<rows, pulls, history>>

-----------------------------------------------------------------------------
(* The repository.                                                         *)

Live(g) == tag[g] # None /\ ~tag[g].deleted

\* findById: rows in the trash are not found.
FindById(g) == IF Live(g) THEN tag[g] ELSE None

\* findBySlug: the live row with that slug.
SlugIsShown(s) == \E g \in Tags : Live(g) /\ tag[g].slug = s

\* The unique index on (user_id, slug) has the deleted rows too.
SlugIsFree(s, except) ==
    \A g \in Tags \ {except} : tag[g] # None => tag[g].slug # s

\* findByTransactionId: the assignments whose tag is live.
TagsOf(t) == {g \in Tags : <<t, g>> \in assigned /\ Live(g)}

\* TransactionTag.create: the slug is the normalised name.
NewTag(n) == [slug |-> SlugOf[n], deleted |-> FALSE]

\* The foreign keys of an assignment.
MayRefer(t, gs) == tx[t] = "saved" /\ \A g \in gs : tag[g] # None

UpdateUnderWay(g) ==
    \E r \in Requests :
        request[r] # None /\ request[r].op = "update" /\ request[r].tag = g

\* Requests that have counted the tags of a transaction in ts and go on.
Overtake(req, ts) ==
    [r \in Requests |->
        IF req[r] # None /\ req[r].op = "assign" /\ req[r].tx \in ts
        THEN [req[r] EXCEPT !.overtaken = TRUE]
        ELSE req[r]]

Idle(r) == request[r] = None
At(r, op) == request[r] # None /\ request[r].op = op
AtStep(r, step) == At(r, "assign") /\ request[r].step = step

Begin(r, req) == request' = [request EXCEPT ![r] = req]
End(r) == request' = [request EXCEPT ![r] = None]

\* What a statement does to the row of a tag and what was meant by it.
Change(g, row) ==
    /\ tag' = [tag EXCEPT ![g] = row]
    /\ intended' = [intended EXCEPT ![g] = row]
    /\ clobbered' = IF UpdateUnderWay(g) THEN clobbered \union {g} ELSE clobbered

\* The rows of the assignments of gs to t, those there already being skipped.
Insert(t, gs) ==
    /\ assigned' = assigned \union ({t} \X gs)
    /\ untold' = untold \union (({t} \X gs) \ assigned)
    /\ UNCHANGED <<tag, tx, missed, ended, intended, clobbered>>

Erase(pairs) ==
    /\ assigned' = assigned \ pairs
    /\ untold' = untold \ pairs
    /\ missed' = missed \ pairs
    /\ UNCHANGED <<tag, ended, history>>

\* A write that does not look at the limit takes t past it, or does not.
Unchecked(t, gs) ==
    unlimited' =
        IF Cardinality(TagsOf(t) \union {g \in gs : Live(g)}) > Limit
        THEN unlimited \union {t} ELSE unlimited

-----------------------------------------------------------------------------
(* Plausible bugs.                                                         *)

\* The limit is compared with the tags that there are.
AssignBeyondLimit(r, t, g) ==
    /\ Idle(r)
    /\ Cardinality(TagsOf(t)) <= Limit
    /\ Begin(r, [op |-> "assign", step |-> "check", tx |-> t, tag |-> g,
                 seen |-> TagsOf(t), overtaken |-> FALSE])
    /\ UNCHANGED <<tag, tx, assigned, pulls, history>>

\* The update of a sync writes deleted_at too, which its payload has as null.
UpdateRevives(g, s) ==
    /\ tag[g] # None
    /\ SlugIsFree(s, g)
    /\ tag' = [tag EXCEPT ![g] = [slug |-> s, deleted |-> FALSE]]
    /\ intended' = [intended EXCEPT ![g].slug = s]
    /\ clobbered' = IF UpdateUnderWay(g) THEN clobbered \union {g} ELSE clobbered
    /\ UNCHANGED <<tx, assigned, request, pulls, unlimited>>

\* More is announced when more than a page was returned.
PullEndsEarly(page) ==
    /\ page \subseteq assigned
    /\ \/ Cardinality(page) = Page
       \/ page = assigned /\ Cardinality(page) < Page
    /\ untold' = {}
    /\ missed' = (missed \union untold) \ page
    /\ ended' = (Cardinality(page) <= Page)
    /\ UNCHANGED <<rows, history>>

\* The schema does not cascade.
PurgeTransactionOnly(t) ==
    /\ tx[t] = "saved"
    /\ tx' = [tx EXCEPT ![t] = "purged"]
    /\ UNCHANGED <<tag, assigned, request, pulls, history>>

-----------------------------------------------------------------------------
(* POST tags.  The name in lower case is looked for among the live tags;   *)
(* the row gets the normalised name, and the index may refuse it.          *)

CreateCheck(r, n) ==
    /\ Idle(r)
    /\ ~SlugIsShown(LowerOf[n])
    /\ Begin(r, [op |-> "create", name |-> n])
    /\ UNCHANGED <<tag, tx, assigned, pulls, history>>

CreateInsert(r) ==
    /\ At(r, "create")
    /\ SlugIsFree(SlugOf[request[r].name], None)
    /\ \E g \in Tags : tag[g] = None /\ Change(g, NewTag(request[r].name))
    /\ End(r)
    /\ UNCHANGED <<tx, assigned, pulls, unlimited>>

(* PUT tags/:id.  UpdateTagDto has no decorators and the global pipe       *)
(* refuses properties that have none, so that only an empty body arrives:  *)
(* it dates the row, and writes back every column as it was read.          *)

UpdateRead(r, g) ==
    /\ Idle(r)
    /\ FindById(g) # None
    /\ Begin(r, [op |-> "update", tag |-> g, row |-> FindById(g)])
    /\ UNCHANGED <<tag, tx, assigned, pulls, history>>

UpdateWrite(r) ==
    /\ At(r, "update")
    /\ LET g == request[r].tag
           old == request[r].row
           revived == {t \in TxIds : tag[g].deleted /\ <<t, g>> \in assigned}
       IN  /\ SlugIsFree(old.slug, g)
           /\ tag' = [tag EXCEPT ![g] = old]
           /\ request' = Overtake([request EXCEPT ![r] = None], revived)
           /\ unlimited' = unlimited \union revived
    /\ UNCHANGED <<tx, assigned, pulls, intended, clobbered>>

(* DELETE tags/:id. *)

DeleteRead(r, g) ==
    /\ Idle(r)
    /\ FindById(g) # None
    /\ Begin(r, [op |-> "delete", tag |-> g])
    /\ UNCHANGED <<tag, tx, assigned, pulls, history>>

DeleteWrite(r) ==
    /\ At(r, "delete")
    /\ LET g == request[r].tag
       IN  Change(g, [tag[g] EXCEPT !.deleted = TRUE])
    /\ End(r)
    /\ UNCHANGED <<tx, assigned, pulls, unlimited>>

(* POST tags/:id/transactions/:tx.  The tags are counted, then the tag is  *)
(* looked for, then the assignment is inserted.  One tag at a time: the    *)
(* body of POST tags/transactions/:tx is refused as that of PUT is.        *)

AssignRead(r, t, g) ==
    /\ Idle(r)
    /\ Cardinality(TagsOf(t) \union {g}) <= Limit
    /\ Begin(r, [op |-> "assign", step |-> "check", tx |-> t, tag |-> g,
                 seen |-> TagsOf(t), overtaken |-> FALSE])
    /\ UNCHANGED <<tag, tx, assigned, pulls, history>>

AssignCheck(r) ==
    /\ AtStep(r, "check")
    /\ FindById(request[r].tag) # None
    /\ request' = [request EXCEPT ![r].step = "insert"]
    /\ UNCHANGED <<tag, tx, assigned, pulls, history>>

AssignInsert(r) ==
    /\ AtStep(r, "insert")
    /\ LET t == request[r].tx
           g == request[r].tag
       IN  /\ MayRefer(t, {g})
           /\ Insert(t, {g})
           /\ request' = Overtake([request EXCEPT ![r] = None], {t})
           /\ unlimited' = IF request[r].overtaken
                           THEN unlimited \union {t} ELSE unlimited

(* DELETE tags/:tagId/transactions/:tx. *)

RemoveRead(r, t, g) ==
    /\ Idle(r)
    /\ FindById(g) # None
    /\ Begin(r, [op |-> "remove", tx |-> t, tag |-> g])
    /\ UNCHANGED <<tag, tx, assigned, pulls, history>>

RemoveWrite(r) ==
    /\ At(r, "remove")
    /\ <<request[r].tx, request[r].tag>> \in assigned
    /\ Erase({<<request[r].tx, request[r].tag>>})
    /\ End(r)
    /\ UNCHANGED tx

(* POST transactions/save.  The tags of the body follow the row, in a      *)
(* statement of their own, and are looked at by the database only.         *)

SaveRow(r, t, gs) ==
    /\ Idle(r)
    /\ tx[t] = "unsaved"
    /\ tx' = [tx EXCEPT ![t] = "saved"]
    /\ Begin(r, [op |-> "save", tx |-> t, tags |-> gs])
    /\ UNCHANGED <<tag, assigned, pulls, history>>

SaveTags(r) ==
    /\ At(r, "save")
    /\ LET t == request[r].tx
           gs == request[r].tags
       IN  /\ MayRefer(t, gs)
           /\ Insert(t, gs)
           /\ Unchecked(t, gs)
           /\ request' = Overtake([request EXCEPT ![r] = None], {t})

\* A check or a statement fails, the client is told so, or the process stops.
\* What was written stays: the row of a save whose tags do not exist, too.
Fail(r) ==
    /\ ~Idle(r)
    /\ End(r)
    /\ UNCHANGED <<tag, tx, assigned, pulls, history>>

-----------------------------------------------------------------------------
(* Sync push: the $transaction of one operation.                           *)

PushCreate(g, s) ==
    /\ tag[g] = None
    /\ SlugIsFree(s, g)
    /\ Change(g, [slug |-> s, deleted |-> FALSE])
    /\ UNCHANGED <<tx, assigned, request, pulls, unlimited>>

\* An update writes what the payload has and leaves deleted_at alone.
PushUpdate(g, s) ==
    /\ tag[g] # None
    /\ SlugIsFree(s, g)
    /\ Change(g, [tag[g] EXCEPT !.slug = s])
    /\ UNCHANGED <<tx, assigned, request, pulls, unlimited>>

PushDelete(g) ==
    /\ tag[g] # None
    /\ Change(g, [tag[g] EXCEPT !.deleted = TRUE])
    /\ UNCHANGED <<tx, assigned, request, pulls, unlimited>>

\* The upsert of an assignment.
PushAssign(t, g) ==
    /\ MayRefer(t, {g})
    /\ Insert(t, {g})
    /\ Unchecked(t, {g})
    /\ request' = Overtake(request, {t})

PushUnassign(t, g) ==
    /\ <<t, g>> \in assigned
    /\ Erase({<<t, g>>})
    /\ UNCHANGED <<tx, request>>

(* Sync pull of the assignments: a page of them, in no order and whatever  *)
(* the cursor says.  A page that is not full ends the pull.                *)

Pull(page) ==
    /\ page \subseteq assigned
    /\ \/ Cardinality(page) = Page
       \/ page = assigned /\ Cardinality(page) < Page
    /\ untold' = {}
    /\ missed' = (missed \union untold) \ page
    /\ ended' = (Cardinality(page) < Page)
    /\ UNCHANGED <<rows, history>>

\* The cleanup of an account deletes its transactions; the schema cascades.
Purge(t) ==
    /\ tx[t] = "saved"
    /\ tx' = [tx EXCEPT ![t] = "purged"]
    /\ Erase({t} \X Tags)
    /\ UNCHANGED request

-----------------------------------------------------------------------------
Init ==
    /\ tag = [g \in Tags |-> None]
    /\ tx = [t \in TxIds |-> "unsaved"]
    /\ assigned = {}
    /\ request = [r \in Requests |-> None]
    /\ untold = {} /\ missed = {} /\ ended = FALSE
    /\ intended = tag
    /\ clobbered = {} /\ unlimited = {}

\* The routes of TransactionTagController that write.
TagRoute(r) ==
    \/ \E n \in Names : CreateCheck(r, n)
    \/ CreateInsert(r)
    \/ \E g \in Tags : UpdateRead(r, g) \/ DeleteRead(r, g)
    \/ UpdateWrite(r)
    \/ DeleteWrite(r)
    \/ \E t \in TxIds, g \in Tags : AssignRead(r, t, g) \/ RemoveRead(r, t, g)
    \/ AssignCheck(r)
    \/ AssignInsert(r)
    \/ RemoveWrite(r)

SaveRoute(r) ==
    \/ \E t \in TxIds, gs \in SUBSET Tags \ {{}} : SaveRow(r, t, gs)
    \/ SaveTags(r)

Push ==
    \/ \E g \in Tags, s \in Slugs : PushCreate(g, s) \/ PushUpdate(g, s)
    \/ \E g \in Tags : PushDelete(g)
    \/ \E t \in TxIds, g \in Tags : PushAssign(t, g) \/ PushUnassign(t, g)

Next ==
    \/ \E r \in Requests : TagRoute(r) \/ SaveRoute(r) \/ Fail(r)
    \/ Push
    \/ \E page \in SUBSET Pairs : Pull(page)
    \/ \E t \in TxIds : Purge(t)

Spec == Init /\ [][Next]_vars

-----------------------------------------------------------------------------
(* Properties.                                                             *)

(* The types, and that an assignment has both its rows: the foreign keys   *)
(* and the cascade of the schema.                                          *)
TypeOK ==
    /\ tag \in [Tags -> Row \union {None}]
    /\ tx \in [TxIds -> {"unsaved", "saved", "purged"}]
    /\ assigned \subseteq Pairs
    /\ request \in [Requests -> Request \union {None}]
    /\ untold \subseteq assigned
    /\ missed \subseteq assigned
    /\ ended \in BOOLEAN
    /\ intended \in [Tags -> Row \union {None}]
    /\ clobbered \subseteq Tags
    /\ unlimited \subseteq TxIds
    /\ \A p \in assigned : MayRefer(p[1], {p[2]})

(* A transaction shows at most Limit tags (assignTagsToTransaction, 3),    *)
(* unless it was assigned by a request that others had overtaken since it  *)
(* counted, was given them by a save or a push, neither of which counts,   *)
(* or one of its deleted tags came back by a stale update.                 *)
LimitHolds ==
    \A t \in TxIds \ unlimited : Cardinality(TagsOf(t)) <= Limit

(* A tag is as the last request that changed it left it: no deleted tag    *)
(* comes back and no new name is lost, unless an update of the tag had     *)
(* read it before (updateTag saves the whole row).                         *)
RowsAreIntended ==
    \A g \in Tags \ clobbered : tag[g] = intended[g]

(* What keeps the two: a request that nobody overtook still sees all the   *)
(* tags of its transaction, and an update has in its hands the row that    *)
(* there is, or the tag is one of the clobbered.                           *)
CountsAreCurrent ==
    \A r \in Requests :
        At(r, "assign") /\ ~request[r].overtaken =>
            /\ TagsOf(request[r].tx) \subseteq request[r].seen
            /\ Cardinality(request[r].seen \union {request[r].tag}) <= Limit

ReadsAreCurrent ==
    \A r \in Requests :
        /\ At(r, "update") =>
            /\ tag[request[r].tag] # None
            /\ ~request[r].row.deleted
            /\ request[r].tag \notin clobbered =>
                    request[r].row = tag[request[r].tag]
        /\ At(r, "delete") => tag[request[r].tag] # None

(* A device that was told that there is no more has had every assignment   *)
(* that there is, but those made since (pullChanges ignores the cursor, so *)
(* that the only page that may end a pull is one with all of them).        *)
PullsAreComplete == ended => missed = {}

\* The inductive invariant.
TagsInv ==
    /\ TypeOK
    /\ LimitHolds
    /\ RowsAreIntended
    /\ CountsAreCurrent
    /\ ReadsAreCurrent
    /\ PullsAreComplete

=============================================================================
