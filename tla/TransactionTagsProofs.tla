------------------------ MODULE TransactionTagsProofs ------------------------
(***************************************************************************)
(* TagsInv is an inductive invariant of TransactionTags, for every set of  *)
(* tags, names, transactions and overlapping requests and for every limit. *)
(*                                                                         *)
(* Actions are taken by what they change: a slot of a request, the row of  *)
(* a tag, or the assignments.                                              *)
(***************************************************************************)
EXTENDS TransactionTags, FiniteSetTheorems, TLAPS

(* What a request of each kind has in its slot.                            *)
LEMMA Shapes ==
  ASSUME TypeOK, NEW r \in Requests
  PROVE  /\ At(r, "assign") => request[r] \in AssignRequest
         /\ At(r, "create") => request[r].name \in Names
         /\ At(r, "update") => request[r].tag \in Tags /\ request[r].row \in Row
         /\ At(r, "delete") => request[r].tag \in Tags
         /\ At(r, "remove") => request[r].tx \in TxIds /\ request[r].tag \in Tags
         /\ At(r, "save") => request[r].tx \in TxIds /\ request[r].tags \subseteq Tags
BY DEF TypeOK, At, Request, AssignRequest

LEMMA AssignShape ==
  ASSUME NEW q \in AssignRequest
  PROVE  /\ q \in Request /\ q # None /\ q.op = "assign"
         /\ q.tx \in TxIds /\ q.tag \in Tags /\ q.seen \subseteq Tags
         /\ q.step \in {"check", "insert"} /\ q.overtaken \in BOOLEAN
         /\ [q EXCEPT !.overtaken = TRUE] \in AssignRequest
         /\ [q EXCEPT !.step = "insert"] \in AssignRequest
BY NoneAssumption DEF Request, AssignRequest

(* A slot that is filled or emptied.                                       *)
LEMMA SlotTypes ==
  ASSUME TypeOK, NEW r \in Requests, NEW q \in Request \union {None}
  PROVE  /\ [request EXCEPT ![r] = q] \in [Requests -> Request \union {None}]
         /\ [request EXCEPT ![r] = q][r] = q
         /\ \A s \in Requests \ {r} : [request EXCEPT ![r] = q][s] = request[s]
BY DEF TypeOK

(* Being overtaken changes nothing else of a request.                      *)
LEMMA OvertakeTypes ==
  ASSUME NEW req \in [Requests -> Request \union {None}], NEW ts
  PROVE  /\ Overtake(req, ts) \in [Requests -> Request \union {None}]
         /\ \A r \in Requests :
              \/ Overtake(req, ts)[r] = req[r]
              \/ /\ req[r] \in AssignRequest /\ req[r].tx \in ts
                 /\ Overtake(req, ts)[r] = [req[r] EXCEPT !.overtaken = TRUE]
<1>1. ASSUME NEW r \in Requests,
             req[r] # None, req[r].op = "assign", req[r].tx \in ts
      PROVE  req[r] \in AssignRequest
  BY <1>1 DEF Request, AssignRequest
<1>2. QED
  BY <1>1, AssignShape DEF Overtake

LEMMA InitTags == Init => TagsInv
<1> SUFFICES ASSUME Init PROVE TagsInv
  OBVIOUS
<1>1. TypeOK
  BY DEF Init, TypeOK, MayRefer
<1>2. \A t \in TxIds : TagsOf(t) = {}
  BY DEF Init, TagsOf
<1>3. LimitHolds
  BY <1>2, FS_EmptySet, LimitsAssumption DEF LimitHolds
<1>4. QED
  BY <1>1, <1>3
     DEF Init, TagsInv, RowsAreIntended, CountsAreCurrent, ReadsAreCurrent,
         PullsAreComplete, At

-----------------------------------------------------------------------------
(* Types.                                                                  *)

(* Statements that only fill or empty a slot.                              *)
SlotStep(r) ==
    /\ request' \in [Requests -> Request \union {None}]
    /\ \A s \in Requests \ {r} : request'[s] = request[s]
    /\ UNCHANGED <<tag, assigned, pulls, history>>
    /\ tx' \in [TxIds -> {"unsaved", "saved", "purged"}]
    /\ \A t \in TxIds : tx[t] = "saved" => tx'[t] = "saved"

LEMMA SlotSteps ==
  ASSUME TypeOK, NEW r \in Requests
  PROVE  /\ \A n \in Names : CreateCheck(r, n) => SlotStep(r)
         /\ \A g \in Tags : UpdateRead(r, g) => SlotStep(r)
         /\ \A g \in Tags : DeleteRead(r, g) => SlotStep(r)
         /\ \A t \in TxIds, g \in Tags : AssignRead(r, t, g) => SlotStep(r)
         /\ \A t \in TxIds, g \in Tags : RemoveRead(r, t, g) => SlotStep(r)
         /\ AssignCheck(r) => SlotStep(r)
         /\ \A t \in TxIds, gs \in SUBSET Tags : SaveRow(r, t, gs) => SlotStep(r)
         /\ Fail(r) => SlotStep(r)
<1> DEFINE Fills(q) == request' = [request EXCEPT ![r] = q]
<1>1. ASSUME NEW q \in Request \union {None}, Fills(q),
             UNCHANGED <<tag, assigned, pulls, history>>,
             \/ UNCHANGED tx
             \/ \E t \in TxIds : tx' = [tx EXCEPT ![t] = "saved"]
      PROVE  SlotStep(r)
  BY <1>1, SlotTypes DEF SlotStep, TypeOK
<1>2. ASSUME NEW n \in Names, CreateCheck(r, n) PROVE SlotStep(r)
  BY <1>1, <1>2 DEF CreateCheck, Begin, Request
<1>3. ASSUME NEW g \in Tags, UpdateRead(r, g) PROVE SlotStep(r)
  <2>1. FindById(g) \in Row
    BY <1>3 DEF UpdateRead, FindById, Live, TypeOK
  <2>2. QED
    BY <1>1, <1>3, <2>1 DEF UpdateRead, Begin, Request
<1>4. ASSUME NEW g \in Tags, DeleteRead(r, g) PROVE SlotStep(r)
  BY <1>1, <1>4 DEF DeleteRead, Begin, Request
<1>5. ASSUME NEW t \in TxIds, NEW g \in Tags, AssignRead(r, t, g)
      PROVE  SlotStep(r)
  <2>1. TagsOf(t) \subseteq Tags
    BY DEF TagsOf
  <2>2. [op |-> "assign", step |-> "check", tx |-> t, tag |-> g,
         seen |-> TagsOf(t), overtaken |-> FALSE] \in Request
    BY <2>1 DEF Request, AssignRequest
  <2>3. QED
    BY <1>1, <1>5, <2>2 DEF AssignRead, Begin
<1>6. ASSUME NEW t \in TxIds, NEW g \in Tags, RemoveRead(r, t, g)
      PROVE  SlotStep(r)
  BY <1>1, <1>6 DEF RemoveRead, Begin, Request
<1>7. ASSUME AssignCheck(r) PROVE SlotStep(r)
  <2>1. request[r] \in AssignRequest
    BY <1>7, Shapes DEF AssignCheck, AtStep
  <2>2. request' = [request EXCEPT ![r] = [request[r] EXCEPT !.step = "insert"]]
    BY <1>7 DEF AssignCheck
  <2>3. [request[r] EXCEPT !.step = "insert"] \in Request
    BY <2>1, AssignShape
  <2>4. QED
    BY <1>1, <1>7, <2>2, <2>3 DEF AssignCheck
<1>8. ASSUME NEW t \in TxIds, NEW gs \in SUBSET Tags, SaveRow(r, t, gs)
      PROVE  SlotStep(r)
  BY <1>1, <1>8 DEF SaveRow, Begin, Request
<1>9. ASSUME Fail(r) PROVE SlotStep(r)
  BY <1>1, <1>9 DEF Fail, End
<1>10. QED
  BY <1>2, <1>3, <1>4, <1>5, <1>6, <1>7, <1>8, <1>9

(* Statements that write the row of a tag as it was meant, and end or are  *)
(* not part of a request.                                                  *)
RowStep(g) ==
    /\ tag' \in [Tags -> Row \union {None}]
    /\ tag'[g] # None
    /\ \A h \in Tags \ {g} : tag'[h] = tag[h]
    /\ tag[g] # None => (tag[g].deleted => tag'[g].deleted)
    /\ intended' = [intended EXCEPT ![g] = tag'[g]]
    /\ clobbered' = IF UpdateUnderWay(g) THEN clobbered \union {g} ELSE clobbered
    /\ request' \in [Requests -> Request \union {None}]
    /\ \A r \in Requests : request'[r] \in {request[r], None}
    /\ UNCHANGED <<tx, assigned, pulls, unlimited>>

LEMMA RowSteps ==
  ASSUME TagsInv
  PROVE  /\ \A r \in Requests : CreateInsert(r) \/ DeleteWrite(r)
                => \E g \in Tags : RowStep(g)
         /\ \A g \in Tags, s \in Slugs : PushCreate(g, s) \/ PushUpdate(g, s)
                => RowStep(g)
         /\ \A g \in Tags : PushDelete(g) => RowStep(g)
<1> USE DEF TagsInv
<1>1. ASSUME NEW g \in Tags, NEW row \in Row, Change(g, row),
             tag[g] # None => (tag[g].deleted => row.deleted),
             \/ UNCHANGED request
             \/ \E r \in Requests : End(r),
             UNCHANGED <<tx, assigned, pulls, unlimited>>
      PROVE  RowStep(g)
  <2>1. /\ request' \in [Requests -> Request \union {None}]
        /\ \A r \in Requests : request'[r] \in {request[r], None}
    BY <1>1, SlotTypes DEF End, TypeOK
  <2>2. QED
    BY <1>1, <2>1, NoneAssumption DEF Change, RowStep, TypeOK
<1>2. ASSUME NEW r \in Requests, CreateInsert(r)
      PROVE  \E g \in Tags : RowStep(g)
  <2>1. NewTag(request[r].name) \in Row
    BY <1>2, Shapes, NamesAssumption DEF CreateInsert, NewTag, Row
  <2>2. QED
    BY <1>1, <1>2, <2>1 DEF CreateInsert
<1>3. ASSUME NEW r \in Requests, DeleteWrite(r)
      PROVE  \E g \in Tags : RowStep(g)
  <2> DEFINE g == request[r].tag
  <2>1. g \in Tags /\ tag[g] # None
    BY <1>3, Shapes DEF DeleteWrite, ReadsAreCurrent
  <2>2. [tag[g] EXCEPT !.deleted = TRUE] \in Row
        /\ [tag[g] EXCEPT !.deleted = TRUE].deleted
    BY <2>1 DEF TypeOK, Row
  <2>3. QED
    BY <1>1, <1>3, <2>1, <2>2 DEF DeleteWrite
<1>4. ASSUME NEW g \in Tags, NEW s \in Slugs, PushCreate(g, s)
      PROVE  RowStep(g)
  BY <1>1, <1>4 DEF PushCreate, Row
<1>5. ASSUME NEW g \in Tags, NEW s \in Slugs, PushUpdate(g, s)
      PROVE  RowStep(g)
  <2>1. [tag[g] EXCEPT !.slug = s] \in Row
        /\ [tag[g] EXCEPT !.slug = s].deleted = tag[g].deleted
    BY <1>5 DEF PushUpdate, TypeOK, Row
  <2>2. QED
    BY <1>1, <1>5, <2>1 DEF PushUpdate
<1>6. ASSUME NEW g \in Tags, PushDelete(g) PROVE RowStep(g)
  <2>1. [tag[g] EXCEPT !.deleted = TRUE] \in Row
        /\ [tag[g] EXCEPT !.deleted = TRUE].deleted
    BY <1>6 DEF PushDelete, TypeOK, Row
  <2>2. QED
    BY <1>1, <1>6, <2>1 DEF PushDelete
<1>7. QED
  BY <1>2, <1>3, <1>4, <1>5, <1>6

-----------------------------------------------------------------------------
(* What a transaction shows.                                               *)

LEMMA Fewer ==
  ASSUME NEW S, NEW T \in SUBSET Tags, S \subseteq T
  PROVE  Cardinality(S) <= Cardinality(T) /\ Cardinality(T) \in Nat
         /\ Cardinality(S) \in Nat
<1>1. IsFiniteSet(T)
  BY TagsAreFinite, FS_Subset
<1>2. QED
  BY <1>1, FS_Subset, FS_CardinalityType

(* A step after which no transaction shows more than before keeps the      *)
(* limit, and what a request has counted.                                  *)
LEMMA ShrinkingKeeps ==
  ASSUME TagsInv, UNCHANGED unlimited,
         \A t \in TxIds : TagsOf(t)' \subseteq TagsOf(t),
         \A r \in Requests :
            At(r, "assign")' =>
                \/ request'[r] = request[r]
                \/ /\ TagsOf(request'[r].tx) \subseteq request'[r].seen
                   /\ Cardinality(request'[r].seen \union {request'[r].tag}) <= Limit
                \/ /\ At(r, "assign")
                   /\ request'[r] = [request[r] EXCEPT !.step = "insert"],
         request' \in [Requests -> Request \union {None}]
  PROVE  LimitHolds' /\ CountsAreCurrent'
<1>1. LimitHolds'
  <2> SUFFICES ASSUME NEW t \in TxIds \ unlimited
               PROVE  Cardinality(TagsOf(t)') <= Limit
    BY DEF LimitHolds
  <2>1. TagsOf(t) \in SUBSET Tags
    BY DEF TagsOf
  <2>2. QED
    BY <2>1, Fewer, LimitsAssumption DEF TagsInv, LimitHolds
<1>2. CountsAreCurrent'
  <2> SUFFICES ASSUME NEW r \in Requests, At(r, "assign")',
                      ~request'[r].overtaken
               PROVE  /\ TagsOf(request[r].tx)' \subseteq request'[r].seen
                      /\ Cardinality(request'[r].seen \union {request'[r].tag}) <= Limit
    BY DEF CountsAreCurrent
  <2>1. request'[r] \in AssignRequest
    BY DEF At, Request, AssignRequest
  <2>2. TagsOf(request[r].tx)' \subseteq TagsOf(request'[r].tx)
    BY <2>1, AssignShape
  <2>3. CASE request'[r] = request[r]
    BY <2>2, <2>3 DEF TagsInv, CountsAreCurrent, At
  <2>4. CASE /\ TagsOf(request'[r].tx) \subseteq request'[r].seen
             /\ Cardinality(request'[r].seen \union {request'[r].tag}) <= Limit
    BY <2>2, <2>4
  <2>5. CASE /\ At(r, "assign")
             /\ request'[r] = [request[r] EXCEPT !.step = "insert"]
    <3>1. request[r] \in AssignRequest
      BY <2>5, Shapes DEF TagsInv
    <3>2. /\ request'[r].tx = request[r].tx /\ request'[r].seen = request[r].seen
          /\ request'[r].tag = request[r].tag
          /\ request'[r].overtaken = request[r].overtaken
      BY <2>5, <3>1 DEF AssignRequest
    <3>3. QED
      BY <2>2, <2>5, <3>2 DEF TagsInv, CountsAreCurrent
  <2>6. QED
    BY <2>3, <2>4, <2>5
<1>3. QED
  BY <1>1, <1>2

LEMMA SameRowsShowTheSame ==
  ASSUME UNCHANGED <<tag, assigned>>
  PROVE  \A t \in TxIds : TagsOf(t)' = TagsOf(t)
BY DEF TagsOf, Live

(* A slot that is filled or emptied.                                       *)
LEMMA SlotStepKeeps ==
  ASSUME TagsInv, NEW r \in Requests, SlotStep(r)
  PROVE  /\ TypeOK' /\ RowsAreIntended' /\ PullsAreComplete'
         /\ \A s \in Requests \ {r} :
              At(s, "update")' =>
                /\ tag'[request'[s].tag] # None
                /\ ~request'[s].row.deleted
                /\ request'[s].tag \notin clobbered' =>
                        request'[s].row = tag'[request'[s].tag]
         /\ \A s \in Requests \ {r} :
              At(s, "delete")' => tag'[request'[s].tag] # None
<1>1. TypeOK'
  BY DEF SlotStep, TagsInv, TypeOK, history, pulls, MayRefer, Pairs
<1>2. QED
  BY <1>1
     DEF SlotStep, TagsInv, history, pulls, RowsAreIntended, PullsAreComplete,
         ReadsAreCurrent, At

LEMMA SlotNext ==
  ASSUME TagsInv, NEW r \in Requests,
         \/ \E n \in Names : CreateCheck(r, n)
         \/ \E g \in Tags : UpdateRead(r, g) \/ DeleteRead(r, g)
         \/ \E t \in TxIds, g \in Tags : AssignRead(r, t, g) \/ RemoveRead(r, t, g)
         \/ AssignCheck(r)
         \/ \E t \in TxIds, gs \in SUBSET Tags : SaveRow(r, t, gs)
         \/ Fail(r)
  PROVE  TagsInv'
<1>1. SlotStep(r)
  BY SlotSteps DEF TagsInv
<1>2. UNCHANGED <<tag, assigned, unlimited, clobbered>>
  BY <1>1 DEF SlotStep, history
<1>3. \A t \in TxIds : TagsOf(t)' = TagsOf(t)
  BY <1>2, SameRowsShowTheSame
<1>4. request \in [Requests -> Request \union {None}]
  BY DEF TagsInv, TypeOK
<1>5. At(r, "assign")' =>
        \/ /\ TagsOf(request'[r].tx) \subseteq request'[r].seen
           /\ Cardinality(request'[r].seen \union {request'[r].tag}) <= Limit
        \/ At(r, "assign") /\ request'[r] = [request[r] EXCEPT !.step = "insert"]
  <2>1. CASE \E t \in TxIds, g \in Tags : AssignRead(r, t, g)
    BY <1>4, <2>1 DEF AssignRead, Begin
  <2>2. CASE AssignCheck(r)
    BY <1>4, <2>2 DEF AssignCheck, AtStep
  <2>3. CASE \/ \E n \in Names : CreateCheck(r, n)
             \/ \E g \in Tags : UpdateRead(r, g) \/ DeleteRead(r, g)
             \/ \E t \in TxIds, g \in Tags : RemoveRead(r, t, g)
             \/ \E t \in TxIds, gs \in SUBSET Tags : SaveRow(r, t, gs)
             \/ Fail(r)
    BY <1>4, <2>3
       DEF CreateCheck, UpdateRead, DeleteRead, RemoveRead, SaveRow, Fail, Begin,
           End, At
  <2>4. QED
    BY <2>1, <2>2, <2>3
<1>6. LimitHolds' /\ CountsAreCurrent'
  BY <1>1, <1>2, <1>3, <1>5, ShrinkingKeeps DEF SlotStep
<1>7. /\ At(r, "update")' =>
           /\ tag'[request'[r].tag] # None
           /\ ~request'[r].row.deleted
           /\ request'[r].row = tag'[request'[r].tag]
      /\ At(r, "delete")' => tag'[request'[r].tag] # None
  <2>1. CASE \E g \in Tags : UpdateRead(r, g)
    BY <1>2, <1>4, <2>1 DEF UpdateRead, Begin, FindById, Live, At
  <2>2. CASE \E g \in Tags : DeleteRead(r, g)
    BY <1>2, <1>4, <2>2 DEF DeleteRead, Begin, FindById, Live, At
  <2>3. CASE AssignCheck(r)
    <3>1. request[r] \in AssignRequest
      BY <2>3, Shapes DEF AssignCheck, AtStep, TagsInv
    <3>2. request'[r] \in AssignRequest
      BY <1>4, <2>3, <3>1, AssignShape DEF AssignCheck
    <3>3. QED
      BY <3>2, AssignShape DEF At
  <2>4. CASE \/ \E n \in Names : CreateCheck(r, n)
             \/ \E t \in TxIds, gs \in SUBSET Tags : SaveRow(r, t, gs)
             \/ Fail(r)
    BY <1>4, <2>4 DEF CreateCheck, SaveRow, Fail, Begin, End, At
  <2>5. CASE \E t \in TxIds, g \in Tags : AssignRead(r, t, g)
    BY <1>4, <2>5 DEF AssignRead, Begin, At
  <2>6. CASE \E t \in TxIds, g \in Tags : RemoveRead(r, t, g)
    BY <1>4, <2>6 DEF RemoveRead, Begin, At
  <2>7. QED
    BY <2>1, <2>2, <2>3, <2>4, <2>5, <2>6
<1>8. ReadsAreCurrent'
  BY <1>1, <1>7, SlotStepKeeps DEF ReadsAreCurrent
<1>9. QED
  BY <1>1, <1>6, <1>8, SlotStepKeeps DEF TagsInv

(* The row of a tag is written as it was meant.                            *)
LEMMA RowNext ==
  ASSUME TagsInv, NEW g \in Tags, RowStep(g)
  PROVE  TagsInv'
<1>1. TypeOK'
  <2>1. \A h \in Tags : tag[h] # None => tag'[h] # None
    BY DEF RowStep
  <2>2. /\ intended' \in [Tags -> Row \union {None}]
        /\ clobbered' \subseteq Tags
    BY DEF RowStep, TagsInv, TypeOK
  <2>3. \A p \in assigned : MayRefer(p[1], {p[2]})'
    BY <2>1 DEF RowStep, TagsInv, TypeOK, Pairs, MayRefer
  <2>4. QED
    BY <2>2, <2>3 DEF RowStep, TagsInv, TypeOK, pulls, Pairs
<1>2. \A t \in TxIds : TagsOf(t)' \subseteq TagsOf(t)
  <2>1. \A t \in TxIds : <<t, g>> \in assigned => tag[g] # None
    BY DEF TagsInv, TypeOK, MayRefer
  <2>2. QED
    BY <2>1 DEF RowStep, TagsOf, Live
<1>3. LimitHolds' /\ CountsAreCurrent'
  BY <1>2, ShrinkingKeeps DEF RowStep, At
<1>4. RowsAreIntended'
  BY DEF RowStep, TagsInv, RowsAreIntended, TypeOK
<1>5. ReadsAreCurrent'
  <2> SUFFICES ASSUME NEW r \in Requests, request'[r] = request[r],
                      At(r, "update") \/ At(r, "delete")
               PROVE  /\ tag'[request[r].tag] # None
                      /\ At(r, "update") =>
                           /\ ~request[r].row.deleted
                           /\ request[r].tag \notin clobbered' =>
                                request[r].row = tag'[request[r].tag]
    BY DEF RowStep, ReadsAreCurrent, At
  <2>1. request[r].tag \in Tags /\ tag[request[r].tag] # None
    BY Shapes DEF TagsInv, ReadsAreCurrent
  <2>2. tag'[request[r].tag] # None
    BY <2>1 DEF RowStep
  <2>3. CASE At(r, "update") /\ request[r].tag = g
    <3>1. UpdateUnderWay(g)
      BY <2>3 DEF UpdateUnderWay, At
    <3>2. g \in clobbered'
      BY <3>1 DEF RowStep
    <3>3. QED
      BY <2>2, <2>3, <3>2 DEF TagsInv, ReadsAreCurrent
  <2>4. CASE At(r, "update") /\ request[r].tag # g
    BY <2>1, <2>4 DEF RowStep, TagsInv, ReadsAreCurrent
  <2>5. QED
    BY <2>2, <2>3, <2>4
<1>6. PullsAreComplete'
  BY DEF RowStep, TagsInv, PullsAreComplete, pulls
<1>7. QED
  BY <1>1, <1>3, <1>4, <1>5, <1>6 DEF TagsInv

-----------------------------------------------------------------------------
(* Assignments, and the update that may bring a tag back.  Both overtake.  *)

(* What being overtaken leaves of the reads of other requests.             *)
LEMMA OvertakeKeepsReads ==
  ASSUME TagsInv, NEW req \in [Requests -> Request \union {None}], NEW ts,
         \A r \in Requests : req[r] \in {request[r], None},
         request' = Overtake(req, ts)
  PROVE  /\ request' \in [Requests -> Request \union {None}]
         /\ \A r \in Requests :
              /\ At(r, "update")' => At(r, "update") /\ request'[r] = request[r]
              /\ At(r, "delete")' => At(r, "delete") /\ request'[r] = request[r]
         /\ \A r \in Requests :
              At(r, "assign")' /\ ~request'[r].overtaken =>
                /\ At(r, "assign") /\ request'[r] = request[r]
                /\ request[r].tx \in TxIds \ ts
<1>1. ASSUME NEW r \in Requests,
             req[r] \in AssignRequest,
             request'[r] = [req[r] EXCEPT !.overtaken = TRUE]
      PROVE  /\ ~At(r, "update")' /\ ~At(r, "delete")'
             /\ request'[r].overtaken
  BY <1>1 DEF At, AssignRequest
<1>2. ASSUME NEW r \in Requests, At(r, "assign")', request'[r] = req[r],
             ~request'[r].overtaken
      PROVE  request'[r].tx \in TxIds \ ts
  <2>1. req[r] = request[r] /\ At(r, "assign")
    BY <1>2 DEF At
  <2>2. request[r] \in AssignRequest
    BY <2>1, Shapes DEF TagsInv
  <2>3. request[r].tx \notin ts
    BY <1>2, <2>1, <2>2, AssignShape DEF Overtake, At
  <2>4. QED
    BY <1>2, <2>1, <2>2, <2>3, AssignShape
<1>3. request' \in [Requests -> Request \union {None}]
  BY OvertakeTypes
<1>4. ASSUME NEW r \in Requests
      PROVE  /\ At(r, "update")' => At(r, "update") /\ request'[r] = request[r]
             /\ At(r, "delete")' => At(r, "delete") /\ request'[r] = request[r]
             /\ At(r, "assign")' /\ ~request'[r].overtaken =>
                  /\ At(r, "assign") /\ request'[r] = request[r]
                  /\ request[r].tx \in TxIds \ ts
  <2>1. CASE request'[r] = req[r]
    <3>1. request'[r] # None => request'[r] = request[r]
      BY <2>1
    <3>2. QED
      BY <1>2, <2>1, <3>1 DEF At
  <2>2. CASE /\ req[r] \in AssignRequest
             /\ request'[r] = [req[r] EXCEPT !.overtaken = TRUE]
    BY <1>1, <2>2
  <2>3. QED
    BY <2>1, <2>2, OvertakeTypes
<1>5. QED
  BY <1>3, <1>4

(* A step that only assigns or takes away assignments, of transactions     *)
(* that it overtakes.                                                      *)
LEMMA PairsNext ==
  ASSUME TagsInv, NEW req \in [Requests -> Request \union {None}],
         NEW ts \in SUBSET TxIds,
         \A r \in Requests : req[r] \in {request[r], None},
         request' = Overtake(req, ts),
         assigned' \subseteq Pairs,
         \A p \in assigned' : MayRefer(p[1], {p[2]})',
         \A t \in TxIds \ ts : TagsOf(t)' \subseteq TagsOf(t),
         \A t \in ts \ unlimited' : Cardinality(TagsOf(t)') <= Limit,
         untold' \subseteq assigned', missed' \subseteq missed,
         missed' \subseteq assigned',
         unlimited' \subseteq TxIds, unlimited \subseteq unlimited',
         tx' \in [TxIds -> {"unsaved", "saved", "purged"}],
         UNCHANGED <<tag, ended, intended, clobbered>>
  PROVE  TagsInv'
<1>1. /\ request' \in [Requests -> Request \union {None}]
      /\ \A r \in Requests :
           /\ At(r, "update")' => At(r, "update") /\ request'[r] = request[r]
           /\ At(r, "delete")' => At(r, "delete") /\ request'[r] = request[r]
           /\ At(r, "assign")' /\ ~request'[r].overtaken =>
                /\ At(r, "assign") /\ request'[r] = request[r]
                /\ request[r].tx \in TxIds \ ts
  BY OvertakeKeepsReads
<1>2. TypeOK'
  BY <1>1 DEF TagsInv, TypeOK, Pairs
<1>3. LimitHolds'
  <2> SUFFICES ASSUME NEW t \in TxIds \ unlimited'
               PROVE  Cardinality(TagsOf(t)') <= Limit
    BY DEF LimitHolds
  <2>1. CASE t \in ts
    BY <2>1
  <2>2. CASE t \notin ts
    <3>1. TagsOf(t) \in SUBSET Tags /\ TagsOf(t)' \subseteq TagsOf(t)
      BY <2>2 DEF TagsOf
    <3>2. Cardinality(TagsOf(t)) <= Limit
      BY DEF TagsInv, LimitHolds
    <3>3. QED
      BY <3>1, <3>2, Fewer, LimitsAssumption
  <2>3. QED
    BY <2>1, <2>2
<1>4. CountsAreCurrent'
  <2> SUFFICES ASSUME NEW r \in Requests, At(r, "assign")',
                      ~request'[r].overtaken
               PROVE  /\ TagsOf(request[r].tx)' \subseteq request'[r].seen
                      /\ Cardinality(request'[r].seen \union {request'[r].tag}) <= Limit
    BY DEF CountsAreCurrent
  <2>1. At(r, "assign") /\ request'[r] = request[r] /\ request[r].tx \in TxIds \ ts
    BY <1>1
  <2>2. PICK t \in TxIds \ ts : t = request[r].tx
    BY <2>1
  <2>3. TagsOf(t)' \subseteq request[r].seen
    BY <2>1, <2>2 DEF TagsInv, CountsAreCurrent
  <2>4. TagsOf(request[r].tx)' = TagsOf(t)'
    BY <2>1, <2>2
  <2>5. QED
    BY <2>1, <2>3, <2>4 DEF TagsInv, CountsAreCurrent
<1>5. RowsAreIntended' /\ PullsAreComplete'
  BY DEF TagsInv, RowsAreIntended, PullsAreComplete
<1>6. ReadsAreCurrent'
  BY <1>1 DEF TagsInv, ReadsAreCurrent
<1>7. QED
  BY <1>2, <1>3, <1>4, <1>5, <1>6 DEF TagsInv

LEMMA SlotEmptied ==
  ASSUME TagsInv, NEW r \in Requests
  PROVE  /\ [request EXCEPT ![r] = None] \in [Requests -> Request \union {None}]
         /\ \A s \in Requests : [request EXCEPT ![r] = None][s] \in {request[s], None}
         /\ request \in [Requests -> Request \union {None}]
BY DEF TagsInv, TypeOK

(* The assignments of tags to one transaction.                             *)
LEMMA Inserted ==
  ASSUME TagsInv, NEW t \in TxIds, NEW gs \in SUBSET Tags,
         MayRefer(t, gs), Insert(t, gs)
  PROVE  /\ assigned' \subseteq Pairs
         /\ \A p \in assigned' : MayRefer(p[1], {p[2]})'
         /\ \A u \in TxIds \ {t} : TagsOf(u)' \subseteq TagsOf(u)
         /\ TagsOf(t)' = TagsOf(t) \union {g \in gs : Live(g)}
         /\ untold' \subseteq assigned' /\ missed' \subseteq assigned'
         /\ UNCHANGED <<tag, tx, missed, ended, intended, clobbered>>
<1>1. UNCHANGED <<tag, tx, missed, ended, intended, clobbered>>
  BY DEF Insert
<1>2. assigned' \subseteq Pairs
  BY DEF Insert, TagsInv, TypeOK, Pairs
<1>3. \A p \in assigned' : MayRefer(p[1], {p[2]})'
  BY <1>1 DEF Insert, TagsInv, TypeOK, MayRefer
<1>4. /\ \A u \in TxIds \ {t} : TagsOf(u)' \subseteq TagsOf(u)
      /\ TagsOf(t)' = TagsOf(t) \union {g \in gs : Live(g)}
  BY <1>1 DEF Insert, TagsOf, Live
<1>5. untold' \subseteq assigned' /\ missed' \subseteq assigned'
  BY DEF Insert, TagsInv, TypeOK
<1>6. QED
  BY <1>1, <1>2, <1>3, <1>4, <1>5

\* An unchecked write is within the limit, or is recorded.
LEMMA UncheckedIsRecorded ==
  ASSUME TagsInv, NEW t \in TxIds, NEW gs \in SUBSET Tags, Unchecked(t, gs)
  PROVE  /\ unlimited' \subseteq TxIds /\ unlimited \subseteq unlimited'
         /\ t \notin unlimited' =>
              Cardinality(TagsOf(t) \union {g \in gs : Live(g)}) <= Limit
<1>1. TagsOf(t) \union {g \in gs : Live(g)} \in SUBSET Tags
  BY DEF TagsOf
<1>2. Cardinality(TagsOf(t) \union {g \in gs : Live(g)}) \in Nat
  BY <1>1, Fewer
<1>3. QED
  BY <1>2, LimitsAssumption DEF Unchecked, TagsInv, TypeOK

LEMMA AssignInsertNext ==
  ASSUME TagsInv, NEW r \in Requests, AssignInsert(r)
  PROVE  TagsInv'
<1>0. /\ request[r] \in AssignRequest
      /\ request[r].tx \in TxIds /\ request[r].tag \in Tags
      /\ request[r].seen \subseteq Tags
  BY Shapes, AssignShape DEF AssignInsert, AtStep, TagsInv
<1>1. PICK t \in TxIds, g \in Tags : t = request[r].tx /\ g = request[r].tag
  BY <1>0
<1>2. MayRefer(t, {g}) /\ Insert(t, {g})
  BY <1>1 DEF AssignInsert
<1>3. /\ unlimited' \subseteq TxIds /\ unlimited \subseteq unlimited'
      /\ t \notin unlimited' => ~request[r].overtaken
  BY <1>1 DEF AssignInsert, TagsInv, TypeOK
<1>4. /\ assigned' \subseteq Pairs
      /\ \A p \in assigned' : MayRefer(p[1], {p[2]})'
      /\ \A u \in TxIds \ {t} : TagsOf(u)' \subseteq TagsOf(u)
      /\ TagsOf(t)' = TagsOf(t) \union {h \in {g} : Live(h)}
      /\ untold' \subseteq assigned' /\ missed' \subseteq assigned'
      /\ UNCHANGED <<tag, tx, missed, ended, intended, clobbered>>
  <2>1. {g} \in SUBSET Tags
    OBVIOUS
  <2>2. QED
    BY <1>2, <2>1, Inserted
<1>5. \A u \in {t} \ unlimited' : Cardinality(TagsOf(u)') <= Limit
  <2> SUFFICES ASSUME t \notin unlimited'
               PROVE  Cardinality(TagsOf(t)') <= Limit
    OBVIOUS
  <2>1. /\ TagsOf(t) \subseteq request[r].seen
        /\ Cardinality(request[r].seen \union {g}) <= Limit
    BY <1>1, <1>3 DEF AssignInsert, AtStep, TagsInv, CountsAreCurrent
  <2>2. TagsOf(t)' \subseteq request[r].seen \union {g}
    BY <1>4, <2>1
  <2>3. request[r].seen \union {g} \in SUBSET Tags
    BY <1>0
  <2>4. QED
    BY <2>1, <2>2, <2>3, Fewer, LimitsAssumption
<1>6. request' = Overtake([request EXCEPT ![r] = None], {t})
  BY <1>1 DEF AssignInsert
<1>7. {t} \in SUBSET TxIds
  BY <1>1
<1>8. tx' \in [TxIds -> {"unsaved", "saved", "purged"}]
  BY <1>4 DEF TagsInv, TypeOK
<1>9. QED
  BY <1>3, <1>4, <1>5, <1>6, <1>7, <1>8, SlotEmptied, PairsNext

\* SaveTags and PushAssign: an assignment that does not look at the limit.
LEMMA UncheckedNext ==
  ASSUME TagsInv, NEW req \in [Requests -> Request \union {None}],
         \A r \in Requests : req[r] \in {request[r], None},
         NEW t \in TxIds, NEW gs \in SUBSET Tags,
         MayRefer(t, gs), Insert(t, gs), Unchecked(t, gs),
         request' = Overtake(req, {t})
  PROVE  TagsInv'
<1>1. /\ unlimited' \subseteq TxIds /\ unlimited \subseteq unlimited'
      /\ t \notin unlimited' =>
           Cardinality(TagsOf(t) \union {g \in gs : Live(g)}) <= Limit
  BY UncheckedIsRecorded
<1>2. /\ assigned' \subseteq Pairs
      /\ \A p \in assigned' : MayRefer(p[1], {p[2]})'
      /\ \A u \in TxIds \ {t} : TagsOf(u)' \subseteq TagsOf(u)
      /\ TagsOf(t)' = TagsOf(t) \union {g \in gs : Live(g)}
      /\ untold' \subseteq assigned' /\ missed' \subseteq assigned'
      /\ UNCHANGED <<tag, tx, missed, ended, intended, clobbered>>
  BY Inserted
<1>3. \A u \in {t} \ unlimited' : Cardinality(TagsOf(u)') <= Limit
  BY <1>1, <1>2
<1>4. {t} \in SUBSET TxIds /\ tx' \in [TxIds -> {"unsaved", "saved", "purged"}]
  BY <1>2 DEF TagsInv, TypeOK
<1>5. QED
  BY <1>1, <1>2, <1>3, <1>4, PairsNext

\* RemoveWrite, PushUnassign and Purge.
LEMMA EraseNext ==
  ASSUME TagsInv, NEW req \in [Requests -> Request \union {None}],
         \A r \in Requests : req[r] \in {request[r], None},
         request' = req, NEW pairs, Erase(pairs),
         tx' \in [TxIds -> {"unsaved", "saved", "purged"}],
         \A t \in TxIds : tx'[t] = tx[t] \/ {t} \X Tags \subseteq pairs
  PROVE  TagsInv'
<1>1. req = Overtake(req, {})
  BY DEF Overtake
<1>2. /\ assigned' \subseteq Pairs
      /\ \A p \in assigned' : MayRefer(p[1], {p[2]})'
  BY DEF Erase, history, TagsInv, TypeOK, MayRefer, Pairs
<1>3. \A t \in TxIds : TagsOf(t)' \subseteq TagsOf(t)
  BY DEF Erase, TagsOf, Live
<1>4. /\ untold' \subseteq assigned' /\ missed' \subseteq assigned'
      /\ missed' \subseteq missed
      /\ unlimited' \subseteq TxIds /\ unlimited' = unlimited
      /\ UNCHANGED <<tag, ended, intended, clobbered>>
  BY DEF Erase, history, TagsInv, TypeOK
<1>5. QED
  BY <1>1, <1>2, <1>3, <1>4, PairsNext

(* PUT: the row that was read is written.  If the tag was deleted in       *)
(* between, the transactions that have it are overtaken and recorded.      *)
LEMMA UpdateNext ==
  ASSUME TagsInv, NEW r \in Requests, UpdateWrite(r)
  PROVE  TagsInv'
<1>1. /\ At(r, "update") /\ request[r].tag \in Tags /\ request[r].row \in Row
      /\ tag[request[r].tag] # None /\ ~request[r].row.deleted
  BY Shapes DEF UpdateWrite, TagsInv, ReadsAreCurrent
<1>2. PICK g \in Tags, old \in Row :
           g = request[r].tag /\ old = request[r].row
  BY <1>1
<1> DEFINE revived == {t \in TxIds : tag[g].deleted /\ <<t, g>> \in assigned}
<1>3. /\ tag' = [tag EXCEPT ![g] = old]
      /\ request' = Overtake([request EXCEPT ![r] = None], revived)
      /\ unlimited' = unlimited \union revived
      /\ UNCHANGED <<tx, assigned, pulls, intended, clobbered>>
  BY <1>2 DEF UpdateWrite
<1>4. /\ request' \in [Requests -> Request \union {None}]
      /\ \A s \in Requests :
           /\ At(s, "update")' => At(s, "update") /\ request'[s] = request[s]
           /\ At(s, "delete")' => At(s, "delete") /\ request'[s] = request[s]
           /\ At(s, "assign")' /\ ~request'[s].overtaken =>
                /\ At(s, "assign") /\ request'[s] = request[s]
                /\ request[s].tx \in TxIds \ revived
  <2> HIDE DEF revived
  <2>1. QED
    BY <1>3, SlotEmptied, OvertakeKeepsReads
<1>5. /\ tag' \in [Tags -> Row \union {None}] /\ tag'[g] = old
      /\ \A h \in Tags \ {g} : tag'[h] = tag[h]
      /\ \A h \in Tags : tag[h] # None => tag'[h] # None
  BY <1>2, <1>3, NoneAssumption DEF TagsInv, TypeOK
<1>6. TypeOK'
  <2>1. \A p \in assigned : MayRefer(p[1], {p[2]})'
    BY <1>3, <1>5 DEF TagsInv, TypeOK, Pairs, MayRefer
  <2>2. QED
    BY <1>3, <1>4, <1>5, <2>1 DEF TagsInv, TypeOK, pulls
<1>7. \A t \in TxIds \ revived : TagsOf(t)' \subseteq TagsOf(t)
  BY <1>1, <1>2, <1>3, <1>5 DEF TagsOf, Live
<1>8. LimitHolds'
  <2> SUFFICES ASSUME NEW t \in TxIds \ unlimited'
               PROVE  Cardinality(TagsOf(t)') <= Limit
    BY DEF LimitHolds
  <2>1. TagsOf(t) \in SUBSET Tags /\ TagsOf(t)' \subseteq TagsOf(t)
    BY <1>3, <1>7 DEF TagsOf
  <2>2. Cardinality(TagsOf(t)) <= Limit
    BY <1>3 DEF TagsInv, LimitHolds
  <2>3. QED
    BY <2>1, <2>2, Fewer, LimitsAssumption
<1>9. CountsAreCurrent'
  <2> SUFFICES ASSUME NEW s \in Requests, At(s, "assign")',
                      ~request'[s].overtaken
               PROVE  /\ TagsOf(request[s].tx)' \subseteq request'[s].seen
                      /\ Cardinality(request'[s].seen \union {request'[s].tag}) <= Limit
    BY DEF CountsAreCurrent
  <2>1. /\ At(s, "assign") /\ request'[s] = request[s]
        /\ request[s].tx \in TxIds \ revived
    BY <1>4
  <2>2. PICK t \in TxIds \ revived : t = request[s].tx
    BY <2>1
  <2>3. TagsOf(t)' \subseteq request[s].seen
    BY <1>7, <2>1, <2>2 DEF TagsInv, CountsAreCurrent
  <2>4. TagsOf(request[s].tx)' = TagsOf(t)'
    BY <2>1, <2>2
  <2>5. QED
    BY <2>1, <2>3, <2>4 DEF TagsInv, CountsAreCurrent
<1>10. g \notin clobbered => tag'[g] = tag[g]
  BY <1>1, <1>2, <1>5 DEF TagsInv, ReadsAreCurrent
<1>11. RowsAreIntended'
  BY <1>3, <1>5, <1>10 DEF TagsInv, RowsAreIntended
<1>12. ReadsAreCurrent'
  <2> SUFFICES ASSUME NEW s \in Requests, request'[s] = request[s],
                      At(s, "update") \/ At(s, "delete")
               PROVE  /\ tag'[request[s].tag] # None
                      /\ At(s, "update") =>
                           /\ ~request[s].row.deleted
                           /\ request[s].tag \notin clobbered' =>
                                request[s].row = tag'[request[s].tag]
    BY <1>4 DEF ReadsAreCurrent
  <2>1. request[s].tag \in Tags
    BY Shapes DEF TagsInv
  <2>2. request[s].tag \notin clobbered => tag'[request[s].tag] = tag[request[s].tag]
    BY <1>5, <1>10, <2>1
  <2>3. QED
    BY <1>3, <1>5, <2>1, <2>2 DEF TagsInv, ReadsAreCurrent
<1>13. PullsAreComplete'
  BY <1>3 DEF TagsInv, PullsAreComplete, pulls
<1>14. QED
  BY <1>6, <1>8, <1>9, <1>11, <1>12, <1>13 DEF TagsInv

(* A page that is not full has every assignment.                           *)
LEMMA PullNext ==
  ASSUME TagsInv, NEW page \in SUBSET Pairs, Pull(page)
  PROVE  TagsInv'
<1>1. UNCHANGED <<tag, tx, assigned, request, intended, clobbered, unlimited>>
  BY DEF Pull, rows, history
<1>2. /\ untold' = {} /\ missed' = (missed \union untold) \ page
      /\ ended' \in BOOLEAN
      /\ ended' => page = assigned
  <2>1. CASE Cardinality(page) = Page
    <3>1. (Cardinality(page) < Page) = FALSE
      BY <2>1, LimitsAssumption
    <3>2. ended' = (Cardinality(page) < Page)
      BY Zenon DEF Pull
    <3>3. ended' = FALSE
      BY <3>1, <3>2, Zenon
    <3>4. QED
      BY <3>3 DEF Pull
  <2>2. CASE page = assigned
    BY <2>2 DEF Pull
  <2>3. QED
    BY <2>1, <2>2 DEF Pull
<1>3. TypeOK'
  BY <1>1, <1>2 DEF TagsInv, TypeOK, MayRefer
<1>4. PullsAreComplete'
  BY <1>2 DEF TagsInv, TypeOK, PullsAreComplete
<1>5. LimitHolds' /\ RowsAreIntended' /\ CountsAreCurrent' /\ ReadsAreCurrent'
  BY <1>1
     DEF TagsInv, LimitHolds, RowsAreIntended, CountsAreCurrent, ReadsAreCurrent,
         TagsOf, Live, At
<1>6. QED
  BY <1>3, <1>4, <1>5 DEF TagsInv

-----------------------------------------------------------------------------
LEMMA NextTags == TagsInv /\ [Next]_vars => TagsInv'
<1> SUFFICES ASSUME TagsInv, [Next]_vars
             PROVE  TagsInv'
  OBVIOUS
<1>1. ASSUME NEW r \in Requests, TagRoute(r) PROVE TagsInv'
  <2>1. CASE CreateInsert(r) \/ DeleteWrite(r)
    BY <2>1, RowSteps, RowNext
  <2>2. CASE UpdateWrite(r)
    BY <2>2, UpdateNext
  <2>3. CASE AssignInsert(r)
    BY <2>3, AssignInsertNext
  <2>4. CASE RemoveWrite(r)
    <3>1. /\ request' = [request EXCEPT ![r] = None] /\ tx' = tx
          /\ Erase({<<request[r].tx, request[r].tag>>})
      BY <2>4 DEF RemoveWrite, End
    <3>2. tx' \in [TxIds -> {"unsaved", "saved", "purged"}]
      BY <3>1 DEF TagsInv, TypeOK
    <3>3. QED
      BY <3>1, <3>2, SlotEmptied, EraseNext
  <2>5. QED
    BY <1>1, <2>1, <2>2, <2>3, <2>4, SlotNext DEF TagRoute
<1>2. ASSUME NEW r \in Requests, SaveRoute(r) PROVE TagsInv'
  <2>1. CASE SaveTags(r)
    <3>1. request[r].tx \in TxIds /\ request[r].tags \subseteq Tags
      BY <2>1, Shapes DEF SaveTags, TagsInv
    <3>2. PICK t \in TxIds, gs \in SUBSET Tags :
               t = request[r].tx /\ gs = request[r].tags
      BY <3>1
    <3>3. /\ MayRefer(t, gs) /\ Insert(t, gs) /\ Unchecked(t, gs)
          /\ request' = Overtake([request EXCEPT ![r] = None], {t})
      BY <2>1, <3>2 DEF SaveTags
    <3>4. QED
      BY <3>3, SlotEmptied, UncheckedNext
  <2>2. QED
    BY <1>2, <2>1, SlotNext DEF SaveRoute
<1>3. ASSUME NEW r \in Requests, Fail(r) PROVE TagsInv'
  BY <1>3, SlotNext
<1>4. ASSUME Push PROVE TagsInv'
  <2>1. ASSUME NEW t \in TxIds, NEW g \in Tags, PushAssign(t, g) PROVE TagsInv'
    <3>1. {g} \in SUBSET Tags
      OBVIOUS
    <3>2. MayRefer(t, {g}) /\ Insert(t, {g}) /\ Unchecked(t, {g})
          /\ request' = Overtake(request, {t})
      BY <2>1 DEF PushAssign
    <3>3. request \in [Requests -> Request \union {None}]
      BY DEF TagsInv, TypeOK
    <3>4. QED
      BY <3>1, <3>2, <3>3, UncheckedNext
  <2>2. ASSUME NEW t \in TxIds, NEW g \in Tags, PushUnassign(t, g) PROVE TagsInv'
    <3>1. Erase({<<t, g>>}) /\ request' = request /\ tx' = tx
      BY <2>2 DEF PushUnassign
    <3>2. /\ request \in [Requests -> Request \union {None}]
          /\ tx' \in [TxIds -> {"unsaved", "saved", "purged"}]
      BY <3>1 DEF TagsInv, TypeOK
    <3>3. QED
      BY <3>1, <3>2, EraseNext
  <2>3. QED
    BY <1>4, <2>1, <2>2, RowSteps, RowNext DEF Push
<1>5. ASSUME NEW page \in SUBSET Pairs, Pull(page) PROVE TagsInv'
  BY <1>5, PullNext
<1>6. ASSUME NEW t \in TxIds, Purge(t) PROVE TagsInv'
  <2>1. /\ Erase({t} \X Tags) /\ request' = request
        /\ request \in [Requests -> Request \union {None}]
    BY <1>6 DEF Purge, TagsInv, TypeOK
  <2>2. /\ tx' \in [TxIds -> {"unsaved", "saved", "purged"}]
        /\ \A u \in TxIds : tx'[u] = tx[u] \/ {u} \X Tags \subseteq {t} \X Tags
    BY <1>6 DEF Purge, TagsInv, TypeOK
  <2>3. QED
    BY <2>1, <2>2, EraseNext
<1>7. CASE UNCHANGED vars
  BY <1>7
     DEF vars, rows, pulls, history, TagsInv, TypeOK, MayRefer, LimitHolds,
         RowsAreIntended, CountsAreCurrent, ReadsAreCurrent, PullsAreComplete,
         TagsOf, Live, At
<1>8. QED
  BY <1>1, <1>2, <1>3, <1>4, <1>5, <1>6, <1>7 DEF Next

(* The inductive invariant holds, whatever requests, pushes, pulls and     *)
(* purges run concurrently.                                                *)
THEOREM TagsInvariant == Spec => []TagsInv
<1>1. Init => TagsInv
  BY InitTags
<1>2. TagsInv /\ [Next]_vars => TagsInv'
  BY NextTags
<1>3. QED
  BY <1>1, <1>2, PTL DEF Spec

(* assignTagsToTransaction: a transaction shows at most Limit tags, but    *)
(* for those that an overtaken assignment, an unchecked save or push or a  *)
(* revived tag took past it.                                               *)
THEOREM AtMostLimitTags == Spec => []LimitHolds
<1>1. TagsInv => LimitHolds
  BY DEF TagsInv
<1>2. QED
  BY <1>1, TagsInvariant, PTL

(* updateTag: a deleted tag does not come back and a new name is not lost, *)
(* unless an update of the tag had read it before.                         *)
THEOREM NoTagComesBack == Spec => []RowsAreIntended
<1>1. TagsInv => RowsAreIntended
  BY DEF TagsInv
<1>2. QED
  BY <1>1, TagsInvariant, PTL

(* pullChanges: a pull of assignments that ends has returned all of them.  *)
THEOREM EndedPullsAreComplete == Spec => []PullsAreComplete
<1>1. TagsInv => PullsAreComplete
  BY DEF TagsInv
<1>2. QED
  BY <1>1, TagsInvariant, PTL
=============================================================================
