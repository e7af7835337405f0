--------------------------- MODULE SyncPushProofs ---------------------------
(***************************************************************************)
(* PushInv is an inductive invariant of SyncPush, for every set of         *)
(* operations, records and overlapping pushes.                             *)
(*                                                                         *)
(* Every step of the handler stores one record in the slot of its push.    *)
(* Those that apply, cache and answer nothing (a lookup, a find, a         *)
(* rejection, an end) are proved by what that record may be.               *)
(***************************************************************************)
EXTENDS SyncPush, TLAPS

\* Storing a well-typed value in the slot of a push changes that slot only.
LEMMA BecomeOnly ==
  ASSUME request \in [Client -> Request],
         NEW c \in Client, NEW r \in Request, Become(c, r)
  PROVE  /\ request' \in [Client -> Request]
         /\ request'[c] = r
         /\ \A d \in Client : d # c => request'[d] = request[d]
BY DEF Become

LEMMA IdleShape == Idle \in Request /\ NoResult \in [Op -> Verdict]
BY DEF Idle, Request, NoResult, Step, Verdict

\* The fields of a push that has its verdict on the operation it is at.
LEMMA AnsweredShape ==
  ASSUME TypeOK, NEW c \in Client, NEW op \in Op, NEW v \in Verdict,
         Answered(c, op, v)
  PROVE  /\ request' \in [Client -> Request]
         /\ \A d \in Client : d # c => request'[d] = request[d]
         /\ request'[c].step = "next"
         /\ request'[c].op = None
         /\ request'[c].batch = request[c].batch
         /\ request'[c].todo = request[c].todo \ {op}
         /\ request'[c].result = [request[c].result EXCEPT ![op] = v]
<1> DEFINE r == [request[c] EXCEPT !.step = "next", !.op = None,
                                   !.todo = @ \ {op}, !.result[op] = v]
<1>1. request[c] \in Request
  BY DEF TypeOK
<1>2. r \in Request
  BY <1>1 DEF Request, Step
<1>3. Become(c, r)
  BY DEF Answered
<1>4. /\ r.step = "next"
      /\ r.op = None
      /\ r.batch = request[c].batch
      /\ r.todo = request[c].todo \ {op}
      /\ r.result = [request[c].result EXCEPT ![op] = v]
  BY <1>1 DEF Request
<1> HIDE DEF r
<1> QED
  BY <1>2, <1>3, <1>4, BecomeOnly DEF TypeOK

\* The fields of a push that goes to its next step, and to op.
LEMMA GotoShape ==
  ASSUME TypeOK, NEW c \in Client, NEW op \in Op, NEW step \in Step,
         Become(c, [request[c] EXCEPT !.op = op, !.step = step])
  PROVE  /\ request' \in [Client -> Request]
         /\ \A d \in Client : d # c => request'[d] = request[d]
         /\ request'[c].step = step
         /\ request'[c].op = op
         /\ request'[c].batch = request[c].batch
         /\ request'[c].todo = request[c].todo
         /\ request'[c].result = request[c].result
<1> DEFINE r == [request[c] EXCEPT !.op = op, !.step = step]
<1>1. request[c] \in Request
  BY DEF TypeOK
<1>2. r \in Request
  BY <1>1 DEF Request
<1>3. Become(c, r)
  OBVIOUS
<1>4. /\ r.step = step
      /\ r.op = op
      /\ r.batch = request[c].batch
      /\ r.todo = request[c].todo
      /\ r.result = request[c].result
  BY <1>1 DEF Request
<1> HIDE DEF r
<1> QED
  BY <1>2, <1>3, <1>4, BecomeOnly DEF TypeOK

LEMMA GotoIsBecome ==
  ASSUME TypeOK, NEW c \in Client, NEW step, Goto(c, step)
  PROVE  Become(c, [request[c] EXCEPT !.op = request[c].op, !.step = step])
<1>1. request[c] \in Request
  BY DEF TypeOK
<1>2. [request[c] EXCEPT !.step = step]
        = [request[c] EXCEPT !.op = request[c].op, !.step = step]
  BY <1>1 DEF Request
<1> QED
  BY <1>2 DEF Goto

\* BatchInOrder has to be shown of the push that takes the step only.
LEMMA SlotInOrder ==
  ASSUME BatchInOrder, NEW c \in Client,
         \A d \in Client : d # c => request'[d] = request[d],
         \A op \in Op : applied[op] > 0 => applied'[op] > 0,
         \A d \in Client : request[d].step = "cache" => request[d].op \in Op,
         request'[c].todo \subseteq request'[c].batch,
         \A op \in Op : AtWork(c, op)' => op \in request'[c].todo,
         request'[c].step = "cache" => applied'[request'[c].op] > 0,
         \A op \in Op : request'[c].result[op] # "none" <=>
                          op \in request'[c].batch \ request'[c].todo
  PROVE  BatchInOrder'
<1> SUFFICES ASSUME NEW d \in Client
             PROVE  /\ request'[d].todo \subseteq request'[d].batch
                    /\ \A op \in Op : AtWork(d, op)' => op \in request'[d].todo
                    /\ request'[d].step = "cache" => applied'[request'[d].op] > 0
                    /\ \A op \in Op : request'[d].result[op] # "none" <=>
                                         op \in request'[d].batch \ request'[d].todo
  BY DEF BatchInOrder
<1>1. CASE d = c
  BY <1>1
<1>2. CASE d # c
  <2>1. request'[d] = request[d]
    BY <1>2
  <2>2. \A op \in Op : AtWork(d, op)' => AtWork(d, op)
    BY <2>1 DEF AtWork
  <2> QED
    BY <2>1, <2>2 DEF BatchInOrder
<1> QED
  BY <1>1, <1>2

-----------------------------------------------------------------------------
LEMMA InitPushInv == Init => PushInv
<1> SUFFICES ASSUME Init PROVE PushInv
  OBVIOUS
<1>1. \A c \in Client : request[c] = Idle
  BY DEF Init
<1>2. /\ Idle.step = "idle"
      /\ Idle.batch = {}
      /\ Idle.todo = {}
      /\ \A op \in Op : Idle.result[op] = "none" /\ NoResult[op] = "none"
  BY DEF Idle, NoResult
<1>3. TypeOK
  <2>1. row \in [Record -> Row]
    <3>1. ASSUME NEW r \in [there: BOOLEAN, deleted: {FALSE}, updated: {0}]
          PROVE  r \in Row
      <4>1. r.there \in BOOLEAN /\ r.deleted \in {FALSE} /\ r.updated \in {0}
        BY <3>1
      <4>2. r.deleted \in BOOLEAN
        BY <4>1, Zenon
      <4>3. r.updated \in Nat
        BY <4>1
      <4>4. r = [there |-> r.there, deleted |-> r.deleted, updated |-> r.updated]
        BY <3>1
      <4> QED
        BY <4>1, <4>2, <4>3, <4>4 DEF Row
    <3>2. \A x \in Record : row[x] \in [there: BOOLEAN, deleted: {FALSE}, updated: {0}]
      BY DEF Init
    <3>3. row = [x \in Record |-> row[x]]
      BY DEF Init
    <3> QED
      BY <3>1, <3>2, <3>3
  <2>2. request \in [Client -> Request]
    BY IdleShape DEF Init
  <2> QED
    BY <1>1, <1>2, <2>1, <2>2, IdleShape DEF Init, TypeOK
<1>4. OneAtWork /\ NotYetCached /\ BatchInOrder /\ BatchesApart
  BY <1>1, <1>2 DEF OneAtWork, NotYetCached, BatchInOrder, BatchesApart, AtWork
<1>5. VerdictsAreTrue /\ AppliedOnce /\ AnswersAreTrue
  BY <1>1, <1>2 DEF Init, VerdictsAreTrue, AppliedOnce, AnswersAreTrue, Cached
<1> QED
  BY <1>3, <1>4, <1>5 DEF PushInv

-----------------------------------------------------------------------------
(* The device. *)

\* A new batch: what is in it and in no other is not yet resent.
LEMMA PushStep ==
  ASSUME PushInv, NEW c \in Client, NEW batch \in SUBSET Op, Push(c, batch)
  PROVE  PushInv'
<1> DEFINE r == [Idle EXCEPT !.step = "next", !.batch = batch, !.todo = batch]
<1>1. r \in Request /\ Become(c, r)
  BY IdleShape DEF Push, Request, Step
<1>2. /\ r.step = "next"
      /\ r.batch = batch
      /\ r.todo = batch
      /\ \A op \in Op : r.result[op] = "none"
  BY DEF Idle, NoResult
<1> HIDE DEF r
<1>3. /\ request' \in [Client -> Request]
      /\ request'[c] = r
      /\ \A d \in Client : d # c => request'[d] = request[d]
  BY <1>1, BecomeOnly DEF PushInv, TypeOK
<1>4. request[c].step = "idle" /\ request[c].batch = {}
  BY DEF Push, Idle
<1>5. \A d \in Client, op \in Op : AtWork(d, op)' <=> AtWork(d, op)
  BY <1>2, <1>3, <1>4 DEF AtWork
<1>6. \A op \in Op : Cached(op)' <=> Cached(op)
  BY <1>2, <1>3, <1>4 DEF Cached, Push
<1>7. TypeOK'
  BY <1>2, <1>3 DEF PushInv, TypeOK, Push, Verdict
<1>8. OneAtWork' /\ NotYetCached'
  BY <1>5 DEF PushInv, OneAtWork, NotYetCached, Push
<1>9. BatchInOrder'
  <2>1. BatchInOrder /\ applied' = applied
    BY DEF PushInv, Push
  <2>2. \A d \in Client : request[d].step = "cache" => request[d].op \in Op
    BY DEF PushInv, TypeOK
  <2>3. \A op \in Op : ~AtWork(c, op)'
    BY <1>2, <1>3 DEF AtWork
  <2> QED
    BY <1>2, <1>3, <2>1, <2>2, <2>3, SlotInOrder
<1>10. BatchesApart'
  <2> SUFFICES ASSUME NEW op \in Op, op \notin resent', NEW d \in Client,
                      op \in request'[d].batch
               PROVE  told'[op] = "none"
                      /\ \A e \in Client : op \in request'[e].batch => e = d
    BY DEF BatchesApart
  <2>1. op \notin resent /\ (op \in batch => \A e \in Client : op \notin request[e].batch)
    BY DEF Push
  <2> QED
    BY <2>1, <1>2, <1>3 DEF PushInv, BatchesApart, Push
<1>11. VerdictsAreTrue'
  BY <1>2, <1>3 DEF PushInv, VerdictsAreTrue, Push
<1>12. AppliedOnce'
  BY <1>6 DEF PushInv, AppliedOnce, Push
<1>13. AnswersAreTrue'
  BY DEF PushInv, AnswersAreTrue, Push
<1> QED
  BY <1>7, <1>8, <1>9, <1>10, <1>11, <1>12, <1>13 DEF PushInv

\* At the end of a push every operation of its batch has a verdict, so that what
\* is not rejected was accepted.
LEMMA AnswerTells ==
  ASSUME PushInv, NEW c \in Client, Answer(c)
  PROVE  told' = [op \in Op |-> IF op \in request[c].batch THEN request[c].result[op] ELSE told[op]]
<1>1. request[c] \in Request /\ request[c].todo = {} /\ request[c].step = "next"
  BY DEF PushInv, TypeOK, Answer
<1>2. \A op \in request[c].batch : request[c].result[op] \in {"accepted", "rejected"}
  <2>1. \A op \in Op : request[c].result[op] # "none" <=> op \in request[c].batch \ request[c].todo
    BY <1>1 DEF PushInv, BatchInOrder
  <2> QED
    BY <1>1, <2>1 DEF Request, Verdict
<1> QED
  BY <1>2 DEF Answer

\* The device hears the verdicts of its push.
LEMMA AnswerStep ==
  ASSUME PushInv, NEW c \in Client, Answer(c)
  PROVE  PushInv'
<1>1. /\ request' \in [Client -> Request]
      /\ request'[c] = Idle
      /\ \A d \in Client : d # c => request'[d] = request[d]
  BY BecomeOnly, IdleShape DEF PushInv, TypeOK, Answer
<1>2. /\ Idle.step = "idle"
      /\ Idle.batch = {}
      /\ Idle.todo = {}
      /\ \A op \in Op : Idle.result[op] = "none"
  BY DEF Idle, NoResult
<1>3. request[c].step = "next" /\ request[c] \in Request
  BY DEF Answer, PushInv, TypeOK
<1>4. /\ clock' = clock /\ row' = row /\ applied' = applied /\ clientOps' = clientOps
      /\ torn' = torn /\ resent' = resent
  BY DEF Answer, history
<1>5. told' \in [Op -> Verdict]
      /\ \A op \in Op : told'[op] = IF op \in request[c].batch THEN request[c].result[op] ELSE told[op]
  BY <1>3, AnswerTells DEF Request, PushInv, TypeOK
<1>6. \A d \in Client, op \in Op : AtWork(d, op)' <=> AtWork(d, op)
  BY <1>1, <1>2, <1>3 DEF AtWork
<1>7. \A op \in Op : Cached(op)' <=> Cached(op)
  BY <1>1, <1>2, <1>3, <1>4 DEF Cached
<1>8. TypeOK'
  BY <1>1, <1>2, <1>4, <1>5 DEF PushInv, TypeOK
<1>9. OneAtWork' /\ NotYetCached'
  BY <1>4, <1>6 DEF PushInv, OneAtWork, NotYetCached
<1>10. BatchInOrder'
  <2>1. BatchInOrder
    BY DEF PushInv
  <2>2. \A d \in Client : request[d].step = "cache" => request[d].op \in Op
    BY DEF PushInv, TypeOK
  <2>3. \A op \in Op : ~AtWork(c, op)'
    BY <1>1, <1>2 DEF AtWork
  <2> QED
    BY <1>1, <1>2, <1>4, <2>1, <2>2, <2>3, SlotInOrder
<1>11. BatchesApart'
  BY <1>1, <1>2, <1>4, <1>5 DEF PushInv, BatchesApart
<1>12. VerdictsAreTrue'
  BY <1>1, <1>2, <1>4 DEF PushInv, VerdictsAreTrue
<1>13. AppliedOnce'
  BY <1>4, <1>7 DEF PushInv, AppliedOnce
<1>14. AnswersAreTrue'
  BY <1>4, <1>5 DEF PushInv, AnswersAreTrue, VerdictsAreTrue
<1> QED
  BY <1>8, <1>9, <1>10, <1>11, <1>12, <1>13, <1>14 DEF PushInv

\* A push that ends leaves an operation torn if it has not cached it.
LEMMA FailStep ==
  ASSUME PushInv, NEW c \in Client, Fail(c)
  PROVE  PushInv'
<1>1. /\ request' \in [Client -> Request]
      /\ request'[c] = Idle
      /\ \A d \in Client : d # c => request'[d] = request[d]
  BY BecomeOnly, IdleShape DEF PushInv, TypeOK, Fail
<1>2. /\ Idle.step = "idle"
      /\ Idle.batch = {}
      /\ Idle.todo = {}
      /\ \A op \in Op : Idle.result[op] = "none"
  BY DEF Idle, NoResult
<1>3. /\ torn \subseteq torn' /\ torn' \subseteq Op
      /\ \A op \in Op \ torn' : request[c].step = "cache" => request[c].op # op
  BY DEF Fail, PushInv, TypeOK
<1>4. \A d \in Client, op \in Op : AtWork(d, op)' => AtWork(d, op)
  BY <1>1, <1>2 DEF AtWork
<1>5. \A op \in Op \ torn' : Cached(op)' <=> Cached(op)
  BY <1>1, <1>2, <1>3 DEF Cached, Fail
<1>6. TypeOK'
  BY <1>1, <1>2, <1>3 DEF PushInv, TypeOK, Fail
<1>7. OneAtWork' /\ NotYetCached'
  BY <1>3, <1>4 DEF PushInv, OneAtWork, NotYetCached, Fail
<1>8. BatchInOrder'
  <2>1. BatchInOrder /\ applied' = applied
    BY DEF PushInv, Fail
  <2>2. \A d \in Client : request[d].step = "cache" => request[d].op \in Op
    BY DEF PushInv, TypeOK
  <2>3. \A op \in Op : ~AtWork(c, op)'
    BY <1>1, <1>2 DEF AtWork
  <2> QED
    BY <1>1, <1>2, <2>1, <2>2, <2>3, SlotInOrder
<1>9. BatchesApart'
  BY <1>1, <1>2 DEF PushInv, BatchesApart, Fail
<1>10. VerdictsAreTrue'
  BY <1>1, <1>2, <1>3 DEF PushInv, VerdictsAreTrue, Fail
<1>11. AppliedOnce'
  BY <1>3, <1>5 DEF PushInv, AppliedOnce, Fail
<1>12. AnswersAreTrue'
  BY <1>3 DEF PushInv, AnswersAreTrue, Fail
<1> QED
  BY <1>6, <1>7, <1>8, <1>9, <1>10, <1>11, <1>12 DEF PushInv

-----------------------------------------------------------------------------
(* The handler. *)

\* A cached operation is answered; another one is taken to work, and is torn
\* if it is at work already.
LEMMA LookupStep ==
  ASSUME PushInv, NEW c \in Client, NEW op \in Op, Lookup(c, op)
  PROVE  PushInv'
<1>1. CASE op \in clientOps
  <2>1. /\ request' \in [Client -> Request]
        /\ \A d \in Client : d # c => request'[d] = request[d]
        /\ request'[c].step = "next"
        /\ request'[c].batch = request[c].batch
        /\ request'[c].todo = request[c].todo \ {op}
        /\ request'[c].result = [request[c].result EXCEPT ![op] = "accepted"]
        /\ torn' = torn
    BY <1>1, AnsweredShape DEF PushInv, Lookup, Verdict
  <2>2. request[c].step = "next" /\ request[c] \in Request /\ op \in request[c].todo
    BY DEF Lookup, PushInv, TypeOK
  <2>3. \A p \in Op : request'[c].result[p] = IF p = op THEN "accepted" ELSE request[c].result[p]
    BY <2>1, <2>2 DEF Request
  <2>4. \A d \in Client, p \in Op : AtWork(d, p)' <=> AtWork(d, p)
    BY <2>1, <2>2 DEF AtWork
  <2>5. \A p \in Op : Cached(p)' <=> Cached(p)
    BY <2>1, <2>2 DEF Cached, Lookup
  <2>6. TypeOK'
    BY <2>1 DEF PushInv, TypeOK, Lookup
  <2>7. OneAtWork' /\ NotYetCached'
    BY <2>1, <2>4 DEF PushInv, OneAtWork, NotYetCached, Lookup
  <2>8. BatchInOrder'
    <3>1. BatchInOrder /\ applied' = applied
      BY DEF PushInv, Lookup
    <3>2. \A d \in Client : request[d].step = "cache" => request[d].op \in Op
      BY DEF PushInv, TypeOK
    <3>3. \A p \in Op : ~AtWork(c, p)'
      BY <2>1 DEF AtWork
    <3>4. request'[c].todo \subseteq request'[c].batch
      BY <2>1, <3>1 DEF BatchInOrder
    <3>5. \A p \in Op : request'[c].result[p] # "none" <=> p \in request'[c].batch \ request'[c].todo
      BY <2>1, <2>2, <2>3, <3>1 DEF BatchInOrder
    <3> QED
      BY <2>1, <3>1, <3>2, <3>3, <3>4, <3>5, SlotInOrder
  <2>9. BatchesApart'
    BY <2>1 DEF PushInv, BatchesApart, Lookup
  <2>10. VerdictsAreTrue'
    <3>1. VerdictsAreTrue /\ applied' = applied /\ clientOps' = clientOps /\ resent' = resent
      BY DEF PushInv, Lookup
    <3>2. \A d \in Client, p \in Op :
            request'[d].result[p] = request[d].result[p]
              \/ (p = op /\ request'[d].result[p] = "accepted")
      BY <2>1, <2>3
    <3> QED
      BY <1>1, <2>1, <3>1, <3>2 DEF VerdictsAreTrue
  <2>11. AppliedOnce'
    BY <2>1, <2>5 DEF PushInv, AppliedOnce, Lookup
  <2>12. AnswersAreTrue'
    BY <2>1 DEF PushInv, AnswersAreTrue, Lookup
  <2> QED
    BY <2>6, <2>7, <2>8, <2>9, <2>10, <2>11, <2>12 DEF PushInv
<1>2. CASE op \notin clientOps
  <2> DEFINE step == IF Kind[op] \in Creates THEN "apply" ELSE "find"
  <2>1. /\ step \in Step /\ step \in {"find", "apply"}
        /\ Become(c, [request[c] EXCEPT !.op = op, !.step = step])
    BY <1>2 DEF Lookup, Step
  <2> HIDE DEF step
  <2>2. /\ request' \in [Client -> Request]
        /\ \A d \in Client : d # c => request'[d] = request[d]
        /\ request'[c].step = step
        /\ request'[c].op = op
        /\ request'[c].batch = request[c].batch
        /\ request'[c].todo = request[c].todo
        /\ request'[c].result = request[c].result
    BY <2>1, GotoShape DEF PushInv
  <2>3. request[c].step = "next" /\ op \in request[c].todo
    BY DEF Lookup
  <2>4. /\ torn \subseteq torn' /\ torn' \subseteq Op
        /\ op \notin torn' => \A d \in Client : ~AtWork(d, op)
    BY <1>2 DEF Lookup, PushInv, TypeOK
  <2>5. \A d \in Client, p \in Op : AtWork(d, p)' <=> AtWork(d, p) \/ (d = c /\ p = op)
    BY <2>1, <2>2, <2>3 DEF AtWork
  <2>6. \A p \in Op : Cached(p)' <=> Cached(p)
    BY <2>1, <2>2, <2>3 DEF Cached, Lookup
  <2>7. TypeOK'
    BY <2>2, <2>4 DEF PushInv, TypeOK, Lookup
  <2>8. OneAtWork' /\ NotYetCached'
    BY <1>2, <2>4, <2>5 DEF PushInv, OneAtWork, NotYetCached, Lookup
  <2>9. BatchInOrder'
    <3>1. \A d \in Client : request'[d].todo \subseteq request'[d].batch
      BY <2>2 DEF PushInv, BatchInOrder
    <3>2. \A d \in Client, p \in Op : AtWork(d, p)' => p \in request'[d].todo
      BY <2>2, <2>3, <2>5 DEF PushInv, BatchInOrder
    <3>3. \A d \in Client : request'[d].step = "cache" => applied'[request'[d].op] > 0
      BY <2>1, <2>2 DEF PushInv, BatchInOrder, Lookup
    <3>4. \A d \in Client, p \in Op :
            request'[d].result[p] # "none" <=> p \in request'[d].batch \ request'[d].todo
      BY <2>2 DEF PushInv, BatchInOrder
    <3> QED
      BY <3>1, <3>2, <3>3, <3>4 DEF BatchInOrder
  <2>10. BatchesApart'
    BY <2>2 DEF PushInv, BatchesApart, Lookup
  <2>11. VerdictsAreTrue'
    BY <2>2, <2>4 DEF PushInv, VerdictsAreTrue, Lookup
  <2>12. AppliedOnce'
    BY <2>4, <2>6 DEF PushInv, AppliedOnce, Lookup
  <2>13. AnswersAreTrue'
    BY <2>4 DEF PushInv, AnswersAreTrue, Lookup
  <2> QED
    BY <2>7, <2>8, <2>9, <2>10, <2>11, <2>12, <2>13 DEF PushInv
<1> QED
  BY <1>1, <1>2

\* A rejection before the $transaction: nothing has been applied.
LEMMA RejectStep ==
  ASSUME PushInv, NEW c \in Client, request[c].step \in {"find", "apply"}, Reject(c),
         UNCHANGED <<clock, row, applied, clientOps, told, history>>
  PROVE  PushInv'
<1> DEFINE op == request[c].op
<1>1. op \in Op /\ request[c] \in Request /\ AtWork(c, op)
  BY DEF PushInv, TypeOK, AtWork
<1>2. /\ request' \in [Client -> Request]
      /\ \A d \in Client : d # c => request'[d] = request[d]
      /\ request'[c].step = "next"
      /\ request'[c].batch = request[c].batch
      /\ request'[c].todo = request[c].todo \ {op}
      /\ request'[c].result = [request[c].result EXCEPT ![op] = "rejected"]
  BY <1>1, AnsweredShape DEF PushInv, Reject, Verdict
<1>3. \A p \in Op : request'[c].result[p] = IF p = op THEN "rejected" ELSE request[c].result[p]
  BY <1>1, <1>2 DEF Request
<1>4. /\ clock' = clock /\ row' = row /\ applied' = applied /\ clientOps' = clientOps
      /\ told' = told /\ torn' = torn /\ resent' = resent
  BY DEF history
<1>5. op \notin torn => applied[op] = 0
  <2>1. op \notin torn => op \notin clientOps /\ \A d \in Client : AtWork(d, op) => d = c
    BY <1>1 DEF PushInv, NotYetCached, OneAtWork
  <2>2. op \notin torn => ~Cached(op)
    BY <2>1, <1>1 DEF Cached, AtWork
  <2> QED
    BY <2>2, <1>1 DEF PushInv, AppliedOnce
<1> HIDE DEF op
<1>6. \A d \in Client, p \in Op : AtWork(d, p)' => AtWork(d, p)
  BY <1>2 DEF AtWork
<1>7. \A p \in Op : Cached(p)' <=> Cached(p)
  BY <1>2, <1>4 DEF Cached
<1>8. TypeOK'
  BY <1>2, <1>4 DEF PushInv, TypeOK
<1>9. OneAtWork' /\ NotYetCached'
  BY <1>4, <1>6 DEF PushInv, OneAtWork, NotYetCached
<1>10. BatchInOrder'
  <2>1. \A d \in Client : request'[d].todo \subseteq request'[d].batch
    BY <1>2 DEF PushInv, BatchInOrder
  <2>2. \A d \in Client, p \in Op : AtWork(d, p)' => p \in request'[d].todo
    BY <1>2, <1>6 DEF PushInv, BatchInOrder, AtWork
  <2>3. \A d \in Client : request'[d].step = "cache" => applied'[request'[d].op] > 0
    BY <1>2, <1>4 DEF PushInv, BatchInOrder
  <2>4. \A d \in Client, p \in Op :
          request'[d].result[p] # "none" <=> p \in request'[d].batch \ request'[d].todo
    <3>1. /\ op \in request[c].batch
          /\ \A d \in Client, p \in Op :
               request[d].result[p] # "none" <=> p \in request[d].batch \ request[d].todo
      BY <1>1 DEF PushInv, BatchInOrder
    <3>2. \A p \in Op : request'[c].result[p] # "none" <=> p \in request'[c].batch \ request'[c].todo
      BY <1>1, <1>2, <1>3, <3>1
    <3>3. ASSUME NEW d \in Client, d # c
          PROVE  \A p \in Op : request'[d].result[p] # "none" <=> p \in request'[d].batch \ request'[d].todo
      <4>1. request'[d] = request[d]
        BY <1>2, <3>3
      <4> QED
        BY <3>1, <4>1
    <3> QED
      BY <3>2, <3>3
  <2> QED
    BY <2>1, <2>2, <2>3, <2>4 DEF BatchInOrder
<1>11. BatchesApart'
  BY <1>2, <1>4 DEF PushInv, BatchesApart
<1>12. VerdictsAreTrue'
  <2>1. \A d \in Client, p \in Op :
          request'[d].result[p] = request[d].result[p]
            \/ (p = op /\ request'[d].result[p] = "rejected")
    BY <1>2, <1>3
  <2> QED
    BY <1>4, <1>5, <2>1 DEF PushInv, VerdictsAreTrue
<1>13. AppliedOnce'
  BY <1>4, <1>7 DEF PushInv, AppliedOnce
<1>14. AnswersAreTrue'
  BY <1>4 DEF PushInv, AnswersAreTrue
<1> QED
  BY <1>8, <1>9, <1>10, <1>11, <1>12, <1>13, <1>14 DEF PushInv

LEMMA FindStep ==
  ASSUME PushInv, NEW c \in Client, Find(c)
  PROVE  PushInv'
<1>1. CASE Reject(c)
  BY <1>1, RejectStep DEF Find
<1>2. CASE Goto(c, "apply")
  <2> DEFINE op == request[c].op
  <2>1. op \in Op /\ request[c].step = "find" /\ TypeOK
    BY DEF PushInv, TypeOK, Find
  <2>2. /\ request' \in [Client -> Request]
        /\ \A d \in Client : d # c => request'[d] = request[d]
        /\ request'[c].step = "apply"
        /\ request'[c].op = op
        /\ request'[c].batch = request[c].batch
        /\ request'[c].todo = request[c].todo
        /\ request'[c].result = request[c].result
    BY <1>2, <2>1, GotoShape, GotoIsBecome DEF Step
  <2>3. /\ clock' = clock /\ row' = row /\ applied' = applied /\ clientOps' = clientOps
        /\ told' = told /\ torn' = torn /\ resent' = resent
    BY DEF Find, history
  <2> HIDE DEF op
  <2>4. \A d \in Client, p \in Op : AtWork(d, p)' => AtWork(d, p)
    BY <2>1, <2>2 DEF AtWork, op
  <2>5. \A p \in Op : Cached(p)' <=> Cached(p)
    BY <2>1, <2>2, <2>3 DEF Cached
  <2>6. TypeOK'
    BY <2>1, <2>2, <2>3 DEF TypeOK
  <2>7. OneAtWork' /\ NotYetCached'
    BY <2>3, <2>4 DEF PushInv, OneAtWork, NotYetCached
  <2>8. BatchInOrder'
    BY <2>2, <2>3, <2>4 DEF PushInv, BatchInOrder
  <2>9. BatchesApart'
    BY <2>2, <2>3 DEF PushInv, BatchesApart
  <2>10. VerdictsAreTrue'
    BY <2>2, <2>3 DEF PushInv, VerdictsAreTrue
  <2>11. AppliedOnce' /\ AnswersAreTrue'
    BY <2>3, <2>5 DEF PushInv, AppliedOnce, AnswersAreTrue
  <2> QED
    BY <2>6, <2>7, <2>8, <2>9, <2>10, <2>11 DEF PushInv
<1> QED
  BY <1>1, <1>2 DEF Find

\* The $transaction: of an operation that is not torn, the first.
LEMMA ApplyStep ==
  ASSUME PushInv, NEW c \in Client, Apply(c)
  PROVE  PushInv'
<1> DEFINE op == request[c].op
<1>1. op \in Op /\ request[c].step = "apply" /\ TypeOK /\ AtWork(c, op)
  BY DEF PushInv, TypeOK, Apply, AtWork
<1>2. /\ request' \in [Client -> Request]
      /\ \A d \in Client : d # c => request'[d] = request[d]
      /\ request'[c].step = "cache"
      /\ request'[c].op = op
      /\ request'[c].batch = request[c].batch
      /\ request'[c].todo = request[c].todo
      /\ request'[c].result = request[c].result
  BY <1>1, GotoShape, GotoIsBecome DEF Apply, Step
<1>3. /\ clock' = clock /\ clientOps' = clientOps
      /\ told' = told /\ torn' = torn /\ resent' = resent
  BY DEF Apply, history
<1>4. /\ applied' \in [Op -> Nat]
      /\ applied'[op] = applied[op] + 1
      /\ \A p \in Op : p # op => applied'[p] = applied[p]
      /\ \A p \in Op : applied[p] \in Nat
  BY <1>1 DEF Apply, TypeOK
<1>5. row' \in [Record -> Row]
  <2>1. Target[op] \in Record /\ row[Target[op]] \in Row
    BY <1>1, TargetAssumption DEF TypeOK
  <2>2. Written(op) \in Row
    BY <1>1, <2>1 DEF Written, Row, TypeOK
  <2> QED
    BY <2>2, <1>1 DEF Apply, TypeOK
<1>6. op \notin torn =>
        /\ applied[op] = 0
        /\ op \notin clientOps
        /\ \A d \in Client : AtWork(d, op) => d = c
  <2>1. op \notin torn => op \notin clientOps /\ \A d \in Client : AtWork(d, op) => d = c
    BY <1>1 DEF PushInv, NotYetCached, OneAtWork
  <2>2. op \notin torn => ~Cached(op)
    BY <2>1, <1>1 DEF Cached, AtWork
  <2> QED
    BY <2>1, <2>2, <1>1 DEF PushInv, AppliedOnce
<1>7. op \notin resent =>
        /\ told[op] = "none"
        /\ \A d \in Client : request[d].result[op] = "none"
  <2>1. op \in request[c].batch /\ request[c].result[op] = "none"
    BY <1>1 DEF PushInv, BatchInOrder
  <2> QED
    BY <1>1, <2>1 DEF PushInv, BatchesApart, BatchInOrder
<1> HIDE DEF op
<1>8. \A d \in Client, p \in Op : AtWork(d, p)' <=> AtWork(d, p)
  BY <1>1, <1>2 DEF AtWork, op
<1>9. \A p \in Op : Cached(p)' <=> Cached(p) \/ p = op
  BY <1>1, <1>2, <1>3 DEF Cached
<1>10. TypeOK'
  BY <1>1, <1>2, <1>3, <1>4, <1>5 DEF TypeOK
<1>11. OneAtWork' /\ NotYetCached'
  BY <1>3, <1>8 DEF PushInv, OneAtWork, NotYetCached
<1>12. BatchInOrder'
  <2>1. \A d \in Client : request'[d].todo \subseteq request'[d].batch
    BY <1>2 DEF PushInv, BatchInOrder
  <2>2. \A d \in Client, p \in Op : AtWork(d, p)' => p \in request'[d].todo
    BY <1>2, <1>8 DEF PushInv, BatchInOrder
  <2>3. \A d \in Client : request'[d].step = "cache" => applied'[request'[d].op] > 0
    BY <1>1, <1>2, <1>4 DEF PushInv, BatchInOrder, TypeOK
  <2>4. \A d \in Client, p \in Op :
          request'[d].result[p] # "none" <=> p \in request'[d].batch \ request'[d].todo
    BY <1>2 DEF PushInv, BatchInOrder
  <2> QED
    BY <2>1, <2>2, <2>3, <2>4 DEF BatchInOrder
<1>13. BatchesApart'
  BY <1>2, <1>3 DEF PushInv, BatchesApart
<1>14. VerdictsAreTrue'
  <2>1. \A p \in clientOps' : applied'[p] > 0
    BY <1>1, <1>3, <1>4 DEF PushInv, VerdictsAreTrue, TypeOK
  <2>2. \A d \in Client, p \in Op : request'[d].result[p] = request[d].result[p]
    BY <1>2
  <2>3. \A d \in Client, p \in Op : request[d].result[p] = "accepted" => applied'[p] > 0
    BY <1>1, <1>4 DEF PushInv, VerdictsAreTrue
  <2>4. \A d \in Client, p \in Op :
          request[d].result[p] = "rejected" /\ p \notin torn \cup resent => applied'[p] = 0
    BY <1>1, <1>4, <1>7 DEF PushInv, VerdictsAreTrue
  <2> QED
    BY <2>1, <2>2, <2>3, <2>4, <1>3 DEF VerdictsAreTrue
<1>15. AppliedOnce'
  <2> SUFFICES ASSUME NEW p \in Op, p \notin torn'
               PROVE  applied'[p] = IF Cached(p)' THEN 1 ELSE 0
    BY DEF AppliedOnce
  <2>1. CASE p = op
    BY <2>1, <1>1, <1>3, <1>4, <1>6, <1>9
  <2>2. CASE p # op
    BY <2>2, <1>3, <1>4, <1>9 DEF PushInv, AppliedOnce
  <2> QED
    BY <2>1, <2>2
<1>16. AnswersAreTrue'
  BY <1>1, <1>3, <1>4, <1>7 DEF PushInv, AnswersAreTrue
<1> QED
  BY <1>10, <1>11, <1>12, <1>13, <1>14, <1>15, <1>16 DEF PushInv

\* The answer is cached, or is not and the operation is torn.
LEMMA CacheStep ==
  ASSUME PushInv, NEW c \in Client, NEW verdict \in {"accepted", "rejected"},
         request[c].step = "cache",
         Answered(c, request[c].op, verdict),
         UNCHANGED <<clock, row, applied, told, resent>>,
         \/ /\ verdict = "accepted"
            /\ clientOps' = clientOps \cup {request[c].op}
            /\ torn' = torn
         \/ /\ verdict = "rejected"
            /\ clientOps' = clientOps
            /\ torn' = torn \cup {request[c].op}
  PROVE  PushInv'
<1> DEFINE op == request[c].op
<1>1. op \in Op /\ request[c] \in Request /\ AtWork(c, op) /\ TypeOK
  BY DEF PushInv, TypeOK, AtWork
<1>7a. verdict \in Verdict /\ Answered(c, op, verdict)
  BY DEF Verdict
<1>2. /\ request' \in [Client -> Request]
      /\ \A d \in Client : d # c => request'[d] = request[d]
      /\ request'[c].step = "next"
      /\ request'[c].batch = request[c].batch
      /\ request'[c].todo = request[c].todo \ {op}
      /\ request'[c].result = [request[c].result EXCEPT ![op] = verdict]
  <2> HIDE DEF op
  <2> QED
    BY <1>1, <1>7a, AnsweredShape
<1>3. \A p \in Op : request'[c].result[p] = IF p = op THEN verdict ELSE request[c].result[p]
  BY <1>1, <1>2 DEF Request
<1>4. /\ clock' = clock /\ row' = row /\ applied' = applied
      /\ told' = told /\ resent' = resent
  OBVIOUS
<1>5. /\ torn \subseteq torn' /\ torn' \subseteq Op /\ clientOps' \subseteq Op
      /\ op \notin torn' => verdict = "accepted" /\ clientOps' = clientOps \cup {op}
      /\ \A p \in Op : p # op => (p \in clientOps' <=> p \in clientOps)
      /\ op \in torn' \/ verdict = "accepted"
  BY <1>1 DEF TypeOK
<1>6. applied[op] > 0 /\ op \in request[c].todo
  BY <1>1 DEF PushInv, BatchInOrder
<1>7. op \notin torn => \A d \in Client : AtWork(d, op) => d = c
  BY <1>1 DEF PushInv, OneAtWork
<1>8. request[c].op = op
  OBVIOUS
<1> HIDE DEF op
<1>9. \A d \in Client, p \in Op : AtWork(d, p)' <=> AtWork(d, p) /\ d # c
  BY <1>2 DEF AtWork
<1>10. \A p \in Op \ torn' : Cached(p)' <=> Cached(p)
  BY <1>1, <1>2, <1>5, <1>8 DEF Cached, AtWork
<1>11. TypeOK'
  BY <1>1, <1>2, <1>4, <1>5 DEF TypeOK
<1>12. OneAtWork' /\ NotYetCached'
  <2>1. OneAtWork'
    BY <1>5, <1>9 DEF PushInv, OneAtWork
  <2>2. NotYetCached'
    BY <1>1, <1>5, <1>7, <1>9 DEF PushInv, NotYetCached
  <2> QED
    BY <2>1, <2>2
<1>13. BatchInOrder'
  <2>1. \A d \in Client : request'[d].todo \subseteq request'[d].batch
    BY <1>2 DEF PushInv, BatchInOrder
  <2>2. \A d \in Client, p \in Op : AtWork(d, p)' => p \in request'[d].todo
    BY <1>2, <1>9 DEF PushInv, BatchInOrder
  <2>3. \A d \in Client : request'[d].step = "cache" => applied'[request'[d].op] > 0
    BY <1>2, <1>4 DEF PushInv, BatchInOrder
  <2>4. \A d \in Client, p \in Op :
          request'[d].result[p] # "none" <=> p \in request'[d].batch \ request'[d].todo
    <3>1. /\ op \in request[c].batch
          /\ \A d \in Client, p \in Op :
               request[d].result[p] # "none" <=> p \in request[d].batch \ request[d].todo
      BY <1>1, <1>6 DEF PushInv, BatchInOrder
    <3>2. \A p \in Op : request'[c].result[p] # "none" <=> p \in request'[c].batch \ request'[c].todo
      BY <1>1, <1>2, <1>3, <3>1
    <3>3. ASSUME NEW d \in Client, d # c
          PROVE  \A p \in Op : request'[d].result[p] # "none" <=> p \in request'[d].batch \ request'[d].todo
      <4>1. request'[d] = request[d]
        BY <1>2, <3>3
      <4> QED
        BY <3>1, <4>1
    <3> QED
      BY <3>2, <3>3
  <2> QED
    BY <2>1, <2>2, <2>3, <2>4 DEF BatchInOrder
<1>14. BatchesApart'
  BY <1>2, <1>4 DEF PushInv, BatchesApart
<1>15. VerdictsAreTrue'
  <2>1. \A p \in clientOps' : applied'[p] > 0
    BY <1>1, <1>4, <1>5, <1>6 DEF PushInv, VerdictsAreTrue
  <2>1a. \A d \in Client, p \in Op :
          request'[d].result[p] = request[d].result[p]
            \/ (p = op /\ request'[d].result[p] = verdict)
    BY <1>2, <1>3
  <2>2. \A d \in Client, p \in Op : request'[d].result[p] = "accepted" => applied'[p] > 0
    BY <2>1a, <1>4, <1>6 DEF PushInv, VerdictsAreTrue
  <2>3. \A d \in Client, p \in Op :
          request'[d].result[p] = "rejected" /\ p \notin torn' \cup resent' => applied'[p] = 0
    BY <2>1a, <1>4, <1>5 DEF PushInv, VerdictsAreTrue
  <2> QED
    BY <2>1, <2>2, <2>3 DEF VerdictsAreTrue
<1>16. AppliedOnce'
  BY <1>4, <1>5, <1>10 DEF PushInv, AppliedOnce
<1>17. AnswersAreTrue'
  BY <1>4, <1>5 DEF PushInv, AnswersAreTrue
<1> QED
  BY <1>11, <1>12, <1>13, <1>14, <1>15, <1>16, <1>17 DEF PushInv

-----------------------------------------------------------------------------
\* Time, other routes and stuttering touch nothing that PushInv is about.
LEMMA OutsideStep ==
  ASSUME PushInv,
         UNCHANGED <<applied, clientOps, told, request, history>>,
         clock' \in Nat, row' \in [Record -> Row]
  PROVE  PushInv'
<1>1. /\ applied' = applied /\ clientOps' = clientOps /\ told' = told
      /\ request' = request /\ torn' = torn /\ resent' = resent
  BY DEF history
<1>2. TypeOK'
  BY <1>1 DEF PushInv, TypeOK
<1>3. OneAtWork' /\ NotYetCached'
  BY <1>1 DEF PushInv, OneAtWork, NotYetCached, AtWork
<1>4. BatchInOrder' /\ BatchesApart'
  BY <1>1 DEF PushInv, BatchInOrder, BatchesApart, AtWork
<1>5. VerdictsAreTrue' /\ AppliedOnce' /\ AnswersAreTrue'
  BY <1>1 DEF PushInv, VerdictsAreTrue, AppliedOnce, AnswersAreTrue, Cached
<1> QED
  BY <1>2, <1>3, <1>4, <1>5 DEF PushInv

LEMMA NextPushInv == PushInv /\ [Next]_vars => PushInv'
<1> SUFFICES ASSUME PushInv, [Next]_vars PROVE PushInv'
  OBVIOUS
<1>1. ASSUME NEW c \in Client, NEW batch \in SUBSET Op, Push(c, batch) PROVE PushInv'
  BY <1>1, PushStep
<1>2. ASSUME NEW c \in Client, NEW op \in Op, Lookup(c, op) PROVE PushInv'
  BY <1>2, LookupStep
<1>3. ASSUME NEW c \in Client, Find(c) \/ Apply(c) \/ Answer(c) \/ Fail(c) PROVE PushInv'
  BY <1>3, FindStep, ApplyStep, AnswerStep, FailStep
<1>4. ASSUME NEW c \in Client, Refuse(c) PROVE PushInv'
  BY <1>4, RejectStep DEF Refuse
<1>5. ASSUME NEW c \in Client, Cache(c) PROVE PushInv'
  BY <1>5, CacheStep DEF Cache, history
<1>6. ASSUME NEW c \in Client, CacheFails(c) PROVE PushInv'
  BY <1>6, CacheStep DEF CacheFails, Reject
<1>7. ASSUME NEW r \in Record, Touch(r) PROVE PushInv'
  <2>1. row' \in [Record -> Row] /\ clock' \in Nat
    BY <1>7 DEF PushInv, TypeOK, Touch, Row
  <2> QED
    BY <1>7, <2>1, OutsideStep DEF Touch
<1>8. CASE Tick
  <2>1. row' \in [Record -> Row] /\ clock' \in Nat
    BY <1>8 DEF PushInv, TypeOK, Tick
  <2> QED
    BY <1>8, <2>1, OutsideStep DEF Tick
<1>9. CASE UNCHANGED vars
  <2>1. row' \in [Record -> Row] /\ clock' \in Nat
    BY <1>9 DEF PushInv, TypeOK, vars
  <2> QED
    BY <1>9, <2>1, OutsideStep DEF vars, history
<1> QED
  BY <1>1, <1>2, <1>3, <1>4, <1>5, <1>6, <1>7, <1>8, <1>9 DEF Next

\* PushInv holds in every state of every instance.
THEOREM PushInvariant == Spec => []PushInv
BY InitPushInv, NextPushInv, PTL DEF Spec

\* An operation that was not torn is applied exactly once, for any number of
\* operations, records and overlapping pushes.
THEOREM AppliedExactlyOnce == Spec => []AppliedOnce
<1>1. PushInv => AppliedOnce
  BY DEF PushInv
<1> QED
  BY <1>1, PushInvariant, PTL

\* What a device is told of its operations is what happened to them.
THEOREM DeviceIsToldTheTruth == Spec => []AnswersAreTrue
<1>1. PushInv => AnswersAreTrue
  BY DEF PushInv
<1> QED
  BY <1>1, PushInvariant, PTL

-----------------------------------------------------------------------------
(* SyncPush implements AtMostOnce.                                         *)

Seen == <<Heard, Done, Twice>>

LEMMA SeenShape ==
  /\ Device!Kept = Op \ torn
  /\ \A op \in Op \ torn : Heard[op] = told[op] /\ Done[op] = applied[op]
BY DEF Heard, Done, Device!Kept

LEMMA InitDevice == Init => Device!Init
BY DEF Init, Heard, Done, Twice, Device!Init, NoResult

\* What a device may notice of most steps is that operations are torn.
LEMMA TearIsBreak ==
  ASSUME UNCHANGED <<applied, told, resent>>, torn \subseteq torn', torn' \subseteq Op
  PROVE  [Device!Next]_Seen
<1> DEFINE ops == torn' \ torn
<1>1. ops \in SUBSET Device!Kept
  BY SeenShape
<1>2. Device!Break(ops)
  <2>1. Heard' = [op \in Device!Kept \ ops |-> Heard[op]]
    <3>1. Op \ torn' = Device!Kept \ ops
      BY SeenShape
    <3> QED
      BY <3>1, SeenShape DEF Heard
  <2>2. Done' = [op \in Device!Kept \ ops |-> Done[op]]
    <3>1. Op \ torn' = Device!Kept \ ops
      BY SeenShape
    <3> QED
      BY <3>1, SeenShape DEF Done
  <2>3. Twice' = Twice \ ops
    BY DEF Twice
  <2> QED
    BY <2>1, <2>2, <2>3 DEF Device!Break
<1> HIDE DEF ops
<1> QED
  BY <1>1, <1>2 DEF Device!Next

LEMMA PushIsSend ==
  ASSUME PushInv, NEW c \in Client, NEW batch \in SUBSET Op, Push(c, batch)
  PROVE  [Device!Next]_Seen
<1> DEFINE ops == batch \ torn
           again == {op \in ops : \E d \in Client : op \in request[d].batch}
<1>1. ops \in SUBSET Device!Kept /\ again \in SUBSET ops
  BY SeenShape
<1>2. Device!Send(ops, again)
  <2>1. \A op \in ops : Heard[op] # "accepted"
    BY SeenShape DEF Push
  <2>2. Heard' = [op \in Device!Kept |-> IF op \in ops THEN "none" ELSE Heard[op]]
    BY SeenShape DEF Push, Heard
  <2>3. Twice' = Twice \cup again /\ Done' = Done
    BY DEF Push, Twice, Done
  <2> QED
    BY <2>1, <2>2, <2>3 DEF Device!Send
<1> HIDE DEF ops, again
<1> QED
  BY <1>1, <1>2 DEF Device!Next

\* The operation at work, unless it is torn, has not been applied yet; and
\* unless it was resent its device has not heard of it.
LEMMA ApplyIsApply ==
  ASSUME PushInv, NEW c \in Client, Apply(c)
  PROVE  [Device!Next]_Seen
<1> DEFINE op == request[c].op
<1>1. op \in Op /\ TypeOK /\ AtWork(c, op) /\ request[c].step = "apply"
  BY DEF PushInv, TypeOK, Apply, AtWork
<1>2. /\ told' = told /\ torn' = torn /\ resent' = resent
      /\ applied' = [applied EXCEPT ![op] = @ + 1]
  BY DEF Apply, history
<1>3. op \notin torn => applied[op] = 0
  <2>1. op \notin torn => op \notin clientOps /\ \A d \in Client : AtWork(d, op) => d = c
    BY <1>1 DEF PushInv, NotYetCached, OneAtWork
  <2>2. op \notin torn => ~Cached(op)
    BY <2>1, <1>1 DEF Cached, AtWork
  <2> QED
    BY <2>2, <1>1 DEF PushInv, AppliedOnce
<1>4. op \notin resent => told[op] = "none"
  BY <1>1 DEF PushInv, BatchInOrder, BatchesApart
<1> HIDE DEF op
<1>5. Heard' = Heard /\ Twice' = Twice
  BY <1>2 DEF Heard, Twice
<1>6. \A p \in Op : p # op => applied'[p] = applied[p]
  BY <1>1, <1>2 DEF TypeOK
<1>7. CASE op \in torn
  <2>1. Done' = Done
    BY <1>2, <1>6, <1>7 DEF Done
  <2> QED
    BY <1>5, <2>1 DEF Seen
<1>8. CASE op \notin torn
  <2>1. applied'[op] = 1
    BY <1>1, <1>2, <1>3, <1>8 DEF TypeOK
  <2>2. Done' = [Done EXCEPT ![op] = 1]
    BY <1>1, <1>2, <1>6, <1>8, <2>1 DEF Done
  <2>3. op \in Device!Kept /\ Done[op] = 0 /\ (op \in Twice \/ Heard[op] = "none")
    BY <1>1, <1>3, <1>4, <1>8, SeenShape DEF Twice
  <2>4. Device!Apply(op)
    BY <1>5, <2>2, <2>3 DEF Device!Apply
  <2> QED
    BY <2>3, <2>4 DEF Device!Next
<1> QED
  BY <1>7, <1>8

\* By BatchInOrder every operation of the batch has its verdict, by
\* VerdictsAreTrue the right one.
LEMMA AnswerIsAnswer ==
  ASSUME PushInv, NEW c \in Client, Answer(c)
  PROVE  [Device!Next]_Seen
<1> DEFINE ops == request[c].batch \ torn
           accepted == {op \in ops : request[c].result[op] = "accepted"}
<1>1. /\ request[c] \in Request /\ request[c].todo = {}
      /\ applied' = applied /\ torn' = torn /\ resent' = resent
      /\ told' = [op \in Op |-> IF op \in request[c].batch THEN request[c].result[op] ELSE told[op]]
  BY AnswerTells DEF PushInv, TypeOK, Answer, history
<1>2. ops \in SUBSET Device!Kept /\ accepted \in SUBSET ops /\ ops \subseteq Op \ torn
  BY <1>1, SeenShape DEF Request
<1>3. \A op \in ops \ accepted : request[c].result[op] = "rejected"
  BY <1>1 DEF PushInv, BatchInOrder, Request, Verdict
<1>4. \A op \in accepted : Done[op] = 1
  <2> SUFFICES ASSUME NEW op \in accepted PROVE Done[op] = 1
    OBVIOUS
  <2>1. op \in Op \ torn /\ applied[op] > 0
    BY <1>2 DEF PushInv, VerdictsAreTrue
  <2>2. applied[op] = 1
    BY <2>1 DEF PushInv, AppliedOnce
  <2> QED
    BY <2>1, <2>2, SeenShape
<1>5. \A op \in ops \ Twice : Heard[op] = "none" /\ (Done[op] = 1 => op \in accepted)
  <2>1. \A op \in ops \ Twice : op \in Op \ torn /\ op \notin resent
    BY <1>2 DEF Twice
  <2>2. \A op \in ops \ Twice : told[op] = "none"
    BY <2>1 DEF PushInv, BatchesApart
  <2>3. \A op \in ops \ Twice : op \notin accepted => applied[op] = 0
    BY <1>3, <2>1 DEF PushInv, VerdictsAreTrue
  <2>4. \A op \in ops \ Twice : Done[op] = applied[op] /\ Heard[op] = told[op]
    BY <2>1, SeenShape
  <2> QED
    BY <2>2, <2>3, <2>4
<1>6. \A op \in Op \ torn :
        told'[op] = IF op \notin ops THEN told[op]
                    ELSE IF op \in accepted THEN "accepted" ELSE "rejected"
  BY <1>1, <1>3
<1>7. Done' = Done /\ Twice' = Twice
  BY <1>1 DEF Done, Twice
<1> HIDE DEF ops, accepted
<1>8. Heard' = [op \in Device!Kept |-> IF op \notin ops THEN Heard[op]
                                      ELSE IF op \in accepted THEN "accepted" ELSE "rejected"]
  BY <1>1, <1>6, SeenShape DEF Heard
<1>9. Device!Answer(ops, accepted)
  BY <1>4, <1>5, <1>7, <1>8 DEF Device!Answer
<1> QED
  BY <1>2, <1>9 DEF Device!Next

LEMMA NextDevice == PushInv /\ [Next]_vars => [Device!Next]_Seen
<1> SUFFICES ASSUME PushInv, [Next]_vars PROVE [Device!Next]_Seen
  OBVIOUS
<1>1. torn \subseteq Op
  BY DEF PushInv, TypeOK
<1>2. ASSUME NEW c \in Client, NEW batch \in SUBSET Op, Push(c, batch)
      PROVE  [Device!Next]_Seen
  BY <1>2, PushIsSend
<1>3. ASSUME NEW c \in Client, Apply(c) \/ Answer(c)
      PROVE  [Device!Next]_Seen
  BY <1>3, ApplyIsApply, AnswerIsAnswer
<1>4. ASSUME NEW c \in Client, NEW op \in Op, Lookup(c, op)
      PROVE  [Device!Next]_Seen
  BY <1>1, <1>4, TearIsBreak DEF Lookup
<1>5. ASSUME NEW c \in Client, Find(c) \/ Refuse(c) \/ Cache(c)
      PROVE  [Device!Next]_Seen
  BY <1>1, <1>5, TearIsBreak DEF Find, Refuse, Cache, history
<1>6. ASSUME NEW c \in Client, CacheFails(c) \/ Fail(c)
      PROVE  [Device!Next]_Seen
  <2>1. request[c].step = "cache" => request[c].op \in Op
    BY DEF PushInv, TypeOK
  <2> QED
    BY <1>1, <1>6, <2>1, TearIsBreak DEF CacheFails, Fail
<1>7. ASSUME NEW r \in Record, Touch(r)
      PROVE  [Device!Next]_Seen
  BY <1>1, <1>7, TearIsBreak DEF Touch, history
<1>8. CASE Tick \/ UNCHANGED vars
  BY <1>1, <1>8, TearIsBreak DEF Tick, vars, history
<1> QED
  BY <1>2, <1>3, <1>4, <1>5, <1>6, <1>7, <1>8 DEF Next

\* However often a device sends an operation and whatever overlaps or fails, to
\* the device one that is not torn takes effect at one $transaction at most,
\* between a push of it and the answer that says so.
THEOREM OperationsAreAppliedAtMostOnce == Spec => AppliesAtMostOnce
<1>1. PushInv /\ [Next]_vars => [Device!Next]_Seen
  BY NextDevice
<1> QED
  BY <1>1, InitDevice, PushInvariant, PTL DEF Spec, AppliesAtMostOnce, Device!Spec, Seen

=============================================================================
