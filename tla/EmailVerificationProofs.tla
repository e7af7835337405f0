----------------------- MODULE EmailVerificationProofs -----------------------
(***************************************************************************)
(* VerificationInv is an inductive invariant of EmailVerification, for any *)
(* codes, clients, rate limit and expiry.  What the requests do to their   *)
(* slots is proved first; after that a step is known by the slot it        *)
(* changes and by what it does to the tokens and the mailbox.              *)
(***************************************************************************)
EXTENDS EmailVerification, TLAPS

(* A request begins, and every other one under way is alone no more.       *)
LEMMA Begun ==
  ASSUME TypeOK, NEW c \in Client, NEW step \in Step, NEW code \in Code \cup {None},
         request[c] = Idle, step # "idle", Begin(c, step, code)
  PROVE  /\ request' \in [Client -> Request]
         /\ request'[c].step = step
         /\ request'[c].alone <=> \A d \in Client \ {c} : ~Busy(d)
         /\ \A d \in Client \ {c} : /\ request'[d].step = request[d].step
                                    /\ Busy(d) => ~request'[d].alone
         /\ disturbed' <=> disturbed \/ \E d \in Client \ {c} : Busy(d)
<1> DEFINE others == {d \in Client : d # c /\ Busy(d)}
<1>1. /\ request' = [d \in Client |->
           IF d = c THEN [step |-> step, code |-> code, age |-> 0, alone |-> others = {}]
           ELSE [request[d] EXCEPT !.alone = @ /\ ~Busy(d)]]
      /\ disturbed' = (disturbed \/ others # {})
  BY Zenon DEF Begin
<1>2. (others = {}) <=> \A d \in Client \ {c} : ~Busy(d)
  OBVIOUS
<1>3. \A d \in Client : request[d] \in Request
  BY DEF TypeOK
<1>4. \A d \in Client \ {c} :
        /\ request'[d] = [request[d] EXCEPT !.alone = @ /\ ~Busy(d)]
        /\ request'[d] \in Request /\ request'[d].step = request[d].step
  BY <1>1, <1>3 DEF Request
<1>5. \A d \in Client \ {c} : Busy(d) => ~request'[d].alone
  BY <1>3, <1>4 DEF Request
<1>6. /\ request'[c] \in Request /\ request'[c].step = step
      /\ request'[c].alone = (others = {})
  BY <1>1, VerificationAssumption DEF Request, Age, Expired
<1>7. QED
  BY <1>1, <1>2, <1>4, <1>5, <1>6

LEMMA Proceeded ==
  ASSUME TypeOK, NEW c \in Client, NEW step \in Step, Proceed(c, step)
  PROVE  /\ request' \in [Client -> Request]
         /\ request'[c] = [request[c] EXCEPT !.step = step]
         /\ request'[c].step = step /\ request'[c].code = request[c].code
         /\ request'[c].age = request[c].age /\ request'[c].alone = request[c].alone
         /\ \A d \in Client \ {c} : request'[d] = request[d]
BY DEF TypeOK, Proceed, Request

LEMMA Finished ==
  ASSUME TypeOK, NEW c \in Client, Finish(c)
  PROVE  /\ request' \in [Client -> Request]
         /\ request'[c] = Idle /\ request'[c].step = "idle"
         /\ \A d \in Client \ {c} : request'[d] = request[d]
BY VerificationAssumption DEF TypeOK, Finish, Request, Idle, Step, Age, Expired

LEMMA Saved ==
  ASSUME TypeOK, NEW c \in Client, NEW code \in Code, NEW step \in Step,
         SaveToken(c, code, step)
  PROVE  /\ request' \in [Client -> Request]
         /\ request'[c].step = step /\ request'[c].code = code
         /\ request'[c].age = 0 /\ request'[c].alone = request[c].alone
         /\ \A d \in Client \ {c} : request'[d] = request[d]
         /\ DOMAIN tokens' \subseteq Code /\ \A k \in DOMAIN tokens' : tokens'[k] \in Age
         /\ tokens = NoTokens => tokens' = [k \in {code} |-> 0]
         /\ sinceCode' = 0 /\ UNCHANGED <<user, mailbox, disturbed>>
<1>1. /\ request' = [request EXCEPT ![c].step = step, ![c].code = code, ![c].age = 0]
      /\ tokens' = [k \in DOMAIN tokens \cup {code} |-> IF k = code THEN 0 ELSE tokens[k]]
      /\ sinceCode' = 0 /\ UNCHANGED <<user, mailbox, disturbed>>
  BY DEF SaveToken, Store
<1>2. 0 \in Age
  BY VerificationAssumption DEF Age, Expired
<1>3. /\ request' \in [Client -> Request]
      /\ request'[c].step = step /\ request'[c].code = code
      /\ request'[c].age = 0 /\ request'[c].alone = request[c].alone
      /\ \A d \in Client \ {c} : request'[d] = request[d]
  BY <1>1, <1>2 DEF TypeOK, Request
<1>4. DOMAIN tokens' \subseteq Code /\ \A k \in DOMAIN tokens' : tokens'[k] \in Age
  BY <1>1, <1>2 DEF TypeOK
<1>5. ASSUME tokens = NoTokens PROVE tokens' = [k \in {code} |-> 0]
  <2>1. DOMAIN tokens = {}
    BY <1>5 DEF NoTokens
  <2>2. QED
    BY <1>1, <2>1
<1>6. QED
  BY <1>1, <1>3, <1>4, <1>5

-----------------------------------------------------------------------------
(* Who is alone.                                                           *)

Steps == {"resend.delete", "resend.save", "resend.mail", "verify.purge", "verify.clean"}

(* A request that was under way has no company that has been alone.        *)
LEMMA Company ==
  ASSUME LoneIsAlone, NEW c \in Client, Busy(c),
         \A d \in Client \ {c} : request'[d] = request[d]
  PROVE  \A d \in Client \ {c} : ~Lone(d)'
BY DEF LoneIsAlone, Lone, Busy

(* Where nobody else is under way, what is under way is c.                 *)
LEMMA OnlyOne ==
  ASSUME NEW c \in Client, \A d \in Client \ {c} : request'[d].step = "idle"
  PROVE  \A step \in Steps : At(step)' <=> request'[c].step = step
BY DEF At, Steps

-----------------------------------------------------------------------------
(* All ages grow together.                                                 *)
LEMMA TickKeeps ==
  ASSUME VerificationInv, Tick
  PROVE  VerificationInv'
<1> USE VerificationAssumption
<1>0. TypeOK /\ LoneIsAlone /\ NothingBefore /\ LoneKnows /\ CalmTokens /\ CalmAges
  BY DEF VerificationInv
<1>1. \A age \in Age : Older(age) \in Age
  BY DEF Older, Age, Expired
<1>2. /\ request' \in [Client -> Request]
      /\ \A c \in Client :
           /\ request'[c].step = request[c].step /\ request'[c].code = request[c].code
           /\ request'[c].alone = request[c].alone
           /\ request[c].step \in {"resend.mail", "register.mail"} =>
                request'[c].age = Older(request[c].age)
  BY <1>0, <1>1 DEF TypeOK, Tick, Request
<1>3. /\ DOMAIN tokens' = DOMAIN tokens
      /\ \A k \in DOMAIN tokens : tokens'[k] = Older(tokens[k])
      /\ mailbox'.code = mailbox.code /\ mailbox'.age = Older(mailbox.age)
      /\ UNCHANGED <<user, disturbed>>
  BY <1>0 DEF Tick, TypeOK
<1>4. tokens = NoTokens => tokens' = NoTokens
  BY DEF Tick, NoTokens
<1>5. /\ sinceCode \in 0..RateLimit /\ sinceCode' \in 0..RateLimit
      /\ sinceCode = RateLimit => sinceCode' = RateLimit
      /\ sinceCode' < RateLimit => sinceCode < RateLimit /\ sinceCode' = Older(sinceCode)
  BY <1>0 DEF TypeOK, Tick, Older, Expired
<1>6. TypeOK'
  BY <1>0, <1>1, <1>2, <1>3, <1>5 DEF TypeOK, Tick
<1>7. LoneIsAlone'
  BY <1>0, <1>2, <1>3 DEF LoneIsAlone, Lone, Busy
<1>8. NothingBefore'
  BY <1>0, <1>2, <1>3, <1>4, <1>5 DEF NothingBefore, Quiet, Busy
<1>9. LoneKnows'
  <2>1. ASSUME NEW c \in Client, Lone(c), OnItsWay(c),
               request[c].step \in {"register.mail", "resend.mail"}
        PROVE  OnItsWay(c)'
    <3>1. DOMAIN tokens = {request[c].code} /\ \A k \in DOMAIN tokens : tokens[k] = request[c].age
      BY <2>1 DEF OnItsWay
    <3>2. tokens' = [k \in {request[c].code} |-> Older(request[c].age)]
      BY <3>1 DEF Tick
    <3>3. QED
      BY <1>2, <1>5, <2>1, <3>2 DEF OnItsWay
  <2>2. QED
    BY <1>0, <1>2, <1>3, <1>4, <2>1 DEF LoneKnows, Lone, Busy
<1>10. CalmTokens'
  <2>1. \A step \in Steps : At(step)' <=> At(step)
    BY <1>2 DEF At
  <2>2. InStep => InStep'
    BY <1>0, <1>3 DEF InStep, Stored, TypeOK, Older, Age, Expired
  <2>3. QED
    BY <1>0, <1>3, <1>4, <2>1, <2>2 DEF CalmTokens, Steps
<1>11. CalmAges'
  <2>1. \A step \in Steps : At(step)' <=> At(step)
    BY <1>2 DEF At
  <2>2. Older(Expired) = Expired
    BY DEF Older, Expired
  <2>3. QED
    BY <1>0, <1>3, <1>5, <2>1, <2>2 DEF CalmAges, Steps
<1>12. QED
  BY <1>6, <1>7, <1>8, <1>9, <1>10, <1>11 DEF VerificationInv

-----------------------------------------------------------------------------
(* POST users.                                                             *)

LEMMA RegisterSaveKeeps ==
  ASSUME VerificationInv, NEW c \in Client, RegisterSave(c)
  PROVE  VerificationInv'
<1> USE VerificationAssumption
<1>0. TypeOK /\ LoneIsAlone /\ NothingBefore /\ LoneKnows /\ CalmTokens /\ CalmAges
  BY DEF VerificationInv
<1>1. ~Busy(c)
  BY DEF RegisterSave, Busy, Idle
<1>2. /\ request' \in [Client -> Request] /\ request'[c].step = "register.token"
      /\ request'[c].alone <=> \A d \in Client \ {c} : ~Busy(d)
      /\ \A d \in Client \ {c} : /\ request'[d].step = request[d].step
                                 /\ Busy(d) => ~request'[d].alone
      /\ disturbed' <=> disturbed \/ \E d \in Client \ {c} : Busy(d)
  BY <1>0, Begun DEF RegisterSave, Step
<1>3. TypeOK'
  <2>1. disturbed' \in BOOLEAN
    BY Zenon DEF RegisterSave, Begin
  <2>2. QED
    BY <1>0, <1>2, <2>1 DEF TypeOK, RegisterSave
<1>4. (\A d \in Client \ {c} : ~Lone(d)') /\ (Lone(c)' => \A d \in Client : ~Busy(d))
  BY <1>1, <1>2 DEF Lone, Busy
<1>5. ~disturbed' => /\ ~disturbed /\ \A d \in Client : ~Busy(d)
                     /\ \A d \in Client \ {c} : request'[d].step = "idle"
                     /\ \A step \in Steps : ~At(step)'
  BY <1>1, <1>2, OnlyOne DEF Busy, Steps
<1>6. LoneIsAlone'
  BY <1>2, <1>4, <1>5 DEF LoneIsAlone, Lone, Busy
<1>7. NothingBefore'
  BY <1>0, <1>2 DEF NothingBefore, RegisterSave
<1>8. LoneKnows'
  BY <1>0, <1>2, <1>4 DEF LoneKnows, NothingBefore, RegisterSave
<1>9. CalmTokens'
  BY <1>0, <1>5 DEF CalmTokens, NothingBefore, InStep, Stored, At, Busy, Steps, RegisterSave
<1>10. CalmAges'
  BY <1>0, <1>5 DEF CalmAges, NothingBefore, Steps, RegisterSave
<1>11. QED
  BY <1>3, <1>6, <1>7, <1>8, <1>9, <1>10 DEF VerificationInv

LEMMA RegisterTokenKeeps ==
  ASSUME VerificationInv, NEW c \in Client, NEW code \in Code, RegisterToken(c, code)
  PROVE  VerificationInv'
<1> USE VerificationAssumption
<1>0. TypeOK /\ LoneIsAlone /\ NothingBefore /\ LoneKnows /\ CalmTokens /\ CalmAges
  BY DEF VerificationInv
<1>1. Busy(c)
  BY DEF RegisterToken, Busy
<1>2. /\ request' \in [Client -> Request]
      /\ request'[c].step = "register.mail" /\ request'[c].code = code
      /\ request'[c].age = 0 /\ request'[c].alone = request[c].alone
      /\ \A d \in Client \ {c} : request'[d] = request[d]
      /\ DOMAIN tokens' \subseteq Code /\ \A k \in DOMAIN tokens' : tokens'[k] \in Age
      /\ tokens = NoTokens => tokens' = [k \in {code} |-> 0]
      /\ sinceCode' = 0 /\ UNCHANGED <<user, mailbox, disturbed>>
  BY <1>0, Saved DEF RegisterToken, Step
<1>3. TypeOK'
  BY <1>0, <1>1, <1>2 DEF TypeOK, Age
<1>4. (\A d \in Client \ {c} : ~Lone(d)') /\ (Lone(c)' => Lone(c))
  BY <1>0, <1>1, <1>2, Company DEF Lone, Busy
<1>5. ~disturbed' => /\ Lone(c)
                     /\ \A d \in Client \ {c} : request'[d].step = "idle"
                     /\ \A step \in Steps : At(step)' <=> request'[c].step = step
  BY <1>0, <1>1, <1>2, OnlyOne DEF LoneIsAlone, Lone, Busy, RegisterToken
<1>6. LoneIsAlone'
  BY <1>0, <1>1, <1>2, <1>4, <1>5 DEF LoneIsAlone, Lone, Busy, RegisterToken
<1>7. NothingBefore'
  BY <1>0, <1>1, <1>2 DEF NothingBefore, Quiet, RegisterToken
<1>8. Lone(c) => user = "unverified" /\ mailbox.code = None /\ tokens = NoTokens
  BY <1>0 DEF LoneKnows, RegisterToken
<1>9. LoneKnows'
  BY <1>2, <1>4, <1>8 DEF RegisterToken, LoneKnows, OnItsWay, Lone, Busy
<1>10. CalmTokens'
  BY <1>0, <1>1, <1>2, <1>5, <1>8
     DEF RegisterToken, CalmTokens, CalmAges, InStep, At, Steps, Stored, OnItsWay, NoTokens
<1>11. CalmAges'
  BY <1>0, <1>1, <1>2, <1>5, <1>8
     DEF RegisterToken, CalmTokens, CalmAges, InStep, At, Steps, Stored, OnItsWay, TypeOK,
         Age, Expired
<1>12. QED
  BY <1>3, <1>6, <1>7, <1>9, <1>10, <1>11 DEF VerificationInv

LEMMA RegisterMailKeeps ==
  ASSUME VerificationInv, NEW c \in Client, RegisterMail(c)
  PROVE  VerificationInv'
<1> USE VerificationAssumption
<1>0. TypeOK /\ LoneIsAlone /\ NothingBefore /\ LoneKnows /\ CalmTokens /\ CalmAges
  BY DEF VerificationInv
<1>1. Busy(c)
  BY DEF RegisterMail, Busy
<1>2. /\ request' \in [Client -> Request] /\ request'[c].step = "idle"
      /\ \A d \in Client \ {c} : request'[d] = request[d]
  BY <1>0, Finished DEF RegisterMail
<1>3. TypeOK'
  BY <1>0, <1>1, <1>2 DEF TypeOK, RegisterMail, Deliver, Request
<1>4. (\A d \in Client \ {c} : ~Lone(d)') /\ (Lone(c)' => Lone(c))
  BY <1>0, <1>1, <1>2, Company DEF Lone, Busy
<1>5. ~disturbed' => /\ Lone(c)
                     /\ \A d \in Client \ {c} : request'[d].step = "idle"
                     /\ \A step \in Steps : At(step)' <=> request'[c].step = step
  BY <1>0, <1>1, <1>2, OnlyOne DEF LoneIsAlone, Lone, Busy, RegisterMail
<1>6. LoneIsAlone'
  BY <1>0, <1>1, <1>2, <1>4, <1>5 DEF LoneIsAlone, Lone, Busy, RegisterMail
<1>7. NothingBefore'
  BY <1>0, <1>1, <1>2 DEF NothingBefore, Quiet, RegisterMail
<1>8. Lone(c) => user = "unverified" /\ mailbox.code = None /\ OnItsWay(c)
  BY <1>0 DEF LoneKnows, RegisterMail
<1>9. LoneKnows'
  BY <1>2, <1>4, <1>8 DEF RegisterMail, LoneKnows, OnItsWay, Lone, Busy
<1>10. CalmTokens'
  BY <1>0, <1>1, <1>2, <1>5, <1>8
     DEF RegisterMail, CalmTokens, CalmAges, InStep, At, Steps, Stored, OnItsWay, NoTokens, Deliver
<1>11. CalmAges'
  BY <1>0, <1>1, <1>2, <1>5, <1>8
     DEF RegisterMail, CalmTokens, CalmAges, InStep, At, Steps, Stored, OnItsWay, TypeOK,
         Age, Expired
<1>12. QED
  BY <1>3, <1>6, <1>7, <1>9, <1>10, <1>11 DEF VerificationInv

-----------------------------------------------------------------------------
(* POST email/resend-verification.                                         *)

LEMMA ResendFindKeeps ==
  ASSUME VerificationInv, NEW c \in Client, ResendFind(c)
  PROVE  VerificationInv'
<1> USE VerificationAssumption
<1>0. TypeOK /\ LoneIsAlone /\ NothingBefore /\ LoneKnows /\ CalmTokens /\ CalmAges
  BY DEF VerificationInv
<1>1. ~Busy(c)
  BY DEF ResendFind, Busy, Idle
<1>2. /\ request' \in [Client -> Request] /\ request'[c].step = "resend.limit"
      /\ request'[c].alone <=> \A d \in Client \ {c} : ~Busy(d)
      /\ \A d \in Client \ {c} : /\ request'[d].step = request[d].step
                                 /\ Busy(d) => ~request'[d].alone
      /\ disturbed' <=> disturbed \/ \E d \in Client \ {c} : Busy(d)
  BY <1>0, Begun DEF ResendFind, Step
<1>3. TypeOK'
  <2>1. disturbed' \in BOOLEAN
    BY Zenon DEF ResendFind, Begin
  <2>2. QED
    BY <1>0, <1>2, <2>1 DEF TypeOK, ResendFind
<1>4. (\A d \in Client \ {c} : ~Lone(d)') /\ (Lone(c)' => \A d \in Client : ~Busy(d))
  BY <1>1, <1>2 DEF Lone, Busy
<1>5. ~disturbed' => /\ ~disturbed /\ \A d \in Client : ~Busy(d)
                     /\ \A d \in Client \ {c} : request'[d].step = "idle"
                     /\ \A step \in Steps : ~At(step)'
  BY <1>1, <1>2, OnlyOne DEF Busy, Steps
<1>6. LoneIsAlone'
  BY <1>2, <1>4, <1>5 DEF LoneIsAlone, Lone, Busy
<1>7. NothingBefore'
  BY <1>0, <1>2 DEF NothingBefore, ResendFind
<1>8. LoneKnows'
  BY <1>0, <1>2, <1>4 DEF LoneKnows, NothingBefore, ResendFind
<1>9. CalmTokens'
  BY <1>0, <1>5 DEF CalmTokens, NothingBefore, InStep, Stored, At, Busy, Steps, ResendFind
<1>10. CalmAges'
  <2>1. ~disturbed' => ~At("resend.delete")' /\ ~At("resend.save")' /\ ~At("verify.purge")'
    BY <1>5 DEF At, Steps
  <2>2. QED
    BY <1>0, <1>5, <2>1 DEF CalmAges, ResendFind
<1>11. QED
  BY <1>3, <1>6, <1>7, <1>8, <1>9, <1>10 DEF VerificationInv

LEMMA ResendLimitKeeps ==
  ASSUME VerificationInv, NEW c \in Client, ResendLimit(c)
  PROVE  VerificationInv'
<1> USE VerificationAssumption
<1>0. TypeOK /\ LoneIsAlone /\ NothingBefore /\ LoneKnows /\ CalmTokens /\ CalmAges
  BY DEF VerificationInv
<1>1. Busy(c)
  BY DEF ResendLimit, Busy
<1>2. /\ request' \in [Client -> Request] /\ request'[c].step \in {"idle", "resend.delete"}
      /\ request'[c].step # "idle" => request'[c].alone = request[c].alone
      /\ \A d \in Client \ {c} : request'[d] = request[d]
  BY <1>0, Proceeded, Finished DEF ResendLimit, Step
<1>3. TypeOK'
  BY <1>0, <1>1, <1>2 DEF TypeOK, ResendLimit
<1>4. (\A d \in Client \ {c} : ~Lone(d)') /\ (Lone(c)' => Lone(c))
  BY <1>0, <1>1, <1>2, Company DEF Lone, Busy
<1>5. ~disturbed' => /\ Lone(c)
                     /\ \A d \in Client \ {c} : request'[d].step = "idle"
                     /\ \A step \in Steps : At(step)' <=> request'[c].step = step
  BY <1>0, <1>1, <1>2, OnlyOne DEF LoneIsAlone, Lone, Busy, ResendLimit
<1>6. LoneIsAlone'
  BY <1>0, <1>1, <1>2, <1>4, <1>5 DEF LoneIsAlone, Lone, Busy, ResendLimit
<1>7. NothingBefore'
  BY <1>0, <1>1, <1>2 DEF NothingBefore, Quiet, ResendLimit
<1>8. Lone(c) => user = "unverified"
  BY <1>0 DEF LoneKnows, ResendLimit
<1>9. LoneKnows'
  BY <1>2, <1>4, <1>8 DEF ResendLimit, LoneKnows, OnItsWay, Lone, Busy
<1>10. CalmTokens'
  BY <1>0, <1>1, <1>2, <1>5, <1>8
     DEF ResendLimit, CalmTokens, CalmAges, InStep, At, Steps, Stored, OnItsWay, NoTokens
<1>11. CalmAges'
  <2> SUFFICES ASSUME ~disturbed'
      PROVE  /\ user' = "unverified" /\ sinceCode' < RateLimit =>
                  \E k \in DOMAIN tokens' : tokens'[k] = sinceCode'
             /\ At("resend.delete")' \/ At("resend.save")' \/ At("verify.purge")' => sinceCode' = RateLimit
             /\ At("verify.purge")' /\ mailbox'.code # None => mailbox'.age = Expired
    BY DEF CalmAges
  <2>1. ~disturbed /\ UNCHANGED <<user, tokens, mailbox, sinceCode>>
    BY DEF ResendLimit
  <2>2. At("resend.delete")' => ~RecentlyMailed
    BY <1>0, <1>2, <1>5 DEF ResendLimit, At, Steps, Finish, Idle, TypeOK
  <2>3. ~RecentlyMailed => ~(sinceCode < RateLimit)
    BY <1>0, <1>5, <1>8, <2>1 DEF CalmAges, RecentlyMailed
  <2>4. sinceCode \in 0..RateLimit
    BY <1>0 DEF TypeOK
  <2>5. ~At("resend.save")' /\ ~At("verify.purge")'
    BY <1>2, <1>5 DEF At, Steps
  <2>6. QED
    BY <1>0, <1>5, <1>8, <2>1, <2>2, <2>3, <2>4, <2>5 DEF CalmAges
<1>12. QED
  BY <1>3, <1>6, <1>7, <1>9, <1>10, <1>11 DEF VerificationInv

LEMMA ResendDeleteKeeps ==
  ASSUME VerificationInv, NEW c \in Client, ResendDelete(c)
  PROVE  VerificationInv'
<1> USE VerificationAssumption
<1>0. TypeOK /\ LoneIsAlone /\ NothingBefore /\ LoneKnows /\ CalmTokens /\ CalmAges
  BY DEF VerificationInv
<1>1. Busy(c)
  BY DEF ResendDelete, Busy
<1>2. /\ request' \in [Client -> Request] /\ request'[c].step = "resend.save"
      /\ request'[c].alone = request[c].alone
      /\ \A d \in Client \ {c} : request'[d] = request[d]
  BY <1>0, Proceeded DEF ResendDelete, Step
<1>3. TypeOK'
  BY <1>0, <1>1, <1>2 DEF TypeOK, ResendDelete, NoTokens
<1>4. (\A d \in Client \ {c} : ~Lone(d)') /\ (Lone(c)' => Lone(c))
  BY <1>0, <1>1, <1>2, Company DEF Lone, Busy
<1>5. ~disturbed' => /\ Lone(c)
                     /\ \A d \in Client \ {c} : request'[d].step = "idle"
                     /\ \A step \in Steps : At(step)' <=> request'[c].step = step
  BY <1>0, <1>1, <1>2, OnlyOne DEF LoneIsAlone, Lone, Busy, ResendDelete
<1>6. LoneIsAlone'
  BY <1>0, <1>1, <1>2, <1>4, <1>5 DEF LoneIsAlone, Lone, Busy, ResendDelete
<1>7. NothingBefore'
  BY <1>0, <1>1, <1>2 DEF NothingBefore, Quiet, ResendDelete
<1>8. Lone(c) => user = "unverified"
  BY <1>0 DEF LoneKnows, ResendDelete
<1>9. LoneKnows'
  BY <1>2, <1>4, <1>8 DEF ResendDelete, LoneKnows, OnItsWay, Lone, Busy
<1>10. CalmTokens'
  BY <1>0, <1>1, <1>2, <1>5, <1>8
     DEF ResendDelete, CalmTokens, CalmAges, InStep, At, Steps, Stored, OnItsWay, NoTokens
<1>11. CalmAges'
  BY <1>0, <1>1, <1>2, <1>5, <1>8
     DEF ResendDelete, CalmTokens, CalmAges, InStep, At, Steps, Stored, OnItsWay, TypeOK,
         Age, Expired
<1>12. QED
  BY <1>3, <1>6, <1>7, <1>9, <1>10, <1>11 DEF VerificationInv

LEMMA ResendSaveKeeps ==
  ASSUME VerificationInv, NEW c \in Client, NEW code \in Code, ResendSave(c, code)
  PROVE  VerificationInv'
<1> USE VerificationAssumption
<1>0. TypeOK /\ LoneIsAlone /\ NothingBefore /\ LoneKnows /\ CalmTokens /\ CalmAges
  BY DEF VerificationInv
<1>1. Busy(c)
  BY DEF ResendSave, Busy
<1>2. /\ request' \in [Client -> Request]
      /\ request'[c].step = "resend.mail" /\ request'[c].code = code
      /\ request'[c].age = 0 /\ request'[c].alone = request[c].alone
      /\ \A d \in Client \ {c} : request'[d] = request[d]
      /\ DOMAIN tokens' \subseteq Code /\ \A k \in DOMAIN tokens' : tokens'[k] \in Age
      /\ tokens = NoTokens => tokens' = [k \in {code} |-> 0]
      /\ sinceCode' = 0 /\ UNCHANGED <<user, mailbox, disturbed>>
  BY <1>0, Saved DEF ResendSave, Step
<1>3. TypeOK'
  BY <1>0, <1>1, <1>2 DEF TypeOK, Age
<1>4. (\A d \in Client \ {c} : ~Lone(d)') /\ (Lone(c)' => Lone(c))
  BY <1>0, <1>1, <1>2, Company DEF Lone, Busy
<1>5. ~disturbed' => /\ Lone(c)
                     /\ \A d \in Client \ {c} : request'[d].step = "idle"
                     /\ \A step \in Steps : At(step)' <=> request'[c].step = step
  BY <1>0, <1>1, <1>2, OnlyOne DEF LoneIsAlone, Lone, Busy, ResendSave
<1>6. LoneIsAlone'
  BY <1>0, <1>1, <1>2, <1>4, <1>5 DEF LoneIsAlone, Lone, Busy, ResendSave
<1>7. NothingBefore'
  BY <1>0, <1>1, <1>2 DEF NothingBefore, Quiet, ResendSave
<1>8. Lone(c) => user = "unverified" /\ tokens = NoTokens
  BY <1>0 DEF LoneKnows, ResendSave
<1>9. LoneKnows'
  BY <1>2, <1>4, <1>8 DEF ResendSave, LoneKnows, OnItsWay, Lone, Busy
<1>10. CalmTokens'
  BY <1>0, <1>1, <1>2, <1>5, <1>8
     DEF ResendSave, CalmTokens, CalmAges, InStep, At, Steps, Stored, OnItsWay, NoTokens
<1>11. CalmAges'
  BY <1>0, <1>1, <1>2, <1>5, <1>8
     DEF ResendSave, CalmTokens, CalmAges, InStep, At, Steps, Stored, OnItsWay, TypeOK,
         Age, Expired
<1>12. QED
  BY <1>3, <1>6, <1>7, <1>9, <1>10, <1>11 DEF VerificationInv

LEMMA ResendMailKeeps ==
  ASSUME VerificationInv, NEW c \in Client, ResendMail(c)
  PROVE  VerificationInv'
<1> USE VerificationAssumption
<1>0. TypeOK /\ LoneIsAlone /\ NothingBefore /\ LoneKnows /\ CalmTokens /\ CalmAges
  BY DEF VerificationInv
<1>1. Busy(c)
  BY DEF ResendMail, Busy
<1>2. /\ request' \in [Client -> Request] /\ request'[c].step = "idle"
      /\ \A d \in Client \ {c} : request'[d] = request[d]
  BY <1>0, Finished DEF ResendMail
<1>3. TypeOK'
  BY <1>0, <1>1, <1>2 DEF TypeOK, ResendMail, Deliver, Request
<1>4. (\A d \in Client \ {c} : ~Lone(d)') /\ (Lone(c)' => Lone(c))
  BY <1>0, <1>1, <1>2, Company DEF Lone, Busy
<1>5. ~disturbed' => /\ Lone(c)
                     /\ \A d \in Client \ {c} : request'[d].step = "idle"
                     /\ \A step \in Steps : At(step)' <=> request'[c].step = step
  BY <1>0, <1>1, <1>2, OnlyOne DEF LoneIsAlone, Lone, Busy, ResendMail
<1>6. LoneIsAlone'
  BY <1>0, <1>1, <1>2, <1>4, <1>5 DEF LoneIsAlone, Lone, Busy, ResendMail
<1>7. NothingBefore'
  BY <1>0, <1>1, <1>2 DEF NothingBefore, Quiet, ResendMail
<1>8. Lone(c) => user = "unverified" /\ OnItsWay(c)
  BY <1>0 DEF LoneKnows, ResendMail
<1>9. LoneKnows'
  BY <1>2, <1>4, <1>8 DEF ResendMail, LoneKnows, OnItsWay, Lone, Busy
<1>10. CalmTokens'
  BY <1>0, <1>1, <1>2, <1>5, <1>8
     DEF ResendMail, CalmTokens, CalmAges, InStep, At, Steps, Stored, OnItsWay, NoTokens, Deliver
<1>11. CalmAges'
  BY <1>0, <1>1, <1>2, <1>5, <1>8
     DEF ResendMail, CalmTokens, CalmAges, InStep, At, Steps, Stored, OnItsWay, TypeOK,
         Age, Expired
<1>12. QED
  BY <1>3, <1>6, <1>7, <1>9, <1>10, <1>11 DEF VerificationInv

-----------------------------------------------------------------------------
(* POST email/verify.                                                      *)

LEMMA VerifyFindKeeps ==
  ASSUME VerificationInv, NEW c \in Client, NEW code \in Code, VerifyFind(c, code)
  PROVE  VerificationInv'
<1> USE VerificationAssumption
<1>0. TypeOK /\ LoneIsAlone /\ NothingBefore /\ LoneKnows /\ CalmTokens /\ CalmAges
  BY DEF VerificationInv
<1>1. ~Busy(c)
  BY DEF VerifyFind, Busy, Idle
<1>2. /\ request' \in [Client -> Request] /\ request'[c].step = "verify.token"
      /\ request'[c].alone <=> \A d \in Client \ {c} : ~Busy(d)
      /\ \A d \in Client \ {c} : /\ request'[d].step = request[d].step
                                 /\ Busy(d) => ~request'[d].alone
      /\ disturbed' <=> disturbed \/ \E d \in Client \ {c} : Busy(d)
  BY <1>0, Begun DEF VerifyFind, Step
<1>3. TypeOK'
  <2>1. disturbed' \in BOOLEAN
    BY Zenon DEF VerifyFind, Begin
  <2>2. QED
    BY <1>0, <1>2, <2>1 DEF TypeOK, VerifyFind
<1>4. (\A d \in Client \ {c} : ~Lone(d)') /\ (Lone(c)' => \A d \in Client : ~Busy(d))
  BY <1>1, <1>2 DEF Lone, Busy
<1>5. ~disturbed' => /\ ~disturbed /\ \A d \in Client : ~Busy(d)
                     /\ \A d \in Client \ {c} : request'[d].step = "idle"
                     /\ \A step \in Steps : ~At(step)'
  BY <1>1, <1>2, OnlyOne DEF Busy, Steps
<1>6. LoneIsAlone'
  BY <1>2, <1>4, <1>5 DEF LoneIsAlone, Lone, Busy
<1>7. NothingBefore'
  BY <1>0, <1>2 DEF NothingBefore, VerifyFind
<1>8. LoneKnows'
  BY <1>0, <1>2, <1>4 DEF LoneKnows, NothingBefore, VerifyFind
<1>9. CalmTokens'
  BY <1>0, <1>5 DEF CalmTokens, NothingBefore, InStep, Stored, At, Busy, Steps, VerifyFind
<1>10. CalmAges'
  <2>1. ~disturbed' => ~At("resend.delete")' /\ ~At("resend.save")' /\ ~At("verify.purge")'
    BY <1>5 DEF At, Steps
  <2>2. QED
    BY <1>0, <1>5, <2>1 DEF CalmAges, VerifyFind
<1>11. QED
  BY <1>3, <1>6, <1>7, <1>8, <1>9, <1>10 DEF VerificationInv

LEMMA VerifyTokenKeeps ==
  ASSUME VerificationInv, NEW c \in Client, VerifyToken(c)
  PROVE  VerificationInv'
<1> USE VerificationAssumption
<1>0. TypeOK /\ LoneIsAlone /\ NothingBefore /\ LoneKnows /\ CalmTokens /\ CalmAges
  BY DEF VerificationInv
<1>1. Busy(c)
  BY DEF VerifyToken, Busy
<1>2. /\ request' \in [Client -> Request] /\ request'[c].step \in {"idle", "verify.purge", "verify.mark"}
      /\ request'[c].step # "idle" => request'[c].alone = request[c].alone
      /\ \A d \in Client \ {c} : request'[d] = request[d]
  BY <1>0, Proceeded, Finished DEF VerifyToken, Step
<1>3. TypeOK'
  BY <1>0, <1>1, <1>2 DEF TypeOK, VerifyToken
<1>4. (\A d \in Client \ {c} : ~Lone(d)') /\ (Lone(c)' => Lone(c))
  BY <1>0, <1>1, <1>2, Company DEF Lone, Busy
<1>5. ~disturbed' => /\ Lone(c)
                     /\ \A d \in Client \ {c} : request'[d].step = "idle"
                     /\ \A step \in Steps : At(step)' <=> request'[c].step = step
  BY <1>0, <1>1, <1>2, OnlyOne DEF LoneIsAlone, Lone, Busy, VerifyToken
<1>6. LoneIsAlone'
  BY <1>0, <1>1, <1>2, <1>4, <1>5 DEF LoneIsAlone, Lone, Busy, VerifyToken
<1>7. NothingBefore'
  BY <1>0, <1>1, <1>2 DEF NothingBefore, Quiet, VerifyToken
<1>8. Lone(c) => user = "unverified"
  BY <1>0 DEF LoneKnows, VerifyToken
<1>9. LoneKnows'
  BY <1>2, <1>4, <1>8 DEF VerifyToken, LoneKnows, OnItsWay, Lone, Busy
<1>10. CalmTokens'
  BY <1>0, <1>1, <1>2, <1>5, <1>8
     DEF VerifyToken, CalmTokens, CalmAges, InStep, At, Steps, Stored, OnItsWay, NoTokens
<1>11. CalmAges'
  <2> SUFFICES ASSUME ~disturbed'
      PROVE  /\ user' = "unverified" /\ sinceCode' < RateLimit =>
                  \E k \in DOMAIN tokens' : tokens'[k] = sinceCode'
             /\ At("resend.delete")' \/ At("resend.save")' \/ At("verify.purge")' => sinceCode' = RateLimit
             /\ At("verify.purge")' /\ mailbox'.code # None => mailbox'.age = Expired
    BY DEF CalmAges
  <2>1. ~disturbed /\ UNCHANGED <<user, tokens, mailbox, sinceCode>> /\ user = "unverified"
    BY <1>5, <1>8 DEF VerifyToken
  <2>2. At("verify.purge")' => Stored(request[c].code) /\ tokens[request[c].code] = Expired
    <3>1. At("verify.purge")' => request'[c].step = "verify.purge"
      BY <1>5 DEF At, Steps
    <3>2. ~Stored(request[c].code) => request'[c].step = "idle"
      BY <1>0, Finished DEF VerifyToken
    <3>3. Stored(request[c].code) /\ tokens[request[c].code] # Expired => request'[c].step = "verify.mark"
      BY <1>0, Proceeded DEF VerifyToken, Step
    <3>4. QED
      BY <3>1, <3>2, <3>3
  <2>3. \A k, l \in DOMAIN tokens : k = l
    BY <1>0, <2>1 DEF CalmTokens
  <2>4. At("verify.purge")' => ~(sinceCode < RateLimit)
    BY <1>0, <2>1, <2>2, <2>3 DEF CalmAges, Stored, TypeOK, Expired
  <2>5. At("verify.purge")' /\ mailbox.code # None => mailbox.age = Expired
    <3>1. InStep
      BY <1>0, <1>1, <1>5, <2>1 DEF CalmTokens, LoneIsAlone, Lone, Busy, At, VerifyToken
    <3>2. mailbox.age \in 0..Expired
      BY <1>0 DEF TypeOK, Age
    <3>3. QED
      BY <2>2, <3>1, <3>2 DEF InStep, Stored, Expired
  <2>6. sinceCode \in 0..RateLimit
    BY <1>0 DEF TypeOK
  <2>7. ~At("resend.save")' /\ ~At("resend.delete")'
    BY <1>2, <1>5 DEF At, Steps
  <2>8. QED
    BY <1>0, <2>1, <2>4, <2>5, <2>6, <2>7 DEF CalmAges
<1>12. QED
  BY <1>3, <1>6, <1>7, <1>9, <1>10, <1>11 DEF VerificationInv

LEMMA VerifyPurgeKeeps ==
  ASSUME VerificationInv, NEW c \in Client, VerifyPurge(c)
  PROVE  VerificationInv'
<1> USE VerificationAssumption
<1>0. TypeOK /\ LoneIsAlone /\ NothingBefore /\ LoneKnows /\ CalmTokens /\ CalmAges
  BY DEF VerificationInv
<1>1. Busy(c)
  BY DEF VerifyPurge, Busy
<1>2. /\ request' \in [Client -> Request] /\ request'[c].step = "idle"
      /\ \A d \in Client \ {c} : request'[d] = request[d]
  BY <1>0, Finished DEF VerifyPurge
<1>3. TypeOK'
  BY <1>0, <1>1, <1>2 DEF TypeOK, VerifyPurge, NoTokens
<1>4. (\A d \in Client \ {c} : ~Lone(d)') /\ (Lone(c)' => Lone(c))
  BY <1>0, <1>1, <1>2, Company DEF Lone, Busy
<1>5. ~disturbed' => /\ Lone(c)
                     /\ \A d \in Client \ {c} : request'[d].step = "idle"
                     /\ \A step \in Steps : At(step)' <=> request'[c].step = step
  BY <1>0, <1>1, <1>2, OnlyOne DEF LoneIsAlone, Lone, Busy, VerifyPurge
<1>6. LoneIsAlone'
  BY <1>0, <1>1, <1>2, <1>4, <1>5 DEF LoneIsAlone, Lone, Busy, VerifyPurge
<1>7. NothingBefore'
  BY <1>0, <1>1, <1>2 DEF NothingBefore, Quiet, VerifyPurge
<1>8. Lone(c) => user = "unverified"
  BY <1>0 DEF LoneKnows, VerifyPurge
<1>9. LoneKnows'
  BY <1>2, <1>4, <1>8 DEF VerifyPurge, LoneKnows, OnItsWay, Lone, Busy
<1>10. CalmTokens'
  <2> SUFFICES ASSUME ~disturbed' PROVE InStep'
    BY <1>8, <1>5 DEF CalmTokens, VerifyPurge, NoTokens
  <2>1. ~disturbed /\ At("verify.purge")
    BY DEF VerifyPurge, At
  <2>2. mailbox.code # None => mailbox.age = Expired
    BY <1>0, <2>1 DEF CalmAges
  <2>3. QED
    BY <2>2 DEF InStep, VerifyPurge, NoTokens, Expired
<1>11. CalmAges'
  BY <1>0, <1>1, <1>2, <1>5, <1>8
     DEF VerifyPurge, CalmTokens, CalmAges, InStep, At, Steps, Stored, OnItsWay, TypeOK,
         Age, Expired
<1>12. QED
  BY <1>3, <1>6, <1>7, <1>9, <1>10, <1>11 DEF VerificationInv

LEMMA VerifyMarkKeeps ==
  ASSUME VerificationInv, NEW c \in Client, VerifyMark(c)
  PROVE  VerificationInv'
<1> USE VerificationAssumption
<1>0. TypeOK /\ LoneIsAlone /\ NothingBefore /\ LoneKnows /\ CalmTokens /\ CalmAges
  BY DEF VerificationInv
<1>1. Busy(c)
  BY DEF VerifyMark, Busy
<1>2. /\ request' \in [Client -> Request] /\ request'[c].step = "verify.clean"
      /\ request'[c].alone = request[c].alone
      /\ \A d \in Client \ {c} : request'[d] = request[d]
  BY <1>0, Proceeded DEF VerifyMark, Step
<1>3. TypeOK'
  BY <1>0, <1>1, <1>2 DEF TypeOK, VerifyMark
<1>4. (\A d \in Client \ {c} : ~Lone(d)') /\ (Lone(c)' => Lone(c))
  BY <1>0, <1>1, <1>2, Company DEF Lone, Busy
<1>5. ~disturbed' => /\ Lone(c)
                     /\ \A d \in Client \ {c} : request'[d].step = "idle"
                     /\ \A step \in Steps : At(step)' <=> request'[c].step = step
  BY <1>0, <1>1, <1>2, OnlyOne DEF LoneIsAlone, Lone, Busy, VerifyMark
<1>6. LoneIsAlone'
  BY <1>0, <1>1, <1>2, <1>4, <1>5 DEF LoneIsAlone, Lone, Busy, VerifyMark
<1>7. NothingBefore'
  BY <1>0, <1>1, <1>2 DEF NothingBefore, Quiet, VerifyMark
<1>8. Lone(c) => user = "unverified"
  BY <1>0 DEF LoneKnows, VerifyMark
<1>9. LoneKnows'
  BY <1>2, <1>4, <1>8 DEF VerifyMark, LoneKnows, OnItsWay, Lone, Busy
<1>10. CalmTokens'
  BY <1>0, <1>1, <1>2, <1>5, <1>8
     DEF VerifyMark, CalmTokens, CalmAges, InStep, At, Steps, Stored, OnItsWay, NoTokens
<1>11. CalmAges'
  BY <1>0, <1>1, <1>2, <1>5, <1>8
     DEF VerifyMark, CalmTokens, CalmAges, InStep, At, Steps, Stored, OnItsWay, TypeOK,
         Age, Expired
<1>12. QED
  BY <1>3, <1>6, <1>7, <1>9, <1>10, <1>11 DEF VerificationInv

LEMMA VerifyCleanKeeps ==
  ASSUME VerificationInv, NEW c \in Client, VerifyClean(c)
  PROVE  VerificationInv'
<1> USE VerificationAssumption
<1>0. TypeOK /\ LoneIsAlone /\ NothingBefore /\ LoneKnows /\ CalmTokens /\ CalmAges
  BY DEF VerificationInv
<1>1. Busy(c)
  BY DEF VerifyClean, Busy
<1>2. /\ request' \in [Client -> Request] /\ request'[c].step = "idle"
      /\ \A d \in Client \ {c} : request'[d] = request[d]
  BY <1>0, Finished DEF VerifyClean
<1>3. TypeOK'
  BY <1>0, <1>1, <1>2 DEF TypeOK, VerifyClean, NoTokens
<1>4. (\A d \in Client \ {c} : ~Lone(d)') /\ (Lone(c)' => Lone(c))
  BY <1>0, <1>1, <1>2, Company DEF Lone, Busy
<1>5. ~disturbed' => /\ Lone(c)
                     /\ \A d \in Client \ {c} : request'[d].step = "idle"
                     /\ \A step \in Steps : At(step)' <=> request'[c].step = step
  BY <1>0, <1>1, <1>2, OnlyOne DEF LoneIsAlone, Lone, Busy, VerifyClean
<1>6. LoneIsAlone'
  BY <1>0, <1>1, <1>2, <1>4, <1>5 DEF LoneIsAlone, Lone, Busy, VerifyClean
<1>7. NothingBefore'
  BY <1>0, <1>1, <1>2 DEF NothingBefore, Quiet, VerifyClean
<1>8. Lone(c) => user = "verified"
  BY <1>0 DEF LoneKnows, VerifyClean
<1>9. LoneKnows'
  BY <1>2, <1>4, <1>8 DEF VerifyClean, LoneKnows, OnItsWay, Lone, Busy
<1>10. CalmTokens'
  BY <1>0, <1>1, <1>2, <1>5, <1>8
     DEF VerifyClean, CalmTokens, CalmAges, InStep, At, Steps, Stored, OnItsWay, NoTokens
<1>11. CalmAges'
  BY <1>0, <1>1, <1>2, <1>5, <1>8
     DEF VerifyClean, CalmTokens, CalmAges, InStep, At, Steps, Stored, OnItsWay, TypeOK,
         Age, Expired
<1>12. QED
  BY <1>3, <1>6, <1>7, <1>9, <1>10, <1>11 DEF VerificationInv

-----------------------------------------------------------------------------
(* Failures, and the whole.                                                *)

LEMMA FailKeeps ==
  ASSUME VerificationInv, NEW c \in Client, Fail(c)
  PROVE  VerificationInv'
<1> USE VerificationAssumption
<1>0. TypeOK /\ LoneIsAlone /\ NothingBefore /\ LoneKnows /\ CalmTokens /\ CalmAges
  BY DEF VerificationInv
<1>1. Busy(c)
  BY DEF Fail, Busy
<1>2. /\ request' \in [Client -> Request] /\ request'[c].step = "idle"
      /\ \A d \in Client \ {c} : request'[d] = request[d]
  BY <1>0, Finished DEF Fail
<1>3. TypeOK'
  BY <1>0, <1>1, <1>2 DEF TypeOK, Fail
<1>4. (\A d \in Client \ {c} : ~Lone(d)') /\ (Lone(c)' => Lone(c))
  BY <1>0, <1>1, <1>2, Company DEF Lone, Busy
<1>5. ~disturbed' => /\ Lone(c) /\ ~disturbed
                     /\ \A d \in Client \ {c} : request'[d].step = "idle"
                     /\ \A step \in Steps : At(step)' <=> request'[c].step = step
  <2>1. ~disturbed' => ~disturbed
    BY Zenon DEF Fail
  <2>2. ~disturbed => Lone(c) /\ \A d \in Client \ {c} : request[d].step = "idle"
    BY <1>0, <1>1 DEF LoneIsAlone, Lone, Busy
  <2>3. QED
    BY <1>2, <2>1, <2>2, OnlyOne
<1>6. LoneIsAlone'
  BY <1>0, <1>1, <1>2, <1>4, <1>5 DEF LoneIsAlone, Lone, Busy, Fail
<1>7. NothingBefore'
  BY <1>0, <1>1, <1>2 DEF NothingBefore, Quiet, Fail
<1>8. Lone(c) => user = IF request[c].step = "verify.clean" THEN "verified" ELSE "unverified"
  BY <1>0 DEF LoneKnows, Fail
<1>9. LoneKnows'
  BY <1>2, <1>4, <1>8 DEF Fail, LoneKnows, OnItsWay, Lone, Busy
<1>10. CalmTokens'
  BY <1>0, <1>1, <1>2, <1>5, <1>8
     DEF Fail, CalmTokens, CalmAges, InStep, At, Steps, Stored, OnItsWay, NoTokens
<1>11. CalmAges'
  BY <1>0, <1>1, <1>2, <1>5, <1>8
     DEF Fail, CalmTokens, CalmAges, InStep, At, Steps, Stored, OnItsWay, TypeOK,
         Age, Expired
<1>12. QED
  BY <1>3, <1>6, <1>7, <1>9, <1>10, <1>11 DEF VerificationInv

LEMMA InitVerification == Init => VerificationInv
<1> SUFFICES ASSUME Init PROVE VerificationInv
  OBVIOUS
<1>1. \A c \in Client : request[c] = Idle /\ ~Busy(c)
  BY DEF Init, Busy, Idle
<1>2. TypeOK
  <2>1. 0 \in Age /\ RateLimit \in 0..RateLimit
    BY VerificationAssumption DEF Age, Expired
  <2>2. Idle \in Request
    BY <2>1 DEF Idle, Request, Step
  <2>3. DOMAIN tokens = {}
    BY DEF Init, NoTokens
  <2>4. QED
    BY <2>1, <2>2, <2>3 DEF Init, TypeOK
<1>3. LoneIsAlone /\ NothingBefore /\ LoneKnows
  BY <1>1 DEF Init, LoneIsAlone, NothingBefore, LoneKnows, Lone, Quiet
<1>4. CalmTokens
  BY DEF Init, CalmTokens, NoTokens
<1>5. CalmAges
  BY <1>1 DEF Init, CalmAges, At, Idle
<1>6. QED
  BY <1>2, <1>3, <1>4, <1>5 DEF VerificationInv

LEMMA StutterKeeps == VerificationInv /\ UNCHANGED vars => VerificationInv'
BY DEF VerificationInv, TypeOK, LoneIsAlone, NothingBefore, LoneKnows, CalmTokens, CalmAges,
       Lone, Busy, Quiet, OnItsWay, InStep, Stored, At, vars

LEMMA NextKeeps == VerificationInv /\ [Next]_vars => VerificationInv'
<1> SUFFICES ASSUME VerificationInv, [Next]_vars PROVE VerificationInv'
  OBVIOUS
<1>1. CASE UNCHANGED vars
  BY <1>1, StutterKeeps
<1>2. CASE Tick
  BY <1>2, TickKeeps
<1>3. ASSUME NEW c \in Client,
             RegisterSave(c) \/ RegisterMail(c) \/ \E code \in Code : RegisterToken(c, code)
      PROVE  VerificationInv'
  BY <1>3, RegisterSaveKeeps, RegisterMailKeeps, RegisterTokenKeeps
<1>4. ASSUME NEW c \in Client,
             \/ ResendFind(c) \/ ResendLimit(c) \/ ResendDelete(c) \/ ResendMail(c)
             \/ \E code \in Code : ResendSave(c, code)
      PROVE  VerificationInv'
  BY <1>4, ResendFindKeeps, ResendLimitKeeps, ResendDeleteKeeps, ResendMailKeeps, ResendSaveKeeps
<1>5. ASSUME NEW c \in Client,
             \/ VerifyToken(c) \/ VerifyPurge(c) \/ VerifyMark(c) \/ VerifyClean(c)
             \/ \E code \in Code : VerifyFind(c, code)
      PROVE  VerificationInv'
  BY <1>5, VerifyTokenKeeps, VerifyPurgeKeeps, VerifyMarkKeeps, VerifyCleanKeeps, VerifyFindKeeps
<1>6. ASSUME NEW c \in Client, Fail(c) PROVE VerificationInv'
  BY <1>6, FailKeeps
<1>7. QED
  BY <1>1, <1>2, <1>3, <1>4, <1>5, <1>6 DEF Next

(* The types, what a lone request knows and what is in step in undisturbed *)
(* times, whatever registrations, resends and verifications overlap.       *)
THEOREM VerificationHolds == Spec => []VerificationInv
<1>1. QED
  BY InitVerification, NextKeeps, PTL DEF Spec

(* The code of the last mail verifies the address until it expires, and no *)
(* other code does, in undisturbed times.                                  *)
THEOREM LastCodeAlwaysWorks == Spec => []LastCodeWorks
<1>1. VerificationInv => LastCodeWorks
  BY DEF VerificationInv, CalmTokens, InStep, At, LastCodeWorks, Quiet, Busy
<1>2. QED
  BY <1>1, VerificationHolds, PTL

(* No code is left to a verified user in undisturbed times.                *)
THEOREM NoCodeIsLeft == Spec => []NoCodeLeft
<1>1. VerificationInv => NoCodeLeft
  BY DEF VerificationInv, CalmTokens, At, NoCodeLeft, Quiet, Busy
<1>2. QED
  BY <1>1, VerificationHolds, PTL

(* A resend comes no sooner than the rate limit after the code before it,  *)
(* in undisturbed times.                                                   *)
THEOREM CodesStayApart == Spec => []CodesAreApart
<1>1. VerificationInv => CodesAreApart
  BY DEF VerificationInv, CalmAges, At, CodesAreApart
<1>2. QED
  BY <1>1, VerificationHolds, PTL

=============================================================================
