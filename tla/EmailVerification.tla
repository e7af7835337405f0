-------------------------- MODULE EmailVerification --------------------------
(***************************************************************************)
(* The verification of one user's e-mail address: registration, which      *)
(* mails a first code; the resend of a code, at most once a minute; and    *)
(* the verification with a code, which lives 15 minutes.  Every handler is *)
(* a row of awaited calls, and several of them may be under way.           *)
(*                                                                         *)
(* Time passes in ticks; a token row is known by its code and has an age.  *)
(* The index on (user_id, token) makes the codes of the rows distinct.     *)
(* The welcome mail, whose failure is swallowed, is left out.              *)
(***************************************************************************)
EXTENDS Naturals

CONSTANTS
  Code,       \* six-digit codes
  Client,     \* slots for concurrent requests
  RateLimit,  \* ticks between two resends (60 s)
  Expiry,     \* ticks a code lives (15 min)
  None        \* no code

ASSUME VerificationAssumption ==
  /\ None \notin Code
  /\ RateLimit \in Nat \ {0} /\ Expiry \in Nat /\ RateLimit <= Expiry

VARIABLES
  user,         \* "absent", "unverified" or "verified"
  tokens,       \* [stored codes -> age of the row]
  mailbox,      \* the last code that was delivered, and its age
  sinceCode,    \* age of the last code that was stored, up to RateLimit
  request,      \* [Client -> the request being served]
  disturbed     \* history: requests have overlapped, or one has failed half-
                \* way, since the last resend that did neither

vars == <<user, tokens, mailbox, sinceCode, request, disturbed>>

-----------------------------------------------------------------------------
Expired == Expiry + 1
Age == 0..Expired
Older(age) == IF age < Expired THEN age + 1 ELSE age

Step == {"idle", "register.token", "register.mail", "resend.limit", "resend.delete",
         "resend.save", "resend.mail", "verify.token", "verify.purge",
         "verify.mark", "verify.clean"}

\* code, age: of the token being made or presented.  alone: no other request
\* has been under way since this one began.
Request == [step: Step, code: Code \cup {None}, age: Age, alone: BOOLEAN]
Idle == [step |-> "idle", code |-> None, age |-> 0, alone |-> TRUE]
Busy(c) == request[c].step # "idle"

\* A request begins: one that is under way is not alone any more.
Begin(c, step, code) ==
  LET others == {d \in Client : d # c /\ Busy(d)}
  IN /\ request' = [d \in Client |->
          IF d = c THEN [step |-> step, code |-> code, age |-> 0, alone |-> others = {}]
          ELSE [request[d] EXCEPT !.alone = @ /\ ~Busy(d)]]
     /\ disturbed' = (disturbed \/ others # {})
Proceed(c, step) == request' = [request EXCEPT ![c].step = step]
Finish(c) == request' = [request EXCEPT ![c] = Idle]

NoTokens == [code \in {} |-> 0]
Stored(code) == code \in DOMAIN tokens
Store(code, age) ==
  tokens' = [k \in DOMAIN tokens \cup {code} |-> IF k = code THEN age ELSE tokens[k]]
\* sendVerificationEmail, when it succeeds: a failure is an answer of its own.
Deliver(code, age) == mailbox' = [code |-> code, age |-> age]

\* A limit that lets the last tick before it pass (a plausible bug).
RecentlyMailedEarly == \E code \in DOMAIN tokens : tokens[code] + 1 < RateLimit

\* findLatestByUserId, and the 60 seconds: no token is too young unless the
\* newest is.
RecentlyMailed == \E code \in DOMAIN tokens : tokens[code] < RateLimit

-----------------------------------------------------------------------------
Init ==
  /\ user = "absent"
  /\ tokens = NoTokens
  /\ mailbox = [code |-> None, age |-> 0]
  /\ sinceCode = RateLimit
  /\ request = [c \in Client |-> Idle]
  /\ disturbed = FALSE

\* Everything grows older by one tick, a token on its way to its row too.
Tick ==
  /\ tokens' = [code \in DOMAIN tokens |-> Older(tokens[code])]
  /\ mailbox' = [mailbox EXCEPT !.age = Older(@)]
  /\ sinceCode' = IF sinceCode < RateLimit THEN sinceCode + 1 ELSE sinceCode
  /\ request' = [c \in Client |->
       IF request[c].step \in {"resend.mail", "register.mail"}
       THEN [request[c] EXCEPT !.age = Older(@)] ELSE request[c]]
  /\ UNCHANGED <<user, disturbed>>

-----------------------------------------------------------------------------
(* Plausible bugs.                                                         *)

\* A resend that keeps the earlier codes.
ResendDeleteNothing(c) ==
  /\ request[c].step = "resend.delete"
  /\ Proceed(c, "resend.save")
  /\ UNCHANGED <<user, tokens, mailbox, sinceCode, disturbed>>

\* A verification that marks the user and leaves the used code.
VerifyMarkOnly(c) ==
  /\ request[c].step = "verify.mark"
  /\ user' = "verified"
  /\ Finish(c)
  /\ UNCHANGED <<tokens, mailbox, sinceCode, disturbed>>

\* A token stored before its code has been drawn.
SaveTokenBlank(c, code, step) ==
  /\ ~Stored(code)
  /\ Store(request[c].code, 0)
  /\ request' = [request EXCEPT ![c].step = step, ![c].code = code, ![c].age = 0]
  /\ sinceCode' = 0
  /\ UNCHANGED <<user, mailbox, disturbed>>

-----------------------------------------------------------------------------
(* POST users: insert the user, insert a token, mail its code.             *)

RegisterSave(c) ==
  /\ request[c] = Idle
  /\ user = "absent"
  /\ user' = "unverified"
  /\ Begin(c, "register.token", None)
  /\ UNCHANGED <<tokens, mailbox, sinceCode>>

\* The token of a registration or of a resend, unless the user has one with
\* this code.
SaveToken(c, code, step) ==
  /\ ~Stored(code)
  /\ Store(code, 0)
  /\ request' = [request EXCEPT ![c].step = step, ![c].code = code, ![c].age = 0]
  /\ sinceCode' = 0
  /\ UNCHANGED <<user, mailbox, disturbed>>

RegisterToken(c, code) ==
  /\ request[c].step = "register.token"
  /\ SaveToken(c, code, "register.mail")

RegisterMail(c) ==
  /\ request[c].step = "register.mail"
  /\ Deliver(request[c].code, request[c].age)
  /\ Finish(c)
  /\ UNCHANGED <<user, tokens, sinceCode, disturbed>>

-----------------------------------------------------------------------------
(* POST email/resend-verification.                                         *)

ResendFind(c) ==
  /\ request[c] = Idle
  /\ user = "unverified"
  /\ Begin(c, "resend.limit", None)
  /\ UNCHANGED <<user, tokens, mailbox, sinceCode>>

ResendLimit(c) ==
  /\ request[c].step = "resend.limit"
  /\ IF RecentlyMailed
     THEN Finish(c)
     ELSE Proceed(c, "resend.delete")
  /\ UNCHANGED <<user, tokens, mailbox, sinceCode, disturbed>>

ResendDelete(c) ==
  /\ request[c].step = "resend.delete"
  /\ tokens' = NoTokens
  /\ Proceed(c, "resend.save")
  /\ UNCHANGED <<user, mailbox, sinceCode, disturbed>>

ResendSave(c, code) ==
  /\ request[c].step = "resend.save"
  /\ SaveToken(c, code, "resend.mail")

\* A resend that ran alone and to its end makes up for what went before.
ResendMail(c) ==
  /\ request[c].step = "resend.mail"
  /\ Deliver(request[c].code, request[c].age)
  /\ disturbed' = (disturbed /\ ~request[c].alone)
  /\ Finish(c)
  /\ UNCHANGED <<user, tokens, sinceCode>>

-----------------------------------------------------------------------------
(* POST email/verify.                                                      *)

VerifyFind(c, code) ==
  /\ request[c] = Idle
  /\ user = "unverified"
  /\ Begin(c, "verify.token", code)
  /\ UNCHANGED <<user, tokens, mailbox, sinceCode>>

VerifyToken(c) ==
  LET code == request[c].code
  IN /\ request[c].step = "verify.token"
     /\ IF ~Stored(code) THEN Finish(c)
        ELSE IF tokens[code] = Expired THEN Proceed(c, "verify.purge")
        ELSE Proceed(c, "verify.mark")
     /\ UNCHANGED <<user, tokens, mailbox, sinceCode, disturbed>>

\* All tokens of the user are deleted, not the expired one.
VerifyPurge(c) ==
  /\ request[c].step = "verify.purge"
  /\ tokens' = NoTokens
  /\ Finish(c)
  /\ UNCHANGED <<user, mailbox, sinceCode, disturbed>>

VerifyMark(c) ==
  /\ request[c].step = "verify.mark"
  /\ user' = "verified"
  /\ Proceed(c, "verify.clean")
  /\ UNCHANGED <<tokens, mailbox, sinceCode, disturbed>>

VerifyClean(c) ==
  /\ request[c].step = "verify.clean"
  /\ tokens' = NoTokens
  /\ Finish(c)
  /\ UNCHANGED <<user, mailbox, sinceCode, disturbed>>

\* A request ends at any await: the process stops, the database or the mail
\* server fails.  A resend that has deleted the earlier code and has not
\* delivered the new one leaves the user with a code that is dead; a
\* verification that has marked the user leaves its code behind.
Fail(c) ==
  /\ Busy(c)
  /\ Finish(c)
  /\ disturbed' = (disturbed \/ request[c].step \in {"resend.save", "resend.mail", "verify.clean"})
  /\ UNCHANGED <<user, tokens, mailbox, sinceCode>>

Next ==
  \/ Tick
  \/ \E c \in Client :
       \/ RegisterSave(c) \/ RegisterMail(c)
       \/ ResendFind(c) \/ ResendLimit(c) \/ ResendDelete(c) \/ ResendMail(c)
       \/ VerifyToken(c) \/ VerifyPurge(c) \/ VerifyMark(c) \/ VerifyClean(c)
       \/ Fail(c)
       \/ \E code \in Code :
            RegisterToken(c, code) \/ ResendSave(c, code) \/ VerifyFind(c, code)

Spec == Init /\ [][Next]_vars

-----------------------------------------------------------------------------
TypeOK ==
  /\ user \in {"absent", "unverified", "verified"}
  /\ DOMAIN tokens \subseteq Code /\ \A code \in DOMAIN tokens : tokens[code] \in Age
  /\ mailbox \in [code: Code \cup {None}, age: Age]
  /\ sinceCode \in 0..RateLimit
  /\ request \in [Client -> Request]
  /\ disturbed \in BOOLEAN

Quiet == \A c \in Client : ~Busy(c)

\* The code in the user's last mail, and no other one, verifies the address
\* until its 15 minutes are over: resends and verifications, with right, wrong
\* and expired codes, keep the mailbox and the rows in step, as long as they
\* do not overlap and no resend fails half-way; and the next resend that runs
\* alone brings them in step again.
LastCodeWorks ==
  Quiet /\ user = "unverified" /\ ~disturbed /\ mailbox.code # None =>
    /\ DOMAIN tokens \subseteq {mailbox.code}
    /\ mailbox.age < Expired => Stored(mailbox.code) /\ tokens[mailbox.code] = mailbox.age

\* A verified address has no code left that somebody could still present, also
\* when codes were resent or had expired before - unless requests overlapped,
\* as a resend that read the user before the verification marked it, or the
\* verification failed half-way.
NoCodeLeft == Quiet /\ user = "verified" /\ ~disturbed => tokens = NoTokens

\* A code is resent no sooner than the rate limit after the one before it, be
\* that of the registration or of a resend, although the limit is kept by
\* nothing but the age of a stored token and verifications and resends delete
\* those - as long as requests do not overlap and none has failed half-way.
CodesAreApart ==
  \A c \in Client :
    request[c].step = "resend.save" /\ ~disturbed => sinceCode = RateLimit

-----------------------------------------------------------------------------
(* The inductive invariant behind the three properties.                    *)

Lone(c) == Busy(c) /\ request[c].alone

\* A request that has been alone is the only one, and there is no other kind
\* of request in undisturbed times.
LoneIsAlone ==
  /\ \A c \in Client : Lone(c) => \A d \in Client : Busy(d) => d = c
  /\ ~disturbed => \A c \in Client : Busy(c) => request[c].alone

NothingBefore ==
  user = "absent" =>
    Quiet /\ tokens = NoTokens /\ mailbox.code = None /\ sinceCode = RateLimit

\* The one stored code is the one on its way to the mailbox.
OnItsWay(c) ==
  /\ tokens = [k \in {request[c].code} |-> request[c].age]
  /\ sinceCode < RateLimit => request[c].age = sinceCode

\* What a request that has been alone has done is still so, also when there
\* was a disturbance before it.
LoneKnows ==
  \A c \in Client : Lone(c) =>
    /\ user = IF request[c].step = "verify.clean" THEN "verified" ELSE "unverified"
    /\ request[c].step \in {"register.token", "register.mail"} => mailbox.code = None
    /\ request[c].step \in {"register.token", "resend.save"} => tokens = NoTokens
    /\ request[c].step \in {"register.mail", "resend.mail"} => OnItsWay(c)

InStep ==
  mailbox.code # None =>
    /\ DOMAIN tokens \subseteq {mailbox.code}
    /\ mailbox.age < Expired => Stored(mailbox.code) /\ tokens[mailbox.code] = mailbox.age

At(step) == \E c \in Client : request[c].step = step

\* Undisturbed, the mailbox and the rows are in step but between the deletion
\* of the old code and the mail of the new one, and only a verification that
\* has still to clean up leaves a code to a verified user.
CalmTokens ==
  ~disturbed =>
    /\ user = "unverified" => InStep \/ At("resend.save") \/ At("resend.mail")
    /\ user = "verified" => tokens = NoTokens \/ At("verify.clean")
    /\ \A k, l \in DOMAIN tokens : k = l

\* Undisturbed, the age of the stored token is that of the last code, and a
\* token is deleted only when that code is no longer young.
CalmAges ==
  ~disturbed =>
    /\ user = "unverified" /\ sinceCode < RateLimit =>
         \E k \in DOMAIN tokens : tokens[k] = sinceCode
    /\ At("resend.delete") \/ At("resend.save") \/ At("verify.purge") => sinceCode = RateLimit
    /\ At("verify.purge") /\ mailbox.code # None => mailbox.age = Expired

VerificationInv ==
  /\ TypeOK
  /\ LoneIsAlone
  /\ NothingBefore
  /\ LoneKnows
  /\ CalmTokens
  /\ CalmAges

=============================================================================
