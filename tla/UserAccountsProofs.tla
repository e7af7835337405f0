------------------------- MODULE UserAccountsProofs -------------------------
(***************************************************************************)
(* AccountsInv is an inductive invariant of UserAccounts, for every set of *)
(* devices, tokens, names of files and overlapping requests.               *)
(*                                                                         *)
(* The tokens and the pictures are proved apart: a step about the one is a *)
(* step of the frame of the other.                                         *)
(***************************************************************************)
EXTENDS UserAccounts, TLAPS

TokenOps == {"refresh", "issue", "answer"}

TokenInv ==
  TokensNeedPassword /\ ExchangedOnce /\ OneHeir /\ TokensAreOwn /\ SessionsLast

PictureInv ==
  /\ RowComesFirst /\ OverlapsAreKnown /\ AddressesAreCurrent /\ OldFilesAreGone
  /\ PicturesExist /\ NothingLeftBehind

LEMMA Parts == AccountsInv <=> TypeOK /\ TokenInv /\ PictureInv
BY DEF AccountsInv, TokenInv, PictureInv

(* What a request of each kind has in its slot.                            *)
LEMMA Shapes ==
  ASSUME TypeOK, NEW r \in Request
  PROVE  /\ Op(r) = "profile" => request[r] \in Update
         /\ Op(r) = "refresh" => request[r].device \in Device /\ request[r].token \in Token
         /\ Op(r) = "issue" => /\ request[r].device \in Device
                               /\ request[r].parent \in Token \cup {None}
         /\ Op(r) = "answer" => /\ request[r].device \in Device
                                /\ request[r].parent \in Token \cup {None}
                                /\ request[r].token \in Token
         /\ Op(r) = "idle" <=> request[r] = None
BY DEF TypeOK, Op, Idle, Step, Update

LEMMA UpdateShape ==
  ASSUME NEW u \in Update
  PROVE  /\ u.op = "profile" /\ u.address \in [Picture -> Address]
         /\ u.send \subseteq Picture /\ u.todo \subseteq Picture
         /\ u.cleared \in BOOLEAN /\ u.clashed \subseteq Picture
         /\ u \in Step
BY DEF Update, Step

(* A slot that is filled, emptied or changed.                              *)
LEMMA Slots ==
  ASSUME TypeOK, NEW r \in Request, NEW q \in Step \cup {None}, Proceed(r, q)
  PROVE  /\ request' \in [Request -> Step \cup {None}]
         /\ request'[r] = q
         /\ \A s \in Request \ {r} : request'[s] = request[s]
BY DEF TypeOK, Proceed

LEMMA Chosen ==
  ASSUME NEW todo \in SUBSET Picture, todo # {}
  PROVE  Current(todo) \in todo /\ Current(todo) \in Picture
BY DEF Current, Picture

LEMMA InitAccounts == Init => AccountsInv
<1> SUFFICES ASSUME Init PROVE AccountsInv
  OBVIOUS
<1>1. Drawn = {}
  BY DEF Init, Drawn
<1>2. \A r \in Request : Op(r) = "idle"
  BY DEF Init, Op, Idle
<1>3. TypeOK
  BY <1>1 DEF Init, TypeOK, NoPictures, Address, Drawn
<1>4. TokenInv
  BY <1>1, <1>2
     DEF Init, TokenInv, TokensNeedPassword, ExchangedOnce, OneHeir, TokensAreOwn,
         SessionsLast, Exchanging
<1>5. PictureInv
  BY <1>2
     DEF Init, PictureInv, RowComesFirst, OverlapsAreKnown, AddressesAreCurrent,
         OldFilesAreGone, PicturesExist, NothingLeftBehind, NoPictures, Replaced
<1>6. QED
  BY <1>3, <1>4, <1>5, Parts

-----------------------------------------------------------------------------
(* Types, and what a step leaves alone.                                    *)

(* Only the slots of the set change.                                       *)
SlotsOf(rs) ==
  /\ request' \in [Request -> Step \cup {None}]
  /\ \A q \in Request \ rs : request'[q] = request[q]

(* The steps about the row and the tokens.                                 *)
LEMMA TokenSteps ==
  ASSUME TypeOK, TokensAreOwn, NEW r \in Request
  PROVE  /\ RegisterCheck(r) \/ GoogleFind(r) \/ RefreshDelete(r) \/ Answer(r)
              => SlotsOf({r}) /\ TypeOK'
         /\ \A d \in Device :
              RegisterCreate(r, d) \/ Login(r, d) \/ RefreshFind(r, d)
                => SlotsOf({r}) /\ TypeOK'
         /\ \A a \in {None, External} : GoogleSave(r, a) => SlotsOf({r}) /\ TypeOK'
         /\ \A t \in Token : Issue(r, t) => SlotsOf({r}) /\ TypeOK'
<1>0. None \in Step \cup {None}
  OBVIOUS
<1>1. ASSUME RegisterCheck(r) PROVE SlotsOf({r}) /\ TypeOK'
  <2>1. [op |-> "register"] \in Step \cup {None}
    BY DEF Step
  <2>2. SlotsOf({r})
    BY <1>1, <2>1, Slots DEF RegisterCheck, SlotsOf
  <2>3. QED
    BY <1>1, <2>2
       DEF RegisterCheck, SlotsOf, TypeOK, rowVars, tokenVars, pictureVars, Drawn
<1>2. ASSUME GoogleFind(r) PROVE SlotsOf({r}) /\ TypeOK'
  <2>1. [op |-> "google"] \in Step \cup {None}
    BY DEF Step
  <2>2. SlotsOf({r})
    BY <1>2, <2>1, Slots DEF GoogleFind, SlotsOf
  <2>3. QED
    BY <1>2, <2>2
       DEF GoogleFind, SlotsOf, TypeOK, rowVars, tokenVars, pictureVars, Drawn
<1>3. ASSUME RefreshDelete(r) PROVE SlotsOf({r}) /\ TypeOK'
  <2>1. [op |-> "issue", device |-> request[r].device, parent |-> request[r].token]
          \in Step \cup {None}
    BY <1>3, Shapes DEF RefreshDelete, Step
  <2>2. SlotsOf({r})
    BY <1>3, <2>1, Slots DEF RefreshDelete, SlotsOf
  <2>3. QED
    BY <1>3, <2>2 DEF RefreshDelete, SlotsOf, TypeOK, rowVars, pictureVars, Drawn
<1>4. ASSUME Answer(r) PROVE SlotsOf({r}) /\ TypeOK'
  <2>0. request[r].token \in Drawn /\ request[r].device \in Device
    BY <1>4, Shapes DEF Answer, TokensAreOwn, TypeOK
  <2>1. SlotsOf({r})
    BY <1>4, <1>0, Slots DEF Answer, Finish, SlotsOf
  <2>2. QED
    BY <1>4, <2>0, <2>1 DEF Answer, SlotsOf, TypeOK, rowVars, pictureVars, Drawn
<1>5. ASSUME NEW d \in Device, RegisterCreate(r, d) PROVE SlotsOf({r}) /\ TypeOK'
  <2>1. [op |-> "issue", device |-> d, parent |-> None] \in Step \cup {None}
    BY DEF Step
  <2>2. SlotsOf({r})
    BY <1>5, <1>0, <2>1, Slots DEF RegisterCreate, Finish, SlotsOf
  <2>3. QED
    BY <1>5, <2>2
       DEF RegisterCreate, SlotsOf, TypeOK, tokenVars, pictureVars, Drawn
<1>6. ASSUME NEW d \in Device, Login(r, d) PROVE SlotsOf({r}) /\ TypeOK'
  <2>1. [op |-> "issue", device |-> d, parent |-> None] \in Step \cup {None}
    BY DEF Step
  <2>2. SlotsOf({r})
    BY <1>6, <2>1, Slots DEF Login, SlotsOf
  <2>3. QED
    BY <1>6, <2>2 DEF Login, SlotsOf, TypeOK, rowVars, tokenVars, pictureVars, Drawn
<1>7. ASSUME NEW d \in Device, RefreshFind(r, d) PROVE SlotsOf({r}) /\ TypeOK'
  <2>0. held[d] \in Token /\ held[d] \in Drawn
    BY <1>7 DEF RefreshFind, TypeOK
  <2>1. [op |-> "refresh", device |-> d, token |-> held[d]] \in Step \cup {None}
    BY <2>0 DEF Step
  <2>2. SlotsOf({r})
    BY <1>7, <2>1, Slots DEF RefreshFind, SlotsOf
  <2>3. forked' \subseteq Drawn
    BY <1>7, <2>0 DEF RefreshFind, TypeOK
  <2>4. QED
    BY <1>7, <2>2, <2>3 DEF RefreshFind, SlotsOf, TypeOK, rowVars, pictureVars, Drawn
<1>8. ASSUME NEW a \in {None, External}, GoogleSave(r, a) PROVE SlotsOf({r}) /\ TypeOK'
  <2>1. SlotsOf({r})
    BY <1>8, <1>0, Slots DEF GoogleSave, Finish, SlotsOf
  <2>2. profile' \in [Picture -> Address]
    BY <1>8 DEF GoogleSave, TypeOK, NoPictures, Address
  <2>3. QED
    BY <1>8, <2>1, <2>2 DEF GoogleSave, SlotsOf, TypeOK, tokenVars, pictureVars, Drawn
<1>9. ASSUME NEW t \in Token, Issue(r, t) PROVE SlotsOf({r}) /\ TypeOK'
  <2>0. request[r].parent \in Drawn \cup {None}
    BY <1>9 DEF Issue, TokensAreOwn
  <2>1. [op |-> "answer", device |-> request[r].device,
         parent |-> request[r].parent, token |-> t] \in Step \cup {None}
    BY <1>9, Shapes DEF Issue, Step
  <2>2. SlotsOf({r})
    BY <1>9, <2>1, Slots DEF Issue, SlotsOf
  <2>3. Drawn' = Drawn \cup {t} /\ parent' \in [Drawn' -> Drawn' \cup {None}]
    BY <1>9, <2>0 DEF Issue, Drawn, TypeOK
  <2>4. QED
    BY <1>9, <2>2, <2>3 DEF Issue, SlotsOf, TypeOK, rowVars, pictureVars
<1>10. QED
  BY <1>1, <1>2, <1>3, <1>4, <1>5, <1>6, <1>7, <1>8, <1>9

(* What a step of an update does to its slot.                              *)
LEMMA UpdateSteps ==
  ASSUME TypeOK, NEW r \in Request
  PROVE  /\ DeleteOld(r) \/ DeleteRefused(r) =>
              /\ SlotsOf({r}) /\ TypeOK'
              /\ request[r] \in Update
              /\ request'[r] = [request[r] EXCEPT !.cleared = TRUE]
         /\ Write(r) => /\ SlotsOf({r}) /\ TypeOK'
                        /\ request[r] \in Update
                        /\ request'[r] = None
         /\ \A k \in Key : Upload(r, k) =>
              LET p == Current(request[r].todo)
              IN /\ SlotsOf({r}) /\ TypeOK'
                 /\ request[r] \in Update /\ request'[r] \in Update
                 /\ request'[r] = [request[r] EXCEPT !.address[p] = k,
                                     !.todo = @ \ {p}, !.cleared = FALSE]
<1>1. ASSUME DeleteOld(r) \/ DeleteRefused(r)
      PROVE  /\ SlotsOf({r}) /\ TypeOK'
             /\ request[r] \in Update
             /\ request'[r] = [request[r] EXCEPT !.cleared = TRUE]
  <2>1. request[r] \in Update
    BY <1>1, Shapes DEF DeleteOld, DeleteRefused
  <2>2. [request[r] EXCEPT !.cleared = TRUE] \in Update
    BY <2>1 DEF Update
  <2>3. Proceed(r, [request[r] EXCEPT !.cleared = TRUE])
    BY <1>1 DEF DeleteOld, DeleteRefused, Proceed
  <2>4. SlotsOf({r}) /\ request'[r] = [request[r] EXCEPT !.cleared = TRUE]
    BY <2>2, <2>3, UpdateShape, Slots DEF SlotsOf
  <2>5. request[r].todo \in SUBSET Picture /\ request[r].todo # {}
    BY <1>1, <2>1, UpdateShape DEF DeleteOld, DeleteRefused
  <2>6. Current(request[r].todo) \in Picture
    BY <2>5, Chosen
  <2>7. storage' \in [Picture -> SUBSET Key] /\ leaked' \subseteq Picture
    BY <1>1, <2>6 DEF DeleteOld, DeleteRefused, TypeOK, rowVars, pictureVars
  <2>8. TypeOK'
    BY <1>1, <2>4, <2>7
       DEF DeleteOld, DeleteRefused, SlotsOf, TypeOK, rowVars, tokenVars, pictureVars, Drawn
  <2>9. QED
    BY <2>1, <2>4, <2>8
<1>2. ASSUME Write(r)
      PROVE  /\ SlotsOf({r}) /\ TypeOK'
             /\ request[r] \in Update
             /\ request'[r] = None
  <2>1. request[r] \in Update
    BY <1>2, Shapes DEF Write
  <2>2. SlotsOf({r}) /\ request'[r] = None
    BY <1>2, Slots DEF Write, Finish, SlotsOf
  <2>3. profile' \in [Picture -> Address]
    BY <1>2, <2>1, UpdateShape DEF Write
  <2>4. QED
    BY <1>2, <2>1, <2>2, <2>3 DEF Write, SlotsOf, TypeOK, tokenVars, Drawn
<1>3. ASSUME NEW k \in Key, Upload(r, k)
      PROVE  LET p == Current(request[r].todo)
             IN /\ SlotsOf({r}) /\ TypeOK'
                /\ request[r] \in Update /\ request'[r] \in Update
                /\ request'[r] = [request[r] EXCEPT !.address[p] = k,
                                    !.todo = @ \ {p}, !.cleared = FALSE]
  <2> DEFINE p == Current(request[r].todo)
             u == [request[r] EXCEPT !.address[p] = k, !.todo = @ \ {p}, !.cleared = FALSE]
  <2>1. request[r] \in Update
    BY <1>3, Shapes DEF Upload
  <2>2. request[r].todo \in SUBSET Picture /\ request[r].todo # {}
    BY <1>3, <2>1, UpdateShape DEF Upload
  <2>3. p \in Picture
    BY <2>2, Chosen
  <2>4. u \in Update
    BY <2>1, <2>3 DEF Update, Address
  <2>5. Proceed(r, u)
    BY <1>3 DEF Upload, Proceed
  <2>6. SlotsOf({r}) /\ request'[r] = u
    BY <2>4, <2>5, UpdateShape, Slots DEF SlotsOf
  <2>7. storage' \in [Picture -> SUBSET Key]
    BY <1>3, <2>3 DEF Upload, TypeOK
  <2>8. TypeOK'
    BY <1>3, <2>6, <2>7 DEF Upload, SlotsOf, TypeOK, tokenVars, pictureVars, Drawn
  <2>9. QED
    BY <2>1, <2>4, <2>6, <2>8
<1>4. QED
  BY <1>1, <1>2, <1>3

(* The beginning of an update: the other updates are told what clashes.    *)
LEMMA FindStep ==
  ASSUME TypeOK, NEW r \in Request, NEW send \in SUBSET Picture, ProfileFind(r, send)
  PROVE  LET all == UNION {send \cup request[q].send :
                             q \in {q \in Request : Op(q) = "profile"}}
         IN /\ request' \in [Request -> Step \cup {None}] /\ TypeOK'
            /\ request[r] = None
            /\ request'[r] = [op |-> "profile", address |-> profile, send |-> send,
                              todo |-> send, cleared |-> FALSE, clashed |-> all]
            /\ torn' = torn \cup all /\ leaked' = leaked \cup all
            /\ \A q \in Request \ {r} :
                 IF Op(q) = "profile"
                 THEN /\ request[q] \in Update
                      /\ request'[q] = [request[q] EXCEPT !.clashed = @ \cup send \cup request[q].send]
                      /\ send \cup request[q].send \subseteq all
                 ELSE request'[q] = request[q]
<1> DEFINE all == UNION {send \cup request[q].send :
                           q \in {q \in Request : Op(q) = "profile"}}
           mine == [op |-> "profile", address |-> profile, send |-> send,
                    todo |-> send, cleared |-> FALSE, clashed |-> all]
           other(q) == [request[q] EXCEPT !.clashed = @ \cup send \cup request[q].send]
<1>1. \A q \in Request : Op(q) = "profile" =>
        request[q] \in Update /\ send \cup request[q].send \subseteq all /\ other(q) \in Update
  BY Shapes DEF Update
<1>2. all \subseteq Picture
  BY <1>1, UpdateShape
<1>3. mine \in Update
  BY <1>2 DEF Update, TypeOK
<1>4. request' = [q \in Request |-> IF q = r THEN mine
                                     ELSE IF Op(q) = "profile" THEN other(q)
                                     ELSE request[q]]
  BY DEF ProfileFind
<1>5. request' \in [Request -> Step \cup {None}]
  BY <1>1, <1>3, <1>4, UpdateShape DEF TypeOK
<1>6. torn' = torn \cup all /\ leaked' = leaked \cup all
  BY DEF ProfileFind
<1>7. TypeOK'
  BY <1>2, <1>5, <1>6 DEF ProfileFind, TypeOK, rowVars, tokenVars, Drawn
<1>8. QED
  BY <1>1, <1>4, <1>5, <1>6, <1>7 DEF ProfileFind, Idle

LEMMA FailStep ==
  ASSUME TypeOK, NEW r \in Request, Fail(r)
  PROVE  SlotsOf({r}) /\ TypeOK' /\ request'[r] = None
<1>1. SlotsOf({r}) /\ request'[r] = None
  BY Slots DEF Fail, Finish, SlotsOf
<1>2. cut' \subseteq Token
  BY Shapes DEF Fail, TypeOK
<1>3. torn' \subseteq Picture /\ leaked' \subseteq Picture
  <2>1. CASE Op(r) = "profile"
    <3>1. request[r] \in Update
      BY <2>1, Shapes
    <3>2. Current(request[r].todo) \in Picture
      BY DEF Current, Picture
    <3>3. QED
      BY <2>1, <3>1, <3>2, UpdateShape DEF Fail, TypeOK
  <2>2. CASE Op(r) # "profile"
    BY <2>2 DEF Fail, TypeOK, pictureVars
  <2>3. QED
    BY <2>1, <2>2
<1>4. QED
  BY <1>1, <1>2, <1>3 DEF Fail, SlotsOf, TypeOK, rowVars, Drawn

-----------------------------------------------------------------------------
(* The tokens.                                                             *)

(* A step about something else: only slots without tokens change.          *)
TokenFrame ==
  /\ UNCHANGED <<sessions, held, parent, forked, cut>>
  /\ account' = account \/ account = "absent"
  /\ \A q \in Request : \/ request'[q] = request[q]
                        \/ Op(q) \notin TokenOps /\ Op(q)' \notin TokenOps

LEMMA TokensFramed ==
  ASSUME TokenInv, TokenFrame
  PROVE  TokenInv'
<1>1. \A q \in Request :
        \/ request'[q] = request[q] /\ Op(q)' = Op(q)
        \/ Op(q) \notin TokenOps /\ Op(q)' \notin TokenOps
  BY DEF TokenFrame, Op, Idle
<1>2. /\ Drawn' = Drawn /\ parent' = parent /\ sessions' = sessions
      /\ held' = held /\ forked' = forked /\ cut' = cut
  BY DEF TokenFrame, Drawn
<1>3. \A t : \A q \in Request : Exchanging(q, t)' <=> Exchanging(q, t)
  BY <1>1 DEF Exchanging, TokenOps
<1>4. \A t : HasHeir(t)' <=> HasHeir(t)
  BY <1>2 DEF HasHeir
<1>5. \A t : InExchange(t)' <=> InExchange(t)
  BY <1>1 DEF InExchange, TokenOps
<1>6. TokensNeedPassword'
  BY <1>1, <1>2 DEF TokenInv, TokensNeedPassword, TokenFrame, TokenOps
<1>7. ExchangedOnce'
  BY <1>1, <1>2, <1>3, <1>4 DEF TokenInv, ExchangedOnce, TokenOps
<1>8. OneHeir' /\ SessionsLast'
  BY <1>2, <1>5 DEF TokenInv, OneHeir, SessionsLast
<1>9. TokensAreOwn'
  BY <1>1, <1>2, <1>3 DEF TokenInv, TokensAreOwn, TokenOps
<1>10. QED
  BY <1>6, <1>7, <1>8, <1>9 DEF TokenInv

(* A registration or a login is about to get a token that has no parent.   *)
LEMMA LoginTokens ==
  ASSUME TypeOK, TokenInv, NEW r \in Request, NEW d \in Device,
         Op(r) \notin TokenOps, account' = "password",
         account = "absent" \/ account = "password",
         UNCHANGED tokenVars, SlotsOf({r}),
         request'[r] = [op |-> "issue", device |-> d, parent |-> None]
  PROVE  TokenInv'
<1>1. /\ \A q \in Request \ {r} : request'[q] = request[q] /\ Op(q)' = Op(q)
      /\ Op(r)' = "issue" /\ request'[r].parent = None
  <2>1. request'[r] # None
    BY NoneIsNoStep DEF Step
  <2>2. QED
    BY <2>1 DEF SlotsOf, Op, Idle
<1>2. /\ Drawn' = Drawn /\ parent' = parent /\ sessions' = sessions
      /\ held' = held /\ forked' = forked /\ cut' = cut
  BY DEF tokenVars, Drawn
<1>3. None \notin Drawn
  BY AccountsAssumption DEF TypeOK
<1>4. \A q \in Request, t \in Drawn : Exchanging(q, t)' <=> Exchanging(q, t)
  BY <1>1, <1>3 DEF Exchanging, TokenOps
<1>5. \A t : HasHeir(t)' <=> HasHeir(t)
  BY <1>2 DEF HasHeir
<1>6. \A t \in Drawn : InExchange(t)' <=> InExchange(t)
  BY <1>1, <1>3 DEF InExchange, TokenOps
<1>7. TokensNeedPassword'
  BY DEF TokensNeedPassword
<1>8. ExchangedOnce'
  BY <1>1, <1>2, <1>3, <1>4, <1>5 DEF TokenInv, ExchangedOnce
<1>9. OneHeir' /\ SessionsLast'
  BY <1>2, <1>6 DEF TokenInv, OneHeir, SessionsLast, TypeOK
<1>10. TokensAreOwn'
  BY <1>1, <1>2, <1>4 DEF TokenInv, TokensAreOwn, TokenOps, TypeOK
<1>11. QED
  BY <1>7, <1>8, <1>9, <1>10 DEF TokenInv

LEMMA RefreshFindTokens ==
  ASSUME TypeOK, TokenInv, NEW r \in Request, NEW d \in Device, RefreshFind(r, d)
  PROVE  TokenInv'
<1> DEFINE t == held[d]
<1>0. TokensAreOwn /\ SlotsOf({r})
  BY TokenSteps DEF TokenInv
<1>1. /\ \A q \in Request \ {r} : request'[q] = request[q] /\ Op(q)' = Op(q)
      /\ Op(r) = "idle" /\ Op(r)' = "refresh"
      /\ request'[r].token = t /\ request'[r].device = d
  <2>1. request'[r] = [op |-> "refresh", device |-> d, token |-> t]
    BY DEF RefreshFind, Proceed, TypeOK
  <2>2. request'[r] # None
    BY <2>1, NoneIsNoStep DEF Step, RefreshFind, TypeOK
  <2>3. QED
    BY <1>0, <2>1, <2>2 DEF SlotsOf, Op, Idle, RefreshFind
<1>2. /\ Drawn' = Drawn /\ parent' = parent /\ sessions' = sessions
      /\ held' = held /\ cut' = cut /\ account' = account /\ forked \subseteq forked'
      /\ t \in sessions /\ t \in Drawn /\ t # None
  BY AccountsAssumption DEF RefreshFind, rowVars, Drawn, TypeOK
<1>3. ASSUME NEW q \in Request, Op(q) = "refresh", request[q].token = t
      PROVE  t \in forked'
  BY <1>3 DEF RefreshFind
<1>4. \A u : \A q \in Request \ {r} : Exchanging(q, u)' <=> Exchanging(q, u)
  BY <1>1 DEF Exchanging
<1>5. \A u : Exchanging(r, u)' <=> u = t
  BY <1>1 DEF Exchanging
<1>6. \A u : HasHeir(u)' <=> HasHeir(u)
  BY <1>2 DEF HasHeir
<1>7. \A u : InExchange(u)' <=> InExchange(u)
  BY <1>1 DEF InExchange
<1>8. TokensNeedPassword'
  BY <1>1, <1>2 DEF TokenInv, TokensNeedPassword
<1>9. ExchangedOnce'
  <2>1. t \notin forked => ~HasHeir(t)
    BY <1>2 DEF TokenInv, ExchangedOnce
  <2>2. \A q \in Request \ {r} : Exchanging(q, t) => t \in forked'
    BY <1>2, <1>3 DEF TokenInv, ExchangedOnce, Exchanging
  <2>3. QED
    BY <1>1, <1>2, <1>4, <1>5, <1>6, <2>1, <2>2 DEF TokenInv, ExchangedOnce
<1>10. OneHeir' /\ SessionsLast'
  BY <1>2, <1>7 DEF TokenInv, OneHeir, SessionsLast
<1>11. TokensAreOwn'
  <2>1. \A q \in Request : Op(q) = "answer" => request[q].token # t
    BY DEF TokenInv, TokensAreOwn
  <2>2. \A e \in Device : held[e] = t => e = d
    BY <1>2 DEF TokenInv, TokensAreOwn
  <2>3. QED
    BY <1>1, <1>2, <1>4, <1>5, <2>1, <2>2 DEF TokenInv, TokensAreOwn
<1>12. QED
  BY <1>8, <1>9, <1>10, <1>11 DEF TokenInv

LEMMA RefreshDeleteTokens ==
  ASSUME TypeOK, TokenInv, NEW r \in Request, RefreshDelete(r)
  PROVE  TokenInv'
<1> DEFINE t == request[r].token
<1>0. TokensAreOwn /\ SlotsOf({r})
  BY TokenSteps DEF TokenInv
<1>1. /\ \A q \in Request \ {r} : request'[q] = request[q] /\ Op(q)' = Op(q)
      /\ Op(r) = "refresh" /\ Op(r)' = "issue"
      /\ request'[r].parent = t /\ request'[r].device = request[r].device
  <2>1. request'[r] = [op |-> "issue", device |-> request[r].device, parent |-> t]
    BY DEF RefreshDelete, Proceed, TypeOK
  <2>2. request'[r] # None
    BY <2>1, NoneIsNoStep, Shapes DEF Step, RefreshDelete
  <2>3. QED
    BY <1>0, <2>1, <2>2 DEF SlotsOf, Op, Idle, RefreshDelete
<1>2. /\ Drawn' = Drawn /\ parent' = parent /\ sessions' = sessions \ {t}
      /\ held' = held /\ cut' = cut /\ account' = account /\ forked' = forked
      /\ t \in Drawn /\ t # None
  BY <1>0, <1>1, AccountsAssumption DEF RefreshDelete, rowVars, Drawn, TypeOK, TokensAreOwn
<1>3. \A u : \A q \in Request : Exchanging(q, u)' <=> Exchanging(q, u)
  BY <1>1 DEF Exchanging
<1>4. \A u : HasHeir(u)' <=> HasHeir(u)
  BY <1>2 DEF HasHeir
<1>5. \A u : InExchange(u)' <=> InExchange(u) \/ u = t
  BY <1>1 DEF InExchange
<1>6. TokensNeedPassword'
  BY <1>1, <1>2 DEF TokenInv, TokensNeedPassword
<1>7. ExchangedOnce'
  <2>1. t \notin forked => \A q \in Request \ {r} : ~Exchanging(q, t)
    BY <1>1, <1>2 DEF TokenInv, ExchangedOnce, Exchanging
  <2>2. \A q \in Request : Op(q)' = "refresh" =>
          q # r /\ Op(q) = "refresh" /\ request'[q].token = request[q].token
    BY <1>1
  <2>3. \A q \in Request, u \in Drawn \ forked :
          Op(q)' = "refresh" /\ request'[q].token = u => u \in sessions /\ u # t
    BY <2>1, <2>2 DEF TokenInv, ExchangedOnce, Exchanging
  <2>4. QED
    BY <1>1, <1>2, <1>3, <1>4, <2>3 DEF TokenInv, ExchangedOnce
<1>8. OneHeir' /\ SessionsLast'
  BY <1>2, <1>5 DEF TokenInv, OneHeir, SessionsLast
<1>9. TokensAreOwn'
  <2>1. \A q \in Request : Op(q) = "answer" => request[q].token # t
    BY <1>1 DEF TokenInv, TokensAreOwn, Exchanging
  <2>2. QED
    BY <1>1, <1>2, <1>3, <2>1 DEF TokenInv, TokensAreOwn
<1>10. QED
  BY <1>6, <1>7, <1>8, <1>9 DEF TokenInv

(* A fresh token: nobody knows it, and it has no heir.                     *)
LEMMA IssueTokens ==
  ASSUME TypeOK, TokenInv, NEW r \in Request, NEW u \in Token, Issue(r, u)
  PROVE  TokenInv'
<1> DEFINE t == request[r].parent
<1>0. TokensAreOwn /\ SlotsOf({r}) /\ t \in Drawn \cup {None}
  BY TokenSteps DEF TokenInv, TokensAreOwn, Issue
<1>1. /\ \A q \in Request \ {r} : request'[q] = request[q] /\ Op(q)' = Op(q)
      /\ Op(r) = "issue" /\ Op(r)' = "answer"
      /\ request'[r].parent = t /\ request'[r].device = request[r].device
      /\ request'[r].token = u
  <2>1. request'[r] = [op |-> "answer", device |-> request[r].device, parent |-> t, token |-> u]
    BY DEF Issue, Proceed, TypeOK
  <2>2. request'[r] # None
    BY <2>1, NoneIsNoStep, Shapes DEF Step, Issue
  <2>3. QED
    BY <1>0, <2>1, <2>2 DEF SlotsOf, Op, Idle, Issue
<1>2. /\ Drawn' = Drawn \cup {u} /\ u \notin Drawn /\ None \notin Drawn /\ u # None
      /\ parent'[u] = t /\ \A v \in Drawn : parent'[v] = parent[v]
      /\ \A v \in Drawn : parent[v] \in Drawn \cup {None}
      /\ sessions' = sessions \cup {u} /\ held' = held /\ cut' = cut
      /\ account' = account /\ forked' = forked
  BY AccountsAssumption DEF Issue, rowVars, Drawn, TypeOK
<1>3. \A v : \A q \in Request \ {r} : Exchanging(q, v)' <=> Exchanging(q, v)
  BY <1>1 DEF Exchanging
<1>4. \A v : ~Exchanging(r, v)' /\ (Exchanging(r, v) <=> v = t)
  BY <1>1 DEF Exchanging
<1>5. \A v : HasHeir(v)' <=> HasHeir(v) \/ v = t
  BY <1>2 DEF HasHeir
<1>6. \A v : InExchange(v)' <=> InExchange(v)
  BY <1>1 DEF InExchange
<1>7. /\ ~HasHeir(u) /\ t # u
      /\ \A q \in Request : Op(q) \in {"issue", "answer"} => request[q].parent # u
      /\ \A q \in Request : ~Exchanging(q, u)
      /\ \A q \in Request : Op(q) = "answer" => request[q].token # u
      /\ \A d \in Device : held[d] # u
  BY <1>0, <1>2 DEF HasHeir, TokensAreOwn, Exchanging, TypeOK
<1>8. TokensNeedPassword'
  BY <1>1, <1>2 DEF TokenInv, TokensNeedPassword
<1>9. ExchangedOnce'
  <2>1. SUFFICES ASSUME NEW v \in Drawn', v \notin forked, NEW q \in Request
                 PROVE  /\ Exchanging(q, v)' =>
                             /\ ~HasHeir(v)'
                             /\ \A s \in Request \ {q} : ~Exchanging(s, v)'
                        /\ HasHeir(v)' \/ (Op(q)' = "issue" /\ request'[q].parent = v)
                             => v \notin sessions'
                        /\ Op(q)' = "refresh" /\ request'[q].token = v => v \in sessions'
    BY <1>2 DEF ExchangedOnce
  <2>2. CASE v = u
    BY <1>1, <1>2, <1>3, <1>4, <1>5, <1>7, <2>2
  <2>3. CASE v # u
    <3>1. v \in Drawn
      BY <1>2, <2>3
    <3>2. /\ Exchanging(q, v) => ~HasHeir(v) /\ \A s \in Request \ {q} : ~Exchanging(s, v)
          /\ HasHeir(v) \/ (Op(q) = "issue" /\ request[q].parent = v) => v \notin sessions
          /\ HasHeir(v) \/ (Op(r) = "issue" /\ request[r].parent = v) => v \notin sessions
          /\ Op(q) = "refresh" /\ request[q].token = v => v \in sessions
      BY <2>1, <3>1 DEF TokenInv, ExchangedOnce
    <3>3. QED
      BY <1>1, <1>2, <1>3, <1>4, <1>5, <2>3, <3>2
  <2>4. QED
    BY <2>2, <2>3
<1>10. OneHeir'
  <2>1. ASSUME NEW v \in Drawn, parent[v] = t, t # None PROVE t \in forked
    BY <1>0, <1>4, <2>1 DEF TokenInv, ExchangedOnce, HasHeir
  <2>2. QED
    BY <1>2, <2>1 DEF TokenInv, OneHeir
<1>11. SessionsLast'
  BY <1>2, <1>6 DEF TokenInv, SessionsLast
<1>12. TokensAreOwn'
  BY <1>0, <1>1, <1>2, <1>3, <1>4, <1>7 DEF TokensAreOwn
<1>13. QED
  BY <1>8, <1>9, <1>10, <1>11, <1>12 DEF TokenInv

LEMMA AnswerTokens ==
  ASSUME TypeOK, TokenInv, NEW r \in Request, Answer(r)
  PROVE  TokenInv'
<1> DEFINE u == request[r].token
           d == request[r].device
<1>0. TokensAreOwn /\ SlotsOf({r}) /\ d \in Device /\ u \in Drawn
  BY TokenSteps, Shapes DEF TokenInv, TokensAreOwn, Answer, TypeOK
<1>1. /\ \A q \in Request \ {r} : request'[q] = request[q] /\ Op(q)' = Op(q)
      /\ Op(r) = "answer" /\ Op(r)' = "idle"
  BY <1>0 DEF SlotsOf, Op, Idle, Answer, Finish, Proceed, TypeOK
<1>2. /\ Drawn' = Drawn /\ parent' = parent /\ sessions' = sessions /\ cut' = cut
      /\ account' = account /\ forked' = forked
      /\ held'[d] = u /\ \A e \in Device \ {d} : held'[e] = held[e]
  BY <1>0 DEF Answer, rowVars, Drawn, TypeOK
<1>3. \A v : \A q \in Request : Exchanging(q, v)' <=> Exchanging(q, v)
  BY <1>1 DEF Exchanging
<1>4. \A v : HasHeir(v)' <=> HasHeir(v)
  BY <1>2 DEF HasHeir
<1>5. \A v : InExchange(v) => InExchange(v)' \/ v = request[r].parent
  BY <1>1 DEF InExchange
<1>6. TokensNeedPassword'
  BY <1>1, <1>2 DEF TokenInv, TokensNeedPassword
<1>7. ExchangedOnce' /\ OneHeir'
  BY <1>1, <1>2, <1>3, <1>4 DEF TokenInv, ExchangedOnce, OneHeir
<1>8. SessionsLast'
  <2>1. u \in sessions
    BY <1>0, <1>1 DEF TokensAreOwn
  <2>2. \A e \in Device \ {d} : held[e] # None => held[e] # request[r].parent
    BY <1>0, <1>1 DEF TokensAreOwn
  <2>3. QED
    BY <1>2, <1>5, <2>1, <2>2 DEF TokenInv, SessionsLast
<1>9. TokensAreOwn'
  <2>1. \A e \in Device : held[e] # u
    BY <1>0, <1>1 DEF TokensAreOwn
  <2>2. \A q \in Request \ {r} :
          /\ Op(q) = "refresh" => request[q].token # u
          /\ Op(q) \in {"issue", "answer"} => request[q].parent # u
          /\ Op(q) = "answer" => request[q].token # u
    BY <1>0, <1>1 DEF TokensAreOwn, Exchanging
  <2>3. QED
    BY <1>0, <1>1, <1>2, <1>3, <2>1, <2>2 DEF TokensAreOwn
<1>10. QED
  BY <1>6, <1>7, <1>8, <1>9 DEF TokenInv

(* A request that holds tokens ends half-way.                              *)
LEMMA FailTokens ==
  ASSUME TypeOK, TokenInv, NEW r \in Request, Fail(r)
  PROVE  TokenInv'
<1>0. TokensAreOwn /\ SlotsOf({r})
  BY FailStep DEF TokenInv
<1>1. /\ \A q \in Request \ {r} : request'[q] = request[q] /\ Op(q)' = Op(q)
      /\ Op(r)' = "idle"
  BY <1>0, FailStep DEF SlotsOf, Op, Idle
<1>2. /\ Drawn' = Drawn /\ parent' = parent /\ sessions' = sessions
      /\ account' = account /\ forked' = forked /\ held' = held /\ cut \subseteq cut'
  BY DEF Fail, rowVars, Drawn
<1>3. /\ \A v : \A q \in Request \ {r} : Exchanging(q, v)' <=> Exchanging(q, v)
      /\ \A v : ~Exchanging(r, v)'
  BY <1>1 DEF Exchanging
<1>4. \A v : HasHeir(v)' <=> HasHeir(v)
  BY <1>2 DEF HasHeir
<1>5. \A v : InExchange(v) /\ v # None => InExchange(v)' \/ v \in cut'
  <2>1. Op(r) \in {"issue", "answer"} /\ request[r].parent # None => request[r].parent \in cut'
    BY DEF Fail
  <2>2. QED
    BY <1>1, <2>1 DEF InExchange
<1>6. TokensNeedPassword'
  BY <1>1, <1>2 DEF TokenInv, TokensNeedPassword
<1>7. ExchangedOnce'
  BY <1>1, <1>2, <1>3, <1>4 DEF TokenInv, ExchangedOnce
<1>8. OneHeir' /\ SessionsLast'
  BY <1>2, <1>5 DEF TokenInv, OneHeir, SessionsLast
<1>9. TokensAreOwn'
  BY <1>0, <1>1, <1>2, <1>3 DEF TokensAreOwn
<1>10. QED
  BY <1>6, <1>7, <1>8, <1>9 DEF TokenInv

-----------------------------------------------------------------------------
(* The pictures.                                                           *)

(* A step about something else: only slots without updates change.         *)
PictureFrame ==
  /\ UNCHANGED <<profile, storage, torn, leaked>>
  /\ account' = "absent" => account = "absent"
  /\ \A q \in Request : \/ request'[q] = request[q]
                        \/ Op(q) # "profile" /\ Op(q)' # "profile"

LEMMA PicturesFramed ==
  ASSUME PictureInv, PictureFrame
  PROVE  PictureInv'
<1>1. \A q \in Request :
        \/ request'[q] = request[q] /\ Op(q)' = Op(q)
        \/ Op(q) # "profile" /\ Op(q)' # "profile"
  BY DEF PictureFrame, Op, Idle
<1>2. profile' = profile /\ storage' = storage /\ torn' = torn /\ leaked' = leaked
  BY DEF PictureFrame
<1>3. \A p : \A q \in Request : Replaced(q, p)' <=> Replaced(q, p)
  BY <1>1 DEF Replaced
<1>4. \A p, k : Named(p, k)' <=> Named(p, k)
  BY <1>1, <1>2 DEF Named
<1>5. RowComesFirst'
  BY <1>1, <1>2 DEF PictureInv, RowComesFirst, PictureFrame
<1>6. OverlapsAreKnown'
  BY <1>1, <1>2 DEF PictureInv, OverlapsAreKnown
<1>7. AddressesAreCurrent'
  BY <1>1, <1>2 DEF PictureInv, AddressesAreCurrent
<1>8. OldFilesAreGone' /\ PicturesExist' /\ NothingLeftBehind'
  BY <1>2, <1>3, <1>4 DEF PictureInv, OldFilesAreGone, PicturesExist, NothingLeftBehind
<1>9. QED
  BY <1>5, <1>6, <1>7, <1>8 DEF PictureInv

(* The row is made, with addresses that are not in the bucket.             *)
LEMMA RowMade ==
  ASSUME PictureInv, account = "absent", account' # "absent",
         UNCHANGED <<storage, torn, leaked>>,
         \A p \in Picture : profile'[p] \in {None, External},
         \A q \in Request : Op(q)' # "profile"
  PROVE  PictureInv'
<1>1. \A p \in Picture : storage'[p] = {}
  BY DEF PictureInv, RowComesFirst
<1>2. QED
  BY <1>1
     DEF PictureInv, RowComesFirst, OverlapsAreKnown, AddressesAreCurrent,
         OldFilesAreGone, PicturesExist, NothingLeftBehind, Replaced

LEMMA FindPictures ==
  ASSUME TypeOK, PictureInv, NEW r \in Request, NEW send \in SUBSET Picture,
         ProfileFind(r, send)
  PROVE  PictureInv'
<1> DEFINE all == UNION {send \cup request[q].send :
                           q \in {q \in Request : Op(q) = "profile"}}
           mine == [op |-> "profile", address |-> profile, send |-> send,
                    todo |-> send, cleared |-> FALSE, clashed |-> all]
<1>1. /\ request' \in [Request -> Step \cup {None}]
      /\ request'[r] = mine
      /\ torn' = torn \cup all /\ leaked' = leaked \cup all
      /\ \A q \in Request \ {r} :
           IF Op(q) = "profile"
           THEN /\ request[q] \in Update
                /\ request'[q] = [request[q] EXCEPT !.clashed = @ \cup send \cup request[q].send]
                /\ send \cup request[q].send \subseteq all
           ELSE request'[q] = request[q]
  BY FindStep
<1>2. profile' = profile /\ storage' = storage /\ account # "absent" /\ account' = account
      /\ Op(r) = "idle"
  BY DEF ProfileFind, rowVars, Op
<1>3. mine # None
  <2>1. all \subseteq Picture
    BY Shapes, UpdateShape
  <2>2. mine \in Update
    BY <2>1 DEF Update, TypeOK
  <2>3. QED
    BY <2>2, NoneIsNoStep DEF Step
<1>4. \A q \in Request \ {r} :
        /\ Op(q)' = Op(q)
        /\ Op(q) = "profile" =>
             /\ request'[q].address = request[q].address
             /\ request'[q].send = request[q].send
             /\ request'[q].todo = request[q].todo
             /\ request'[q].cleared = request[q].cleared
             /\ request'[q].clashed = request[q].clashed \cup send \cup request[q].send
  <2>1. TAKE q \in Request \ {r}
  <2>2. CASE Op(q) = "profile"
    <3>1. /\ request'[q].op = "profile"
          /\ request'[q].address = request[q].address
          /\ request'[q].send = request[q].send
          /\ request'[q].todo = request[q].todo
          /\ request'[q].cleared = request[q].cleared
          /\ request'[q].clashed = request[q].clashed \cup send \cup request[q].send
          /\ request'[q] \in Update
      <4>1. request[q] \in Update
        BY <1>1, <2>2
      <4>2. request'[q] = [request[q] EXCEPT !.clashed = @ \cup send \cup request[q].send]
        BY <1>1, <2>2
      <4>3. QED
        BY <4>1, <4>2 DEF Update
    <3>2. request'[q] # None
      BY <3>1, NoneIsNoStep DEF Step
    <3>3. QED
      BY <2>2, <3>1, <3>2 DEF Op, Idle
  <2>3. CASE Op(q) # "profile"
    BY <1>1, <2>3 DEF Op, Idle
  <2>4. QED
    BY <2>2, <2>3
<1>5. /\ Op(r)' = "profile" /\ request'[r].address = profile
      /\ request'[r].send = send /\ request'[r].todo = send
      /\ request'[r].cleared = FALSE /\ request'[r].clashed = all
  BY <1>1, <1>3 DEF Op, Idle
<1>6. \A p : \A q \in Request : Replaced(q, p)' <=> Replaced(q, p)
  BY <1>2, <1>4, <1>5 DEF Replaced
<1>7. \A k : \A p \in Picture : Named(p, k)' <=> Named(p, k)
  BY <1>2, <1>4, <1>5 DEF Named
<1>8. RowComesFirst'
  BY <1>2 DEF RowComesFirst
<1>9. OverlapsAreKnown'
  <2>1. \A q \in Request \ {r} : Op(q) = "profile" =>
          /\ send \cup request[q].send \subseteq all
          /\ request[q].clashed \subseteq torn \cap leaked
    BY <1>1 DEF PictureInv, OverlapsAreKnown
  <2>2. QED
    BY <1>1, <1>4, <1>5, <2>1 DEF PictureInv, OverlapsAreKnown
<1>10. AddressesAreCurrent'
  <2>1. \A q \in Request \ {r}, p \in Picture :
          Op(q) = "profile" /\ p \in request[q].send \ request[q].todo =>
            request[q].address[p] # profile[p]
    BY DEF PictureInv, AddressesAreCurrent
  <2>2. QED
    BY <1>1, <1>2, <1>4, <1>5, <2>1 DEF PictureInv, AddressesAreCurrent
<1>11. OldFilesAreGone' /\ PicturesExist' /\ NothingLeftBehind'
  BY <1>1, <1>2, <1>6, <1>7
     DEF PictureInv, OldFilesAreGone, PicturesExist, NothingLeftBehind
<1>12. QED
  BY <1>8, <1>9, <1>10, <1>11 DEF PictureInv

(* The old file is deleted, or the bucket has refused to.                  *)
LEMMA DeletePictures ==
  ASSUME TypeOK, PictureInv, NEW r \in Request, DeleteOld(r) \/ DeleteRefused(r)
  PROVE  PictureInv'
<1> DEFINE c == Current(request[r].todo)
           k0 == request[r].address[c]
<1>1. /\ request[r] \in Update
      /\ SlotsOf({r})
      /\ request'[r] = [request[r] EXCEPT !.cleared = TRUE]
  BY UpdateSteps
<1>2. /\ Op(r) = "profile" /\ request[r].todo # {} /\ c \in request[r].todo /\ c \in Picture
      /\ ~request[r].cleared
  <2>1. Op(r) = "profile" /\ request[r].todo # {} /\ ~request[r].cleared
    BY DEF DeleteOld, DeleteRefused
  <2>2. request[r].todo \in SUBSET Picture
    BY <1>1, UpdateShape
  <2>3. QED
    BY <2>1, <2>2, Chosen
<1>3. /\ profile' = profile /\ account' = account /\ torn' = torn
      /\ leaked \subseteq leaked' /\ leaked' \subseteq leaked \cup {c}
      /\ \A p \in Picture : /\ storage'[p] \subseteq storage[p]
                            /\ storage[p] \ storage'[p] \subseteq {k0}
                            /\ p # c => storage'[p] = storage[p]
      /\ c \notin leaked' => k0 \notin storage'[c]
  BY <1>2 DEF DeleteOld, DeleteRefused, rowVars, pictureVars, TypeOK
<1>4. /\ \A q \in Request \ {r} : request'[q] = request[q] /\ Op(q)' = Op(q)
      /\ Op(r)' = "profile" /\ request'[r].address = request[r].address
      /\ request'[r].send = request[r].send /\ request'[r].todo = request[r].todo
      /\ request'[r].cleared = TRUE /\ request'[r].clashed = request[r].clashed
  <2>1. request'[r] \in Update
    BY <1>1 DEF Update
  <2>2. request'[r] # None
    BY <2>1, NoneIsNoStep, UpdateShape
  <2>3. QED
    BY <1>1, <2>1, <2>2 DEF SlotsOf, Op, Idle, Update
<1>5. /\ \A p : \A q \in Request \ {r} : Replaced(q, p)' <=> Replaced(q, p)
      /\ \A p : Replaced(r, p)' <=> Replaced(r, p) \/ p = c
  BY <1>2, <1>4 DEF Replaced
<1>6. \A k : \A p \in Picture : Named(p, k)' <=> Named(p, k)
  BY <1>2, <1>3, <1>4 DEF Named
<1>7. RowComesFirst'
  BY <1>2, <1>3, <1>4 DEF PictureInv, RowComesFirst
<1>8. OverlapsAreKnown'
  BY <1>2, <1>3, <1>4 DEF PictureInv, OverlapsAreKnown
<1>9. AddressesAreCurrent'
  <2>1. \A q \in Request \ {r} :
          Op(q) = "profile" /\ c \in request[q].send \ request[q].todo =>
            request[q].address[c] # k0
    BY <1>2 DEF PictureInv, AddressesAreCurrent
  <2>2. \A q \in Request, p \in Picture :
          Op(q) = "profile" /\ p \in request[q].send \ request[q].todo
            => request[q].address[p] \in storage'[p]
    BY <1>2, <1>3, <2>1 DEF PictureInv, AddressesAreCurrent
  <2>3. QED
    BY <1>2, <1>3, <1>4, <2>2 DEF PictureInv, AddressesAreCurrent
<1>10. OldFilesAreGone'
  <2>1. c \notin leaked => k0 = profile[c]
    BY <1>2 DEF PictureInv, AddressesAreCurrent
  <2>2. QED
    BY <1>2, <1>3, <1>5, <2>1 DEF PictureInv, OldFilesAreGone
<1>11. PicturesExist'
  BY <1>2, <1>3, <1>5 DEF PictureInv, PicturesExist
<1>12. NothingLeftBehind'
  BY <1>3, <1>6 DEF PictureInv, NothingLeftBehind
<1>13. QED
  BY <1>7, <1>8, <1>9, <1>10, <1>11, <1>12 DEF PictureInv

(* A new file has a name that nobody knows.                                *)
LEMMA UploadPictures ==
  ASSUME TypeOK, PictureInv, NEW r \in Request, NEW k \in Key, Upload(r, k)
  PROVE  PictureInv'
<1> DEFINE c == Current(request[r].todo)
<1>1. /\ request[r] \in Update /\ request'[r] \in Update
      /\ SlotsOf({r})
      /\ request'[r] = [request[r] EXCEPT !.address[c] = k, !.todo = @ \ {c}, !.cleared = FALSE]
  BY UpdateSteps
<1>2. /\ Op(r) = "profile" /\ request[r].todo # {} /\ c \in request[r].todo /\ c \in Picture
      /\ request[r].cleared \/ request[r].address[c] = None
      /\ k \notin storage[c] /\ ~Named(c, k)
  <2>1. Op(r) = "profile" /\ request[r].todo # {}
    BY DEF Upload
  <2>2. request[r].todo \in SUBSET Picture
    BY <1>1, UpdateShape
  <2>3. QED
    BY <2>1, <2>2, Chosen DEF Upload
<1>3. /\ profile' = profile /\ account' = account /\ torn' = torn /\ leaked' = leaked
      /\ storage'[c] = storage[c] \cup {k}
      /\ \A p \in Picture \ {c} : storage'[p] = storage[p]
  BY <1>2 DEF Upload, pictureVars, TypeOK
<1>4. /\ \A q \in Request \ {r} : request'[q] = request[q] /\ Op(q)' = Op(q)
      /\ Op(r)' = "profile"
      /\ request'[r].address[c] = k
      /\ \A p \in Picture \ {c} : request'[r].address[p] = request[r].address[p]
      /\ request'[r].send = request[r].send /\ request'[r].todo = request[r].todo \ {c}
      /\ request'[r].cleared = FALSE /\ request'[r].clashed = request[r].clashed
  <2>1. request'[r] # None
    BY <1>1, NoneIsNoStep, UpdateShape
  <2>2. QED
    BY <1>1, <1>2, <2>1 DEF SlotsOf, Op, Idle, Update
<1>5. c \in request[r].send
  BY <1>2 DEF PictureInv, OverlapsAreKnown
<1>6. /\ \A p : \A q \in Request \ {r} : Replaced(q, p)' <=> Replaced(q, p)
      /\ \A p : Replaced(r, p)' <=> Replaced(r, p) \/ p = c
  BY <1>2, <1>4, <1>5 DEF Replaced
<1>7. profile[c] # k /\ \A q \in Request : Op(q) = "profile" => request[q].address[c] # k
  BY <1>2 DEF Named
<1>8. RowComesFirst'
  BY <1>2, <1>3, <1>4 DEF PictureInv, RowComesFirst
<1>9. OverlapsAreKnown'
  BY <1>2, <1>3, <1>4 DEF PictureInv, OverlapsAreKnown
<1>10. AddressesAreCurrent'
  <2>1. SUFFICES ASSUME NEW q \in Request, NEW p \in Picture, Op(q)' = "profile"
                 PROVE  IF p \in request'[q].send \ request'[q].todo
                        THEN /\ request'[q].address[p] \in storage'[p]
                             /\ request'[q].address[p] # profile[p]
                             /\ \A s \in Request \ {q} :
                                  Op(s)' = "profile" => request'[s].address[p] # request'[q].address[p]
                        ELSE p \notin torn \cap leaked => request'[q].address[p] = profile[p]
    BY <1>3 DEF AddressesAreCurrent
  <2>2. Op(q) = "profile" /\
        IF p \in request[q].send \ request[q].todo
        THEN /\ request[q].address[p] \in storage[p]
             /\ request[q].address[p] # profile[p]
             /\ \A s \in Request \ {q} :
                  Op(s) = "profile" => request[s].address[p] # request[q].address[p]
        ELSE p \notin torn \cap leaked => request[q].address[p] = profile[p]
    BY <1>2, <1>4, <2>1 DEF PictureInv, AddressesAreCurrent
  <2>3. CASE p = c
    BY <1>2, <1>3, <1>4, <1>5, <1>7, <2>2, <2>3
  <2>4. CASE p # c
    <3>1. /\ storage'[p] = storage[p]
          /\ \A s \in Request : Op(s)' = "profile" =>
               /\ Op(s) = "profile"
               /\ request'[s].address[p] = request[s].address[p]
               /\ p \in request'[s].send \ request'[s].todo <=> p \in request[s].send \ request[s].todo
      BY <1>2, <1>3, <1>4, <2>4
    <3>2. QED
      BY <2>1, <2>2, <3>1
  <2>5. QED
    BY <2>3, <2>4
<1>11. OldFilesAreGone'
  <2>1. c \notin leaked => profile[c] \notin storage[c]
    <3>1. CASE request[r].cleared
      BY <1>2, <3>1 DEF PictureInv, OldFilesAreGone, Replaced
    <3>2. CASE request[r].address[c] = None
      BY <1>2, <3>2, AccountsAssumption DEF PictureInv, AddressesAreCurrent, TypeOK
    <3>3. QED
      BY <1>2, <3>1, <3>2
  <2>2. QED
    BY <1>3, <1>6, <1>7, <2>1 DEF PictureInv, OldFilesAreGone
<1>12. PicturesExist'
  BY <1>3, <1>6 DEF PictureInv, PicturesExist
<1>13. NothingLeftBehind'
  <2>1. c \notin leaked => request[r].address[c] = profile[c]
    BY <1>2 DEF PictureInv, AddressesAreCurrent
  <2>2. \A j : \A p \in Picture \ leaked : Named(p, j) \/ (p = c /\ j = k) => Named(p, j)'
    BY <1>2, <1>3, <1>4, <2>1 DEF Named
  <2>3. QED
    BY <1>3, <2>2 DEF PictureInv, NothingLeftBehind
<1>14. QED
  BY <1>8, <1>9, <1>10, <1>11, <1>12, <1>13 DEF PictureInv
(* Once an update is written, the others know that it overlapped them.     *)
LEMMA WritePictures ==
  ASSUME TypeOK, PictureInv, NEW r \in Request, Write(r)
  PROVE  PictureInv'
<1> DEFINE alone == request[r].send \ request[r].clashed
<1>1. /\ request[r] \in Update /\ SlotsOf({r}) /\ request'[r] = None
  BY UpdateSteps
<1>2. /\ Op(r) = "profile" /\ request[r].todo = {} /\ ~request[r].cleared
      /\ profile' = request[r].address /\ torn' = torn \ alone
      /\ storage' = storage /\ account' = account /\ leaked' = leaked
  <2>1. Op(r) = "profile" /\ request[r].todo = {}
    BY DEF Write
  <2>2. ~request[r].cleared
    BY <2>1 DEF PictureInv, OverlapsAreKnown
  <2>3. QED
    BY <2>1, <2>2 DEF Write
<1>3. /\ \A q \in Request \ {r} : request'[q] = request[q] /\ Op(q)' = Op(q)
      /\ Op(r)' = "idle"
  BY <1>1 DEF SlotsOf, Op, Idle
<1>4. /\ \A p : \A q \in Request \ {r} : Replaced(q, p)' <=> Replaced(q, p)
      /\ \A p : Replaced(r, p) <=> p \in request[r].send
      /\ \A p : ~Replaced(r, p)'
  BY <1>2, <1>3 DEF Replaced
\* What r replaced, it uploaded; the rest it wrote as it was.
<1>5. \A p \in Picture :
        /\ p \in request[r].send =>
             /\ profile'[p] \in storage[p]
             /\ \A q \in Request \ {r} : Op(q) = "profile" => request[q].address[p] # profile'[p]
        /\ p \notin request[r].send /\ p \notin torn \cap leaked => profile'[p] = profile[p]
  BY <1>2 DEF PictureInv, AddressesAreCurrent
\* Nothing is mended while another update is under way.
<1>6. \A q \in Request \ {r} : Op(q) = "profile" =>
        /\ alone = {}
        /\ request[q].send \cup request[r].send \subseteq torn \cap leaked
  BY <1>2 DEF PictureInv, OverlapsAreKnown
<1>7. RowComesFirst'
  BY <1>2, <1>3 DEF PictureInv, RowComesFirst
<1>8. OverlapsAreKnown'
  BY <1>2, <1>3, <1>6 DEF PictureInv, OverlapsAreKnown
<1>9. AddressesAreCurrent'
  <2>1. SUFFICES ASSUME NEW q \in Request \ {r}, NEW p \in Picture, Op(q) = "profile"
                 PROVE  IF p \in request[q].send \ request[q].todo
                        THEN /\ request[q].address[p] \in storage[p]
                             /\ request[q].address[p] # profile'[p]
                             /\ \A s \in Request \ {q, r} :
                                  Op(s) = "profile" => request[s].address[p] # request[q].address[p]
                        ELSE p \notin torn \cap leaked => request[q].address[p] = profile'[p]
    BY <1>2, <1>3, <1>6 DEF AddressesAreCurrent
  <2>2. CASE p \in request[q].send \ request[q].todo
    BY <1>2, <2>1, <2>2 DEF PictureInv, AddressesAreCurrent
  <2>3. CASE p \notin request[q].send \ request[q].todo
    BY <1>2, <1>5, <1>6, <2>1, <2>3 DEF PictureInv, AddressesAreCurrent
  <2>4. QED
    BY <2>2, <2>3
<1>10. OldFilesAreGone'
  <2>1. SUFFICES ASSUME NEW q \in Request \ {r}, NEW p \in Picture \ leaked, Replaced(q, p)
                 PROVE  FALSE
    BY <1>2, <1>4 DEF OldFilesAreGone
  <2>2. Op(q) = "profile" /\ p \in request[q].send
    <3>1. Op(q) = "profile" /\ request[q] \in Update
      BY <2>1, Shapes DEF Replaced
    <3>2. request[q].cleared => Current(request[q].todo) \in request[q].send
      <4>1. request[q].cleared => request[q].todo # {} /\ request[q].todo \subseteq request[q].send
        BY <2>1, <3>1 DEF PictureInv, OverlapsAreKnown
      <4>2. request[q].todo \in SUBSET Picture
        BY <3>1, UpdateShape
      <4>3. QED
        BY <4>1, <4>2, Chosen
    <3>3. QED
      BY <2>1, <3>1, <3>2 DEF Replaced
  <2>3. QED
    BY <1>6, <2>1, <2>2
<1>11. PicturesExist'
  <2>1. SUFFICES ASSUME NEW p \in Picture, p \notin torn', p \notin request[r].send
                 PROVE  \/ profile'[p] \in storage[p] \cup {None, External}
                        \/ \E q \in Request \ {r} : Replaced(q, p)
    BY <1>2, <1>4, <1>5 DEF PicturesExist
  <2>2. p \notin torn
    BY <1>2, <2>1
  <2>3. QED
    BY <1>2, <1>4, <1>5, <2>1, <2>2 DEF PictureInv, PicturesExist
<1>12. NothingLeftBehind'
  <2>1. SUFFICES ASSUME NEW p \in Picture \ leaked, NEW k \in storage[p] PROVE Named(p, k)'
    BY <1>2 DEF NothingLeftBehind
  <2>2. Named(p, k)
    BY DEF PictureInv, NothingLeftBehind
  <2>3. CASE profile[p] = k
    <3>1. p \notin request[r].send
      BY <1>4, <2>1, <2>3 DEF PictureInv, OldFilesAreGone
    <3>2. QED
      BY <1>5, <2>3, <3>1 DEF Named
  <2>4. CASE \E q \in Request : Op(q) = "profile" /\ request[q].address[p] = k
    BY <1>2, <1>3, <2>4 DEF Named
  <2>5. QED
    BY <2>2, <2>3, <2>4 DEF Named
<1>13. QED
  BY <1>7, <1>8, <1>9, <1>10, <1>11, <1>12 DEF PictureInv

(* What a failed update had done is torn, and what it uploaded is leaked.  *)
LEMMA FailPictures ==
  ASSUME TypeOK, PictureInv, NEW r \in Request, Fail(r), SlotsOf({r}), request'[r] = None
  PROVE  PictureInv'
<1>1. /\ \A q \in Request \ {r} : request'[q] = request[q] /\ Op(q)' = Op(q)
      /\ Op(r)' = "idle"
  BY DEF SlotsOf, Op, Idle
<1>2. CASE Op(r) # "profile"
  <2>1. PictureFrame
    BY <1>1, <1>2 DEF Fail, PictureFrame, rowVars, pictureVars
  <2>2. QED
    BY <2>1, PicturesFramed
<1>3. CASE Op(r) = "profile"
  <2>1. /\ profile' = profile /\ storage' = storage /\ account' = account
        /\ torn \subseteq torn' /\ leaked \subseteq leaked'
        /\ \A p : Replaced(r, p) => p \in torn'
        /\ request[r].send \ request[r].todo \subseteq leaked'
    BY <1>3 DEF Fail, rowVars, Replaced
  <2>2. /\ \A p : \A q \in Request \ {r} : Replaced(q, p)' <=> Replaced(q, p)
        /\ \A p : ~Replaced(r, p)'
    BY <1>1 DEF Replaced
  <2>3. RowComesFirst' /\ OverlapsAreKnown'
    BY <1>1, <2>1 DEF PictureInv, RowComesFirst, OverlapsAreKnown
  <2>4. AddressesAreCurrent'
    BY <1>1, <2>1 DEF PictureInv, AddressesAreCurrent
  <2>5. OldFilesAreGone' /\ PicturesExist'
    BY <2>1, <2>2 DEF PictureInv, OldFilesAreGone, PicturesExist
  <2>6. NothingLeftBehind'
    <3>1. \A p \in Picture : p \notin leaked' => request[r].address[p] = profile[p]
      BY <1>3, <2>1 DEF PictureInv, AddressesAreCurrent
    <3>2. \A k : \A p \in Picture : p \notin leaked' /\ Named(p, k) => Named(p, k)'
      BY <1>1, <2>1, <3>1 DEF Named
    <3>3. QED
      BY <2>1, <3>2 DEF PictureInv, NothingLeftBehind
  <2>7. QED
    BY <2>3, <2>4, <2>5, <2>6 DEF PictureInv
<1>4. QED
  BY <1>2, <1>3
-----------------------------------------------------------------------------
(* Every step.                                                             *)

(* A slot that goes from one step to another without tokens and pictures.  *)
LEMMA Elsewhere ==
  ASSUME TypeOK, TokenInv, PictureInv, NEW r \in Request, SlotsOf({r}),
         Op(r) \in {"idle", "register", "google"},
         Op(r)' \in {"idle", "register", "google"},
         UNCHANGED <<account, profile, storage, tokenVars, pictureVars>>
  PROVE  TokenInv' /\ PictureInv'
<1>1. TokenFrame
  BY DEF TokenFrame, tokenVars, SlotsOf, TokenOps
<1>2. PictureFrame
  BY DEF PictureFrame, pictureVars, SlotsOf
<1>3. QED
  BY <1>1, <1>2, TokensFramed, PicturesFramed

(* The steps that no slot shows.                                           *)
LEMMA QuietSteps ==
  ASSUME AccountsInv
  PROVE  /\ \A addresses \in [Picture -> Given] : SaveUser(addresses) => AccountsInv'
         /\ \A t \in Token : Expire(t) => AccountsInv'
<1>0. TypeOK /\ TokenInv /\ PictureInv
  BY Parts
<1>1. ASSUME NEW addresses \in [Picture -> Given], SaveUser(addresses) PROVE AccountsInv'
  <2>1. \A q \in Request : Op(q)' = Op(q) /\ Op(q) # "profile"
    BY <1>0, <1>1 DEF SaveUser, PictureInv, RowComesFirst, Op, Idle
  <2>2. TokenFrame
    BY <1>1 DEF SaveUser, TokenFrame, tokenVars
  <2>3. \A p \in Picture : profile'[p] \in {None, External}
    BY <1>1, AccountsAssumption DEF SaveUser
  <2>4. PictureInv'
    BY <1>0, <1>1, <2>1, <2>3, RowMade DEF SaveUser, pictureVars
  <2>5. TypeOK'
    BY <1>0, <1>1, AccountsAssumption
       DEF SaveUser, TypeOK, tokenVars, pictureVars, Drawn, Address
  <2>6. QED
    BY <1>0, <2>2, <2>4, <2>5, TokensFramed DEF AccountsInv, TokenInv, PictureInv
<1>2. ASSUME NEW t \in Token, Expire(t) PROVE AccountsInv'
  <2>1. TokenFrame /\ PictureFrame
    BY <1>2 DEF Expire, TokenFrame, PictureFrame, rowVars, pictureVars
  <2>2. TypeOK'
    BY <1>0, <1>2 DEF Expire, TypeOK, rowVars, pictureVars, Drawn
  <2>3. QED
    BY <1>0, <2>1, <2>2, TokensFramed, PicturesFramed DEF AccountsInv, TokenInv, PictureInv
<1>3. QED
  BY <1>1, <1>2

(* The routes that make the row.                                           *)
LEMMA RowSteps ==
  ASSUME AccountsInv, NEW r \in Request
  PROVE  /\ RegisterCheck(r) \/ GoogleFind(r) => AccountsInv'
         /\ \A d \in Device : RegisterCreate(r, d) => AccountsInv'
         /\ \A picture \in {None, External} : GoogleSave(r, picture) => AccountsInv'
<1>0. TypeOK /\ TokenInv /\ TokensAreOwn /\ PictureInv
  BY Parts DEF TokenInv
<1>1. ASSUME RegisterCheck(r) \/ GoogleFind(r) PROVE AccountsInv'
  <2>1. SlotsOf({r}) /\ TypeOK'
    BY <1>0, <1>1, TokenSteps
  <2>2. Op(r) = "idle"
    BY <1>1 DEF RegisterCheck, GoogleFind, Op
  <2>3. request'[r] = [op |-> "register"] \/ request'[r] = [op |-> "google"]
    BY <1>0, <1>1 DEF RegisterCheck, GoogleFind, Proceed, TypeOK
  <2>4. request'[r] # None
    BY <2>3, NoneIsNoStep DEF Step
  <2>5. Op(r)' \in {"register", "google"}
    BY <2>3, <2>4 DEF Op, Idle
  <2>6. TokenInv' /\ PictureInv'
    BY <1>0, <1>1, <2>1, <2>2, <2>5, Elsewhere DEF RegisterCheck, GoogleFind, rowVars
  <2>7. QED
    BY <2>1, <2>6, Parts DEF AccountsInv, TokenInv, PictureInv
<1>2. ASSUME NEW d \in Device, RegisterCreate(r, d) PROVE AccountsInv'
  <2>1. SlotsOf({r}) /\ TypeOK' /\ Op(r) = "register"
    BY <1>0, <1>2, TokenSteps DEF RegisterCreate
  <2>2. CASE account = "absent"
    <3>1. /\ request'[r] = [op |-> "issue", device |-> d, parent |-> None]
          /\ account' = "password"
      BY <1>0, <1>2, <2>2 DEF RegisterCreate, Proceed, TypeOK
    <3>2. TokenInv'
      BY <1>0, <1>2, <2>1, <2>2, <3>1, LoginTokens DEF RegisterCreate, TokenOps
    <3>3. request'[r] # None
      BY <3>1, NoneIsNoStep DEF Step
    <3>4. Op(r)' = "issue"
      BY <3>1, <3>3 DEF Op, Idle
    <3>5. PictureFrame
      BY <1>2, <2>1, <3>1, <3>4 DEF RegisterCreate, PictureFrame, SlotsOf, pictureVars
    <3>6. QED
      BY <1>0, <2>1, <3>2, <3>5, PicturesFramed DEF AccountsInv, TokenInv, PictureInv
  <2>3. CASE account # "absent"
    <3>1. request'[r] = None
      BY <1>0, <1>2, <2>3 DEF RegisterCreate, Finish, Proceed, TypeOK
    <3>2. Op(r)' = "idle"
      BY <3>1 DEF Op, Idle
    <3>3. TokenInv' /\ PictureInv'
      BY <1>0, <1>2, <2>1, <2>3, <3>2, Elsewhere DEF RegisterCreate
    <3>4. QED
      BY <2>1, <3>3 DEF AccountsInv, TokenInv, PictureInv
  <2>4. QED
    BY <2>2, <2>3
<1>3. ASSUME NEW picture \in {None, External}, GoogleSave(r, picture) PROVE AccountsInv'
  <2>1. SlotsOf({r}) /\ TypeOK' /\ Op(r) = "google"
    BY <1>0, <1>3, TokenSteps DEF GoogleSave
  <2>2. request'[r] = None
    BY <1>0, <1>3 DEF GoogleSave, Finish, Proceed, TypeOK
  <2>3. Op(r)' = "idle"
    BY <2>2 DEF Op, Idle
  <2>4. CASE account = "absent"
    <3>1. TokenFrame
      BY <1>3, <2>1, <2>3, <2>4 DEF GoogleSave, TokenFrame, TokenOps, tokenVars, SlotsOf
    <3>2. \A q \in Request : Op(q)' # "profile"
      BY <1>0, <2>1, <2>3, <2>4 DEF PictureInv, RowComesFirst, SlotsOf, Op, Idle
    <3>3. /\ account' # "absent" /\ UNCHANGED <<storage, torn, leaked>>
          /\ \A p \in Picture : profile'[p] \in {None, External}
      BY <1>3, <2>4 DEF GoogleSave, NoPictures, Picture, pictureVars
    <3>4. QED
      BY <1>0, <2>1, <2>4, <3>1, <3>2, <3>3, TokensFramed, RowMade
         DEF AccountsInv, TokenInv, PictureInv
  <2>5. CASE account # "absent"
    <3>1. TokenInv' /\ PictureInv'
      BY <1>0, <1>3, <2>1, <2>3, <2>5, Elsewhere DEF GoogleSave
    <3>2. QED
      BY <2>1, <3>1 DEF AccountsInv, TokenInv, PictureInv
  <2>6. QED
    BY <2>4, <2>5
<1>4. QED
  BY <1>1, <1>2, <1>3

(* The sessions.                                                           *)
LEMMA SessionSteps ==
  ASSUME AccountsInv, NEW r \in Request
  PROVE  /\ \A d \in Device : Login(r, d) \/ RefreshFind(r, d) => AccountsInv'
         /\ RefreshDelete(r) \/ Answer(r) => AccountsInv'
         /\ \A t \in Token : Issue(r, t) => AccountsInv'
<1>0. TypeOK /\ TokenInv /\ TokensAreOwn /\ PictureInv
  BY Parts DEF TokenInv
<1>1. ASSUME SlotsOf({r}), TypeOK', TokenInv', Op(r) # "profile", Op(r)' # "profile",
             UNCHANGED <<rowVars, pictureVars>>
      PROVE  AccountsInv'
  <2>1. PictureFrame
    BY <1>1 DEF PictureFrame, SlotsOf, rowVars, pictureVars
  <2>2. QED
    BY <1>0, <1>1, <2>1, PicturesFramed DEF AccountsInv, TokenInv, PictureInv
<1>2. ASSUME NEW d \in Device, Login(r, d) PROVE AccountsInv'
  <2>1. SlotsOf({r}) /\ TypeOK' /\ Op(r) = "idle"
    BY <1>0, <1>2, TokenSteps DEF Login, Op
  <2>2. request'[r] = [op |-> "issue", device |-> d, parent |-> None]
    BY <1>0, <1>2 DEF Login, Proceed, TypeOK
  <2>3. Op(r)' = "issue"
    BY <2>2, NoneIsNoStep DEF Op, Idle, Step
  <2>4. TokenInv'
    BY <1>0, <1>2, <2>1, <2>2, LoginTokens DEF Login, TokenOps, rowVars
  <2>5. QED
    BY <1>1, <1>2, <2>1, <2>3, <2>4 DEF Login
<1>3. ASSUME NEW d \in Device, RefreshFind(r, d) PROVE AccountsInv'
  <2>1. SlotsOf({r}) /\ TypeOK' /\ TokenInv' /\ Op(r) = "idle"
    BY <1>0, <1>3, TokenSteps, RefreshFindTokens DEF RefreshFind, Op
  <2>2. request'[r] = [op |-> "refresh", device |-> d, token |-> held[d]]
    BY <1>0, <1>3 DEF RefreshFind, Proceed, TypeOK
  <2>3. held[d] \in Token
    BY <1>0, <1>3 DEF RefreshFind, TypeOK
  <2>4. Op(r)' = "refresh"
    BY <2>2, <2>3, NoneIsNoStep DEF Op, Idle, Step
  <2>5. QED
    BY <1>1, <1>3, <2>1, <2>4 DEF RefreshFind, pictureVars
<1>4. ASSUME RefreshDelete(r) PROVE AccountsInv'
  <2>1. SlotsOf({r}) /\ TypeOK' /\ TokenInv' /\ Op(r) = "refresh"
    BY <1>0, <1>4, TokenSteps, RefreshDeleteTokens DEF RefreshDelete
  <2>2. request'[r].op = "issue"
    BY <1>0, <1>4 DEF RefreshDelete, Proceed, TypeOK
  <2>3. Op(r)' # "profile"
    BY <2>2 DEF Op
  <2>4. QED
    BY <1>1, <1>4, <2>1, <2>3 DEF RefreshDelete
<1>5. ASSUME Answer(r) PROVE AccountsInv'
  <2>1. SlotsOf({r}) /\ TypeOK' /\ TokenInv' /\ Op(r) = "answer"
    BY <1>0, <1>5, TokenSteps, AnswerTokens DEF Answer
  <2>2. request'[r] = None
    BY <1>0, <1>5 DEF Answer, Finish, Proceed, TypeOK
  <2>3. Op(r)' # "profile"
    BY <2>2 DEF Op, Idle
  <2>4. QED
    BY <1>1, <1>5, <2>1, <2>3 DEF Answer
<1>6. ASSUME NEW t \in Token, Issue(r, t) PROVE AccountsInv'
  <2>1. SlotsOf({r}) /\ TypeOK' /\ TokenInv' /\ Op(r) = "issue"
    BY <1>0, <1>6, TokenSteps, IssueTokens DEF Issue
  <2>2. request'[r].op = "answer"
    BY <1>0, <1>6 DEF Issue, Proceed, TypeOK
  <2>3. Op(r)' # "profile"
    BY <2>2 DEF Op
  <2>4. QED
    BY <1>1, <1>6, <2>1, <2>3 DEF Issue
<1>7. QED
  BY <1>2, <1>3, <1>4, <1>5, <1>6
(* The updates of the profile.                                             *)
LEMMA ProfileSteps ==
  ASSUME AccountsInv, NEW r \in Request
  PROVE  /\ \A send \in SUBSET Picture : ProfileFind(r, send) => AccountsInv'
         /\ DeleteOld(r) \/ DeleteRefused(r) \/ Write(r) => AccountsInv'
         /\ \A k \in Key : Upload(r, k) => AccountsInv'
<1>0. TypeOK /\ TokenInv /\ PictureInv
  BY Parts
\* None of them touches a slot of another kind, or a token.
<1>1. ASSUME TypeOK', PictureInv', UNCHANGED <<account, tokenVars>>,
             \A q \in Request : \/ request'[q] = request[q]
                                \/ Op(q) \notin TokenOps /\ Op(q)' \notin TokenOps
      PROVE  AccountsInv'
  <2>1. TokenFrame
    BY <1>1 DEF TokenFrame, tokenVars
  <2>2. QED
    BY <1>0, <1>1, <2>1, TokensFramed DEF AccountsInv, TokenInv, PictureInv
<1>2. ASSUME NEW send \in SUBSET Picture, ProfileFind(r, send) PROVE AccountsInv'
  <2>1. /\ TypeOK' /\ PictureInv' /\ request[r] = None /\ request'[r].op = "profile"
        /\ \A q \in Request \ {r} :
             \/ request'[q] = request[q]
             \/ Op(q) = "profile" /\ request'[q].op = "profile"
    <3>1. \A q \in Request \ {r} : Op(q) = "profile" => request[q].op = "profile"
      BY DEF Op
    <3>2. \A q \in Request \ {r} : Op(q) = "profile" =>
            [request[q] EXCEPT !.clashed = @ \cup send \cup request[q].send].op = "profile"
      BY <1>0, <3>1, Shapes DEF Update
    <3>3. TypeOK' /\ request[r] = None
      BY <1>0, <1>2, FindStep
    <3>4. request'[r].op = "profile"
      BY <1>2 DEF ProfileFind
    <3>5. \A q \in Request \ {r} :
            \/ request'[q] = request[q]
            \/ Op(q) = "profile" /\ request'[q].op = "profile"
      BY <1>2, <3>2 DEF ProfileFind
    <3>6. QED
      BY <1>0, <1>2, <3>3, <3>4, <3>5, FindPictures
  <2>2. \A q \in Request : \/ request'[q] = request[q]
                           \/ Op(q) \notin TokenOps /\ Op(q)' \notin TokenOps
    BY <2>1 DEF Op, Idle, TokenOps
  <2>3. QED
    BY <1>1, <1>2, <2>1, <2>2 DEF ProfileFind, rowVars
<1>3. ASSUME DeleteOld(r) \/ DeleteRefused(r) PROVE AccountsInv'
  <2>1. SlotsOf({r}) /\ TypeOK' /\ PictureInv' /\ request[r] \in Update
        /\ request'[r] = [request[r] EXCEPT !.cleared = TRUE]
    BY <1>0, <1>3, UpdateSteps, DeletePictures
  <2>2. request'[r].op = "profile" /\ Op(r) = "profile"
    BY <1>3, <2>1 DEF DeleteOld, DeleteRefused, Update
  <2>3. Op(r) \notin TokenOps /\ Op(r)' \notin TokenOps
    BY <2>2 DEF Op, TokenOps
  <2>4. QED
    BY <1>1, <1>3, <2>1, <2>3 DEF DeleteOld, DeleteRefused, SlotsOf, rowVars
<1>4. ASSUME Write(r) PROVE AccountsInv'
  <2>1. SlotsOf({r}) /\ TypeOK' /\ PictureInv' /\ request'[r] = None
    BY <1>0, <1>4, UpdateSteps, WritePictures
  <2>2. Op(r) \notin TokenOps /\ Op(r)' \notin TokenOps
    BY <1>4, <2>1 DEF Write, Op, Idle, TokenOps
  <2>3. QED
    BY <1>1, <1>4, <2>1, <2>2 DEF Write, SlotsOf
<1>5. ASSUME NEW k \in Key, Upload(r, k) PROVE AccountsInv'
  <2>1. SlotsOf({r}) /\ TypeOK' /\ PictureInv' /\ request'[r] \in Update
    BY <1>0, <1>5, UpdateSteps, UploadPictures
  <2>2. request'[r].op = "profile"
    BY <2>1, UpdateShape
  <2>3. Op(r) \notin TokenOps /\ Op(r)' \notin TokenOps
    BY <1>5, <2>2 DEF Upload, Op, TokenOps
  <2>4. QED
    BY <1>1, <1>5, <2>1, <2>3 DEF Upload, SlotsOf
<1>6. QED
  BY <1>2, <1>3, <1>4, <1>5

LEMMA FailKeeps ==
  ASSUME AccountsInv, NEW r \in Request, Fail(r)
  PROVE  AccountsInv'
BY Parts, FailStep, FailTokens, FailPictures DEF AccountsInv, TokenInv, PictureInv

LEMMA NextAccounts == AccountsInv /\ [Next]_vars => AccountsInv'
<1> SUFFICES ASSUME AccountsInv, [Next]_vars PROVE AccountsInv'
  OBVIOUS
<1>1. CASE Next
  <2>1. CASE \/ \E addresses \in [Picture -> Given] : SaveUser(addresses)
             \/ \E t \in Token : Expire(t)
    BY <2>1, QuietSteps
  <2>2. CASE \E r \in Request : \/ RegisterCheck(r) \/ GoogleFind(r)
                                \/ \E picture \in {None, External} : GoogleSave(r, picture)
    BY <2>2, RowSteps
  <2>3. CASE \E r \in Request, d \in Device :
               RegisterCreate(r, d) \/ Login(r, d) \/ RefreshFind(r, d)
    BY <2>3, RowSteps, SessionSteps
  <2>4. CASE \E r \in Request : \/ RefreshDelete(r) \/ Answer(r)
                                \/ \E t \in Token : Issue(r, t)
    BY <2>4, SessionSteps
  <2>5. CASE \E r \in Request : \/ \E send \in SUBSET Picture : ProfileFind(r, send)
                                \/ DeleteOld(r) \/ DeleteRefused(r) \/ Write(r)
                                \/ \E k \in Key : Upload(r, k)
    BY <2>5, ProfileSteps
  <2>6. CASE \E r \in Request : Fail(r)
    BY <2>6, FailKeeps
  <2>7. QED
    BY <1>1, <2>1, <2>2, <2>3, <2>4, <2>5, <2>6 DEF Next
<1>2. CASE UNCHANGED vars
  <2>1. TokenFrame /\ PictureFrame
    BY <1>2 DEF vars, rowVars, tokenVars, pictureVars, TokenFrame, PictureFrame
  <2>2. TypeOK'
    BY <1>2 DEF vars, rowVars, tokenVars, pictureVars, AccountsInv, TypeOK, Drawn
  <2>3. QED
    BY <2>1, <2>2, Parts, TokensFramed, PicturesFramed DEF AccountsInv, TokenInv, PictureInv
<1>3. QED
  BY <1>1, <1>2

(* However registrations, logins, refreshes and updates overlap and fail,  *)
(* the rows, the tokens and the files stay what AccountsInv says.          *)
THEOREM AccountsInvariant == Spec => []AccountsInv
<1>1. QED
  BY InitAccounts, NextAccounts, PTL DEF Spec

(* A refresh token is exchanged once, unless two refreshes had found it.   *)
THEOREM ExchangesOnce == Spec => []OneHeir
<1>1. AccountsInv => OneHeir
  BY DEF AccountsInv
<1>2. QED
  BY <1>1, AccountsInvariant, PTL

(* A device is not logged out by others, but by its own failed refresh.    *)
THEOREM KeepsSessions == Spec => []SessionsLast
<1>1. AccountsInv => SessionsLast
  BY DEF AccountsInv
<1>2. QED
  BY <1>1, AccountsInvariant, PTL

(* The profile names pictures that exist, but for overlaps and failures.   *)
THEOREM ShowsPictures == Spec => []PicturesExist
<1>1. AccountsInv => PicturesExist
  BY DEF AccountsInv
<1>2. QED
  BY <1>1, AccountsInvariant, PTL

(* No file is left in the bucket, but for overlaps and failures.           *)
THEOREM LeavesNoFiles == Spec => []NothingLeftBehind
<1>1. AccountsInv => NothingLeftBehind
  BY DEF AccountsInv
<1>2. QED
  BY <1>1, AccountsInvariant, PTL

(* No route makes the row of a person again.                               *)
THEOREM KeepsFirstRow == Spec => FirstComerStays
<1>1. [Next]_vars => [account # "absent" => account' = account]_vars
  <2> SUFFICES ASSUME Next, account # "absent" PROVE account' = account
    BY DEF vars, rowVars
  <2>1. QED
    BY DEF Next, SaveUser, Expire, RegisterCheck, GoogleFind, GoogleSave, RegisterCreate,
           Login, RefreshFind, RefreshDelete, Answer, Issue, ProfileFind, DeleteOld,
           DeleteRefused, Write, Upload, Fail, rowVars
<1>2. QED
  BY <1>1, PTL DEF Spec, FirstComerStays

-----------------------------------------------------------------------------
(* UserAccounts implements SingleUseTokens.                                *)

Noticed == <<Heir, Usable, Over, forked>>

(* What can be said of the tokens whose promise holds.                     *)
LEMMA KeptTokens ==
  ASSUME AccountsInv
  PROVE  /\ Promise!Kept = Kept /\ None \notin Drawn /\ Drawn \subseteq Token
         /\ \A t \in Kept : Heir[t] = IF HasHeir(t) THEN CHOOSE u \in Drawn : parent[u] = t ELSE None
         /\ \A t \in Kept, r \in Request :
              /\ Exchanging(r, t) => ~HasHeir(t) /\ \A q \in Request \ {r} : ~Exchanging(q, t)
              /\ HasHeir(t) \/ (Op(r) = "issue" /\ request[r].parent = t) => t \notin sessions
              /\ Op(r) = "refresh" /\ request[r].token = t => t \in sessions
<1>1. Promise!Kept = Kept
  BY DEF Promise!Kept, Heir
<1>2. None \notin Drawn /\ Drawn \subseteq Token
  BY AccountsAssumption DEF AccountsInv, TypeOK
<1>3. QED
  BY <1>1, <1>2 DEF AccountsInv, ExchangedOnce, Kept, Heir

LEMMA InitPromise == Init => Promise!Init
<1> SUFFICES ASSUME Init PROVE Promise!Init
  OBVIOUS
<1>1. Drawn = {} /\ Kept = {}
  BY DEF Init, Drawn, Kept
<1>2. QED
  BY <1>1 DEF Init, Promise!Init, Heir, Usable, Over

(* A step that gives out no token, and finds none twice.                   *)
LEMMA NoHeirs ==
  ASSUME UNCHANGED <<parent, forked>>
  PROVE  Kept' = Kept /\ Heir' = Heir
BY DEF Kept, Heir, HasHeir, Drawn

LEMMA NothingNoticed ==
  ASSUME AccountsInv, UNCHANGED <<parent, forked, expired, cut>>,
         \A t \in Kept : t \in Usable' <=> t \in Usable
  PROVE  [Promise!Next]_Noticed
<1>1. Kept' = Kept /\ Heir' = Heir /\ Over' = Over
  BY NoHeirs DEF Over
<1>2. Usable' = Usable
  BY <1>1 DEF Usable
<1>3. QED
  BY <1>1, <1>2 DEF Noticed

(* What ends is a kept token, or nothing is said of it.                    *)
LEMMA EndNoticed ==
  ASSUME AccountsInv, UNCHANGED <<parent, forked>>, NEW t \in Drawn,
         expired' \cup cut' = expired \cup cut \cup {t},
         \A u \in Kept \ {t} : u \in Usable' <=> u \in Usable,
         t \in Usable' => t \in Usable
  PROVE  [Promise!Next]_Noticed
<1>1. Kept' = Kept /\ Heir' = Heir
  BY NoHeirs
<1>2. Usable' \in {Usable, Usable \ {t}}
  BY <1>1 DEF Usable
<1>3. CASE t \in Kept
  <2>1. Over' = Over \cup {t}
    BY <1>3 DEF Over, Kept
  <2>2. Promise!End(t)
    BY <1>1, <1>2, <1>3, <2>1, KeptTokens DEF Promise!End
  <2>3. QED
    BY <2>2, KeptTokens DEF Promise!Next
<1>4. CASE t \notin Kept
  <2>1. Over' = Over /\ t \notin Usable
    BY <1>4 DEF Over, Kept, Usable
  <2>2. QED
    BY <1>1, <1>2, <2>1 DEF Noticed
<1>5. QED
  BY <1>3, <1>4

(* A step of a slot that leaves the table of tokens alone.                 *)
LEMMA SlotNotNoticed ==
  ASSUME AccountsInv, UNCHANGED <<sessions, parent, forked, expired, cut>>,
         \A t \in Kept, q \in Request : Exchanging(q, t)' <=> Exchanging(q, t)
  PROVE  [Promise!Next]_Noticed
<1>1. Kept' = Kept
  BY NoHeirs
<1>2. \A t \in Kept : t \in Usable' <=> t \in Usable
  BY <1>1 DEF Usable
<1>3. QED
  BY <1>2, NothingNoticed

LEMMA FrameNotNoticed ==
  ASSUME AccountsInv, TokenFrame, UNCHANGED expired
  PROVE  [Promise!Next]_Noticed
<1>1. \A q \in Request :
        \/ request'[q] = request[q] /\ Op(q)' = Op(q)
        \/ Op(q) \notin TokenOps /\ Op(q)' \notin TokenOps
  BY DEF TokenFrame, Op, Idle
<1>2. \A t \in Kept, q \in Request : Exchanging(q, t)' <=> Exchanging(q, t)
  BY <1>1 DEF Exchanging, TokenOps
<1>3. QED
  BY <1>2, SlotNotNoticed DEF TokenFrame

(* A login begins an exchange that uses no token.                          *)
LEMMA LoginNotNoticed ==
  ASSUME AccountsInv, NEW r \in Request, NEW d \in Device, Op(r) \notin TokenOps,
         SlotsOf({r}), UNCHANGED tokenVars,
         request'[r] \in {None, [op |-> "issue", device |-> d, parent |-> None]}
  PROVE  [Promise!Next]_Noticed
<1>1. /\ \A q \in Request \ {r} : request'[q] = request[q] /\ Op(q)' = Op(q)
      /\ Op(r)' = "idle" \/ (Op(r)' = "issue" /\ request'[r].parent = None)
  BY DEF SlotsOf, Op, Idle
<1>2. None \notin Kept
  BY KeptTokens DEF Kept
<1>3. \A t \in Kept, q \in Request : Exchanging(q, t)' <=> Exchanging(q, t)
  BY <1>1, <1>2 DEF Exchanging, TokenOps
<1>4. QED
  BY <1>3, SlotNotNoticed DEF tokenVars

(* A token that is found can be exchanged; found again, it is forked.      *)
LEMMA FindNoticed ==
  ASSUME AccountsInv, NEW r \in Request, NEW d \in Device, RefreshFind(r, d)
  PROVE  [Promise!Next]_Noticed
<1> DEFINE t == held[d]
<1>0. TypeOK /\ TokensAreOwn
  BY DEF AccountsInv
<1>1. /\ \A q \in Request \ {r} : request'[q] = request[q] /\ Op(q)' = Op(q)
      /\ Op(r) = "idle" /\ Op(r)' = "refresh" /\ request'[r].token = t
  <2>1. request'[r] = [op |-> "refresh", device |-> d, token |-> t]
    BY <1>0 DEF RefreshFind, Proceed, TypeOK
  <2>2. request'[r] # None
    BY <1>0, <2>1, NoneIsNoStep DEF Step, RefreshFind, TypeOK
  <2>3. SlotsOf({r})
    BY <1>0, TokenSteps
  <2>4. QED
    BY <2>1, <2>2, <2>3 DEF SlotsOf, Op, Idle, RefreshFind
<1>2. /\ Drawn' = Drawn /\ parent' = parent /\ sessions' = sessions /\ expired' = expired
      /\ cut' = cut /\ t \in sessions \ expired /\ t \in Drawn
      /\ forked' \in {forked, forked \cup {t}}
  BY <1>0 DEF RefreshFind, Drawn, TypeOK
<1>3. \A u : \A q \in Request : u # t => (Exchanging(q, u)' <=> Exchanging(q, u))
  BY <1>1 DEF Exchanging
<1> HIDE DEF t
<1>4. CASE forked' = forked
  <2>1. Kept' = Kept
    BY <1>2, <1>4 DEF Kept
  <2>2. \A u \in Kept : u \in Usable' <=> u \in Usable
    BY <1>2, <1>3, <2>1 DEF Usable
  <2>3. QED
    BY <1>2, <1>4, <2>2, NothingNoticed
<1>5. CASE forked' = forked \cup {t} /\ t \notin forked
  <2>1. t \in Kept /\ Kept' = Kept \ {t}
    BY <1>2, <1>5 DEF Kept
  <2>2. Heir' = [u \in Promise!Kept \ {t} |-> Heir[u]]
    BY <1>2, <2>1, KeptTokens DEF Heir, HasHeir
  <2>3. Usable' = Usable \ {t} /\ Over' = Over \ {t}
    BY <1>2, <1>3, <1>5, <2>1 DEF Usable, Over, Kept
  <2>4. Promise!Break(t)
    BY <1>5, <2>1, <2>2, <2>3, KeptTokens DEF Promise!Break
  <2>5. QED
    BY <1>2, <2>4, KeptTokens DEF Promise!Next
<1>6. QED
  BY <1>2, <1>4, <1>5

(* The token whose row is deleted is usable still: by this refresh.        *)
LEMMA DeleteNotNoticed ==
  ASSUME AccountsInv, NEW r \in Request, RefreshDelete(r)
  PROVE  [Promise!Next]_Noticed
<1> DEFINE t == request[r].token
<1>0. TypeOK /\ TokensAreOwn
  BY DEF AccountsInv
<1>1. /\ \A q \in Request \ {r} : request'[q] = request[q] /\ Op(q)' = Op(q)
      /\ Op(r) = "refresh" /\ Op(r)' = "issue" /\ request'[r].parent = t
  <2>1. request'[r] = [op |-> "issue", device |-> request[r].device, parent |-> t]
    BY <1>0 DEF RefreshDelete, Proceed, TypeOK
  <2>2. request'[r] # None
    BY <1>0, <2>1, NoneIsNoStep, Shapes DEF Step, RefreshDelete
  <2>3. SlotsOf({r})
    BY <1>0, TokenSteps
  <2>4. QED
    BY <2>1, <2>2, <2>3 DEF SlotsOf, Op, Idle, RefreshDelete
<1>2. \A u : \A q \in Request : Exchanging(q, u)' <=> Exchanging(q, u)
  BY <1>1 DEF Exchanging
<1>3. Exchanging(r, t) /\ sessions' = sessions \ {t} /\ UNCHANGED <<parent, forked, expired, cut>>
  BY <1>1 DEF Exchanging, RefreshDelete
<1> HIDE DEF t
<1>4. Kept' = Kept
  BY <1>3, NoHeirs
<1>5. \A u \in Kept : u \in Usable' <=> u \in Usable
  BY <1>2, <1>3, <1>4 DEF Usable
<1>6. QED
  BY <1>3, <1>5, NothingNoticed

(* The instant of the exchange is the insert of the new token.             *)
LEMMA IssueNoticed ==
  ASSUME AccountsInv, NEW r \in Request, NEW new \in Token, Issue(r, new)
  PROVE  [Promise!Next]_Noticed
<1> DEFINE t == request[r].parent
<1>0. TypeOK /\ TokensAreOwn
  BY DEF AccountsInv
<1>1. /\ \A q \in Request \ {r} : request'[q] = request[q] /\ Op(q)' = Op(q)
      /\ Op(r) = "issue" /\ Op(r)' = "answer" /\ t \in Drawn \cup {None}
  <2>1. request'[r] = [op |-> "answer", device |-> request[r].device, parent |-> t, token |-> new]
    BY <1>0 DEF Issue, Proceed, TypeOK
  <2>2. request'[r] # None
    BY <1>0, <2>1, NoneIsNoStep, Shapes DEF Step, Issue
  <2>3. SlotsOf({r})
    BY <1>0, TokenSteps
  <2>4. QED
    BY <1>0, <2>1, <2>2, <2>3 DEF SlotsOf, Op, Idle, Issue, TokensAreOwn
<1>2. /\ new \notin Drawn /\ Drawn' = Drawn \cup {new}
      /\ parent' = [u \in Drawn' |-> IF u = new THEN t ELSE parent[u]]
      /\ sessions' = sessions \cup {new} /\ UNCHANGED <<forked, expired, cut>>
  BY DEF Issue, Drawn
<1>3. \A u : /\ \A q \in Request \ {r} : Exchanging(q, u)' <=> Exchanging(q, u)
             /\ ~Exchanging(r, u)' /\ (Exchanging(r, u) <=> u = t)
  BY <1>1 DEF Exchanging
<1>4. \A u \in Drawn : parent[u] # new
  BY <1>0, <1>2, AccountsAssumption DEF TypeOK
<1>5. t # new
  BY <1>1, <1>2, AccountsAssumption
<1> HIDE DEF t
<1>6. /\ \A u : HasHeir(u)' <=> HasHeir(u) \/ u = t
      /\ ~HasHeir(new)
  BY <1>2, <1>4 DEF HasHeir
<1>7. new \notin forked /\ new \notin expired
  BY <1>0, <1>2 DEF TypeOK
<1>8. Kept' = Kept \cup {new} /\ new \notin Kept /\ Over' = Over
  BY <1>2, <1>7 DEF Kept, Over
<1>9. new \in Promise!Fresh
  BY <1>7, <1>8, KeptTokens DEF Promise!Fresh
<1>10. \A u \in Kept \ {t} : Heir'[u] = Heir[u]
  <2> SUFFICES ASSUME NEW u \in Kept \ {t} PROVE Heir'[u] = Heir[u]
    OBVIOUS
  <2>1. \A v : v \in Drawn' /\ parent'[v] = u <=> v \in Drawn /\ parent[v] = u
    BY <1>2
  <2>2. (CHOOSE v \in Drawn' : parent'[v] = u) = CHOOSE v \in Drawn : parent[v] = u
    BY <2>1
  <2>3. HasHeir(u)' <=> HasHeir(u)
    BY <1>6
  <2>4. u \in Kept /\ u \in Kept'
    BY <1>8
  <2>5. Heir[u] = IF HasHeir(u) THEN CHOOSE v \in Drawn : parent[v] = u ELSE None
    BY <2>4 DEF Heir
  <2>6. Heir'[u] = IF HasHeir(u)' THEN CHOOSE v \in Drawn' : parent'[v] = u ELSE None
    BY <2>4 DEF Heir
  <2>7. QED
    BY <2>2, <2>3, <2>5, <2>6
<1>11. Heir'[new] = None
  BY <1>5, <1>6, <1>8 DEF Heir
<1>12. /\ new \in Usable'
       /\ \A u \in Kept \ {t} : u \in Usable' <=> u \in Usable
  BY <1>2, <1>3, <1>7, <1>8 DEF Usable
<1>13. CASE t \in Kept
  <2>1. t \in Usable /\ ~HasHeir(t)
    BY <1>3, <1>13, KeptTokens DEF Usable
  <2>2. Heir[t] = None
    BY <1>13, <2>1, KeptTokens
  <2>3. Heir'[t] = new
    <3>1. \A v : v \in Drawn' /\ parent'[v] = t <=> v = new
      BY <1>2, <2>1 DEF HasHeir
    <3>2. (CHOOSE v \in Drawn' : parent'[v] = t) = new
      BY <3>1
    <3>3. QED
      BY <1>6, <1>8, <1>13, <3>2 DEF Heir
  <2>4. t \notin Usable'
    <3>1. t \notin sessions /\ \A q \in Request \ {r} : ~Exchanging(q, t)
      BY <1>1, <1>3, <1>13, KeptTokens DEF t
    <3>2. t \notin sessions' /\ \A u : u = t => \A q \in Request : ~Exchanging(q, u)'
      BY <1>2, <1>3, <1>5, <3>1
    <3>3. \A u : u \in Usable' => u \in sessions' \/ \E q \in Request : Exchanging(q, u)'
      BY DEF Usable
    <3>4. QED
      BY <3>2, <3>3
  <2>5. Usable' = (Usable \ {t}) \cup {new}
    BY <1>8, <1>12, <2>4 DEF Usable
  <2>6. Heir' = [u \in Promise!Kept \cup {new} |-> IF u = t THEN new ELSE IF u = new THEN None ELSE Heir[u]]
    <3>1. Heir' = [u \in Kept' |-> Heir'[u]]
      BY DEF Heir
    <3>2. QED
      BY <1>8, <1>10, <1>11, <2>3, <3>1, KeptTokens
  <2>7. Promise!Exchange(t, new)
    BY <1>2, <1>8, <1>9, <2>1, <2>2, <2>5, <2>6 DEF Promise!Exchange
  <2>8. t \in Token
    BY <1>13, KeptTokens DEF Kept
  <2>9. QED
    BY <2>7, <2>8 DEF Promise!Next
<1>14. CASE t \notin Kept
  <2>1. Usable' = Usable \cup {new}
    BY <1>8, <1>12, <1>14 DEF Usable
  <2>2. Heir' = [u \in Promise!Kept \cup {new} |-> IF u = new THEN None ELSE Heir[u]]
    <3>1. Heir' = [u \in Kept' |-> Heir'[u]]
      BY DEF Heir
    <3>2. QED
      BY <1>8, <1>10, <1>11, <1>14, <3>1, KeptTokens
  <2>3. Promise!GiveOut(new)
    BY <1>2, <1>8, <1>9, <2>1, <2>2 DEF Promise!GiveOut
  <2>4. QED
    BY <2>3 DEF Promise!Next
<1>15. QED
  BY <1>13, <1>14

LEMMA AnswerNotNoticed ==
  ASSUME AccountsInv, NEW r \in Request, Answer(r)
  PROVE  [Promise!Next]_Noticed
<1>1. Op(r) = "answer" /\ Op(r)' = "idle" /\ SlotsOf({r})
  BY TokenSteps DEF AccountsInv, TypeOK, Answer, Finish, Proceed, Op, Idle
<1>2. \A t \in Kept, q \in Request : Exchanging(q, t)' <=> Exchanging(q, t)
  BY <1>1 DEF SlotsOf, Exchanging, Op, Idle
<1>3. QED
  BY <1>2, SlotNotNoticed DEF Answer

(* The end of the 30 days: of a token that is being exchanged it is not    *)
(* noticed until the exchange fails.                                       *)
LEMMA ExpireNoticed ==
  ASSUME AccountsInv, NEW t \in Token, Expire(t)
  PROVE  [Promise!Next]_Noticed
<1>1. t \in Drawn /\ UNCHANGED <<parent, forked>> /\ expired' \cup cut' = expired \cup cut \cup {t}
  BY DEF Expire, AccountsInv, TypeOK
<1>2. Kept' = Kept
  BY <1>1, NoHeirs
<1>3. \A u : \A q \in Request : Exchanging(q, u)' <=> Exchanging(q, u)
  BY DEF Expire, Exchanging, Op, Idle
<1>4. /\ \A u \in Kept \ {t} : u \in Usable' <=> u \in Usable
      /\ t \in Usable' => t \in Usable
  BY <1>2, <1>3 DEF Expire, Usable
<1>5. QED
  BY <1>1, <1>4, EndNoticed

LEMMA FailNoticed ==
  ASSUME AccountsInv, NEW r \in Request, Fail(r)
  PROVE  [Promise!Next]_Noticed
<1>0. TypeOK /\ TokensAreOwn
  BY DEF AccountsInv
<1>1. /\ \A q \in Request \ {r} : request'[q] = request[q] /\ Op(q)' = Op(q)
      /\ Op(r)' = "idle"
  BY <1>0, FailStep DEF SlotsOf, Op, Idle
<1>2. /\ UNCHANGED <<sessions, parent, forked, expired>>
      /\ cut' = cut \cup (IF Op(r) \in {"issue", "answer"} THEN {request[r].parent} \ {None} ELSE {})
  BY DEF Fail
<1>3. Kept' = Kept
  BY <1>2, NoHeirs
<1>4. \A u : /\ \A q \in Request \ {r} : Exchanging(q, u)' <=> Exchanging(q, u)
             /\ ~Exchanging(r, u)'
  BY <1>1 DEF Exchanging
<1>5. CASE Op(r) \in {"issue", "answer"} /\ request[r].parent # None
  <2> DEFINE t == request[r].parent
  <2>1. t \in Drawn /\ expired' \cup cut' = expired \cup cut \cup {t}
    BY <1>0, <1>2, <1>5 DEF TokensAreOwn
  <2>2. \A u : u # t => ~Exchanging(r, u)
    BY <1>5 DEF Exchanging
  <2> HIDE DEF t
  <2>3. /\ \A u \in Kept \ {t} : u \in Usable' <=> u \in Usable
        /\ t \in Usable' => t \in Usable
    BY <1>2, <1>3, <1>4, <2>2 DEF Usable
  <2>4. QED
    BY <1>2, <2>1, <2>3, EndNoticed
<1>6. CASE Op(r) = "refresh" /\ request[r].token \in expired
  <2> DEFINE t == request[r].token
  <2>1. t \in Drawn /\ expired' \cup cut' = expired \cup cut \cup {t}
    BY <1>0, <1>2, <1>6 DEF TypeOK
  <2>2. \A u : u # t => ~Exchanging(r, u)
    BY <1>6 DEF Exchanging
  <2> HIDE DEF t
  <2>3. /\ \A u \in Kept \ {t} : u \in Usable' <=> u \in Usable
        /\ t \in Usable' => t \in Usable
    BY <1>2, <1>3, <1>4, <2>2 DEF Usable
  <2>4. QED
    BY <1>2, <2>1, <2>3, EndNoticed
<1>7. CASE /\ Op(r) \in {"issue", "answer"} => request[r].parent = None
           /\ Op(r) = "refresh" => request[r].token \notin expired
  <2>1. cut' = cut
    BY <1>2, <1>7
  <2>2. \A u \in Kept : Exchanging(r, u) => u \in sessions \ expired
    BY <1>7, KeptTokens DEF Exchanging, Kept
  <2>3. \A u \in Kept : u \in Usable' <=> u \in Usable
    BY <1>2, <1>3, <1>4, <2>2 DEF Usable
  <2>4. QED
    BY <1>2, <2>1, <2>3, NothingNoticed
<1>8. QED
  BY <1>5, <1>6, <1>7

(* Every other step is one of the frame.                                   *)
LEMMA OtherStepsFrame ==
  ASSUME AccountsInv, NEW r \in Request
  PROVE  /\ RegisterCheck(r) \/ GoogleFind(r) => TokenFrame /\ UNCHANGED expired
         /\ \A a \in {None, External} : GoogleSave(r, a) => TokenFrame /\ UNCHANGED expired
         /\ \A send \in SUBSET Picture : ProfileFind(r, send) => TokenFrame /\ UNCHANGED expired
         /\ DeleteOld(r) \/ DeleteRefused(r) \/ Write(r) => TokenFrame /\ UNCHANGED expired
         /\ \A k \in Key : Upload(r, k) => TokenFrame /\ UNCHANGED expired
<1>0. TypeOK /\ TokensAreOwn
  BY DEF AccountsInv
<1>1. ASSUME RegisterCheck(r) \/ GoogleFind(r) PROVE TokenFrame /\ UNCHANGED expired
  <2>1. SlotsOf({r}) /\ Op(r) = "idle" /\ request'[r] \in {[op |-> "register"], [op |-> "google"]}
    BY <1>0, <1>1, TokenSteps DEF RegisterCheck, GoogleFind, Op, Proceed, TypeOK
  <2>2. Op(r)' \in {"idle", "register", "google"}
    BY <2>1 DEF Op, Idle
  <2>3. QED
    BY <1>1, <2>1, <2>2
       DEF TokenFrame, SlotsOf, TokenOps, RegisterCheck, GoogleFind, rowVars, tokenVars
<1>2. ASSUME NEW a \in {None, External}, GoogleSave(r, a) PROVE TokenFrame /\ UNCHANGED expired
  <2>1. SlotsOf({r}) /\ Op(r) = "google" /\ Op(r)' = "idle"
    BY <1>0, <1>2, TokenSteps DEF GoogleSave, Finish, Proceed, Op, Idle, TypeOK
  <2>2. QED
    BY <1>2, <2>1 DEF TokenFrame, SlotsOf, TokenOps, GoogleSave, tokenVars
<1>3. ASSUME NEW send \in SUBSET Picture, ProfileFind(r, send) PROVE TokenFrame /\ UNCHANGED expired
  <2>1. \A q \in Request :
          \/ request'[q] = request[q]
          \/ (Op(q) = "idle" \/ (Op(q) = "profile" /\ request[q] \in Update)) /\ request'[q].op = "profile"
    BY <1>0, <1>3, Shapes DEF ProfileFind, Op, Update
  <2>2. \A q \in Request : \/ request'[q] = request[q]
                           \/ Op(q) \notin TokenOps /\ Op(q)' \notin TokenOps
    BY <2>1 DEF Op, Idle, TokenOps
  <2>3. QED
    BY <1>3, <2>2 DEF TokenFrame, ProfileFind, rowVars, tokenVars
<1>4. ASSUME DeleteOld(r) \/ DeleteRefused(r) \/ Write(r) \/ \E k \in Key : Upload(r, k)
      PROVE  TokenFrame /\ UNCHANGED expired
  <2>1. SlotsOf({r}) /\ Op(r) = "profile" /\ request'[r] \in Update \cup {None}
    <3>1. CASE DeleteOld(r) \/ DeleteRefused(r)
      <4>1. SlotsOf({r}) /\ request[r] \in Update /\ request'[r] = [request[r] EXCEPT !.cleared = TRUE]
        BY <1>0, <3>1, UpdateSteps
      <4>2. QED
        BY <3>1, <4>1 DEF DeleteOld, DeleteRefused, Update
    <3>2. CASE Write(r)
      BY <1>0, <3>2, UpdateSteps DEF Write
    <3>3. CASE \E k \in Key : Upload(r, k)
      BY <1>0, <3>3, UpdateSteps DEF Upload
    <3>4. QED
      BY <1>4, <3>1, <3>2, <3>3
  <2>2. Op(r)' \in {"profile", "idle"}
    BY <2>1 DEF Op, Idle, Update
  <2>3. QED
    BY <1>4, <2>1, <2>2
       DEF TokenFrame, SlotsOf, TokenOps, DeleteOld, DeleteRefused, Write, Upload, rowVars, tokenVars
<1>5. QED
  BY <1>1, <1>2, <1>3, <1>4

LEMMA NextPromise == AccountsInv /\ [Next]_vars => [Promise!Next]_Noticed
<1> SUFFICES ASSUME AccountsInv, [Next]_vars PROVE [Promise!Next]_Noticed
  OBVIOUS
<1>0. TypeOK /\ TokensAreOwn
  BY DEF AccountsInv
<1>1. ASSUME NEW addresses \in [Picture -> Given], SaveUser(addresses)
      PROVE  [Promise!Next]_Noticed
  <2>1. TokenFrame /\ UNCHANGED expired
    BY <1>1 DEF SaveUser, TokenFrame, tokenVars
  <2>2. QED
    BY <2>1, FrameNotNoticed
<1>2. ASSUME NEW r \in Request, NEW d \in Device, RegisterCreate(r, d) \/ Login(r, d)
      PROVE  [Promise!Next]_Noticed
  <2>1. SlotsOf({r}) /\ Op(r) \in {"register", "idle"} /\ UNCHANGED tokenVars
    BY <1>0, <1>2, TokenSteps DEF RegisterCreate, Login, Op
  <2>2. request'[r] \in {None, [op |-> "issue", device |-> d, parent |-> None]}
    BY <1>0, <1>2 DEF RegisterCreate, Login, Finish, Proceed, TypeOK
  <2>3. QED
    BY <2>1, <2>2, LoginNotNoticed DEF TokenOps
<1>3. ASSUME NEW r \in Request,
             \/ RegisterCheck(r) \/ GoogleFind(r)
             \/ \E picture \in {None, External} : GoogleSave(r, picture)
             \/ \E send \in SUBSET Picture : ProfileFind(r, send)
             \/ DeleteOld(r) \/ DeleteRefused(r) \/ Write(r)
             \/ \E k \in Key : Upload(r, k)
      PROVE  [Promise!Next]_Noticed
  <2>1. TokenFrame /\ UNCHANGED expired
    BY <1>3, OtherStepsFrame
  <2>2. QED
    BY <2>1, FrameNotNoticed
<1>4. ASSUME NEW r \in Request, NEW d \in Device, RefreshFind(r, d)
      PROVE  [Promise!Next]_Noticed
  BY <1>4, FindNoticed
<1>5. ASSUME NEW r \in Request, RefreshDelete(r) \/ Answer(r) \/ Fail(r)
      PROVE  [Promise!Next]_Noticed
  BY <1>5, DeleteNotNoticed, AnswerNotNoticed, FailNoticed
<1>6. ASSUME NEW t \in Token, Expire(t) \/ \E r \in Request : Issue(r, t)
      PROVE  [Promise!Next]_Noticed
  BY <1>6, ExpireNoticed, IssueNoticed
<1>7. CASE UNCHANGED vars
  <2>1. TokenFrame /\ UNCHANGED expired
    BY <1>7 DEF vars, rowVars, tokenVars, TokenFrame
  <2>2. QED
    BY <2>1, FrameNotNoticed
<1>8. QED
  BY <1>1, <1>2, <1>3, <1>4, <1>5, <1>6, <1>7 DEF Next

(* A refresh token works until it is exchanged, once and at one instant,   *)
(* whatever overlaps, fails or is tried again, unless it was found twice.  *)
THEOREM TokensAreExchangedOnce == Spec => TokensWorkOnce
<1>1. AccountsInv /\ [Next]_vars => [Promise!Next]_Noticed
  BY NextPromise
<1>2. QED
  BY <1>1, InitPromise, AccountsInvariant, PTL DEF Spec, TokensWorkOnce, Promise!Spec, Noticed

=============================================================================
