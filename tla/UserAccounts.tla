---------------------------- MODULE UserAccounts ----------------------------
(***************************************************************************)
(* The row of one person in the table of users, and what hangs on it: the  *)
(* routes that make it (registration in both apps, the first login with    *)
(* Google), the refresh tokens of the Taskiti app, and the pictures of the *)
(* profile, whose files are in a bucket.  Every handler is a row of        *)
(* awaited calls; several may be under way and each may fail at any await. *)
(*                                                                         *)
(* A token is known by its value: the hash that the database keeps is only *)
(* ever compared with it.  A file is known by its folder and its random    *)
(* name.  Access tokens, which are signed and never stored, are left out,  *)
(* and with them the routes that only answer one (users/login, verify);    *)
(* the codes of the e-mail are the matter of EmailVerification.            *)
(***************************************************************************)
EXTENDS Naturals, FiniteSets

CONSTANTS
  Request,   \* slots for concurrent requests
  Device,    \* installations of the Taskiti app
  Token,     \* refresh tokens that may be drawn; none is drawn twice
  Key,       \* random names of files; a name is drawn while nothing has it
  External,  \* any address that is not in the bucket
  Given,     \* addresses that a registration brings along
  None       \* no token, no address, no request

ASSUME AccountsAssumption ==
  /\ None \notin Token \cup Key \cup {External}
  /\ External \notin Key
  /\ Given \subseteq {External, None}

VARIABLES
  account,   \* how the row was made: "password", "google", or "absent"
  profile,   \* [Picture -> the address in the row]
  storage,   \* [Picture -> the files in the folder]
  sessions,  \* refresh tokens with a row
  expired,   \* tokens whose 30 days are over
  held,      \* [Device -> the refresh token it was last answered]
  request,   \* [Request -> what is being served]
  parent,    \* history: [drawn tokens -> the token each was exchanged for]
  forked,    \* history: tokens that two overlapping refreshes found
  cut,       \* history: tokens whose refresh failed after deleting them
  torn,      \* history: pictures two updates overlapped on, or one failed on,
             \* since the last update of them that did neither
  leaked     \* history: pictures of which a file may be left behind, since
             \* updates overlapped or failed or the bucket refused a delete

rowVars == <<account, profile, storage>>
tokenVars == <<sessions, expired, held, parent, forked, cut>>
pictureVars == <<torn, leaked>>
vars == <<rowVars, tokenVars, pictureVars, request>>

-----------------------------------------------------------------------------
Picture == {"avatar", "banner"}
Address == Key \cup {External, None}
NoPictures == [p \in Picture |-> None]

\* An update of the profile.  send: the pictures that came with the request;
\* todo: those of them that are not uploaded yet; cleared: the old file of the
\* first of these is deleted; clashed (history): what overlapping updates sent.
Update ==
  [op: {"profile"}, address: [Picture -> Address], send: SUBSET Picture,
   todo: SUBSET Picture, cleared: BOOLEAN, clashed: SUBSET Picture]

Step ==
  [op: {"register", "google"}] \cup Update
    \cup [op: {"refresh"}, device: Device, token: Token]
    \cup [op: {"issue"}, device: Device, parent: Token \cup {None}]
    \cup [op: {"answer"}, device: Device, parent: Token \cup {None}, token: Token]

ASSUME NoneIsNoStep == None \notin Step

Idle(r) == request[r] = None
Op(r) == IF Idle(r) THEN "idle" ELSE request[r].op
Proceed(r, step) == request' = [request EXCEPT ![r] = step]
Finish(r) == Proceed(r, None)

Drawn == DOMAIN parent

\* The avatar comes first.
Current(todo) == IF "avatar" \in todo THEN "avatar" ELSE "banner"

\* The database and the updates under way name k.
Named(p, k) ==
  \/ profile[p] = k
  \/ \E r \in Request : Op(r) = "profile" /\ request[r].address[p] = k

\* A refresh that has deleted t and has not been answered.
InExchange(t) ==
  \E r \in Request : Op(r) \in {"issue", "answer"} /\ request[r].parent = t

\* The update r has deleted the file of the picture, if there was one.
Replaced(r, p) ==
  /\ Op(r) = "profile"
  /\ \/ p \in request[r].send \ request[r].todo
     \/ request[r].cleared /\ p = Current(request[r].todo)

-----------------------------------------------------------------------------
Init ==
  /\ account = "absent"
  /\ profile = NoPictures
  /\ storage = [p \in Picture |-> {}]
  /\ sessions = {} /\ expired = {}
  /\ held = [d \in Device |-> None]
  /\ request = [r \in Request |-> None]
  /\ parent = [t \in {} |-> None]
  /\ forked = {} /\ cut = {} /\ torn = {} /\ leaked = {}

-----------------------------------------------------------------------------
(* Plausible bugs.                                                         *)

\* A registration that saves by the e-mail and not by a new id.
RegisterOverwrites(r, d) ==
  /\ Op(r) = "register"
  /\ account' = "password"
  /\ Proceed(r, [op |-> "issue", device |-> d, parent |-> None])
  /\ UNCHANGED <<profile, storage, tokenVars, pictureVars>>

\* A refresh that looks among all tokens.
RefreshFindExpired(r, d) ==
  /\ Idle(r) /\ held[d] \in sessions
  /\ Proceed(r, [op |-> "refresh", device |-> d, token |-> held[d]])
  /\ forked' = forked \cup
       {held[d] : s \in {q \in Request : Op(q) = "refresh" /\ request[q].token = held[d]}}
  /\ UNCHANGED <<rowVars, sessions, expired, held, parent, cut, pictureVars>>

\* A refresh that leaves the deletion of the token to its expiry.
RefreshKeeps(r) ==
  /\ Op(r) = "refresh"
  /\ Proceed(r, [op |-> "issue", device |-> request[r].device, parent |-> request[r].token])
  /\ UNCHANGED <<rowVars, tokenVars, pictureVars>>

\* A refresh that deletes the tokens of the user, as revokeRefreshTokens does.
RefreshRevokesAll(r) ==
  /\ Op(r) = "refresh"
  /\ sessions' = {}
  /\ Proceed(r, [op |-> "issue", device |-> request[r].device, parent |-> request[r].token])
  /\ UNCHANGED <<rowVars, expired, held, parent, forked, cut, pictureVars>>

\* An update that fills the fields that are empty.
WriteKeepsOld(r) ==
  /\ Op(r) = "profile" /\ request[r].todo = {}
  /\ profile' = [p \in Picture |->
       IF profile[p] = None THEN request[r].address[p] ELSE profile[p]]
  /\ torn' = torn \ (request[r].send \ request[r].clashed)
  /\ Finish(r)
  /\ UNCHANGED <<account, storage, tokenVars, leaked>>

\* An update that uploads without deleting.
DeleteNothing(r) ==
  /\ Op(r) = "profile" /\ request[r].todo # {} /\ ~request[r].cleared
  /\ request[r].address[Current(request[r].todo)] # None
  /\ request' = [request EXCEPT ![r].cleared = TRUE]
  /\ UNCHANGED <<rowVars, tokenVars, pictureVars>>

-----------------------------------------------------------------------------
(* The row: POST users/save, POST auth/taskiti/register and the first      *)
(* POST auth/google/mobile.  The e-mail is unique in the table.            *)

\* The addresses of the pictures come with the body.
SaveUser(addresses) ==
  /\ account = "absent"
  /\ account' = "password"
  /\ profile' = addresses
  /\ UNCHANGED <<storage, tokenVars, pictureVars, request>>

RegisterCheck(r) ==
  /\ Idle(r) /\ account = "absent"
  /\ Proceed(r, [op |-> "register"])
  /\ UNCHANGED <<rowVars, tokenVars, pictureVars>>

\* The insert fails if the row has been made since the check.
RegisterCreate(r, d) ==
  /\ Op(r) = "register"
  /\ IF account = "absent"
     THEN /\ account' = "password"
          /\ Proceed(r, [op |-> "issue", device |-> d, parent |-> None])
     ELSE Finish(r) /\ UNCHANGED account
  /\ UNCHANGED <<profile, storage, tokenVars, pictureVars>>

GoogleFind(r) ==
  /\ Idle(r) /\ account = "absent"
  /\ Proceed(r, [op |-> "google"])
  /\ UNCHANGED <<rowVars, tokenVars, pictureVars>>

\* The upsert is by the new id, so that it only ever inserts.
GoogleSave(r, picture) ==
  /\ Op(r) = "google"
  /\ IF account = "absent"
     THEN account' = "google" /\ profile' = [NoPictures EXCEPT !["avatar"] = picture]
     ELSE UNCHANGED <<account, profile>>
  /\ Finish(r)
  /\ UNCHANGED <<storage, tokenVars, pictureVars>>

-----------------------------------------------------------------------------
(* The sessions of the Taskiti app.                                        *)

\* POST auth/taskiti/login: comparing a row without a password throws.
Login(r, d) ==
  /\ Idle(r) /\ account = "password"
  /\ Proceed(r, [op |-> "issue", device |-> d, parent |-> None])
  /\ UNCHANGED <<rowVars, tokenVars, pictureVars>>

\* POST auth/taskiti/refresh: no match among the tokens that are not expired
\* is a 401, which changes nothing.
RefreshFind(r, d) ==
  /\ Idle(r) /\ held[d] \in sessions \ expired
  /\ Proceed(r, [op |-> "refresh", device |-> d, token |-> held[d]])
  /\ forked' = forked \cup
       {held[d] : s \in {q \in Request : Op(q) = "refresh" /\ request[q].token = held[d]}}
  /\ UNCHANGED <<rowVars, sessions, expired, held, parent, cut, pictureVars>>

\* Whether there was a row to delete is not looked at.
RefreshDelete(r) ==
  /\ Op(r) = "refresh"
  /\ sessions' = sessions \ {request[r].token}
  /\ Proceed(r, [op |-> "issue", device |-> request[r].device, parent |-> request[r].token])
  /\ UNCHANGED <<rowVars, expired, held, parent, forked, cut, pictureVars>>

\* generateRefreshToken, for a registration, a login or a refresh.
Issue(r, t) ==
  /\ Op(r) = "issue" /\ t \notin Drawn
  /\ sessions' = sessions \cup {t}
  /\ parent' = [u \in Drawn \cup {t} |-> IF u = t THEN request[r].parent ELSE parent[u]]
  /\ Proceed(r, [op |-> "answer", device |-> request[r].device,
                 parent |-> request[r].parent, token |-> t])
  /\ UNCHANGED <<rowVars, expired, held, forked, cut, pictureVars>>

Answer(r) ==
  /\ Op(r) = "answer"
  /\ held' = [held EXCEPT ![request[r].device] = request[r].token]
  /\ Finish(r)
  /\ UNCHANGED <<rowVars, sessions, expired, parent, forked, cut, pictureVars>>

Expire(t) ==
  /\ t \in sessions \ expired
  /\ expired' = expired \cup {t}
  /\ UNCHANGED <<rowVars, sessions, held, parent, forked, cut, pictureVars, request>>

-----------------------------------------------------------------------------
(* PATCH users/profile/update, which sends no picture, and POST            *)
(* users/profile/upload.  The fields of the text are left out.             *)

ProfileFind(r, send) ==
  LET others == {q \in Request : Op(q) = "profile"}
      clash(q) == send \cup request[q].send
      all == UNION {clash(q) : q \in others}
  IN /\ Idle(r) /\ account # "absent"
     /\ request' = [q \in Request |->
          IF q = r
          THEN [op |-> "profile", address |-> profile, send |-> send, todo |-> send,
                cleared |-> FALSE, clashed |-> all]
          ELSE IF q \in others THEN [request[q] EXCEPT !.clashed = @ \cup clash(q)]
          ELSE request[q]]
     /\ torn' = torn \cup all
     /\ leaked' = leaked \cup all
     /\ UNCHANGED <<rowVars, tokenVars>>

\* The file of the address that was read; there is no file of an external one.
DeleteOld(r) ==
  LET p == Current(request[r].todo)
  IN /\ Op(r) = "profile" /\ request[r].todo # {} /\ ~request[r].cleared
     /\ request[r].address[p] # None
     /\ storage' = [storage EXCEPT ![p] = @ \ {request[r].address[p]}]
     /\ request' = [request EXCEPT ![r].cleared = TRUE]
     /\ UNCHANGED <<account, profile, tokenVars, pictureVars>>

\* deleteFile logs what the bucket throws and returns.
DeleteRefused(r) ==
  LET p == Current(request[r].todo)
  IN /\ Op(r) = "profile" /\ request[r].todo # {} /\ ~request[r].cleared
     /\ request[r].address[p] # None
     /\ leaked' = leaked \cup {p}
     /\ request' = [request EXCEPT ![r].cleared = TRUE]
     /\ UNCHANGED <<rowVars, tokenVars, torn>>

Upload(r, k) ==
  LET p == Current(request[r].todo)
  IN /\ Op(r) = "profile" /\ request[r].todo # {}
     /\ request[r].cleared \/ request[r].address[p] = None
     /\ k \notin storage[p] /\ ~Named(p, k)
     /\ storage' = [storage EXCEPT ![p] = @ \cup {k}]
     /\ request' = [request EXCEPT ![r].address[p] = k, ![r].todo = @ \ {p},
                                   ![r].cleared = FALSE]
     /\ UNCHANGED <<account, profile, tokenVars, pictureVars>>

\* Both addresses are written, those that were only read as well.
Write(r) ==
  /\ Op(r) = "profile" /\ request[r].todo = {}
  /\ profile' = request[r].address
  /\ torn' = torn \ (request[r].send \ request[r].clashed)
  /\ Finish(r)
  /\ UNCHANGED <<account, storage, tokenVars, leaked>>

-----------------------------------------------------------------------------
\* A request ends at an await: the process stops, the database or the bucket
\* fails, or the answer is lost.
Fail(r) ==
  /\ ~Idle(r)
  /\ cut' = cut \cup (IF Op(r) \in {"issue", "answer"} THEN {request[r].parent} \ {None} ELSE {})
  /\ IF Op(r) = "profile"
     THEN LET uploaded == request[r].send \ request[r].todo
              deleted == IF request[r].cleared THEN {Current(request[r].todo)} ELSE {}
          IN torn' = torn \cup uploaded \cup deleted /\ leaked' = leaked \cup uploaded
     ELSE UNCHANGED pictureVars
  /\ Finish(r)
  /\ UNCHANGED <<rowVars, sessions, expired, held, parent, forked>>

Next ==
  \/ \E addresses \in [Picture -> Given] : SaveUser(addresses)
  \/ \E t \in Token : Expire(t)
  \/ \E r \in Request :
       \/ RegisterCheck(r) \/ GoogleFind(r)
       \/ \E picture \in {None, External} : GoogleSave(r, picture)
       \/ \E d \in Device : RegisterCreate(r, d) \/ Login(r, d) \/ RefreshFind(r, d)
       \/ RefreshDelete(r) \/ Answer(r)
       \/ \E t \in Token : Issue(r, t)
       \/ \E send \in SUBSET Picture : ProfileFind(r, send)
       \/ DeleteOld(r) \/ DeleteRefused(r) \/ Write(r)
       \/ \E k \in Key : Upload(r, k)
       \/ Fail(r)

Spec == Init /\ [][Next]_vars

-----------------------------------------------------------------------------
TypeOK ==
  /\ account \in {"absent", "password", "google"}
  /\ profile \in [Picture -> Address]
  /\ storage \in [Picture -> SUBSET Key]
  /\ Drawn \subseteq Token /\ parent \in [Drawn -> Drawn \cup {None}]
  /\ sessions \subseteq Drawn /\ expired \subseteq Drawn
  /\ held \in [Device -> Drawn \cup {None}]
  /\ request \in [Request -> Step \cup {None}]
  /\ forked \subseteq Drawn /\ cut \subseteq Token
  /\ torn \subseteq Picture /\ leaked \subseteq Picture

\* The route that made a row first keeps it: a second registration or a first
\* login with Google that raced with it does not change the password or the
\* name of what is there (both look for the e-mail before they write).
FirstComerStays == [][account # "absent" => account' = account]_vars

\* A refresh token is exchanged for one token only, across retries, lost
\* answers and failures, unless two refreshes found it before one of them
\* deleted it (the number of deleted rows is not looked at).
OneHeir ==
  \A t, u \in Drawn :
    t # u /\ parent[t] = parent[u] /\ parent[t] # None => parent[t] \in forked

\* A device that has a refresh token has a session, or is about to be answered
\* the next one, whatever the other devices and its own overlapping refreshes
\* do; only a refresh that fails after it has deleted the token ends it.
SessionsLast ==
  \A d \in Device :
    held[d] = None \/ held[d] \in sessions \cup cut \/ InExchange(held[d])

\* The profile shows pictures that exist, unless updates overlapped or failed
\* half-way, and until the next update of the picture that did neither.  While
\* a picture is being replaced it is gone: the old file is deleted first.
PicturesExist ==
  \A p \in Picture \ torn :
    \/ profile[p] \in storage[p] \cup {None, External}
    \/ \E r \in Request : Replaced(r, p)

\* No file is left in the bucket that neither the profile nor an update under
\* way knows, unless updates overlapped or failed after an upload, or the
\* bucket refused a delete.
NothingLeftBehind ==
  \A p \in Picture \ leaked : \A k \in storage[p] : Named(p, k)

-----------------------------------------------------------------------------
(* What keeps them.                                                        *)

\* A row made by Google has no password, hence no sessions in Taskiti.
TokensNeedPassword ==
  Drawn # {} \/ (\E r \in Request : Op(r) \in {"refresh", "issue", "answer"})
    => account = "password"

\* Nothing is stored for a person who has no row.
RowComesFirst ==
  account = "absent" =>
    /\ \A p \in Picture : storage[p] = {}
    /\ \A r \in Request : Op(r) # "profile"

\* r will exchange t for a token that is not drawn yet.
Exchanging(r, t) ==
  \/ Op(r) = "refresh" /\ request[r].token = t
  \/ Op(r) = "issue" /\ request[r].parent = t
HasHeir(t) == \E u \in Drawn : parent[u] = t

\* Only a token that was found twice is exchanged again, or has a row left; the
\* row of another is there until the refresh that found it deletes it.
ExchangedOnce ==
  \A t \in Drawn \ forked, r \in Request :
    /\ Op(r) = "refresh" /\ request[r].token = t => t \in sessions
    /\ Exchanging(r, t) => ~HasHeir(t) /\ \A q \in Request \ {r} : ~Exchanging(q, t)
    /\ HasHeir(t) \/ (Op(r) = "issue" /\ request[r].parent = t) => t \notin sessions

\* Nobody knows a token before it is answered, nor another device's token.
TokensAreOwn ==
  /\ \A d, e \in Device : held[d] = held[e] /\ held[d] # None => d = e
  /\ \A r \in Request :
       /\ Op(r) = "refresh" => /\ request[r].token \in Drawn
                               /\ \A d \in Device : held[d] = request[r].token => d = request[r].device
       /\ Op(r) \in {"issue", "answer"} =>
            /\ request[r].parent \in Drawn \cup {None}
            /\ request[r].parent # None =>
                 \A d \in Device : held[d] = request[r].parent => d = request[r].device
       /\ Op(r) = "answer" =>
            /\ request[r].token \in sessions
            /\ \A d \in Device : held[d] # request[r].token
            /\ \A q \in Request :
                 /\ ~Exchanging(q, request[r].token)
                 /\ Op(q) = "answer" => /\ request[q].parent # request[r].token
                                        /\ q # r => request[q].token # request[r].token

\* Updates that overlap know it, and what they sent is torn and leaked.
OverlapsAreKnown ==
  \A r \in Request : Op(r) = "profile" =>
    /\ request[r].todo \subseteq request[r].send
    /\ request[r].cleared => request[r].todo # {}
    /\ request[r].clashed \subseteq torn \cap leaked
    /\ \A q \in Request \ {r} : Op(q) = "profile" =>
         request[r].send \cup request[q].send \subseteq request[r].clashed

\* What an update has not replaced it knows as it is; what it has uploaded
\* nobody else knows.
AddressesAreCurrent ==
  \A r \in Request, p \in Picture : Op(r) = "profile" =>
    LET k == request[r].address[p]
    IN IF p \in request[r].send \ request[r].todo
       THEN /\ k \in storage[p] /\ k # profile[p]
            /\ \A q \in Request \ {r} : Op(q) = "profile" => request[q].address[p] # k
       ELSE p \notin torn \cap leaked => k = profile[p]

\* A replaced file is gone, unless its picture is leaked.
OldFilesAreGone ==
  \A r \in Request, p \in Picture \ leaked : Replaced(r, p) => profile[p] \notin storage[p]

AccountsInv ==
  /\ TypeOK /\ OneHeir /\ SessionsLast /\ PicturesExist /\ NothingLeftBehind
  /\ RowComesFirst /\ TokensNeedPassword /\ ExchangedOnce /\ TokensAreOwn
  /\ OverlapsAreKnown /\ AddressesAreCurrent /\ OldFilesAreGone

-----------------------------------------------------------------------------
(* UserAccounts implements SingleUseTokens.                                *)

\* A token is usable until its heir has a row: the refresh that has deleted
\* its row is what uses it.
Kept == Drawn \ forked
Heir == [t \in Kept |-> IF HasHeir(t) THEN CHOOSE u \in Drawn : parent[u] = t ELSE None]
Usable == {t \in Kept : t \in sessions \ expired \/ \E r \in Request : Exchanging(r, t)}
Over == (expired \cup cut) \ forked

Promise == INSTANCE SingleUseTokens
             WITH heir <- Heir, usable <- Usable, over <- Over, broken <- forked

\* A refresh token works until it is exchanged, and is exchanged once and at
\* one instant, whatever requests overlap, fail or are tried again and whatever
\* other tokens of the user are drawn, used or over; this holds until the
\* token is found by two overlapping refreshes.
TokensWorkOnce == Promise!Spec

=============================================================================
