# A verification project for malet-backend

malet-backend is a NestJS server over Prisma and PostgreSQL: a wallet of
accounts and transactions, an offline sync for its clients, the tasks of a
second application (Taskiti) with a sync of their own, users with an e-mail
verification, and some smaller parts. This directory holds TLA+ modules of the
parts that keep state under concurrency and failure, TLC runs that check them
on small instances, and TLAPS proofs of the invariants that matter most for
every instance.

Every handler is an `async` function: between two `await`s any other request
runs, and the process may stop. Each Prisma call is a database transaction of
its own under READ COMMITTED unless it is inside a `$transaction`. A step of
the modules is therefore one statement, or one `$transaction`, of the code; what
a handler has read is carried to its later steps in a record (`request`,
`edit`, `pull`), where it can grow stale.

## 1. Inventory

| Part | State | Operations | What is hard | What must hold | Module |
|---|---|---|---|---|---|
| Wallet ledger (`context/wallet`) | `accounts` (balance, deleted_at), `transactions` (type, amount, deleted_at) | save, complete, delete, restore of a transaction; create, show, PUT, trash, restore of an account | balance and row are two statements; decisions on rows read earlier; absolute balances from clients | the balance contains every settled, live transaction once | `WalletLedger` |
| Trash cleanup (`wallet/infrastructure/adapters/tasks`) | the nightly lists | list, delete one by one | refused deletes, process stops, restores in between | what expired leaves the trash | `TrashCleanup`, and `WalletLedger` for the races |
| Transaction tags | `transaction_tag`, `transaction_tag_assignment` | create, update, delete, assign, remove; tags of a saved transaction; pushed tags and assignments | check-then-act on the limit of 10; upsert of a stale row; a pull without a cursor | the limit; a deleted tag stays deleted; an ended pull had all assignments | `TransactionTags` |
| History and lists | none | eight paged reads | pages by a cursor while rows move | a walk to the end shows each row that stayed where it was, once | `PagedLists` |
| Sync push (`context/sync`) | `client_ops` and all wallet tables | a batch of operations with client ids | apply and cache are two commits; retries; overlap | applied once, answered truly | `SyncPush` |
| Sync pull (`context/sync`) | none; reads `updated_at` | pages after a cursor | who dates rows, when, and with which resolution | a device has what it has passed | `SyncPull` |
| Taskiti tasks (`context/taskiti`) | `taskiti_tasks` | POST, PATCH, DELETE, sync, hourly and nightly purges | read, decide, write; versions; sync dates; lost answers | changes reach every device; versions move with content | `TaskitiSync` |
| Taskiti analytics | daily records | precompute, GET analytics, purge of completed tasks | recomputation races the purge; calendar arithmetic | a settled day keeps its completions; streaks agree with the days | `TaskitiAnalytics` |
| Taskiti sessions | `taskiti_refresh_tokens` | login, register, refresh | two refreshes with one token; a failure between delete and create | one token in, one token out; a session lasts | `UserAccounts` |
| Registration and verification (`context/users`) | `user.email_verified`, `email_verification_token`, the mailbox | register, resend, verify | deletes before mails, overlapping requests | the last mailed code works | `EmailVerification` |
| Login (local, Google) | `user` | find or create, sign | two first logins, or a login and a registration | the first row stays as it was made | `UserAccounts` |
| Profile and file storage | `user.avatar_url`, files in S3 | upload, replace | delete before upload before write; two updates | the row names a file that exists; no file is left behind | `UserAccounts` |
| Shared accounts | `shared_accounts` | CRUD with a trash | rows move while they are listed | as for lists | `PagedLists` |
| Authorization policies | none | resolve, compare owners | the resource is read before the handler reads it again | a decision is of the row that is written | `WalletLedger` (the resolution of `PolicyGuard`) |
| Request filtering | a bounded cache of verdicts | detect | — | — | not modelled |
| Updater, Garzon client, ids, mail, debug routes | a file; none | — | one process, pure functions, other services | — | not modelled |

The parts meet in the database. REST routes and sync push write the same
wallet rows; REST moves the balance with a transaction, sync push does not. Sync
pull sees every writer through `updated_at` alone. The cleanup of accounts
cascades into transactions and their tags. Taskiti's purges delete rows that
its sync answers from. The README of the repository names further contexts
(communities, feed, messaging, integrations, chat, onboarding); they are not in
the source tree.

The hazards, line by line, are in `PROJECT.json`. Many of them are races that the
code has and does not guard against. No property can then hold of the row, the
operation or the session that is hit: a history variable (`disturbed`, `torn`,
`resent`, `late`, `undated`, `split`, `forked`, `unlimited`, `clobbered`, `astray`)
or a premise (`NoGaps`) names it, and the property is about all others. So these
properties would not catch the hazard itself, which is known, but a second way
to the same harm; the note of each such hazard says which. Where a document
promises otherwise there is a violation run.

## 2. Plan

Written, in this order: the ledger and its cleanup, Taskiti sync, sync push,
e-mail verification, sync pull, `AtomicLedger` above the ledger; then tags, the
accounts of users with their sessions and files, the daily records of Taskiti,
and the lists; then the inductive invariants of e-mail verification, of the
Taskiti sync and of the daily records, and `AtMostOnce` above sync push; then
`SingleUseTokens` above the accounts of users, the streaks against the calendar
for any records, and the invariant of the nightly loops. Each was modelled statement by statement, checked, and proved where its property is a
safety property that no bounded instance settles.

Next, should the project go on:

1. The mailbox as an abstract specification above `EmailVerification`.
2. A page of a Taskiti sync that leaves out what the same body has pushed, over
   several tasks: `TaskitiSync` has the push and `PagedLists` the pages.
3. `PUT tags/:id` with content, once its DTO lets a body through.

A run answers a question of its own. What a violation run of earlier versions
showed (two concurrent DELETEs of a transaction revert its balance twice; a PATCH
of a task with an old version is written, where the contract says "Response 409
(conflicto)") is now part of the hazards that `wallet_races` and `taskiti_sync`
record as disturbances.

## 3. Modules and the code

### WalletLedger

`transaction` and `account` are the rows; `counted[t]` replaces the balance: how
often the amount of `t` is in the balance of its account. Increments commute, so
that this determines the sum for any amounts, and the model needs no numbers.
`PUT account` sends back a figure that was shown before, so a figure is a
snapshot of `counted`.

| Action | Code |
|---|---|
| `SaveCheck`, `SaveCreate`, `Credit` | `SaveTransactionService.execute`, `TransactionRepositoryAdapter.save`: check of the account, insert, increment |
| `CompleteRead`, `CompleteWrite`, `Credit` | `complete`: read, unconditional write of the type, increment |
| `DeleteFind`, `DeleteRead`, `DeleteCommit` | `DeleteTransactionService`, `delete`: the row read outside, then the `$transaction` |
| `RestoreRead`, `RestoreCommit` | `restore`: one `$transaction` at READ COMMITTED, so its read and its writes are two steps |
| `ShowAccount`, `PutCheck`, `PutWrite` | what a client was shown; `UpdateAccountService`, `update` |
| `TrashCheck/Write`, `RestoreAccountCheck/Write` | soft delete and restore of an account |
| `Expire`, `CleanupList`, `CleanupDelete`, `CleanupStop` | 30 days; `AccountCleanupTask` with the cascade of the schema |
| `Fail`, `EditFail` | an error or a process stop at any `await` |

`Resolved` is what `PolicyGuard` finds for the id in the path before the handler
runs: `ShowAccount`, `TrashCheck` and `RestoreAccountCheck` begin there.

`disturbed` is a history variable: the transactions that were hit by a stale
decision, a request that ended between its writes, the completion of a deleted
payment, or an outdated figure. The properties speak of the others. It is what
makes the result precise: these hazards are real and listed, and **nothing else**
puts the books wrong.

### AtomicLedger

The promise without the mechanism: a save, a completion, a delete, a restore and
a purge are one step each, and after each the share of the amount in the balance
is what the row says. `WalletLedger` implements it (`ActsAtomically`) under the
mapping `Book`: rows are the rows, a share is what is counted plus what a request
still owes (`Promised`), and a disturbed transaction leaves the book
(`Break`). So a save takes effect at its insert, a completion at its update, a
delete and a restore at their commit; and beyond the sum being right, no payment
is completed twice or in the trash, and nothing comes back from a purge.
`Atomic!Break` is the measure of what the code does not keep: it happens at the
statements that disturb, and at no other.

### TrashCleanup

Both midnight loops as sequences, a delete that is refused now and then or (for
accounts in `Stuck`) always, and process stops. `DeleteHard` does what the code
does: `BigInt` throws on every id that it is given. A loop is over before the
next midnight (`AccountList` begins with an empty list); `TrashInv` says what
follows of the lists: each has its rows once, and until its turn an account
keeps its row, whatever becomes of it (`DeletesFindRows`), since no route deletes
one for good. The names differ from those of `WalletLedger`, because
`WalletLedgerProofs` extends both.

### TaskitiSync

`row` is `taskiti_tasks`, `copy` and `lastSync` are a device's. `SyncBegin` takes
`now`; `SyncRead`, `SyncCommit` and `SyncPull` are the three statements of
`sync()` that follow; `Conflict`, `Creates`, `Deletes`, `Updates` are its
partition of what was pushed, by the rows that were read. The answer depends on
the body. `SyncPullOne` has one payload: its `sync_at` is `now`, and a device that
sends no `last_sync_at` is taken by the controller to have sent the present date,
so that what it has missed by then is disturbed. `SyncPullBatches` has batches:
without a date all rows are answered, and `sync_at` is taken by the controller
after the last batch. `UpdateRead/Write` and `RemoveRead/Write` are PATCH and
DELETE, which date the write between the read and the write (`Dates`); `Create` is
the idempotent POST, whose default date may be older than its commit; `Purge` the
purges. `Fail` loses an answer. The pages of an answer are in `PagedLists`. The device follows the contract
(`src/taskiti-api-contract.md`).

### SyncPush

An operation is known by its `client_id`. `Lookup` (the cache), `Find` (the record,
`Found`, and the checks), `Apply` (the `$transaction`), `Cache` (the insert into
`client_ops`), `CacheFails` and `Refuse` (what the catch answers), `Answer`. An acceptance
carries an empty `client_id` and a rejection that of its operation: what `Answer`
tells a device is that all of its batch was accepted but what is named as rejected.
`applied[op]` counts commits. What an operation writes is abstracted to the
row's existence, deletion and date; `Impossible` says which kinds the database
refuses a second time. `torn` and `resent` are histories: the operations that
two pushes overlapped in, or whose cache insert failed after their commit; and
those that were sent while an earlier push of them was unanswered.

### AtMostOnce

What the endpoint promises a device, without cache and lookups: an operation
takes effect at one instant at most, between its sending and the answer, and the
answer says so; only one that is sent twice may be told of a rejection that came
before it took effect. `SyncPush` implements it (`AppliesAtMostOnce`) with
`told`, `applied` and `resent` restricted to the operations that are not torn
(`Heard`, `Done`, `Twice`): `Push` is `Send`, `Apply` is `Apply`, `Answer` is
`Answer`, and every other step is unseen or, where it tears an operation, a
`Break`. Invariants cannot say this, as they do not relate a rejection to what
is applied after it: of an operation that was sent once and whose rejection was
answered, no `Apply` follows until it is sent again.

### SyncPull

Rows have a state, a number of writes (`rev`, standing for the content) and a
date. The clock ticks twice in a millisecond, because the database dates in
microseconds and the cursor, a JavaScript date, in milliseconds: `Ms` is that
conversion. `DatedBegin` and `DatedCommit` are the writers that take
`new Date()` and commit later (push, trash and restoration of an account);
`SaveTransaction` leaves the date to the default of the schema; `Change`,
`DeleteTransaction`, `RestoreTransaction` do not date at all; `Purge` removes.
`PullRead` is `pullChanges`, whose choice among rows of equal date is the
database's; `PullAnswer` is the rest of the handler and the device that follows
`next_cursor`. `late`, `undated`, `split` record which of the three hazards hit a
record last.

### EmailVerification

One user, his token rows by code and age, his mailbox. The steps are the awaited
calls of `CreateUserService`, `ResendVerificationService` and
`VerifyEmailService`. `disturbed` is set by overlapping requests and by failures
after a deletion, and cleared by the next resend that runs alone. `RecentlyMailed`
is the query behind the rate limit: it looks for a stored token that is young
enough, although verifications and resends delete tokens; `sinceCode` is the
clock that `CodesAreApart` holds against it.

### TransactionTags

`tag` and `assigned` are the two tables, `tx` whether the transaction of an
assignment is there. A handler carries in `request` what it has read.

| Action | Code |
|---|---|
| `CreateCheck`, `CreateInsert` | `createTag`: looks for the name in lower case, stores the normalised one, and the unique index, which has the deleted rows too, decides. The upsert is returned without `await`, so that its P2002 is answered as 500 and not as 409; the model ends the request (`Fail`). |
| `UpdateRead/Write`, `DeleteRead/Write` | `updateTag`, which saves the row it read, `deleted_at` included; `deleteTag` |
| `AssignRead`, `AssignCheck`, `AssignInsert`, `RemoveRead/Write` | `assignTagsToTransaction` and its removal: count, look up, insert |
| `SaveRow`, `SaveTags` | `POST transactions/save`: the tags follow the row, uncounted |
| `PushCreate/Update/Delete`, `PushAssign/Unassign` | the two tag entities of a push |
| `Pull` | `pullChanges` for assignments: a page of them, whatever the cursor says |
| `Purge`, `Fail` | the cascade from an account; any statement that fails |

The tags are those of one user. `assignTagsToTransaction` and the removal check
the owner of each tag and not that of the transaction, and no action depends on it.

`clobbered` has the tags that changed under an update, `unlimited` the
transactions that were given tags by a request that others had overtaken, or by
one that does not count. Of these the code promises nothing; of all others it
keeps the limit and the row.

### UserAccounts

One person. `account` is how his row was made, `profile` the addresses in it,
`storage` the files under his two folders, `sessions` the rows of
`taskiti_refresh_tokens`, `held` what each device was last answered.

| Action | Code |
|---|---|
| `SaveUser`, `RegisterCheck`, `RegisterCreate`, `GoogleFind`, `GoogleSave` | `CreateUserService` (whose mails are in `EmailVerification`), `TaskitiRegisterService`, the first Google login: look for the e-mail, then insert; the unique index decides a race |
| `Login`, `RefreshFind`, `RefreshDelete`, `Issue`, `Answer`, `Expire` | `TaskitiLoginService`, `TaskitiRefreshService`: find, delete (whose count is not looked at), create, answer |
| `ProfileFind`, `DeleteOld`, `DeleteRefused`, `Upload`, `Write` | the update of the profile: for each picture delete the old file, whose errors are logged and swallowed, upload the new one; then one update of the row |
| `Fail` | an error or a stop at any `await`, or an answer that is lost |

`TaskitiRegisterService` passes `verification_type: null` for a column that may
refuse it; a refusal is a `Fail`. Rows of expired tokens are never deleted, and
none is needed: `find` compares dates. `forked`, `cut`, `torn` and `leaked`
record the four hazards: two refreshes that both found a token, a refresh that
failed after its delete, and updates that overlapped or failed.

### SingleUseTokens

What the app is promised of a refresh token, without rows and requests: it works
until it is exchanged for another, which happens once and at one instant, and
only its own time or a failing exchange ends it. `UserAccounts` implements it
(`TokensWorkOnce`) under `Kept`, `Heir`, `Usable` and `Over`, of the tokens that
are not `forked`. The instant is the insert of the heir: `Issue` is `GiveOut` or
`Exchange`, and between the delete of the old row and that insert the token is
`Usable` still, by the request that holds it (`Exchanging`). `Expire` and a `Fail`
after the delete are `End`, a `RefreshFind` that finds what another holds is
`Break`, and every other step is unseen. Invariants do not say that a token which
nobody exchanges keeps working while others come and go; here nothing but `End`,
`Exchange` and `Break` takes a token out of `usable`.

### TaskitiAnalytics

`records` are the daily records, of which the completions are kept as the set
that is counted. `Precompute` and `GetAnalytics` begin the computations of the
hourly job and of `GET analytics`; `Read` is the query of `computeDay`, `Upsert`
(or `UpsertFails`, which is swallowed) its write; `SendAnalytics` the response,
`JobFails` an error or a stop. `HourPasses` is the clock, `PurgeCompleted` the
hourly purge, `Down` the process not running for an hour (no job is made up for),
`CreateTask`, `Complete`, `Reopen`, `EditTask`, `SyncUnchanged` are what writes a
task as far as a record sees it: a record counts a task on the day of its last
write, whatever that write was. `Longest` and `Current` are the loops of
`computeStreaks`: `Newest[n]` has the records of the last `n` days, newest first,
and `Runs[n]` the two counters once the first loop has been through them, as
functions of how far back the calendar was read. `LongestRun` is the reference,
over the calendar. The names differ from those of `TaskitiSync` where
the two have the same operation, since `TaskitiProofs` extends both.

What `PastIsCounted` excepts is what the code does not keep: a completed task
that was purged before its day was last computed, or written again later, leaves
the record of its day. Two computations of a past day may overlap: both have read
its rows after it was over, so whichever writes last, the record is complete. Of
today that is not so: a request that read first may write last, and `clashed`
records it. Streaks are those of the calendar only while no day is missing
between records, since the loops go over records; a record of a future day, which
a request may create, counts as a day without completion.

### PagedLists

`list` is one of eight: history and trash of transactions, accounts and deleted
accounts, shared accounts, tasks without and with the deleted ones
(`include_deleted`), and the answer of a Taskiti sync. `HistoryWhere`
... `SyncWhere` are their conditions, `Order` and `Ahead` their `orderBy`, `Rest`
what `cursor` with `skip: 1` selects, `HasMore` the two ways of announcing another
page, `CursorAt` the next cursor. The writers are the statements of all routes
that change such a row, as far as a list tells the difference.

`walk` is a client that goes from page to page. It goes `astray` when it asks for
a page after a row that was moved or removed, that shares its date with another,
or by an id in a list that is ordered by an index (a pushed transaction has
none): there the code promises nothing, and pages do lose rows and show some twice.
`steady` are the rows that stayed where they were.

## 4. Runs

| Run | Question | Instance and bounds |
|---|---|---|
| `wallet_races` | Are the books right, whatever overlaps, and does each request take effect at once? | 1 account, 2 transactions, 2 concurrent transaction requests (both may serve t1, one t2), 1 account edit. A share beyond ±1 is not explored further: it is disturbed by then. |
| `cleanup_accounts` | Does an expired account leave the trash, and does a deletion find its row? | 2 accounts, one refused for ever, 1 process stop |
| `taskiti_sync` | Does every change reach every device, do versions grow? | 2 devices, 1 task, 2 contents, 2 clock values, versions up to 3; not explored past a disturbance, of which the properties say nothing |
| `sync_push` | Once and only once, told truly, and at one instant between push and answer? | 3 operations of the kinds that fail when repeated, 2 pushes overlapping in one of them, 1 record that others write |
| `sync_pull` | Is a device up to date with what it has passed, and do pages end? | 3 records, one inserted with a date between milliseconds, pages of 2, 4 clock values, 2 writes of one record |
| `email_verification` | Does the last code work, and only it? Are codes apart? | 3 codes, 2 concurrent requests, rate limit of 2 ticks, expiry of 3 |
| `transaction_tags` | Who exceeds the limit of tags, who brings a tag back, and which pulls have all assignments? | 3 tags, 1 transaction, 1 name whose two slugs differ, limit 2, pages of 2, 2 concurrent requests (1 where a pull is spoken of); not explored past a disturbance |
| `user_accounts` | Whose session ends, whose token has two heirs, which picture is gone, which file is left? Does a token work until it is exchanged, once? | 2 devices, 3 tokens, 3 file names, 2 concurrent requests; a behaviour has tokens or pictures, which touch nothing in common (`Apart`) |
| `taskiti_analytics` | What is in the record of a past day, what does a request answer, when are streaks streaks? | 1 task, 2 computations, 2 days of 2 hours after 3 days of any records; what follows is explored from one such past (`OnePast`) |
| `paged_lists` | What does a walk through the pages show while rows are written? | each of the 8 lists, 3 rows, pages of 1 and of 2, 3 dates, clients date transactions 0 or 1; a walk is not followed after its end or once astray |
| `cleanup_transactions` (violation) | the transactions found "to permanently delete" are deleted | none ever is |
| `pull_deletions` (violation) | "Soft-delete: mark deleted_at and updated_at" | a device is never told of a DELETE |

Why the bounds are enough: each hazard is between two actors, so two slots meet
all of it, and the third party (cleanup, purge, other writers, another device)
is there in each instance; the proofs remove the bounds for the safety results
of all modules. In the wallet,
the second transaction is there so that requests move the same account while t1
is under way. In `sync_pull` three records are
one more than a page, which is what a split needs. The clocks have as many
values as there are dates to tell apart: before, at and after a cursor, and one
between milliseconds. Days of two hours are the shortest that are still computed
after the first purge of what was completed on them; three days of the past are
what a streak needs to end before the newest. With the rate limit at two ticks
and the expiry at three there are codes too young to be sent again, old enough
but alive, and dead. `CHECK_DEADLOCK FALSE` is in `wallet_races` and
`transaction_tags`, which run out of unsaved ids, in `taskiti_analytics`, whose
clock stops, and in `paged_lists`, whose walk ends.

The mutants named in `PROJECT.json` are the operators under "Plausible bugs" in
each module: a dropped guard, a missing cascade, a cache filled too early. With
one in place of the action it is named after, the run's property is violated.

## 5. Fairness

Only two runs assume any. In `TrashCleanup` the scheduler fires every midnight
and a loop that is not stopped goes on (weak fairness); a DELETE that is tried
every night is not refused for ever unless the account is `Stuck` (strong
fairness), which is the retry the code has: the next night's list. In `SyncPull`
a device that was told of more asks again, and not every answer is lost. There
`PagesEnd` is about finitely many writes (the clock and `rev` are bounded):
against an endless stream of writes a reader that asks for the newest can be
kept busy for ever. `PullAssumption` names what the code does need: with as
many rows dated inside one millisecond as fit in a page (or a page of one row),
`next_cursor` is before all of them, and the same page is served for ever.

## 6. Proofs

| Theorem | Establishes |
|---|---|
| `WalletLedgerProofs!LedgerInvariant` and from it `BooksAreRight`, `PendingStaysOut`, `RowsHaveAccounts`, `TypeCorrect` | the three properties of the ledger for any accounts, transactions and numbers of concurrent requests |
| `WalletLedgerProofs!RequestsAreAtomic` | `WalletLedger` implements `AtomicLedger` |
| `WalletLedgerProofs!TrashInvariant`, `DeletesAlwaysFindRows` | the nightly lists hold each row once and lose none before its turn, and the cascade is complete, for any finite tables and any number of stops |
| `TaskitiProofs!DeliveryInvariant`, `ChangesReachDevices`, `VersionsAlwaysGrow` | changes reach every device and versions grow, for any tasks, devices and contents, without the constraint of the run |
| `TaskitiProofs!AnalyticsInvariant`, `PastStaysCounted`, `AnswersStayFresh` | what is in the record of a settled day and what a request answers, for any tasks, computations, length of the day and past |
| `TaskitiProofs!StreaksFollowDays` | the two loops of `computeStreaks` compute the streaks of the calendar, for any number of days and any records without a gap |
| `SyncPushProofs!PushInvariant`, `AppliedExactlyOnce`, `DeviceIsToldTheTruth` | at most once, exactly once where not torn, and true answers, for any operations and overlapping pushes |
| `SyncPushProofs!OperationsAreAppliedAtMostOnce` | `SyncPush` implements `AtMostOnce` |
| `SyncPullProofs!PullInvariant`, `DeviceIsUpToDate` | a device has what it has passed, for any records, page size and clock |
| `TransactionTagsProofs!TagsInvariant`, `AtMostLimitTags`, `NoTagComesBack`, `EndedPullsAreComplete` | the limit, the rows of tags and the pulls, for any finite sets of tags and transactions, any limit and page |
| `UserAccountsProofs!AccountsInvariant`, `ExchangesOnce`, `KeepsSessions`, `ShowsPictures`, `LeavesNoFiles`, `KeepsFirstRow` | the five properties of `user_accounts`, for any devices, tokens, files and overlapping requests, without the bound `Apart` |
| `UserAccountsProofs!TokensAreExchangedOnce` | `UserAccounts` implements `SingleUseTokens` |
| `PagedListsProofs!PagesTyped`, `ListsAreComplete`, `ListsShowOnce` | complete walks and no row twice, for any rows, page sizes and dates, without the constraint of the run |
| `EmailVerificationProofs!VerificationHolds`, `LastCodeAlwaysWorks`, `NoCodeIsLeft`, `CodesStayApart` | the three properties of the codes, for any codes, clients, rate limit and expiry |

The assumptions are those that the modules name (`AccountOfAssumption`,
`NoneAssumption`, ...): functions have their domains, `None` is no id, tables are
finite where they are listed.

*Ledger.* `CountedOnce` is not inductive: between the two statements of a save
the balance lacks a credit. `CreditsAreOwedOnce` says who owes it and that
nobody else does; `ReadsAreBehind` what a request may still believe of its row
(a settled row never becomes pending again, a credit has a settled type);
`SavesAreAlone` that a row being inserted is known to one request;
`SharesAreSettled` that figures held by clients contain settled rows only;
`RowsFollowAccount` carries `NoOrphans` through the cascade.
The refinement rests on the same invariant: by it the book is a function of the
rows (`BookFollowsRows`), before and after every step, so that only the steps
that write a row or disturb one are seen (`RowStep`, `BreakStep`).

*Trash.* A list is made only when the one before is used up, and of rows that are
"expired", so that it begins without repetitions and with rows that are there
(`ListOfExpired`). A deletion purges the head, and the head is nowhere in the
rest (`RestOfList`): what is still to come keeps its row (`DeleteKeepsTrash`).
Restores and new deletions move rows between live, trash and expired, and purge
none (`RowsMoveInTrash`). That no transaction outlives its account is the cascade,
with `SoftDeleteTransaction` and `RestoreTransaction` refusing what is purged.

*Taskiti.* `Delivered` breaks at the answer of a sync, which raises `last_sync_at`
over what the device has pushed itself. `AnswersAreCurrent` says beforehand that
what the device will show of that is the row that is there: so it is at the commit
(`PushedIsShown`), and whoever writes the row before the answer is recorded
(`WriteKeeps`). `SentIsDirty` ties the push to the copies it came from. For
`VersionsGrow` only the row that was read and the one that is written need be
compared, write by write.

*Push.* `OneAtWork` is what `torn` buys: of an operation that is not torn one
push at most is past the lookup, and (`NotYetCached`) it is not cached there.
`BatchesApart` says that what was not resent is in one batch, of which the
device has not heard; `VerdictsAreTrue` carries the answers.
The refinement rests on the same invariant, with `BatchInOrder`: at the answer
every operation of the batch has a verdict, so that what is not accepted was
rejected, and (`VerdictsAreTrue`) is not applied unless it was sent twice. That
`Apply` comes before the device has heard is `BatchesApart`, that it comes once
`NotYetCached`. What is torn leaves the mapping (`TearIsBreak`).

*Analytics.* `PastIsCounted` is kept by an upsert only if what it writes is
complete, and that was decided at the read. `DoneIsThere` says of the rows what
the read finds: what was completed on a day is counted on it, or has left it for
good (`LeftDay`: purged, or written on a later day; never back, as time does not
go back and a purged task is not created again). `SeenIsComplete` carries this
from the read to the upsert, across whatever is written in between.
`AnswersAreFresh` needs `KnownIsKept`, in three stages: what a request has to
answer with is in the rows; once read, in what it has seen, and nobody else is
between reading and writing that day; once written, in the record, and in what
anybody has seen who is about to write it again. `TodoIsRange` is there for
`Min(todo)`: the days of a request are finitely many, and taken from the first.
The proofs of the steps are split by who moves: `RowsMove` for what writes
tasks, `JobsMove` and `OneJob` for what moves computations; the lemmas on hours
and days (`HoursAreOfDays`, `DaysFollow`) are all the arithmetic there is.

*Streaks.* Both loops count record by record, so that this is an induction; and
the rules of induction take an operator, which the provers cannot instantiate. In
their place is the least counterexample: a set of naturals that is not empty has a
least element (`LeastNatural`, from the well-foundedness of < on Nat), hence what
holds at 0 and is kept by each step holds for all of a range (`StepByStep`, over a
set), and a function by steps exists and unfolds (`Recursion`). The records are
a range of days without a gap where `StreaksAreDays` speaks of them
(`RecordedIsRange`), so that the list is that range downwards (`NewestIsDown`).
The loop invariant (`Sound`, kept by `CountKeeps`) says of the two counters after
the records of day d and later: the loop is in a run that begins at d, or at the
first recorded day (`Begins`); no run of active days from d on is longer than both
counters (`Bounded`); and the longer one before is the length of a run, or 0
(`Attained`). At the end that is `LongestRun` (`LongestIsLongest`). `Current` is two leading segments of
the list, first of cold days, then of active ones (`ColdDaysAre`,
`CurrentIsCurrent`).

*Pull.* `PageIsCurrent` looks ahead: what the answer under way will make the
device pass is on its page, as it is now. A write keeps it because it either
has a date that nobody will have passed or is recorded as hit (`WriteKeeps`).
The heart is `ReadKeeps`: a row that is left out of a full page and is not later
than its last date has the same date, and so was recorded as split.

*Tags.* `CountsAreCurrent`: a request that nobody overtook sees at least the tags
its transaction shows, so that the limit it checked is the limit it keeps.
`ReadsAreCurrent`: an update writes back what is there, or the tag is clobbered.

*Users.* `ExchangedOnce` ties a token, its row, its heir and the requests that
hold it: of a token that was not found twice at most one of these is ahead.
`TokensAreOwn` keeps devices apart; it is what lets `SessionsLast` ignore
everything another device does. For the pictures, `OverlapsAreKnown` and
`AddressesAreCurrent` say what an update may still believe of the row, and
`OldFilesAreGone` what it has already done to the bucket.
The refinement rests on `ExchangedOnce` too: of a token that is not forked one
request at most is `Exchanging` it, none when it has an heir, and its row is
there until the refresh that found it deletes it. So the delete is not noticed
(`DeleteNotNoticed`), and the insert takes a usable token without an heir to one that is
drawn for the first time (`IssueNoticed`); a second find forks the token, which
leaves the mapping (`FindNoticed`).

*Lists.* The cursor divides the steady rows: those not behind it have been shown,
those behind it have not. A page, being the beginning of what is behind, moves
the border and keeps the division; a page that announces no other is all of it.
The division is the proof module's own invariant, and its base case is the first
page; finiteness is used where a page that is not full must be the whole rest.

*Codes.* A request that has been alone since it began knows the user and the
tokens (`LoneKnows`, `NothingBefore`). Outside requests, and while undisturbed,
`CalmTokens` says that the stored token is the last code, and `CalmAges` that its
age is the time since it was stored: between the deletion and the mail of a
resend the two say what the request at work still owes.

## 7. Checked only, and left out

Liveness (`AccountsLeaveTrash`, `PagesEnd`) and anything under fairness is
checked by TLC and not proved: the provers do not reach it. Every other property
of a passing run is a theorem. No module uses RECURSIVE operators.

Left out:

- *Wallet and sync*: amounts and overflow of `Decimal(10,2)` (a second write that
  the database refuses is a `Fail`), currencies and names, the balances and
  amounts that sync push writes (its clients keep books of their own), and
  requests of other users for accounts, transactions and tasks, which the guard or
  the service ends before any write. Assigning and removing tags asks whose the
  tags are and not whose the transaction is; `TransactionTags` holds for them all
  the same.
- *Users*: access tokens, which are stateless; the codes in passing, which are
  in `EmailVerification`; registrations that bring addresses of pictures along
  (`Given` is {None} in the run; the proof allows any address outside the bucket).
- *Analytics*: the sums and charts of an answer; months and days in the local
  time of the server against dates in UTC; tasks whose client says that they were
  created after the day of their completion.
- *Lists*: sizes of zero and below, and what a paged sync
  leaves out because it was pushed in the same body. What Prisma answers to a
  cursor whose row the condition no longer selects is not in the repository; the
  model allows both of what it may do.

Not modelled:

- *Request filtering*: a cache of verdicts in front of every handler. It keeps no
  state that a handler reads, and a verdict is a match of patterns with a text.
- *Updater*: one file, read and written synchronously by one process.
- *Garzon client*: calls to another service, nothing kept between them.
- *Ids, mail templates, debug routes*: pure functions and diagnostics; the order
  of ids is in `PagedLists`, the delivery of mails in `EmailVerification`.
- *Policies*: they compare two ids; only what the guard resolves is modelled.
- *Login*: beyond the rows it makes and the tokens it stores, it compares hashes
  and signs.
