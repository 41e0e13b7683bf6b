# A verification of the finance app in TLA+

This directory models the parts of the application in which the order of events
decides whether money or edits are lost, checks the models with TLC and proves
their main properties with TLAPS. Paths are relative to the repository root.

## The system

The application is an offline-first Tauri client (`desktop/`, TypeScript with an
IndexedDB mirror, and a Kotlin plugin on Android) and a Rust/Axum server
(`backend/`) over PostgreSQL. The server keeps single-entry transactions and posts
a balanced pair of ledger entries for each of them.

| Component | State | Operations | What is hard | Module |
|---|---|---|---|---|
| Offline sync engine, `desktop/src/offline/sync-engine.ts`, `database.ts` | mirror of transactions, categories and accounts; `pending_operations`; `last_synced_at`; `syncInFlight` | `pushPending`, `pullChanges`, `queueLocalMutation`, `mark…Synced`, `replaceLocal…` | every `await` lets a mutation in; a reply may be lost, a pass may die anywhere | `OfflineSync` |
| Offline-first mutations, `desktop/src/lib/api.ts`, `request.ts` | none of their own | create, update and delete of the three kinds, online or queued | a request whose reply is lost is queued as if it had not been sent | `OfflineSync` |
| Sync endpoints, `backend/src/routes/sync.rs` | the rows and their `updated_at` | `pull`, `push` and its nine `apply_*` handlers | SELECTs that are not one snapshot; retried pushes | `OfflineSync` |
| Ledger posting, `backend/src/transaction_ledger.rs`, `routes/transactions.rs`, `routes/ledger.rs` | `transactions`, `ledger_entries`, `accounts` | create, update, delete, `resolve_posting_account`, `post_entries`, `delete_entries`, `migrate_single_to_double` | values read outside the transaction that uses them | `LedgerPosting` |
| Installments, `routes/installments.rs` | plans, installment rows and their transactions | create, generate, pay, delete, split | checks outside the transaction; rounding | `Installments` |
| Credit cards, `routes/credit_cards.rs` | bills, purchases, payments | purchase, pay bill, anticipate | stale bill totals; billing cycles | `CreditCards`, `BillingCycle` |
| Connectivity breaker, `desktop/src/offline/net.ts` | probe cache, breaker deadline, probe in flight | `isOnline`, `markServerUnavailable`, `clearServerProbeCache` | a probe racing a failed request | `Connectivity` |
| Biometric lock, `desktop/src/features/biometric/BiometricLock.tsx` | lock, prompt guard, times, visibility | lock, prompt, hide, show | state in refs beside state that redraws | `BiometricLock`, `Shell` |
| Session, `desktop/src/lib/auth.ts`, `request.ts`, `app/auth.tsx` | token cache and store, `refreshPromise`, the screen | login, logout, refresh, retry after 401 | a refresh racing a logout or a login | `Session` |
| Notification capture, `NotificationCaptureQueue.kt`, `desktop/src/notifications/`, `PendingCapturesPage.tsx` | native queue, inbox, what is drawn of it | post, drain, approve, edit, skip | process death, duplicate deliveries, overlapping approvals | `NotificationCapture` |
| Pages, `desktop/src/features/` | what each draws, its dialogs, the requests it waits for; the query cache | load, filter, save, delete, undo, refetch | nothing cancels a request that was overtaken | `TransactionsPage`, `CardsPage`, `ReceiptsPage`, `QueryPages`, `Pages` |
| Accounts, categories and budgets (server), migration 010, reconciliation, events, rate limiter, receipts, reports, summary, audit | rows | single statements, scripts, text, read-only SQL | – | see Not modelled |

The client calls the server over HTTP only: REST calls for mutations made online
and `/api/sync/push` and `/api/sync/pull` for the rest. Handlers of the server share
nothing but the database, which runs at PostgreSQL's default READ COMMITTED, since no
code asks for another level. On the device everything runs on one JavaScript thread, so
that interleaving happens at `await`s; IndexedDB transactions are atomic.

What makes the parts correct:

* **Sync.** A queued mutation is never forgotten before the server has settled it; the
  mirror shows what the server has, or what is queued, or what the next pull brings;
  the queue drains when faults stop.
* **Ledger.** Every posted transaction has exactly one balanced pair of entries of its
  amount, and no entries belong to nothing, whatever runs concurrently.
* **Installments and cards.** An installment is generated and paid at most once; the
  amounts of a plan add up; what a bill counts as paid is what was posted.
* **Session, connectivity, lock.** A logout is final; an answer about the server is fresh;
  whoever comes back to the app identifies himself, and can.
* **Capture.** A notification becomes one transaction, or is in the inbox, or was refused.
* **Pages.** What is drawn belongs to what is selected above it and holds the user's own
  changes; no correction is lost.

## Modules, runs and theorems

| Modules | Composition | Runs | Theorems |
|---|---|---|---|
| `DeliveryQueue`, `OfflineSync` | `OfflineSync` INSTANCEs the abstract queue and implements it | safety with refinement, liveness, two disagreements with comments | types, queue invariant, no silent loss, synced rows are stored, stale and unsynced rows are accounted for, refinement |
| `LedgerPosting` | – | safety, liveness, one disagreement with a comment | types, entries are kept, accounts settle, the books agree |
| `BillingCycle`, `Installments`, `CreditCards` | a card with its bills EXTENDS a plan charged to it, over the arithmetic of dates and cents | `MCCreditCards` | types, charged once, paid stays paid, splits add up, on one bill, paid is posted and settled |
| `Clock`, `Connectivity`, `BiometricLock`, `Shell` | two components on one clock and one sleep | `MCShell` | types, fresh answers, short outages, locked after an absence, unlocking is in reach, the parts stay themselves |
| `Session` | cache, store, screen and calls | `MCSession` | types, session, screen and store follow |
| `NotificationCapture` | Kotlin queue, provider, inbox and page | `MCNotificationCapture` | imported once, nothing lost, skipped stays out, shown is the inbox |
| `Unset`, `TransactionsPage`, `CardsPage`, `ReceiptsPage`, `QueryCache`, `QueryPages`, `Pages` | one page is open at a time | `MCPages` | rows of the filter, edits keep their type, bills of the card, the review is kept, own changes are shown |

Every module takes its sets and bounds as CONSTANTS, has one action per operation or
per transaction of a handler, and uses no RECURSIVE operator, so that it can be
proved about. The proofs of a component are in a module named after it, and what several
of them need of sequences, and of the folds over finite sets that the sums are, is in
`SequenceLemmas`: an induction over a set's subsets, along the library's well-founded
order of them, replaces the one over numbers that the provers cannot instantiate. What
they cannot do is liveness under fairness: `QueueSettles`, `RequestsFinish` and
`CallsEnd` are checked by TLC alone. Several properties except cases that the code does not handle; such a case
is recorded in a history variable that no guard reads, at the step where it arises, so
that the exception is as narrow as the step. The runs disable the deadlock check because
their bounds let the system stop.

## OfflineSync

`OfflineSync.tla` is the offline data path end to end: one device, the sync endpoints,
the REST handlers it uses online, and other devices writing to the same server.
`DeliveryQueue.tla` is what the queue of pending operations promises, without a
protocol. `MCOfflineSync.tla` assigns kinds to rows for TLC.

### State

| Variable | Code |
|---|---|
| `server` | the three tables; the contents of a row are the number of the edit that wrote them |
| `changed`, `later` | the comparison of `updated_at` with `last_synced_at`, and with the `server_time` of the pull in progress (`sync.rs` 43-103, `sync-engine.ts` 150, 242) |
| `taken` | UUIDs handed out |
| `mirror` | the `local_*` stores: edit shown and the `synced` flag |
| `queue` | `pending_operations`, ordered by edit number as by its autoIncrement key |
| `user` | the mutation handler that is in progress and what it has read |
| `sync` | the pass behind `syncInFlight`: phase, batch, results, pulled rows, mirror rows read |
| `orphan` | the rest of a push whose client has gone |
| `issued`, `accepted`, `stored`, `gap` | history, read by no guard |

A step is one IndexedDB transaction, one operation of a push on the server, one SELECT
of a pull, or the arrival of a response. Each push operation is atomic because its
handler uses a database transaction or a single statement.

### Actions

`QueueCreate`, `QueueUpdate`/`FinishUpdate`, `QueueDelete`/`FinishDelete` are the
`queueAndStore`/`queueAndDelete` closures of `api.ts`, split where another handler or
the sync pass can come in between. `RestCreate`, `RestUpdate`, `RestDelete` are the
commit of the same mutations online, `RestReply` the write of the reply to the mirror,
and `…ReplyLost` the `isNetworkError` path that queues what has been committed.
`StartSync`, `Push…`, `Ack…`, `Mark`, `Remove`, `PushDone`, `Query`, `Stamp`,
`MergeRead`, `MergeClear`, `MergePut`, `SaveLastSync` are one pass, in the order of
`sync-engine.ts`. `LoseConnection`, `Kill`, `PushFailed` are the faults, `Orphan…` what
the server still does for a client that has gone, `Remote…` the other devices.

### Abstractions

* Commits and `updated_at` are simultaneous. A transaction of the server that straddles
  a pull has an even earlier `updated_at`, which only widens the window the model has.
* One mutation handler runs at a time; they interleave with the sync, not with one
  another. Queueing a create and putting its row in the mirror is one step, except that
  the app may die in between (`QueueCreateKilled`).
* `Pinned` rows are referenced by others for good, so that their DELETE is refused; other
  rows are never referenced. Validation errors of a payload are not modelled: the client
  sends what the server accepts.
* A push that lost its client either runs on (`orphan`) or is dropped there; a second
  orphan is not created while one is running.

### Runs

| Run | Question | Instance | Distinct states |
|---|---|---|---|
| `MCOfflineSync_safety` | Is an edit forgotten, a mirror row stale, a flag wrong? | two transactions, 4 edits, 1 by another device, 1 fault | 2.2 million |
| `MCOfflineSync_liveness` | Does the queue drain, also for the kinds whose handlers refuse repeats or deletes? | a category and a pinned account, 4 edits, 1 fault, fair | 0.9 million |
| `MCOfflineSync_failed_ops` | Does a failed operation stay queued, as the comment says? No. | a transaction on the server and a new category | violated |
| `MCOfflineSync_pull_window` | Does a pull return what changed since the last one? No. | a transaction and a category on the server | violated |

Four edits on two rows (the initial contents are edit 1) admit a create, two further
edits of the same row and one on another row or from another device; one fault is
enough for each fault to hit each step, and every interleaving of one handler with one
pass is covered. The runs disable the deadlock check because the bounds let the
system stop. The safety properties and the refinement are proved without the bounds
mattering.

What the passing runs show:

* `NoSilentLoss` and `ImplementsDeliveryQueue`: an operation leaves the queue only if the
  server accepted it or an older operation on its row, through lost replies, repeated
  pushes, kills and orphaned pushes.
* `SyncedMeansStored`: no sequence of marks, merges and late replies flags a row that the
  server never had.
* `StaleOnlyByKnownGaps`: a server row that is stale in the mirror, not due in the next
  pull and not queued, got there in one of six ways, recorded in `gap`: it was written
  between its SELECT and `server_time`; the mirror was changed under a merge or a mark; a
  crash came between a clear and a put; a late reply overwrote something newer; a
  handler finished after its operation had been pushed and removed; or its operation was
  dropped without being accepted.
* `UnsyncedCopyIsCovered`: a server row shown as not yet synced has a queued operation, or
  it is in `gap`, or the next pull replaces it when the edit it shows is settled, so that
  the pull takes no unsettled edit off the screen. While an operation is queued a pull may
  do just that, see Observed.
* `QueueSettles`: when edits and faults stop and syncs go on, what remains queued is what
  the server refuses. Such operations stay for ever: the repeat of a category create
  whose reply was lost, the update of a row that another device deleted, the delete of
  a pinned row.

What the violated ones show:

* `FailedOpsStayQueued`: `pendingById` keeps one operation per client id, the last queued. In
  the trace two updates of a row the server has are pushed together; the server accepts
  the first and fails on the second. The "ok" of the first is looked up to the second, which
  is removed though it was never accepted; the first stays queued and is pushed again by
  the next sync.
* `PullMissesNothing`: `server_time` is taken after the SELECTs.

### Fairness

`WF` of the sync steps: a pass runs to its end, and passes keep being started: at startup
and login, on every `online` event (`RootLayout.tsx`) and by the banner's button
(`OfflineBanner.tsx`). There is no timer, so this fairness says that the user or the
network keeps asking. `WF` of the handlers' second halves: a started mutation ends. There
is no fairness on edits, faults, other devices or orphans.

### Proofs

`OfflineSync_proofs.tla`, for any rows, kinds, existing and pinned rows and bounds that
satisfy `ConstantsOK`:

* `TypeCorrect`: one lemma per group of actions. A row a pass writes to the mirror has
  contents, which is why a mark skips a row it has not found.
* `QueueInvariant`: `TypeOK`, `PassInv` and `VersionInv` are inductive together. `PassInv`
  ties the batch, the results and the orphans to what was issued and accepted;
  `VersionInv` says that an edit number names at most one operation and that an edit
  awaiting its reply is newer than every operation. Without the latter a lost reply
  could queue an operation under a number already settled.
* `QueueRefines`: with that invariant every step is an `Issue`, an `Accept`, a `Retire` or a
  stutter of `DeliveryQueue`. The case of interest is `Remove`, where the operation removed
  is not the one whose result was read, but one on the same row and no older.
* `NothingLost`: `NoSilentLoss`, from the step lemma of the refinement.
* `SyncedStored`: `SyncedMeansStored`, from `MirrorInv`, which adds `RowInv` (ids are handed
  out once; a create is the oldest operation on its row) and `StoredInv` (what the
  server, a pull in progress, a handler in progress and the results of a push know of a
  row implies that the server has held it).

* `StaleRowsAreKnown`, `UnsyncedRowsAreCovered`: `StaleOnlyByKnownGaps` and
  `UnsyncedCopyIsCovered`, from `CoverInv`. Between passes each says that a copy is right,
  or due, or pending (`Covered`), but a pass shrinks what is due when it saves
  `last_synced_at`, and a push shrinks what is pending. So `CoverInv` says of every row
  outside `gap` what the pass knows of it: rows whose SELECT is over are pulled as the
  server has them, or were not due (`Pulls`); rows that are merged are covered by what is
  for later alone, and while a kind is cleared the copies read stand for it (`Merges`); a
  mark writes back what the mirror still shows, after which no create is needed to
  explain an unsynced copy (`Marks`); and an accepted update or delete has changed its row
  (`AckInv`), so that its removal leaves the row due. A pending create justifies nothing of
  a stale row, since its repeat is answered without being applied; `Editing` leaves it
  out. Six ways lead into `gap`, and the proof shows that there is no
  seventh. For `UnsyncedCopyIsCovered` it takes `ShownInv` as well: an unsynced copy shows an
  edit that was queued, by the operation that is pending for it or by one that is settled,
  in the mirror and wherever a pass or a handler holds a copy of it.

Only model-checked: `QueueSettles`, which is liveness under fairness and out of the
prover's reach.

### Observed, not stated as properties

* Three comments (`sync-engine.ts:153`, `:183`, `:209`) say that pulled rows are merged "without
  clobbering unsynced local rows". They do replace an unsynced row of the same id
  (`byId.set`, 166): if the user updates a row while its create is being pushed, the merge of
  that pass puts the pushed contents over the newer edit. The update is still queued, so
  nothing is lost, but the screen shows the older contents until it has been pushed.
* The older operation that the lookup leaves in the queue is pushed again and overwrites a
  newer edit, or brings a deleted row back. Delivery is at least once, not in order.
* A create whose reply is lost is queued under a new id: the row exists twice.
* Deletions leave no tombstones, so a device keeps rows that others have deleted.
* The mutations made online do not look at the queue: an older queued edit of the same
  row overwrites them at the next push.

## LedgerPosting

`LedgerPosting.tla` is the server's bookkeeping: the handlers that create, update and
delete a transaction, by REST and by push, and the migration of unposted ones, run
concurrently against one database. `MCLedgerPosting.tla` says which handler takes which
request.

### State

| Variable | Code |
|---|---|
| `tx` | table `transactions`: contents (amount, type, category) and `ledger_transaction_id`, which is NULL, the own id, or the fresh id of a migration run |
| `pairs` | table `ledger_entries`: the two rows of one `post_entries`, with their group id and the request that wrote them |
| `used` | ids ever given out |
| `accounts`, `link` | the accounts with the category's name, and its `ledger_account_id` |
| `req` | every request: its next step, the transaction and ledger id it has read, the account it has resolved, the snapshot of a DELETE that waits, the entries its open database transaction has deleted, the rows a migration still has to do |
| `faults`, `raced` | the bound; history |

### Granularity

PostgreSQL at READ COMMITTED, one step per statement where it matters. A statement sees
a snapshot taken at its start. If it meets a row that another open transaction has
changed, it waits, and then leaves out what is gone, but it does not see rows that were
added in the meantime. What an open transaction has deleted stays in `pairs` until its
commit, and is in `held`.

* `FindLink`, `LookupAccount`, `MakeAccount`, `LinkAccount` are
  `resolve_posting_account`, four statements in no transaction.
* `Create` and `PushCreate` are one step: nobody sees their rows before the commit.
* `ReadLedgerId`, `LockRow`, `Unpost`/`UnpostWaited`, `Repost` are an update: the read of the
  ledger id, `UPDATE transactions` with its row lock, `delete_entries`, and
  `post_entries` with the link and the COMMIT.
* `ReadLedgerId`, `Unpost`/`UnpostWaited`, `Erase` are a delete, which takes the two
  locks in the other order; `DeadlockVictim` is what PostgreSQL does about that, and
  `delete_entries` hides it from the handler until the next statement.
* `Scan`, `LoadAccounts`, `MigrateRow`, `SkipRow`, `MigrateDone` are
  `migrate_single_to_double`, one database transaction for each row.
* `Fail` is any other failed statement or an abandoned request: the open transaction
  rolls back; what was committed before it stays.

### Abstractions

* The legs of a pair are not told apart: one INSERT writes both, with the same amount on
  opposite sides (`legs`). The accounts of a pair are not tracked.
* One category stands for all, and its name is not one that the migration renames.
  Edits of categories and accounts are not among the requests: `LinkSettles` speaks of
  transactions only. Payloads without a category use a generic account and change
  nothing; the source account exists.
* Installment and card handlers, and the rows that reconciliation creates, post with the
  same helpers; the former are in `Installments` and `CreditCards`, with their entries
  taken as written.

### Runs

| Run | Question | Instance | Distinct states |
|---|---|---|---|
| `MCLedgerPosting_requests` | Do the books agree? | two transactions, one posted, one not; two updates, a pushed create and delete, a migration; one fault | 1.2 million |
| `MCLedgerPosting_finish` | Does every request end? | the same transactions and a third; create, update, delete, migration; one fault, fair | 45 thousand |
| `MCLedgerPosting_orphans` | Do they agree always, as `transaction_ledger.rs` says? No. | one posted transaction, an update and a delete | violated |

Two updates are what it takes for a waiting DELETE among updates; a third request on the
same row is the pushed delete or the migration. Each request arrives once; a repeat is
another element of `Request`. The runs disable the deadlock check because the requests
are finite.

What they show:

* `AgreeUnlessRaced`: a transaction has exactly one pair, of its own contents and under the
  id it is linked to, or none if it is unposted or gone; except after a migration
  overlapped anything on it, or a delete overlapped an update or a create, from the read
  of the ledger id on (`raced`). Any number of overlapping updates, and of deletes, is
  harmless: the row lock puts updates in order, and a delete finds the row gone.
* `PostedHasEntries`: even then, what a transaction is linked to is there.
* `LinkSettles`: duplicates of an account come only from requests that overlap before the
  category has its link.
* `RequestsFinish`: waits are for the end of another request, and the circular one, between
  an update and a delete, is broken.
* `BooksAgree` is violated without any fault: a delete waits for the entries that an
  update replaces, does not see the new ones, and removes the transaction. The new pair
  stays in every account balance.

### Fairness

`WF` of every request's steps: the server runs the handlers it has accepted, and the
database serves statements and ends deadlocks. Failures are not fair.

### Proofs

`LedgerPosting_proofs.tla`, for any transactions, requests, handlers and bound that satisfy
`LedgerConstants`:

* `TypeCorrect` needs `OwnRows`: an update or delete has a transaction from its first read
  on, and the entries it holds are that transaction's. `TypedStep` is the induction.
* `EntriesKept`: `PostedHasEntries`. Entries are deleted at the commit of an update, which
  posts new ones and links to them, or of a delete, which removes the transaction;
  `OwnRows` says that nobody else's are deleted. `UntouchedRow` covers the rest.
* `AccountSettles`: `LinkSettles`. Without a request between lookup and link, every
  new one finds the link.

* `BooksAgreeUnlessRaced`: `AgreeUnlessRaced`, from the invariant `Books`. Agreement is not
  inductive, because what a request does next rests on what it read statements ago.
  `Books` says of every row outside `raced` that the requests at work on it are all updates
  or all deletes (`Apart`); that an update's row is there; that while the row is there, it is
  linked as the request has read, and what the request waits to delete, or has deleted, is
  every entry of it (`Holds`); and that a migration finds its rows as it scanned them
  (`Part`). That two updates do not each hold the entries is the row lock (`OneLock`), the
  one part that is proved of raced rows too. A step extends `raced` at the moment at which
  one of these would break, which is what `BooksStep` shows, action by action.
* `PeacefulBooks`: with requests of which no two clash, such as any number of creates,
  updates and pushes of updates, `BooksAgree` holds without exception. The hypothesis is
  about the constant `OpOf`: what the violated run shows takes two requests that clash.

Only model-checked: `RequestsFinish`.

Observed: of two overlapping runs of `migrate_single_to_double` each posts a pair for the
same old row, since neither repeats the condition it selected rows by (`ledger.rs` 381,
515); `raced` excepts it. The second leg of the backfill in migration 010 (line 123) is
skipped for every row whose first leg was just inserted.

## Installments and CreditCards

`BillingCycle.tla` is the arithmetic of dates and cents, `Installments.tla` the requests
that work on one plan, `CreditCards.tla` the card the plan is charged to, with its
purchases, bills, payments and anticipations. `MCCreditCards.tla` says which handlers take
which requests and which days there are.

| Variable | Code |
|---|---|
| `plan`, `rows`, `batches` | tables `installment_plans`, `installment_transactions`, `installment_anticipations` |
| `tx` | the card's expenses in `transactions`; a transaction is known by the request that made it and its installment |
| `closing`, `bills` | `accounts.closing_day`, table `card_bills` by `period_end`; a bill's total is not stored but summed, as by `fetch_bill_by_id` |
| `payments` | the ledger pairs of payments |
| `req`, `kind`, `today` | the requests with what each has read, their handlers, `Utc::now` |
| `raced`, `crossed`, `late`, `reset` | history: installments and bills on which two requests overlapped, bills that grew when paid, a changed closing day |

A step is one statement or one database transaction. A handler's checks before its
transaction (`generate_installments` 502, `pay_installment`, `pay_card_bill` 800,
`anticipate_installments` 1058) are steps of their own, and other requests come in between.
The ledger pair of an expense is written and deleted with it (LedgerPosting).

| Run | Question | Instance |
|---|---|---|
| `MCCreditCards` | Is anything charged, counted or billed twice, or not at all? | two installments of 5 cents over the ends of January, February and the first of March, closing on 28 or 31; six requests in three mixes; one fault |

Two installments are one that may be due and one that is not; three days around a short
month reach every clamping of a day; of each pair of handlers that can meet on an
installment or a bill one mix has both. Two requests of each mix are taken by the same handler
and are interchangeable (`Twins`): no definition orders requests.

* `ChargedOnce`: an installment has one live charge and its row names it, unless two requests
  read it before either charged it (`raced`).
* `PaidStays`: no request takes a paid installment back to a generated one.
* `SplitAddsUp`: rounding half to even and the remainder in the last part add up.
* `AnticipatedOnBill`, `OnOneBill`: the periods of the bills do not overlap and leave no day
  out, and what was anticipated is in the period of the bill it was moved to, as long as
  the closing day stays.
* `PaidIsPosted`, `PaidMeansSettled`: what a bill counts as paid was posted, and a paid bill
  has nothing left to pay, unless payments overlapped or it grew meanwhile.

### Proofs

`CreditCards_proofs.tla` proves all eight properties of the run for any number of
installments, any dates and closing days, any finite set of requests, every amount and
bound. It rests on `InstallmentConstants` and `CardConstants`; that a plan has an
installment is the CHECK in `migrations/008_installments.sql:7`. The parts of `IInv`:

* `PlanFits` (`ChargedOnce`, `PaidStays`): of an installment outside `raced`, one request at a
  time has found it unposted (`Sole`), and what any request has read of its row is so still
  (`Current`). A handler that found the row unposted before its transaction is then
  entitled to charge it in it.
* `Billed` (`AnticipatedOnBill`, `OnOneBill`): while the closing day stays, a bill is the span
  from one closing day to the next (`Cycles`), and a request that is about to make one has
  read the closing day in force (`CardsRead`). That two spans do not meet is arithmetic of
  dates, months of 28 to 31 days included.
* `AllSettled` (`PaidMeansSettled`): what a payment read as the total of a bill bounds the
  bill's sum until the payment ends, unless the bill grew (`late`). `AllPosted`
  (`PaidIsPosted`): the payments of a bill add up to what it counts as paid, and one
  payment at a time is under way on it, unless two overlapped (`crossed`).
* `Parts` (`SplitAddsUp`): the transactions of a split hold what was computed. That the last
  part makes up for rounding is a fact about a sum over any number of parts.

Observed: the deletion of an installment's transaction by REST deletes its row too, so that
the plan can never be completed. `generate`, `pay` and the split of a purchase charge the
card without `upsert_bill`, so that their expenses may be on no bill. A bill that was paid
is not opened again by a later purchase in its period. Changing the closing day makes
bills overlap. `installments.rs:393` says that deleting a plan deletes its transactions; it
unlinks them.

## Connectivity, BiometricLock, Shell

`Connectivity.tla` is `net.ts`: the breaker (`until`), the cache of the last good probe
(`lastOk`), the shared probe, and the callers that wait for it. `BiometricLock.tla` is
`BiometricLock.tsx`: React state, refs and prompts in flight. `Shell.tla` composes them on
one `Clock`; the device may sleep while the app is hidden, and then no timer fires on time.

`MCShell` has six instants, two callers, a breaker of 4, a cache of 2, a probe of 1, a prompt
of 3 and a suppressed moment of 2: the order of the real times, and long enough for an
outage and for an absence longer than a prompt. The two parts meet in the clock alone, so
the constraint `OneAtATime` explores one of them at a time.

* `FreshOnline`: with the breaker closed, what the cache says rests on a probe sent after the
  last failed request, unless the device slept during that probe.
* `ShortOutage`: with a link, nobody is told "offline" unless something failed within the time
  of the breaker, however many failures overlap.
* `LockedAfterAbsence`: whoever sees the app after an absence has passed a prompt begun after
  the return, unless one from before it was answered late.
* `UnlockReachable`: the button of the locked screen works when no prompt is in flight, except
  after an absence the app spent unlocked, or when the parent redrew during a prompt.

All four are proved in `Shell_proofs.tla`, the first two of the breaker alone and for every set
of callers and all times that keep the breaker open for as long as a probe and the cache
together (`TimesAssumption`). The invariant ties `until` to the failure that opened it
(`BreakerFromMark`), a probe in flight to its timeout (`ProbeInTime`) and the cache to the
probe behind it (`CacheFromProbe`).

The lock's invariant `LockInv` says of the hidden app what the properties say of the visible
one: who is owed an identification finds the lock closed, or opened by a prompt answered
late (`OwedIsLocked`, `AwayIsLate`), and an app left open is recorded as such, for the return
is what kills the button (`AwayIsOpen`, `DeadIsExcused`). The times of prompts are arbitrary.

`ShellRunsConnectivity` shows that `Shell` implements `ConnectivitySpec`: beside the lock, the
breaker still takes its own steps on the common clock and no others, so that what is
proved of it alone holds in the whole app, without `OneAtATime`.

Observed: the excepted cases of `UnlockReachable` leave the button dead, which
`BiometricLock.tsx:14` says never happens. A prompt may begin while the app is hidden.
`net.ts:34` does not hold if a doomed probe is in flight when the `online` event fires.

## Session

`Session.tla` is the session in memory, in the keyring and `localStorage`, on the screen, and
in the calls that carry it. The writes of a session go to the store one key at a time
(`writes`), the screen is told after the last (`AUTH_CHANGED_EVENT`), one refresh serves all
calls refused meanwhile, and the process may die between any two steps. On Android the
keyring writes a key with `commit()` but deletes it with `apply()` (`SecureStorage.kt:55`, `:75`):
`ring` is what it answers, `disk` what a kill leaves of it, and `Flush` the moment at which the
deletions get there.

`MCSession` has two users, one request beside `/me` and the login, three sessions issued and
one restart. A refresh can then cross a sign-out, a sign-in and the hydration. What follows a
damaged store (torn by a restart, or by a keyring that failed while it held an older copy)
is not explored, as nothing is claimed of it.

* `SessionFollowsUser`: the session in use is of whoever last decided to be signed in, unless a
  refresh was in flight when that changed (`crossed`).
* `ScreenFollowsSession`: at rest the screen shows the user of the session that requests carry.
* `StoreFollowsCache`: once the writes are done the store holds the session in memory, whole, and
  so does what a kill leaves of it: at once when somebody is signed in, and when nobody is,
  as soon as the deletions are on disk.
* `CallsEnd`: every call ends, also one that waits for a refresh that fails. Fairness is `WF` of
  hydration, of the refresh, of the writes and of the calls: `fetch` and `invoke` settle in
  the end, and their continuations run.

`Session_proofs.tla` proves the first three, and the types, for any users, calls, numbers of
sessions and of restarts. What a restart would find is not what memory holds while keys
are being written, so the invariant follows the writes: of the batch at the head the first
keys are in the store, later ones have not begun, and the last is what memory holds
(`WritesLead`); when there is none, store and memory agree (`Written`). `DiskLeads` says
that the disk has what the keyring has, and more only where a deletion is still to get there. `Owned` says that
outside `crossed` memory, the store about to be read and the session being renewed are all
of the user who decided last. `Screen` is `ScreenFollowsSession` at every moment at which no
write is left. `CallsEnd` is model-checked.

Observed: a refresh in flight at a sign-out signs in again. An error of `/me` other than the
network's shows the login while the session stays. `auth.ts:88` says that a sign-out "never
leaves a stale copy": a keyring that fails does leave one (`flaky`), and a kill soon after the
sign-out brings the deleted session back on Android (`torn`). Query cache and mirror survive a
sign-out.

## NotificationCapture

`NotificationCapture.tla` follows a notification from the listener service over the durable
queue or the live event, the drain and the bridge to the web view, the filters, the inbox in
`localStorage`, and the page that approves, edits or skips it, to the transactions made of it.

The queue is a preference that `enqueue` and `drain` read and write without a lock. `enqueue` reads
it (`Posted`), drops the entry of the same time, application and title and, if there are
`MAX_ITEMS` of them, the oldest (`Enqueued`), and commits the result (`Commit`); a `drain` between
the two is undone, and what is committed between the two halves of a `drain` is cleared with
the rest (`StartDrain`). `disk` is what a kill leaves of the queue, since `drain` clears it with
`apply()`. Whether Android runs the two on one thread is not said by the source, so the model
lets them overlap.

`MCNotificationCapture` has four notifications of which three are posted, two that parse to the
same key and two of one posting, a queue and an inbox of two, one approval by button, one by
dialog and `approveAll` at once, and one kill. Its constraint stops behind the second item that
is refused or worked on twice, and the second that is lost. 2.9 million states.

* `NoDoubleImport`: a notification becomes one transaction, except in the ways `again` records:
  worked on twice at once, killed between transaction and inbox, drained twice.
* `NothingLostSilently`: it is somewhere until it is a transaction or refused, or a step that
  `gone` records has lost it: it came while nobody listened or was filtered out; the native queue
  took it for a repeat, gave it up for a newer one, or cleared it unread; its key was imported
  a moment ago or is in the inbox, or the inbox gave it up; a kill caught it before it was
  stored; or its automatic import failed.
* `SkippedStaysOut`: what was refused does not come back in any other way.
* `ShownMatchesInbox`: the list drawn is the inbox unless `approveAll` is under way.

All four are proved in `NotificationCapture_proofs.tla`, for any notifications, keys, dialogs,
numbers of approvals and kills. Importing twice is excluded because, outside `again`, a
notification on its way to the inbox is in one place and has made no transaction
(`Apart`), and from there on it is either left for a worker or held by one (`Once`);
`Tidy` says how the places agree with each other: what the native queue holds is on disk,
and without a web view there is nothing on the bridge. What a drain or an enqueue brings back
from a place it had left is in `again` from that step on. `LostOnlyByName` adds where each
notification that arrived is at any moment (`Accounted`).

Observed: `settingsRef` is read once, so that settings saved later do not reach the provider
until the app is started again. A live event carries the package as app name, which the
filter of monitored apps then drops. The save button of the dialog is not disabled while it
saves. What arrives between the loading of the plugin and the subscription is lost. A
transaction whose reply is lost is created twice, as under OfflineSync.

## Pages

Four modules follow the pages of the app from where each opens, and `Pages.tla` has one of
them open. A page keeps nothing when it is left, and the rest of the app reaches it only
through the server, whose contents at the opening are arbitrary.

| Module | State | Steps |
|---|---|---|
| `TransactionsPage` | rows at the server, the list with its filter, loads in flight; the form, its lookup and its save; deletion and undo | each handler, and each answer in any order, from the server or from the mirror |
| `CardsPage` | cards at the server and drawn, the selection, the bills drawn, three dialogs with their handlers | the same; of the bills of a card what counts is how many of its changes the answer held |
| `ReceiptsPage` | what there is to read, the review and its corrections, the save; gallery, price history, merge | the same |
| `QueryCache`, `QueryPages` | one query of TanStack Query and the dashboard, accounts, categories, budgets, ledger and reports pages, and what the transactions page does to it | pages opened, months turned, handlers, refetches and invalidations |

`QueryCache.tla` models the library as `providers.tsx` configures it. Queries do not depend on
one another, so one is watched, and the run starts with each of them; of a query per month
that of one month. Of the toasts with an undo the last is followed.

A query is answered by the server or, for the accounts, categories and recent transactions, by
the mirror, when the server is not reachable (`QueryEnds`). A save of one of these is made at the
server, in the queue and the mirror, or, when only its reply was lost, in both (`Places`); all
others fail. So `qc` knows which of the user's changes the server has, which are in the queue
and which the mirror has, and the passes of the sync move them (`SyncPushes`, `SyncPulls`), also
out of the mirror again (`over`). Nothing refetches a query when a pass has delivered the queue:
no handler of the sync invalidates one. A query is fetched again by its own page, its 30 seconds,
or the network's return (`Reconnected`, a default of the library). `seen` is the changes the data
hold, `lacks` those made before the fetch that its source did not have.

`MCPages` has two of everything (rows, cards, products, corrections, changes, loads in flight)
and pages of one row. Its constraints keep apart what does not meet: overlapping loads of the
list and the form; the two halves of the receipts page; handlers and pages that do not
concern the query watched. Two handlers at once are explored for `accounts`, two changes for
the queries that several handlers refresh; where the device and the server are apart (`Apart`),
one handler, and two changes for the categories. 3.3 million states.

* `ListMatchesFilter`: the rows drawn are of the filter drawn above them, as long as each load
  is answered by the server before the next is started (`mixed` otherwise).
* `EditKeepsType`: an edit keeps the type of its transaction unless the user chose another, a
  lookup came late, or the form was last asked for an income.
* `BillsOfSelectedCard`: the bills drawn beside a card are its bills and hold the changes the
  page was told of, unless their load was overtaken or of a card no longer selected.
* `ReviewKept`: a correction made while nothing ran is in the review, saved, given up for a
  reading asked for later, or was of an item without a description, or left a field empty,
  when a save that succeeded began: such an item is left out of the receipt, and such a field
  replaced (`ReceiptsPage.tsx` 184-190), and the success clears both.
* `OwnChangeShown`: a page that draws a query draws the user's own changes in it once the handler
  has ended, except what that handler does not refresh (`Overlooked`), what its refresh met
  being fetched already (`missed`), and what the source of the data did not have when it was
  asked (`lacks`): the server a change still in the queue; the mirror a change it is not
  written with, such as the balances after a transaction, or one a pass took from it.

All five are proved for every value of the constants, in `Pages_proofs.tla`: an inductive
invariant for each page and for the query, and their composition, in which a closed page
has no state and no step of another page gives it one. The properties are not inductive,
because they speak of what is drawn and not of the requests that will draw the rest:

* of the list, a load marked `alone` is the only one in flight and is for the filter drawn, and
  what is drawn already fits whenever the load in flight will append to it; of the form, the type
  nobody set is that of what is edited, in the form and in the save it started;
* of the cards, what an `alone` load or the bills drawn know of is not older than the last change
  the page was told of, or some handler is still to load the bills; this needs that a handler at
  its load waits for exactly one of them, so that no answer to another ends it;
* of the review, each answer awaited covers the corrections of the calm review it may replace:
  a reading was asked for over them, a save has them in its payload or leaves them out by name;
* of the query, `CacheInv`: a change of the user that its handler refreshes is in the data, or
  in the fetch in flight, or the entry is marked or its last fetch failed, from the moment the
  refresh begins (`Brought`); an entry that a page uses does not stay marked without a fetch
  (`Rests`); and changes are numbered, so that a later one does not pass for an earlier one.
  That an answer shows a change or names it among those its source lacks rests on `Sources`:
  every change is at the server or in the queue, a change whose handler heard of it is in the
  mirror it was written to or was taken from it by a pass, and a fetch in flight was asked of a
  server that has only gained since.

The proofs use the assumptions the modules state of `None`.

Observed: an answer that was overtaken stays drawn until the next load, on the transactions and
the credit cards page. A late lookup overwrites a form opened for an edit meanwhile. After a
Quick Add income link the edit of an expense saves an income (`TransactionForm.tsx:33` says
that type is looked at for new transactions only). `handleDelete` of the budgets leaves the
alerts as they were, the ledger page the accounts, and `refreshAll` of the transactions page
every query but two. After a transaction made offline the accounts are drawn with their old
balances, and an account made offline is gone from the list when the server answers before the
next pass; both stay until the query is fetched again after it. A first load that failed is
drawn like an empty answer. The price history of one product may be drawn under the name of
another. `AccountDetail.tsx` uses `SUMMARY_MONTHS` (line 41) before its declaration (line 77),
which throws when an account is opened.

## Not modelled

* Receipts and OCR on the server are text heuristics and plain inserts; summary, reports and
  audit are read-only SQL; health, metrics, telemetry and configuration observe or wire up.
* Migration 010 is a script that runs alone before the server starts. Reconciliation parses
  text and scores candidates; the link it sets is one statement.
* Budgets are an upsert and a sum; an alert is a notice on which no state depends. Accounts and
  categories are modelled as far as the sync goes; their other checks are single statements.
* `create_ledger_transaction` is one database transaction, whose idempotency key is a primary key;
  its event is published after the commit and consumed by nothing in the repository.
* The rate limiter is one critical section over a counter; token signing and password hashing are
  library code.
* Of the user interface: layout, themes, language, onboarding, the audit, server and
  reconciliation pages, `AccountDetail.tsx`, and the fields, tabs and searches of the pages
  modelled. They read and draw, or set a value at once.
* Generated types and the OpenAPI document declare and do nothing.
