# A TLA+ model of email-to-telegram

email-to-telegram accepts e-mail from a Cloudflare worker, stores it, and
delivers it to Telegram chats. This directory models the parts of it that hold
state and run concurrently, checks them with TLC on small instances, and proves
every safety property that the runs check with TLAPS for all values of the
constants.
Paths below are relative to the repository's `src/` directory unless they start
with `cloudflare-worker/`, `docs/` or `tests/`.

## 1. Inventory

| Component | State | Operations | Hard behaviour | Module |
|---|---|---|---|---|
| Worker `cloudflare-worker/src/worker.ts` | none | preflight, sign, upload, bounce or retry | lost answers, repeated uploads | `Ingress` |
| Preflight, worker authentication | nonces | decide; verify and claim a nonce | clock skew, expiry of nonces | `Ingress` |
| Raw route `http/routes/raw.ts` | raw file, `.pending.json` | precheck, store, queue, delete, answer, dispatch | crash between any two steps; resends; alias changes between two lookups | `Inbound`, `Ingress` |
| Queue `email/pipeline/queue.ts` | `delivery_logs`, `user_usage_months`, advisory locks | limit, dedup, hourly cap, insert, charge | concurrent requests and recovery; commit in doubt; month boundary | `Inbound` |
| Recovery `email/retry.ts` | list of pending metadata | age check, lookup, read, queue, delete | races the request that wrote the metadata | `Inbound` |
| Live delivery `email/pipeline/deliver.ts` | log status, attempts, tracker | prepare, route, send, persist, refund, photos, migration abort | irreversible send before an uncertain write | `Delivery`, `Storage` |
| Retry worker `email/retry.ts` | one run at a time, its list | claim, retry job, budget, close | stale list, crash after send | `Delivery` |
| In-flight tracker `utils/inFlight.ts` | keys and count | runFor, isActive, drain | cap tested outside any lock | `Delivery`, `Shutdown` |
| Cleanup `storage/cleanup.ts` | raw files, rows, links, tombstones, markers | unlink then update; purge | overlapping runs; half-done after a crash | `Delivery`, `Inbound`, `Storage`, `Notices`, `Routing` |
| Refunds `billing/usageRefund.ts` | monthly counter | decrement | separate from the status write | `Delivery`, `Inbound` |
| Alias routing, chat migration, orphans | destination, version, audit rows | compare-and-set moves, topics, re-key | move against migration, deletion and erasure | `Routing` |
| Activation notices `activation/*` | bounded queue, claim row, token | admit, claim, authenticate, send, tap | limits, lost claims, stale buttons, shutdown | `Notices` |
| Quota notices `billing/quotaNotifier.ts` | claim rows | claim, send, release | claimed and not sent; month boundary | `Ingress` |
| Billing `billing/*` | subscription columns, event ids, grants | checkout, webhook, grant | duplicates, reordering, two sources of truth | `Billing` |
| Downloads, views, egress | links, egress counter | look up, claim, reserve, stream, settle | aborted stream, two requests of one link | `Storage` |
| User deletion `dataLifecycle/deleteUser.ts` | all tables, files | delete rows, then files | delivery, move or checkout in progress | `Storage`, `Routing`, `Billing` |
| Storage backfill `security/storageMaintenance.ts` | `.backfill.json` notes | read, replace, record, clear | interruption, files deleted meanwhile | `Storage` |
| Shutdown, polling | stop flags, deadlines, offset | stop, drain, close | everyone waiting; late work; skipped updates | `Shutdown` |

How they meet. The worker's upload is one request of the raw route; the route
and the recovery share the queue code and the stored path; the log row couples
the live job, the retry worker, cleanup and erasure; the owner's advisory lock
serialises queue decisions, preparations, moves, grants and erasure; the monthly
counter is charged by the queue, refunded by the delivery and read by the quota
notices; the tracker is shared by route, recovery, worker and shutdown. Each
module models one meeting place and reduces what lies beyond it to a single step
or to a nondeterministic outcome, named in its header. `PROJECT.json` lists every
component with what is and is not modelled of it, and the hazards at their lines.

## 2. Modules

| Module | Contents |
|---|---|
| `Delivery` | life of one accepted mail: live job, retry worker, cleanup, faults |
| `DeliveryPromise` | what that component promises, without its machinery |
| `Inbound` | from the request to the delivery log: storing, queueing, recovery |
| `Ingress` | from the sending server to its answer: worker, preflight, nonce, quota notices |
| `Storage` | one stored mail: files, bytes, links, erasure, backfill |
| `Routing` | where an alias delivers: creation, moves, migration, erasure |
| `Notices` | bounce notice of an alias that never delivered, and its allow button |
| `Billing` | billing state of a user: Stripe events, grants, checkout |
| `Shutdown` | the end of the process against the work it must not cut |
| `MC…` | instances for TLC |
| `…Proofs` | for each of the eight specifications, its inductive invariant and its theorems |

Definitions marked "Mutant", or collected under "Faulty variants", are not part
of a specification: each is a plausible bug that replaces one definition to show
that a property notices it.

### Delivery

`status`, `path`, `rows`, `prepared` and `refunds` are the columns of a log and
its attempts; `file` is the raw `.eml`; `pc["live"]` and `pc["retry"]` are the
control states of `deliverQueuedEmail` and `retryDelivery`, so a log could have
both jobs as far as the model is concerned. Only the code's own means keep them
apart: the tracker (`Active`), the conditional `Claim`, and the ages in `Due`.
Each action is one step between two awaits that matter:

- `Accept`, `Dispatch`: commit of the queue transaction, then the in-flight cap
  and the start of the job;
- `Prepare`, `Route`, `Send`, `Persist`, `Refund`, `PhotosDone`,
  `AbortForMigration`, `CatchReset`: the live job; the retry job enters at
  `Inspect` or `Close` and shares the tail;
- `Tick`, `Recover`, `Snapshot`, `Pick`, `Claim`, `RetryDone`, `RunEnds`: the run
  of the worker;
- `CleanUnlink`, `CleanClose`: cleanup;
- `PersistFails`, `StepThrows`, `ClaimFails`, `RefundFails`, `CatchResetFails`,
  `RawReadFails`, `CleanFails`, `Crash`: what can go wrong. A failed write may
  have been applied.

A send call makes up to `SendTries` tries. A try that times out may have been
accepted by Telegram; such a copy is counted in `landed` and in `excused`. The
other excuses are a record lost to a crash or a failed write, and a copy given
up for a chat migration. These two counters, `sends` and `faults` are history or
bounds; everything else is the program's state.

Ages are abstracted to what the code compares them with: `age` 1 is older than
`STALE_DELIVERY_MS`, `age` 2 is past the raw retention, `stale` is
`PROCESSING_STALE_MS`. A job may run through all of them. One timing assumption
is made, the one the code makes: two minutes do not pass between the commit of
a log and the tracker's `runFor` a few statements later (`GrowOlder`).

`Inspect` reads attempt counts, alias and file in one step: the counts belong to
this job, the file never comes back, and the alias decides the same at any point
of the step. Rendering is left out. Stopping a run for a shutdown is the subject
of `Shutdown`; the abrupt end of everything is `Crash`.

### Inbound

Every request has a stored path of its own; `MessageOf` tells which paths hold
the same message, so a resend is a second path. `file` and `meta` are the two
files on disk, `row` the log created with the path. `pc["request"]` and
`pc["recovery"]` go through the same queue actions (`Admit`, `Begin`, `Lock`,
`Check`, `Commit`), which hold the owner's advisory lock from `Lock` to
`Commit`; the alias lock inside it excludes nothing more, since an alias has one
owner. Reads and writes of the transaction are separate steps, so that it is the
lock that makes the decision still true at the commit. Everything after the
queue, the two deletions in the order of the route or of the recovery, is a step
each, and each can fail or be cut off by a crash.

Block list, sender rules, size, storage and subscription are nondeterministic
refusals. `Traffic` lists the sets of paths that requests may arrive for, and
`MaxUpsets` bounds errors, crashes and new months taken together; the proofs
hold for all of them. The owner's counters are kept per month: the month of the decision is
captured before the transaction, the month of `received_at` when it begins. The
unique dedup indexes are left out; the properties hold without them, and
`DecisionStillTrue` shows that the insert never meets them.

Timing assumption: a request is through `PENDING_RAW_MIN_AGE_MS` (two minutes)
after it wrote its metadata (`MetaGrowsOld`). The comment in `retry.ts` names
the race that this excludes; dropping the age check breaks `LogKeepsRawFile`.

A verdict lives as long as the handler that reached it. `LostOnlyByDecision` is
a property of steps: the only ones that leave an acknowledged mail with neither a
log nor a pending file are the 202 for an alias that the queue no longer found
active, and the recovery dropping a mail it has just rejected. Both break what
the route's comment promises (`AcknowledgedIsKept`, see Findings); nothing else
does.

### Ingress

A delivery attempt of the sending server is one invocation of the worker:
preflight, signing, upload, and a verdict for the server. Both routes answer by
`Door`, what authentication, rules and alias let through, and by the monthly
counter. An upload travels on `wire`; the network may lose the answer
(`FetchFails`), hold the upload back while it ages, or deliver a copy. `Arrive`
checks the signature's age, `ClaimNonce` inserts the nonce and deletes the old
ones, `RawDecides` is the queue transaction in one step. Rejections and
acceptances start `tasks`: the quota notices, which claim and then send. A send
that fails keeps its claim, so the notice is not tried again; a `Restart` loses
the tasks in memory. `failed` remembers both. The raw route looks the alias up
twice, so its door may be `"gone"`: the mail passed the first look and is dropped
at the second, with a 202. `Charge` writes the counter next to the log, `Refund`
takes one charge back from the month in which the mail was received, which need
not be the month that was charged. A refund may lower the count of a month before
or after its notice is claimed; `full` remembers which months did reach the limit,
and that is what `QuotaNoticeFits` compares the claims with. A change of plan is
left out: the limit is a constant of the instance, for any value of which the
theorems hold. `Used` is the set of counters the
first month may start with. `Limit` 5 is the smallest with a warning threshold
below it. The ages keep the proportions of the
code: `MAX_AGE_MS` and the skew, plus the time a handler may take, stay within
the ten minutes of a nonce (`IngressAssumption`).

### Storage

The meeting place is one stored mail. Operations occupy slots; two of them run
at once, each advancing one file or one transaction at a time. `disk[p].body` is
the sequence of keys a file was encrypted with, so a double encryption shows.
The owner's lock (`LockIsFree`) orders preparation against erasure; the single
statements that claim a link, reserve egress or clear a row are one step each.
`NoStrandedFile` excuses exactly the ways in which the code can leave a file: a
crash or rollback between a file and its row, an unlink that failed, and the
backfill's rename of a file that was unlinked meanwhile. An operation keeps what
it has in hand: the paths before and behind it, the path it works on, the key it
drew or looked up, and, for the backfill, its pass (`phase`). Every action takes
its slot as a parameter. `served`, `issued`, `overlap` and `lost` are history.

### Routing

Chats and users share one key space of advisory locks. `txn[p]` holds, for the
bot, a delivery and the CLI, the handler in progress with the locks it has and
the set it still wants; `Acquire` takes the smallest of these, as the code sorts
them, and `DeadlockAbort` is PostgreSQL's choice of a victim. Each handler is:
input, check (rights in Telegram), locks, re-check and write. A button on a
`screen` keeps the routing version it was drawn with. The migration of a group reaches the bot as two updates, in any order and any delay,
or through a delivery that fails with it. The topics of a group are abstracted
to one, named by its chat, which is what tells a topic of the wrong chat. A
`member` is what Telegram would answer for: the groups the bot is in and the
users with an account, so an alias that an administrator took to a private chat
of a user who then leaves Telegram is an orphan too (`Probe`, `Deactivate`). A
supergroup does not migrate again (`RoutingAssumption`): Telegram migrates a
basic group to a supergroup, never a supergroup.

### Notices

A job of the queue goes through `Start`, `ReadGate`, `Claim`, `BeginAuth`,
`AuthSettles`, `StoreDomain`, `Revalidate`, `BeginSend`, `Send`, `Settle`; the
authentication it started may outlive the job's patience and keeps its slot. A tap is one
transaction under the locks that the code takes. `DeliverySucceeds` and the
marker write are two steps, and cleanup may run between them: `Reconcile` with
its failure, then `PurgeLogs`. `Revalidate` is the `SELECT` of the last check;
its `COMMIT` is awaited before the send begins (`BeginSend`), and a delivery may
succeed meanwhile. So `WorkingAliasIsQuiet` is about the read: it never lets a
notice of an alias pass that has delivered. A notice that was let through goes
out although a delivery succeeds a moment later.

### Billing

Webhook events and grants are one step each, because each is a transaction that
holds the lock of the user's row; the checkout is three, since it talks to
Stripe in between. Events stay in `events` and may be delivered in any order and
again until recorded. `row` has the billing columns of `users`, `ledger` the
grants by payment reference. `decision` and `invoiced` are history.

### Shutdown

The signal handler's steps are those of `startup/shutdown.ts`: close the server
and stop the bot, drain the tracker, wait for the polling and the retry run that
were captured when it began, close the pool. Every one of them may hang; only
the watchdog is fair. Updates are numbered; `confirmed` follows grammY's offset,
which its `stop` also sends.

## 3. Runs

| Run | Instance | States | Shows |
|---|---|---|---|
| `Delivery_one` | 1 log, 2 counted attempts, 2 tries, 3 send calls, 2 faults, fair | 0.7 M | one job per log, every duplicate excused, refund once and final, budget, record of success, file lifecycle, final statuses, refinement; retention closes every mail, every run ends |
| `Inbound_one` | 2 of 3 paths, same message or rivals, limit 1, cap 1, 1 upset (error, crash or new month), fair | 0.9 M | one log per message, raw file kept, decisions true at commit, limits, acknowledged mail lost by decisions only; every request and recovery ends although a lock holder fails |
| `Billing_one` | 1 user, 2 subscriptions, 2 references, 2 grants of 3 kinds, 3 events | 2.7 M | grants stand, paid time kept, live subscription not replaced |
| `Routing_one` | 2 aliases, 2 users, 2 groups, 1 screen, 4 inputs | 1.3 M | unbroken audit trail, nothing delivers to a repaired chat, confirmations as shown, erasure complete |
| `Notices_one` | 2 jobs, 1 domain, 1 slot, budget 2, 1 rule | 2.9 M | exact counters, earned rules only, a working alias is quiet |
| `Ingress_one` | 2 mails, 2 deliveries, 1 copy, limit 5, 2 months, refunds | 4.6 M | no upload passes twice, bounces are decided, quota notices fit and warn |
| `Storage_one` | 2 attachments, 2 operations, 1 crash | 0.8 M | no stranded file, exact bytes, egress charged, links used once, attachments readable |
| `Shutdown_one` | 3 updates, 2 requests, 2 retry runs, 1 polling error, fair | 0.1 M | the pool outlives all work, skipped updates stay queued, the process ends |
| `Delivery_unclosed` | violation | | see Findings |
| `Inbound_paused` | violation | | see Findings |
| `Delivery_noattach` | violation | | see Findings |
| `Storage_backfill` | violation | | see Findings |

Bounds. Logs interact only through the worker's single hand, the cap and the
alias. The run has one log with many faults; for more than one the theorems of
section 4 stand, which hold for any set of logs and remove the bounds of every
safety property. The cap itself (`InFlightBounded`) is checked by no run, since one
mail cannot exceed it: `CapHolds` proves it. Three
send calls and two counted attempts include a live attempt, a retry and a retry
after the budget is spent; two faults include a crash after a failed write. Two
paths suffice for a race on one message or on the last unit of a limit; which two
arrive is chosen at the start of a behaviour (`Traffic`), and one upset meets any
step of either. In
`Billing` two subscriptions are needed to replace one by the other, two grants to
overwrite one by the other, three events to reorder a renewal around a
cancellation. In `Routing` one screen suffices because a tap compares with the
alias and not with other screens; four inputs include showing a button, two
changes that undo each other, and the tap. In `Notices` two jobs compete for one
slot and for the latest claim. In `Storage` two slots hold every pair of
operations, a cleanup overlapping another included, and the backfill after an
interrupted one. In `Ingress` the counter starts below the warning threshold,
one below the limit, or at it, so two mails cross either or meet both. In `Shutdown` three updates make a batch with a tried, a
current and an untried update.

Deadlock checking is on in `Delivery`, `Inbound` and `Billing`. It is off in
`Routing`, `Notices`, `Ingress` and `Storage`, where a behaviour ends when the
bounded inputs are used up, and in `Shutdown`, where the process ends.

Each property of a passing run has a faulty variant of one definition under
which TLC finds it violated. `TypeOK` is part of one run. Those of the other
modules, and every inductive invariant of section 4, were checked by TLC on the
same instances before they were proved.

### Fairness

Node runs a started job, request or run to its end, because every Telegram call
has a timeout and every query ends in a result or an error: weak fairness of
the step a job is at. In `Inbound` it is stated for all requests together: a
request has finitely many steps, so if some request that can go on always does,
none is left behind. Cron starts cleanup every 15 minutes and time passes: weak
fairness of cleanup and of ageing. PostgreSQL queues the waiters of an advisory
lock: strong fairness of `Lock`. Nothing is assumed about Telegram's answers,
faults, users, new mail, or the start of retry runs, which are skipped while
Telegram is unreachable; `RetentionCloses` therefore rests on cleanup. In
`Shutdown` only the timer of the watchdog is fair: `ShutdownEnds` holds although
handlers, requests and sends may hang.

### Findings

- **Deferred mail loses its attachments** (`Delivery_noattach`). Over the
  in-flight cap the preparation that stores attachments never runs, and the
  retry job only reads stored ones.
- **A log is left open for good** (`Delivery_unclosed`). A retry is between its
  send and its record when retention ends; cleanup unlinks the file and closes
  the log. The record of the failed send has no condition on the status
  (`db/repos/deliveryLogs.ts:116-122`) and sets it back to `failed`. Without a
  raw path neither the retry worker nor cleanup selects the row again, although
  `deliveryLogs.ts:187-189` says that cleanup closes such rows and
  `storage/cleanup.ts:287-288` that it closes them out. What does hold is
  `RetentionCloses`: every mail gets to the point where its file and path are gone
  and its log is closed.
- **An acknowledged mail is deleted** (`Inbound_paused`). The alias is paused
  between the look-up of the route and that of the queue: the route deletes the
  mail and then answers 202, because `statusForQueueRejection` has no case for
  `alias_not_found`, against `http/routes/raw.ts:227-228`. A mail over the hourly
  cap meets the same end when its recovery is rejected for another reason.
- **A raw mail is encrypted twice** (`Storage_backfill`). The backfill clears the
  note of a raw mail once its log row is written, and writes the mail's pending
  metadata later. Interrupted in between, the next backfill takes the encrypted
  file for plaintext.

Observed in the models and not the subject of a run:

- Delivery. Cleanup closes a log as permanently failed without a refund, although the changelog
  says such deliveries are refunded (`CHANGELOG.md:536`). A delivered mail
  reopened for a chat migration and closed later counts as lost, which
  `docs/operations/monitoring.md:361` defines as never received.
- Inbound. Recovery deletes the
  metadata of a rejected mail before its file (`email/retry.ts:298`); a crash
  between them leaves the orphan that `raw.ts:262-267` warns of. A transaction
  that begins in the month after its decision is charged to one month and
  refunded to the other.
- Ingress. A mail whose 202 was lost may bounce when the server tries again, if
  its own acceptance used the last unit of the quota.
- Storage. Overlapping cleanups release the raw bytes of a mail twice
  (`storage/cleanup.ts:305`; `StorageCharged` therefore speaks of raw bytes
  without overlap only). A retry issues a new view link (`ServedOnce` counts
  issued ones). A download looked up before the backfill replaced the file streams
  the encrypted bytes. The backfill's rename can bring back a path that was unlinked. An
  SQL error caught inside a transaction aborts it all the same
  (`email/pipeline/deliver.ts:156`).
- Notices. A delivery that succeeds between the last check of a notice and its
  send does not stop the notice (`activation/notice.ts:260-288`).
- Routing. The topic button does not compare the menu's chat with the alias's
  (`telegram/menu/aliasMenu.ts:172`). Locks of a move into one's own chat are
  taken in opposite orders by two moves (`db/repos/aliasRouting.ts:73`);
  PostgreSQL aborts one. An erasure by the CLI between a move's checks and its
  write leaves the erased actor's id in the audit row; `ErasedOwnerLeavesNoAudit`
  is about owners. Pause and resume do not compare the version.
- Billing. The check for a live subscription is made outside the transaction
  that deletes the user. Events of one subscription that arrive out of order
  overwrite a newer status. An invoice that arrives before its subscription is
  ignored for good. Two concurrent grants, or the replay of an older reference,
  make the newest recorded grant differ from the applied one; hence the
  condition in `OperatorDecisionStands`.
- Shutdown. Cleanup runs and quota notices are not tracked and not awaited.

## 4. Proofs

Every safety property of every passing run is a theorem: TLC shows it on the
instance of section 3, TLAPS for all values of the constants that satisfy the
`ASSUME` of the module. Per module a theorem `Inductive` (`Invariance` in
`DeliveryProofs`) proves that an inductive invariant `IInv` holds in every
reachable state; the others follow from it.

| Module | For all | Theorem | States |
|---|---|---|---|
| `DeliveryProofs` | logs, aliases, retries, tries, cap, faults | `TypeCorrect` | `TypeOK` |
| | | `NeverTwoJobs` | `OneJobPerLog` |
| | | `DuplicatesAreExcused` | `NoUnexcusedDuplicate` |
| | | `RefundOnce` | `RefundIsFinal` |
| | | `BudgetKept` | `RetryBudget` |
| | | `DeliveredWasSent` | `DeliveredIsRecorded` |
| | | `RawFileKept` | `RawFileLifecycle` |
| | | `CapHolds` | `InFlightBounded` (in no run) |
| | | `SettledStaysSettled` | action property `FinalLeftOnlyByRunningJob` |
| | | `Refinement` | `KeepsPromise`: `Delivery` implements `DeliveryPromise` |
| `InboundProofs` | finitely many paths, all messages, limits, months | `DecisionStillTrueHolds` | `DecisionStillTrue` |
| | | `LimitsKeptHolds` | `LimitsKept` |
| | | `OneLogPerMessageHolds` | `OneLogPerMessage` |
| | | `LogKeepsRawFileHolds` | `LogKeepsRawFile` |
| | | `LostOnlyByDecisionHolds` | action property `LostOnlyByDecision` |
| `IngressProofs` | mails, tries, limits, months, windows | `TypeCorrect` | `TypeOK` |
| | | `UploadPassesOnceHolds` | `UploadPassesOnce` |
| | | `BounceIsDecidedHolds` | `BounceIsDecided` |
| | | `QuotaNoticeFitsHolds` | `QuotaNoticeFits` |
| | | `WarnedBeforeLimitHolds` | `WarnedBeforeLimit` |
| `StorageProofs` | finitely many attachments, all sizes, limits, operations, crashes | `TypeCorrect` | `TypeOK` |
| | | `NoStrandedFileHolds` | `NoStrandedFile` |
| | | `StorageChargedHolds` | `StorageCharged` |
| | | `EgressChargedHolds` | `EgressCharged` |
| | | `ServedOnceHolds` | `ServedOnce` |
| | | `AttachmentReadableHolds` | `AttachmentReadable` |
| `RoutingProofs` | aliases, users, groups, screens, initial tables | `TypeCorrect` | `TypeOK` |
| | | `AuditChainHolds` | `AuditChain` |
| | | `RepairedChatEmptyHolds` | `RepairedChatEmpty` |
| | | `ConfirmedAsShownHolds` | `ConfirmedAsShown` |
| | | `ErasedOwnerLeavesNoAuditHolds` | `ErasedOwnerLeavesNoAudit` |
| `NoticesProofs` | jobs, domains, capacities, budgets | `TypeCorrect` | `TypeOK` |
| | | `NothingLeakedHolds` | `NothingLeaked` |
| | | `TapAddsEarnedDomainHolds` | `TapAddsEarnedDomain` |
| | | `WorkingAliasIsQuietHolds` | action property `WorkingAliasIsQuiet` |
| `BillingProofs` | users, customers, subscriptions, references, grants | `TypeCorrect` | `TypeOK` |
| | | `OperatorDecisionStandsHolds` | `OperatorDecisionStands` |
| | | `PaidThroughKeptHolds` | `PaidThroughKept` |
| | | `LiveSubscriptionKeptHolds` | action property `LiveSubscriptionKept` |
| `ShutdownProofs` | updates, requests, ticks, polling errors | `DbOutlivesWorkHolds` | `DbOutlivesWork` |
| | | `SkippedStaysQueuedHolds` | `SkippedStaysQueued` |

The bounds on inputs (`MaxFaults`, `MaxOps`, `MaxInputs`, ...) are constants too,
so a theorem covers behaviours of any length. A proof module has one lemma per
action, or per group of actions, and part of the invariant; frame lemmas
(`Untouched`, `HandlerKept`, `Moves`) say once what a step leaves alone. The
properties that say most are not inductive. What each invariant adds:

**Delivery.** Per log: no job works on an absent row; which control states each
kind of job can have; a retry job belongs to the log the worker is busy with, and
a log the worker lists or holds is old enough to have left the queue
(`JobOwner`); a log at a step before its send is not recorded as delivered
(`Undelivered`), and all its copies but the one in hand are excused
(`CopiesExcused`); a refund is the last step of a job on a closed log
(`RefundLast`); the retry job's counts are those of the rows, since nobody else
adds one (`AttemptRows`); the order of file and path in cleanup (`CleanupOrder`).
The refinement maps the status to a phase and shows action by action that a step
is one of the promise or a stutter. `CapHolds` has an invariant of its own
(`CapInv`): the jobs started under the cap, the one the worker recovers left out,
are finite and within it. Finiteness is part of that invariant, because a step
adds at most one job, so that the set of logs need not be finite.

**Inbound.** `Global` is what the owner's lock protects: who checks or commits
holds it (`LockHeld`), and while it is held nobody else changes what the decision
read. Per path: a mail is the request's until its metadata is old and the
recovery's from then on (`Turns`); which files exist at which step (`Stored`);
what a verdict says about the log (`Unlogged`, `Decided`); that an answered mail is no longer the request's
(`Kept`); and that a log without its file is at the end of retention (`RawKept`).

**Ingress.** `Signatures`: nothing of a try that is not signed yet is under way
(`Ordered`), and every copy of a processed upload is too old for the signature
check or meets a nonce young enough to be there (`Guards`). This is where
`MaxAge + MaxSkew + HandlerTicks <= NonceTicks` is used. `Answers` ties what the
worker was told to what a route decided. `Quota`: one task per claim is sending,
a claimed exhaustion notice is about an exhausted month, and a month in its
warning band has its warning sent, failed, or coming. A rejection is fired in a
month that was full at its decision; a refund between decision and claim cannot
take a month out of `full`, which is why the invariant speaks of it and not of the
count.

**Storage.** `Core` has the shape of each operation at each step, the single
preparation of a mail and the exclusion of preparation and erasure by the owner's
lock. On it rest, independently of each other: `Files`, where who has unlinked a
file may count on it being gone and an erasure has listed every row; `Keys`,
which says for each step of preparation and backfill what body, note and row of a
path agree on; `AttBytes` and `RawBytes`, the counters together with what an
operation has in hand; `EgressBytes`, reserved and not yet served; `Links`, where
a slot issues its links once, so that a spent link never comes back; and `Views`.
The rows of a mail still being prepared are why attachments need `Untouched`:
nobody else has one of them in hand before the preparation ends.

**Routing.** `HandlerOK` says what a handler knows at its stage under the locks it
holds: a move the owner and the chat of the version it expects (`MoveOK`), a
chat that gets an alias that it is locked and not repaired (`IntoOK`), a repair
that it holds or will take the lock of every owner it writes about (`RepairOK`),
an erasure that it has seen every audit row of the user (`EraseOK`). A write
under locks `K` leaves handlers that hold other locks what they know. `Screens`
ties a button's version to the changes since it was drawn, which is why equal
versions mean an unchanged alias. `Trails` numbers the audit rows of an alias by
its changes; two lemmas extend the chain by a link or leave it.

**Notices.** `Counted` and `Line` say what the three counters of the queue count
and that the line holds every waiting job once; `Earned` follows a domain from the
authenticated mail through the activation row and the notice to the rule; `Known`
says where the evidence of a delivery is while its marker is missing.

**Billing.** `Applied` relates the last applied grant to ledger and row; only a
business plan keeps the link to Stripe (`LedgerValid`), so an event finds no
subscription to write through. `LiveSubscriptionKept` follows from the type
invariant, which ties a subscription to its customer, and the guards of the
webhook.

**Shutdown.** `Captured`: what the signal handler captured covers what still runs;
`Stages`: no request after the server closed, no delivery after the drain, no run
after the pool was asked to close; `Batches`: the updates in hand follow the last
one tried.

What the proofs brought to light about the models, since corrected: type
invariants that left out a field; overlapping `CASE` arms in `Inbound`, whose
order TLC chose silently; a removal from the line of `Notices` that was right only
for a job that is in it; an initial counter above `Limit` for small limits in
`Ingress` (now `Used`); a lock plan in `Routing` that was a sequence and hid its
order, and the need to say that a supergroup does not migrate; control states in
`Storage` that were put together from strings. The invariant of `Storage` failed
twice under TLC before it was proved: the path in the backfill's hand must not be
among those left, and a cleanup at its raw transaction has no other path left.

Assumptions. `TLAPS` takes the `ASSUME` of each module and the timing assumptions
of section 2, which are guards of actions. Finiteness is assumed of the paths in
`Inbound` and of the attachments in `Storage`, whose bytes are counted.

Only model-checked: `RetentionCloses`, `RetryRunEnds`, `ActorsEnd` and
`ShutdownEnds`, because liveness under fairness is outside the prover's reach;
absence of deadlock, which is `ENABLED`; and the four violations of section 3,
which counterexamples show.

## 5. Not modelled

- Parsing, rendering, formatting and localisation: text without state.
- Cryptography, key rotation (re-wrapping of data keys), metadata columns, the
  start-up check of the storage; two backfills at once.
- Metrics, logging, uptime probes, health endpoints, configuration, CLI parsing.
- The export of a user's data, the customer portal and admin pages, which only
  read.
- In-memory sessions and the dialogs of labels and settings; an answer to a
  prompt may arrive at any time and is checked again in the model.
- The sender's fallback from rich to plain text, flood waits and batches of
  photos: in `Delivery` these are tries of one call.
- A change of plan while quota notices are under way: the limit of `Ingress` is a
  constant.
- The composition of sub-stages of one mail in a single instance: the modules
  meet at the log row and each takes the others' effect on it as a step.

## 6. Plan

1. Done: the eight specifications, the promise of `Delivery`, and the proof of
   every safety property the runs check.
2. An abstract specification for `Inbound` (a message is stored, then logged once
   or dropped) and for `Routing` (an alias is at one chat at a time), with the
   refinement proved from the invariants that exist.
3. Action properties that follow from the invariants: the retention order of
   `Storage` and the monotony of the audit trail in `Routing`.
4. Telegram sender in detail, key rotation, and the pure decisions (allow rules,
   effective plan) as operators.
