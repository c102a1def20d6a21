# CryptoPulse in TLA+

CryptoPulse is a Telegram bot that sends cryptocurrency prices to its subscribers at
intervals they choose, and alerts when a price crosses a target. It runs as several
replicas of one Go process that share a PostgreSQL database. Everything that must survive
a crash is a row, everything that must not happen twice is guarded by a lease, a fence
(`claim_token`, `attempts`) or an advisory lock, and this project models those rows, leases
and locks: what happens to them when replicas, users, Telegram and the clock take turns.

Contents: [inventory](#inventory), [modules](#modules), [runs](#runs), [bounds](#bounds),
[fairness](#fairness), [proofs](#proofs), [what the checks found](#what-the-checks-found),
[abstractions](#abstractions-and-what-is-not-modelled), [plan](#plan).

To repeat: `tlc -config X.cfg M` for a run (module and configuration are in
`PROJECT.json`), `tlapm XProofs.tla` for the proofs of module `X`.

## Inventory

| component | source (internal/app unless said) | state it keeps | operations |
|---|---|---|---|
| notification outbox | `notification_outbox.go` | `notification_jobs`, delivery columns of `subscribers` | create by cron, insert by alert, claim, validate, send, mark retry / failed / canceled / sent, retention |
| reply outbox | `telegram_reply_outbox.go` | `telegram_replies` | insert with the update's transaction, claim in id order, send or edit, marks, retention |
| Telegram inbox | `telegram_inbox.go` | `telegram_updates`, `telegram_update_stream` | save with an epoch, claim in chat order, process in one transaction, mark, retention |
| mutation order | `telegram_mutation_order.go` | `telegram_mutation_versions` | admit a mutation only if newer than the last one of its setting |
| user command handlers | `telegram_handlers.go`, `price_alert_handlers.go` | `subscribers`, `price_alerts` | subscribe, unsubscribe, interval, language, alert dialogue |
| sent finalization | `sent_finalization.go` | none (a loop) | retry the "sent" transaction within a time budget |
| retry policy | `workers/policy.go`, `telegram_errors.go` | none | backoff, Telegram's `retry_after`, permanent errors |
| chat advisory locks | `telegram_inbox.go`, `storage/advisory_lock.go` | a session of the lock pool per held lock | acquire, release, discard |
| price alerts | `price_alerts.go` | `price_alerts`, `price_alert_crossings` | create, record a crossing, trigger, cancel |
| price ticker | `pricing.go` | `market_prices`, `PriceCache` of each replica | begin an observation, fetch, store, cache, warm up, start the trigger pass |
| command menu | `telegram_menu.go` | the menus, kept by Telegram | read, extend, write, per language |
| HTTP endpoints | `http_handlers.go`, `app.go` | producer count, shutdown flag, cron lock | webhook, cron, readiness |
| lifecycle | `run.go` | contexts, wait groups, pools | start, drain, stop, close |
| retention | `retention.go` | none | delete finished rows in batches |
| HTTP server | `httpserver/` | rate limiter buckets | limit, forget quiet clients |
| storage | `storage/` | `goose_db_version`, the schema, the migration lock, two pools | open, lock, migrate, verify |
| config, metrics, texts | `config/`, `metrics/`, `telegram/` | none over time | parse, count, format |

How they interact. The webhook saves an update and answers; an update worker claims it,
takes the chat's advisory lock on a connection of its own, and runs one transaction that
admits the mutation, writes the settings, inserts the replies and closes the update. Reply
workers pick those rows up. Cron inserts notification jobs; the ticker inserts one with
each triggered alert; alert workers pick them up. All three kinds of worker, and the
handlers that unsubscribe or cancel, meet at the chat's advisory lock and at the rows. The
ticker of every replica stores prices and the alerts they cross in one transaction and then
triggers what is recorded, trying each chat's lock without waiting. Advisory locks live on
connections of a pool of their own, everything else shares the query pool. A signal, or a
failure of the HTTP server, drains producers, server, workers and pools in that order.

What is hard here:

- a lease may run out on a worker that is still at work, and another one takes the row;
- a send whose answer is lost may have been delivered; a commit whose answer is lost may
  have happened;
- the advisory lock lives on another connection than the transaction it protects, and
  either can be lost without the other;
- a check ("still subscribed?", "claim still current?") is old by the time the send starts;
- updates arrive twice, late and out of order, and their ids restart after a quiet week;
- ids of reply rows are drawn before commit, so id order and commit order can differ;
- time windows are chosen so that timeouts add up, which no test waits for;
- a price may have been asked for before an alert was created and arrive after it, and two
  replicas observe, trigger, create and cancel at once;
- a connection may go back to its pool with a lock on it, or be lost for the pool;
- a request may pass the shutdown check while the check is being switched, and a probe uses
  the database although nobody waits for it;
- replicas of two builds migrate one database during a deploy.

Each of these is listed in `PROJECT.json` under `hazards` at the line where it bites, with
the properties that would catch it.

What makes a component correct: an outbox delivers what it accepted exactly once, unless
something hid the outcome of a send, and never leaves a row behind; the scheduled job of a
chat is unique and respects its interval; replies are seen in order; a user's settings end
up as the user last asked, whatever the network did to the updates; an alert fires once, on
a price quoted after it was made, and never after it was canceled; nobody waits for ever for
a lock, a connection, a shutdown or a start; and the pools close when nobody uses them.

## Modules

| module | models |
|---|---|
| `NotificationOutbox` | the notification outbox, with every producer and every handler that writes the same rows, and the chat locks |
| `ReplyOutbox` | the reply outbox, from the transaction that inserts replies to retention |
| `TelegramInbox` | Telegram's delivery, the inbox, the mutation versions and the update workers |
| `DurableDelivery` | the abstract specification both outboxes implement |
| `PriceAlerts` | the tickers, caches and alert tables of several replicas, the users and the delivery of alerts |
| `OneShotAlerts` | the abstract specification `PriceAlerts` implements |
| `Lifecycle` | a replica's main goroutine, HTTP server, requests, probes, workers and background loops, from serving to closed pools |
| `LockPool` | the two connection pools of a replica and PostgreSQL's sessions behind them |
| `Startup` | migration lock, migrations and schema check of several replicas of different builds |
| `CommandMenu` | extends `Startup` with what a started replica does to the command menus |
| `RateLimiter` | the token buckets of the webhook's clients and their cleanup |
| `NotificationOutboxProofs`, `ReplyOutboxProofs`, `TelegramInboxProofs`, `PriceAlertsProofs`, `LifecycleProofs`, `LockPoolProofs`, `StartupProofs`, `RateLimiterProofs` | theorems about the module in their name (`StartupProofs` also about `CommandMenu`) |
| `MCQueues` | the inbox and the reply outbox side by side, for the run that asks whether they drain |
| other `MC...` | what the runs need beside the configurations: symmetry sets, scenarios, a function |

One committed transaction of the code is one step. What a worker does between transactions
is its `pc`, whose values follow the code: for an alert worker `claimed` (waiting for the
chat lock), `locked` (asking whether the notification is wanted), `enabled` (asking whether
the claim is current), `validated` (the database has answered; the answer is on its way),
`sending`, `finalizing` (the loop of `sent_finalization.go`), `marking` (one of the other
marks) and `releasing`. Reply workers lack `enabled`, update workers send nothing and have
`processing` for the transaction, and before it, in a subscribe, `allowed`: the handler is
about to read the language (`getLangWithDB`), which it writes back at the end of the
transaction. The other handlers that read the language only use it for their texts.
`PROJECT.json` maps every definition to its lines.

**Time.** A time column holds the ticks left until its value, cut off where no comparison of
the code distinguishes any more, so the model has no clock that grows. A running call has a
number of ticks `left`; `Tick` is disabled while some call of a worker that is not paused
has none left, which is what a context timeout guarantees. A paused worker (`Stall`: garbage
collection, a frozen container, a slow network stack) is exempt. `last_sent` and
`scheduled_at`, which the code compares truncated to minutes, count minute boundaries.
`TelegramInbox` has no clock: none of its properties depends on how long a lease lasts, so
leases and backoffs run out at any moment.

**Claims.** `claim_token` is random in the code and `attempts` grows by one with each claim;
both are the number of the claim in the model, and `Owns` is the WHERE clause that compares
them. Two history variables, `accepted` and `disturbed`, record which claims Telegram
accepted and which were hit by a fault that hides the outcome.

**DurableDelivery** knows only whether a job is open or how it ended, which tries were
accepted and which are in doubt. It says that a job ends once, is `sent` only if a copy was
accepted and `failed` only if no copy certainly was, and that a second copy is accepted only
if one of the two is in doubt. The outboxes map `phase` to the status of the row, `doubted`
to `disturbed`.

**PriceAlerts.** A ticker's cycle is `idle`, `fetching`, `listing`, `triggering`; a fetch is
`asking`, `quoted`, `storing` (the transaction is open and holds the row lock of the symbol)
and `stored` (committed, not yet cached). The database clock `now` is one number, because
every comparison of the code uses `clock_timestamp()`. The chat lock is held by an open
update transaction or a delivery (`updates`, `sends`). A crossing carries the ghost
`quotedAt`, the moment the exchange really quoted its price, which the code cannot know: it
only knows that it asked after `startedAt`.

**OneShotAlerts** knows the status of an alert and of its message: an alert becomes active,
then triggered, with an open message in the same step, or canceled, with its message; an
ended message never opens again.

**LockPool.** A session is a connection with the set of keys it holds and whether PostgreSQL
has ended it. Discarding a connection leaves its lock behind for a while (`orphans`), as the
backend may notice later. In the query pool only the number of connections counts.

**Lifecycle.** `Grace` is what is left of the shutdown budget; the main goroutine's places
follow `Run` from the select to the deferred closes. `Once` is the part of the background
goroutines that ends by itself (the menu synchronisation).

**Variants with a mistake.** A few operators in the modules are marked "Variant with a
mistake": each repeats the definition after it with a plausible bug (a dropped guard, a
swapped comparison, a missing reset). Nothing uses them. `PROJECT.json` pairs each with the
property that must fail when it takes the definition's place, so that every property is
known to be able to fail.

## Runs

| run | question | answer |
|---|---|---|
| `notification_safety` | one job, two workers, a user, two faults, all timeouts at work | no message is resent unless something hid its outcome (`ResentOnlyIfDisturbed`); two workers send one job at once only after a pause *and* a lost lock (`OneSenderPerJob`); the lease outlasts the work of a worker that is not paused (`LeaseCoversWork`); nothing unwanted is sent under the lock (`SendsOnlyWanted`); `DurableDelivery` is implemented |
| `notification_schedule` | two rows of one chat, cron with an interval of one tick, subscribe and unsubscribe, a fault | one open scheduled job at a time, from the due query alone and without the unique index (`OneOpenScheduledJob`); `cron_claimed_until` is never left behind (`NoOrphanCronClaim`); no schedule earlier than the interval after a delivered one, although finalization sets `last_sent` back to the schedule time (`ScheduleKeepsInterval`); every job ends, with finitely many faults and updates (`EveryJobFinishes`) |
| `reply_safety` | two replies of one chat, inserted by two transactions, two workers, two faults | no reply is overtaken, because the chat lock covers the drawing of ids and the commit (`NeverOvertaken`); the chat never goes back to an earlier reply unless a worker was paused in its send and lost its lock (`NeverGoesBack`); `DurableDelivery` is implemented, so no reply is resent unless its outcome was hidden |
| `inbox_safety` | three updates in any order, repeatedly, two workers; two updates with crashes, overrun leases, failed marks, lost commit answers, a lost lock; three around a quiet week without delivery lag | the settings are what the user last asked, the language as long as no lock is lost (`ProcessedMutationInForce`); at most one effect per update (`MutationAtMostOnce`); an old interval never reaches a new subscription (`OldIntervalNeverApplied`); updates take effect in the order of their ids among those saved (`ProcessedInSavedOrder`); closed updates stay closed (`TerminalIsFinal`) |
| `inbox_epoch_lag` | a quiet week with a delivery lag | **violated**, see below |
| `inbox_lost_lock` | a subscribe and a choice of language in any order, a lost lock session | **violated**, see below: a late command overwrites a newer setting (`NewerSettingKept`) |
| `queue_liveness` | does every update end, and every reply? | yes (`EveryUpdateFinishes`, `EveryReplyFinishes`) |
| `alert_observation` | two replicas, one symbol, one chat that creates and cancels; or one replica for longer; a failure, a lost answer or a restart | a recorded crossing was quoted after the alert and its base, and is fresh (`ObservedInTime`); the first crossing decides (`FirstCrossingDecides`); a cached price was committed (`CacheIsCommitted`); alerts are one-shot (`ImplementsOneShotAlerts`) |
| `alert_delivery` | two chats, batches of one, deliveries, another update of a chat or a restart with alerts disabled | a chat stays within its limit (`WithinLimit`); a canceled alert is not being sent (`CanceledNeverSent`); a pass leaves only what was busy (`PassSkipsOnlyBusyChats`); every recorded crossing is consumed (`EveryCrossingConsumed`) |
| `lifecycle` | two producer requests, a probe, a worker and two background goroutines when a signal comes or the server fails | the pools close only when nobody uses them (`ClosedOnlyWhenUnused`); the server's error is returned (`ServerErrorReturned`); no producer is admitted after the stop (`NoProducerAfterStop`); no probe answers ready after it, however long its ping took (`NeverReadyAfterStop`); every shutdown ends (`ShutdownCompletes`) |
| `lock_pool` | two workers of one chat, cron, a plain user of the query pool, two faults | no idle session holds a lock (`IdleSessionsHoldNoLock`); locks exclude unless a session was lost unaware (`LockIsExclusive`); the budget covers the workers (`BudgetCoversWorkers`); everybody gets through without the help of a timeout (`EveryoneGetsThrough`) |
| `startup` | replicas of two builds start, fail, crash and restart and then write the menus | migrations run once (`NoMigrationRepeated`); who serves has its schema (`ServesItsSchema`); everybody gets to serve (`EveryReplicaServes`); no user loses a command of the menu (`KeepsCommandsWithRoom`) |

`RateLimiter` has no run: what matters about it is proved. `TypeOK` states the types of each
module's variables; it is proved where the module has proofs and is there for the reader and
for later proofs elsewhere.

## Bounds

`MaxFaults`, `MaxUpdates`, `MaxEvents`, `MaxWeeks`, `MaxLosses`, `MaxTime`, `MaxAlerts` and
`MaxRetryAfter` bound what the environment does and are guards of its actions only; the
program's own actions have no bound. `inbox_safety` and `alert_observation` cut their state
space with a constraint (`Scenarios` in the MC module): each keeps the union of a few
scenarios, wide without faults and narrower with them. Neither checks liveness.

- *Two workers, one or two rows.* The conflicts are between two claims of one row (two
  workers) or between two rows of one chat (two rows). A third worker in a row's life is
  played by a worker that became idle again.
- *Two faults.* The worst legal duplicates need a pause and a lost session; one fault does
  not reach them, so the exceptions in the properties are met.
- *Two attempts.* The first attempt retries, the second is the last: both branches of the
  limit. Claims beyond it come from faults.
- *Windows.* In `notification_safety` every timeout is positive and the inequality of
  `ClaimWindowAssumption` has two ticks of slack (2 + 1 + 1 + 3 < 9, 2 + 1 + 1 + 2 + 1 <= 9).
  The code's values, in seconds, satisfy the same assumptions: 5 for the rest of the claiming
  call, 10 for the lock, 5 for each check, 10 for the send, 5 for a mark and for
  finalization, a safety window of 15 and a claim window of 45, that is 15 + 5 + 5 + 15 < 45
  and 15 + 5 + 5 + 10 + 5 <= 45. `notification_schedule` and `queue_liveness` use smaller
  windows and more rows.
- *Three events.* Subscribe, interval and a later change are the shortest conflict over one
  setting that has a past and a future; the quiet week needs a third event after a restart.
  A choice of language conflicts with a subscribe alone, so two events are enough for it.
- *Two queues in one run.* `queue_liveness` checks the inbox and the reply outbox without
  crossing their states: one queue moves while the other is still at its start. Where they
  meet, at the chat's lock, each of the modules has the other side as an action of its own.
- *Alerts.* Prices 2 and 4 let an alert be crossed or not: `alert_observation` has the
  threshold +100 %, `alert_delivery` -50 %, so each direction is run but never both at once;
  no property relates an alert to one of the other direction. Time runs to 4 for one replica: base and creation at 1, cycle and quote at 2,
  and with a freshness of 1 a quote that is stored at 4 is too old. Two replicas need 3.
- A *limit of one alert* in `alert_delivery`, so that a second one of the chat meets the limit,
  while an alert in each of two chats is enough for a busy chat to hold up another.
- *Lock pool.* A pool of two and a reserve of zero are the smallest that `PoolAssumption` lets
  the two workers have, so that a cron request meets an exhausted pool; a query pool of one
  connection is the smallest, where waiting for each other shows first.
  Two cron requests are covered by the proof of `LockIsExclusive`.
- *Startup.* Two builds that differ by a migration that `VerifySchema` does not look at;
  the default menu and two languages, menus of at most two commands.

`CHECK_DEADLOCK FALSE` is set for the inbox, the alerts, the lifecycle and the start, which
really stop: all events processed, time used up, process ended, everybody serving. The
outboxes have a clock and the pools their clients, and never stop.

## Fairness

Weak fairness of a worker's own steps: its loop runs and every call ends by its timeout.
Weak fairness of `Tick`: time passes. Weak fairness of a handler's end and of `ReapSession`:
transactions have timeouts, and PostgreSQL closes the sessions of dead processes. Weak
fairness of leases and backoffs running out in `TelegramInbox`. Claiming in the outboxes
gets strong fairness: a worker polls every two seconds and skips a chat whose lock is held,
so it claims a row if there are again and again moments at which the chat is free. A client
of a pool and a replica at its start get strong fairness too: one for which the way is free
again and again is let through. PostgreSQL queues those who wait for a lock; `database/sql`
promises no order among those who wait for a connection, but hands every returned one to
somebody who waits, so passing over the same one for ever is what is assumed not to happen. In `PriceAlerts` the ticker, its requests and
transactions and the ends of updates and deliveries are weakly fair; in `Lifecycle` the
goroutines and the clock, not the exchange, the signal or the server's failure. The ticker
only *tries* a chat's lock: that updates which happen to hold it are finitely many is part of
`MaxFaults`. Faults and users get no fairness. That faults are finitely many is assumed
through the bound: with a fault in each attempt no job could end, and neither could one whose
worker is paused again and again (`EveryJobFinishes` says nothing about such a worker).

## Proofs

Every safety property that a passing run checks is also a theorem, for every value of the constants
within the assumptions, both refinements of the outboxes and that of the alerts included.
What the runs show of an instance is thus shown of any number of chats, rows, replicas,
workers, faults and of all windows. TLC checked each inductive invariant on the run's
instance before it was proved. The assumptions on the constants stand in the modules that
declare them, and TLC evaluates them in every run.

### The notification outbox

| theorem | statement |
|---|---|
| `FencesHold` | `Spec => []IInv` |
| `TypeCorrect` | `Spec => []TypeOK` |
| `NoSilentResend` | `Spec => []ResentOnlyIfDisturbed` |
| `OneSender` | `Spec => []OneSenderPerJob` |
| `LeaseSuffices` | `Spec => []LeaseCoversWork` |
| `FinishedStaysFinished` | `Spec => TerminalIsFinal` |
| `OneOpenScheduled` | `Spec => []OneOpenScheduledJob` |
| `OnlyWantedIsSent` | `Spec => []SendsOnlyWanted` |
| `NoReservationIsLost` | `Spec => []NoOrphanCronClaim` |
| `IntervalIsKept` | `Spec => ScheduleKeepsInterval` |
| `OutboxDelivers` | `Spec => ImplementsDelivery` |

Assumptions: job ids are positive numbers, there is a chat, a worker is none of the markers
of a lock that has no worker, the windows are natural numbers, `SafetyWindowAssumption`
(a valid claim outlives the call that validated it and the send) and
`ClaimWindowAssumption` (the claim window covers the sum of the timeouts).

None of the safety properties is inductive. That no message is resent, for instance, rests
on the next claim being impossible while a worker finalizes, which rests on the chat lock
being held, which rests on how the lock is acquired and lost. `IInv` is the conjunction of

- `ClaimsExist`, `ClaimsDistinct`, `TokenCurrent`: a worker refers to an existing row and to
  one of its claims, no two workers to the same claim, and the token is the last claim's;
- `LockOfOwnChat`, `CriticalLocked`: a worker holds the lock of its own chat only, and holds
  it from `locked` to `finalizing` unless its session was lost (and the claim is disturbed);
- `LastClaimOpen`: only the worker of the last claim, or a user, ends that claim;
- `ValidatedIsLast`: a validated claim stays the last one while the lock is held, because a
  new claim needs the lock free;
- `AcceptedIsLast`: an accepted, undisturbed claim is the last one, and is recorded or is
  about to be;
- `LeaseCovers`, `LeaseCoversSend`: what is left of the lease is at least what is left of
  the current call plus the timeouts of those to come.

The step proof does not treat each of the thirty-odd actions against each conjunct. Actions
are first shown to be instances of a few kinds of step: a *quiet move* (one worker changes
its `pc`, rows and locks stay), a *row step* (rows change only in ways no fence looks at, as
cron, handlers and retention do), a stop, a lock acquired, a lock lost, an outcome written,
a claim, a tick. One lemma per kind then shows that it keeps the fences.
`FinishedStaysFinished` follows from the row effects of each action with `Owns` as the
fence; `OneOpenScheduled` is inductive over the actions that open a row, which is cron alone.

The other results add to `IInv`: `OnlyWantedIsSent` that a worker under the lock whose claim
is its own has a wanted job (`WInv`: the answer of `notificationEnabled` cannot become old,
because handlers need the lock, and a job taken over or canceled is not its own any more);
`NoReservationIsLost` that the transactions which end the open scheduled job of a chat are
the ones that clear `cron_claimed_until`; `IntervalIsKept` that no finished schedule is later
than the open one (`SentIsOldest`), so that `last_sent` set back to a schedule time still
keeps the interval; `OutboxDelivers` that a claim is accepted once and that what is finalized
was accepted (`AcceptedOnce`). The refinement is proved step by step: one lemma per abstract
action says when a change of rows and logs is that action, and every action of the outbox
is one of them or changes no phase and no log.

### The reply outbox

`RepliesConsistent` (`[]IInv`), `TypeCorrect`, `RepliesInOrder` (`[]NeverOvertaken`),
`NeverBack` (`NeverGoesBack`) and `RepliesDelivered` (`ImplementsDelivery`). The assumptions
are those of the notification outbox; reply ids are positive numbers and nobody is a reply
worker and an update worker at once. The fences are the same, except that the lease is
followed only to the end of the send; the order of replies needs four facts more:

- `Rows`: a row not yet committed belongs to an open transaction of its chat;
- `Drawn`: the sequence hands out ids in order;
- `LockedIsLatest`: while its transaction holds the chat's lock, an uncommitted row is later
  than every committed row of the chat and than what the user sees;
- `ClaimedIsFirst`: a reply that was ever claimed has no open reply of its chat before it.

`LockedIsLatest` is why an id drawn before the commit does no harm: it makes the commit keep
`ClaimedIsFirst`, which the claim's NOT EXISTS establishes and everything else keeps, and
what was shown was claimed. The chats with a transaction that lost its lock are the exception
(`unserialized`). `NeverBack` follows with the fences: a worker that is not paused, or holds
its lock, has the last claim of an open reply, and a later reply has not been shown then.

### The Telegram inbox

`InboxConsistent` (`[]IInv`), `TypeCorrect`, `AtMostOnce` (`[]MutationAtMostOnce`),
`InSavedOrder` (`ProcessedInSavedOrder`) and `ClosedIsFinal` (`TerminalIsFinal`), with any
delivery lag. `IInv` says that a row belongs to the event that carries its id, that a
worker's claim is one of its row, that a committed update is closed and its row is kept as
long as Telegram may deliver it again (`Once`), and that nothing saved before a claimed update
and preceding it in its chat is open (`ClaimedInOrder`).

`ProcessedStaysInForce` (`[]ProcessedMutationInForce`) and `OldIntervalIsRefused`
(`OldIntervalNeverApplied`) assume `DeliveryLag = FALSE`, that is, that the quiet week after
which Telegram restarts its ids is also one for the bot. The condition cannot be dropped:
`inbox_epoch_lag` is its counterexample. Their invariant `OInv` (`OrderConsistent`) adds that
the stamps (epoch, id) of updates follow the order in which the users acted: those of the
rows, of what is still to be delivered and of the versions (`Sequential`, `NoLaterStamp`,
`LiveInOrder`, `StampsInOrder`, `VersionsKept`); and that versions and settings match, that a
decision to apply a mutation stays right while the row lock of its version is held, and that
what was processed is covered (`VersionsMatch`, `Decided`, `Locked`, `ClosedHeld`). The first
group is about Telegram and the epochs, the second about the transaction. For the language
`LInv` (`LanguageConsistent`) adds `LanguageKept`: as long as no lock session is lost, the
language is that of its version, and what a subscribe has read and is about to write back is
the language still, because everybody else who could commit one needs the chat's lock. The
condition on the lock cannot be dropped either: `inbox_lost_lock` is the counterexample.

### The price alerts

`AlertsConsistent` (`[]IInv`), `TypeCorrect`, `CrossingsInTime` (`[]ObservedInTime`),
`BaseIsCommitted` (`[]CacheIsCommitted`), `LimitHolds` (`[]WithinLimit`), `NoCanceledSend`
(`[]CanceledNeverSent`), `FirstCrossingKept` (`FirstCrossingDecides`), `PassIsComplete`
(`PassSkipsOnlyBusyChats`) and `AlertsAreOneShot` (`ImplementsOneShotAlerts`). The conjuncts
of `IInv`:

- `QuoteTimes`, `OneWriter`, `PriceOrder`: a price was quoted after its cycle began, the row
  of a symbol has one writer, stored prices follow each other in time and the caches follow
  them;
- `SeenInTime`: what an open transaction read of the alerts it saw crossed still holds when
  it commits, which is what makes `ObservedInTime` inductive;
- `Rows`, `Drawn`, `Sending`, `Limited`: jobs fit their alerts, an alert not yet committed has
  an id of its own and is counted in the limit already;
- `Listed`, `Ahead`: a listed candidate carries the crossing of its alert, and what a pass
  still has to trigger lies in the batch or behind all of it. This is why paging by id with
  `afterId` skips nothing although alerts are created and canceled between two pages.

### Lifecycle, pools, start and limiter

`LifecycleProofs`, for any number of producers, probes, workers and loops and a budget longer
than a ping (`LifecycleAssumption`): `PoolsOutliveUsers` (`[]ClosedOnlyWhenUnused`),
`ErrorIsReturned` (`[]ServerErrorReturned`), `NoLateProducer` (`NoProducerAfterStop`),
`NeverReadyWhenStopping` (`NeverReadyAfterStop`) and `TypeCorrect`. The invariant says that
the wait group counts the requests at work (`Counted`), that nobody is between the check of
the flag and the registration when the flag is set (`Stopping`), and that the ping of a probe
ends before what is left of the budget (`PingsEnd`): probes are not waited for, arithmetic
alone keeps the pools open for them.

`LockPoolProofs`, for pools of any size and any number of clients and faults
(`PoolAssumption`: workers and reserve fit into the lock pool, clients are of one kind):
`PoolInvariant` (`[]IInv`), `TypeCorrect`, `PoolIsClean` (`[]IdleSessionsHoldNoLock`),
`LocksExclude` (`[]LockIsExclusive`) and `BudgetSuffices` (`[]BudgetCoversWorkers`). The
invariant ties clients and sessions together: a client between connecting and giving back
has a session of its own that is in use, a key is held by one session at most, a session
holds nothing but its client's key, and holds it while the client works unless it is dead; a
client has a connection of the query pool exactly while it uses it. `BudgetSuffices` counts:
every session in use has an owner (`Owned`), the owners differ, and other workers and at most
the reserve of cron requests are fewer than the pool has sessions.

`StartupProofs`, for any number of replicas, builds and faults: `TypeCorrect`, `InOrder`
(`[]AppliedInOrder`), `NotRepeated` (`[]NoMigrationRepeated`) and `ServedSchemaComplete`
(`[]ServesItsSchema`). What a replica still has to apply covers what its build needs and the
database lacks, and, as long as no session was lost, only the holder of the lock has
anything to apply and nothing of it has been applied. For whole deployments, in which started
replicas write the menus (`DeploySpec`): `DeploymentKeepsSchema`, the same guarantees, and
`NoCommandLost` (`[]KeepsCommandsWithRoom`), whose invariant says that what a replica has
read of a menu and is about to write holds what the menu's users see.

`RateLimiterProofs`, for any rate, burst and ttl with `LimiterAssumption` (a bucket is full
again after the ttl; the code's 50 a second, 100 and ten minutes satisfy it):
`ForgettingIsSafe` (`[]NeverOverBudget`), that forgetting quiet clients gives nobody more
than a limiter that forgets nobody would. `BucketInv` says that an entry's bucket equals
that budget and has refilled for as long as its client was quiet.

### What is only model-checked

The liveness properties, for which fairness is assumed, are beyond this prover:
`EveryJobFinishes`, `EveryReplyFinishes`, `EveryUpdateFinishes`, `EveryCrossingConsumed`,
`ShutdownCompletes`, `EveryoneGetsThrough` and `EveryReplicaServes`. So are the mistakes:
that each property can fail is shown by TLC.

## What the checks found

**A late update can make the next command look stale** (`inbox_epoch_lag`). Telegram may
restart its ids after a week without updates. `saveTelegramUpdate` starts a new epoch when
the last update was *saved* a week ago (`telegram_inbox.go:83`), and the README promises
(`README.md:335`) that new, smaller ids are then not blocked by old versions. Telegram's
week runs from the creation of the last update, the bot's from its arrival, which a webhook
outage can delay by up to a day. If the user's next command falls between the ends of the
two weeks, its restarted id may be smaller while the epoch is still the old one: the command
compares as older, is closed as processed and has no effect. Without the lag
(`inbox_safety`) the epochs work as promised.

**A late subscribe can undo a newer choice of language** (`inbox_lost_lock`). Subscription,
interval and language have a version each, so that a late command does not overwrite a newer
setting (`README.md:334`). But `subscribe` also sets `language_code`
(`telegram_handlers.go:193`), to the language it read in an earlier statement (line 170),
and `allowTelegramMutation` looks only at the version of the subscription for it. Between
the two statements only the chat's advisory lock keeps a choice of language out. TLC's trace:
the user subscribes and then chooses a language; the choice is saved and claimed before the
subscribe arrives, its worker loses the session that holds the lock, the subscribe gets the
lock and reads the old language, the choice commits, the subscribe commits the old language
over it. With the lock held the settings end up right (`ProcessedMutationInForce`, also
proved); a subscribe that left the language of an existing row alone would not need it.

**A full default menu.** `KeepsCommandsWithRoom` needs its condition. `README.md:72` says that
the menus keep the commands they have. When the default menu already has as many commands
as Telegram accepts, `telegram_menu.go:42` skips it and `defaults` stays empty, so an empty
menu of a language is filled with the built-in commands (`telegram_menu.go:34`), which hide
the default ones its users saw before. Without the condition TLC finds this at once.

What holds, with its limits, is worth reading closely in a few places:

- `ResentOnlyIfDisturbed` allows a duplicate after a lost answer, a crash, a lost lock
  session or a finalization that fails to the end. This is at-least-once delivery as
  documented; the property says that nothing *else* duplicates, in particular no pause and
  no expired lease alone.
- `OneSenderPerJob` holds because of two independent mechanisms, the lock and the margin of
  the claim check; each of them may fail alone.
- `ProcessedMutationInForce` excepts the language after a lost lock session, see above, and no
  other setting: their version rows are locked until the commit. It speaks of the version of an interval, not of the interval: an
  interval chosen while the chat is not subscribed is recorded and ignored by the handler.
- `ObservedInTime` is what `beginPriceObservation` is for: the border is the database's time
  *before* the request, and taking the time of storing instead breaks it at once.
- `LockIsExclusive` excepts a session lost unaware. That case is why the claim checks exist,
  and `notification_safety` and `inbox_safety` show what remains true in it.
- `ServesItsSchema` does not rest on `VerifySchema`, which looks at only a part of the schema,
  but on `Run` returning the error of a failed migration.
- `ClosedOnlyWhenUnused` holds without an exception, also when the shutdown's budget is spent:
  `Run` then waits without a limit (`run.go:161`) for producers and goroutines, and
  `ShutdownCompletes` rests on each of their operations having a timeout of its own.
  Readiness probes are in no wait group; what keeps the pools open for them is that the HTTP
  server is shut down first and that a ping ends before the budget does.

## Abstractions and what is not modelled

- A claim is one step. In the code a claiming transaction takes the candidate's chat lock
  for its own duration, so a candidate can also be skipped because another transaction
  holds that lock for a moment; the model skips it only when the lock is held for longer.
  A skipped row is polled again two seconds later.
- Cron is one step, so that two overlapping cron requests are not seen in the outbox but in
  `LockPool`, whose cron lock excludes them (`LockIsExclusive`). It is one transaction whose first statement selects the due chats, locks their
  rows and sets `cron_claimed_until`. Which due chats a batch leaves out is open, so neither
  the order by `last_sent` nor another holder of a row lock matters.
- `MaxRetryAfter` bounds the `retry_after` Telegram may ask for, which the code does not cap;
  any retry may be lengthened by it in the model, in the code only one after a failed send.
- The update that creates a price alert, the crossing and the trigger are one step in the
  outbox (`TriggerPriceAlert`): the outbox sees only a job whose alert is triggered.
- Message texts, menus, payload encoding and metrics are left out; a payload that cannot be
  decoded is not stored by the code that writes it.
- Shards, which spread chats over update workers, only restrict who may claim a row; the
  model lets any worker claim, which allows more.
- A restarted sequence of ids is assumed not to hit an id the inbox still retains. Where it
  did, the update would be dropped as a duplicate; Telegram's ids restart at random.
- Retention waits until no worker refers to a row. It deletes rows a week old at the
  earliest, workers refer to them for seconds.
- The answers to callback queries are sent best effort after the commit and keep no state.
- In `PriceAlerts` the queues are one step each: an update is a command that runs once, a
  delivery one attempt. What the queues do with failures is `TelegramInbox` and
  `NotificationOutbox`. Prices are whole numbers, so the rounding of an alert's target is left
  out; the previous price and the texts made from the cache decide nothing.
- The exchange answers with its price of some moment between request and answer; batching of
  several symbols in one request does not occur in the code.
- `Allow` of the rate limiter is one step: the code asks the bucket after unlocking the map,
  which only a pause of ten minutes in between could tell.
- `Startup` sees a migration as one transaction and the rest of a start as one step that
  succeeds or fails. `CommandMenu` lets any build write the menus.
- Filters without state (routing, secrets, method and body checks), the cron endpoint's own
  bucket and server timeouts are left out.
- Not to be modelled: configuration, metrics, texts and formatting (no behaviour over time).

## Plan

1. *Done.* The notification outbox, its abstract specification, its theorems; the reply
   outbox; the inbox with the mutation order.
2. *Done.* Price alerts with the ticker and their abstract specification; the lifecycle; the
   lock pool, the start and the rate limiter with their theorems; the command menu composed
   with the start.
3. *Done.* Theorems for all safety properties of the passing runs and for the three
   refinements.
4. Left: the assumptions on the windows for every value the configuration accepts, not only for
   the defaults; shorter step proofs for the two outboxes, which share their fences; the bucket
   of the cron endpoint beside that of the webhook.
