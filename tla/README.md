# Verification of the billing and entitlements platform

TLA+ models of the protocols of `src/billing_platform`, the TLC runs that check
them on small instances, and TLAPS proofs of their safety for instances of any size.
The code is the reference: every definition that models code is listed with its
source lines in `PROJECT.json` under `map`. `spec.md`, the ADRs and docstrings
are used only for what they promise, never for what the code does.

Contents: 1 the system, 2 modules and how they correspond to the code, 3 runs,
4 fairness, 5 proofs, 6 where code and documents disagree, 7 what is left out,
8 plan.

## 1. The system

The platform is a FastAPI application, a set of Celery workers with a beat
scheduler, and an outbox relay process. All of them share one PostgreSQL
database (optionally with a read replica), Redis and Kafka, and call a payment
provider (a mock of Stripe). PostgreSQL runs at READ COMMITTED: a statement sees
what is committed when it starts, an ORM object keeps the values it was read
with, and an `UPDATE` writes the changed columns without a version check.

| Component | State it keeps | Operations | What makes it hard | What makes it correct |
|---|---|---|---|---|
| Outbox (`services/outbox.py`) | `outbox_messages`: unique key, `published_at`, attempts | `enqueue` in the caller's transaction | repeated keys, commit order differs from `created_at` order | an event is kept until Kafka has it or it is a dead letter |
| Relay (`outbox_relay/`) | open transaction with locked rows; dead letters | claim, publish, fail, dead-letter, commit | several replicas, crash between send and commit, acknowledgement after a timeout | at least once, none stranded, nothing requeued by itself |
| DLQ replay (`outbox_relay/dlq_replay.py`) | dead letters' `replayed_at` | lock, reset, commit or dry run | runs beside the relay and another operator | a dead letter is replayed once, never under a relay's hands |
| Webhooks (`services/webhooks.py`, `webhook_processor.py`) | `webhook_events` status | persist, dispatch, replay | redelivery, replay, a handler that raises after it has written, whose writes are committed | a payment's effects exist exactly when its webhook is processed; a failed payment's come together, at most with a webhook left failed |
| Subscriptions (`services/subscriptions.py`, `domain/state_machines/subscription.py`) | status, `past_due_entered_at`, `cancel_at_period_end` | create, cancel, transition | unlocked read, later write | legal transitions, a deadline for every past due row |
| Grace job (`services/grace.py`) | none of its own | revoke expired | races webhooks and cancels, skips locked rows | revocation recorded, past due never for ever |
| Dunning (`services/dunning.py`) | campaigns, attempts, operator history | start, execute due, pause, resume | provider calls inside the transaction, overdue attempts in one batch, unlocked reads of operators | one active campaign, charges bounded by crashes, pauses hold, an end is final, the history explains the status |
| Entitlement cache (`integrations/redis_cache.py`, `hotpath_cache.py`) | version key, snapshot key, build lock, per-process L1 | read, build, bump, invalidate | stampede, expiring lock, late store, lagging replica, lost bump | staleness is bounded, builders are bounded, requests end |
| Entitlement evaluation (`services/entitlements.py`) | none of its own | evaluate: access by status, decision by feature and usage window | windows and hour buckets do not meet, aggregates lag behind events | a hard limit is not exceeded, a denial is earned |
| Usage (`services/usage.py`, `usage_partitions.py`) | `usage_events`, one partition per month | batch ingestion | look-up before locks, unique index per partition | an acknowledged event is stored, and once |
| Aggregation (`workers/tasks/aggregate_usage_hourly.py`) | `usage_aggregates_hourly` | sweep, single hour | overlapping sweeps overwrite sums, deadlocks | aggregates settle on the sum of their events |
| Period close and invoices (`services/period_close.py`, `invoices.py`) | invoices, lines, ledger charge | close | two tasks with one key, aggregates moving meanwhile, crash after commit | one invoice, one charge, one event, of one amount |
| Invoice sync (`services/invoice_sync.py`) | sync columns of the invoice; the provider's registry | create customer, create invoice, store id | lost answers, retries | at most one provider invoice, every issued invoice reaches it |
| Ledger (`services/ledger.py`) | append-only entries with unique keys | post, reverse | called from several transactions | one entry per key, and its event with it |
| Plan change (`services/plan_change.py`) | subscription's plan, proration entries | change | idempotency looked up in the outbox, unlocked read | one proration and one event per key |
| Reconciliation (`services/reconciliation.py`) | runs and findings | run | two registries read at different moments | recorded whole, once per key; no lasting difference missed |
| API keys, authentication (`services/api_keys.py`, `api/deps.py`, `hotpath_cache.py`) | key rows, per-process cache of contexts | authenticate, issue, rotate, revoke | cache of other processes, invalidation before the commit, a replica whose lag is measured before it is used | a revoked key stops working within a bound, a live one is not refused, a revoked one not replaced |
| Rate limit (`services/rate_limit.py`) | a Redis counter per key and minute | count | fixed windows, counters that expire, requests counted after the window they named | bursts are bounded |
| Catalog (`services/catalog.py`) | products, features, versioned plans, prices, terms | create, price, set features, publish, export | no row is locked; requests decide on reads that are out of date | versions dense, sold terms stable, the export closed |
| Organizations (`services/organizations.py`) | one row each | create, update | two unique keys | one row per key |

Interaction. A business transaction (webhook, grace job, period close, dunning,
plan change) writes its own rows, its ledger entries and its outbox rows, and
commits once. After the commit the caller bumps the entitlement version in Redis
or enqueues a Celery task; a process that dies between the two loses that second
step. The relay reads committed outbox rows only. Dunning campaigns are started
by the payment-failed webhook. The period close reads the aggregates the sweep
writes and enqueues the invoice sync. The evaluator reads the same aggregates, the
subscription and the terms of its plan. Every API request passes authentication
and the rate limit first.

## 2. Modules

| Module | Models | Composition |
|---|---|---|
| `EventDelivery` | the promise of the outbox: accepted, waiting, settled or parked events | abstract specification |
| `OutboxRelay` | outbox, relay replicas, dead letters, replay | implements `EventDelivery` (refinement mapping `EventStage`, `BrokerCopies`) |
| `SubscriptionLifecycle` | webhooks, state machine, cancel, plan change, grace job, start of campaigns, ledger posts | composes webhook, subscription, grace, ledger and outbox writes |
| `Dunning` | campaigns, attempts, the batch task, pause and resume, the operator history | a campaign's start is the one of `SubscriptionLifecycle` |
| `BuildLock` | who holds the build lock, and the promise of it | |
| `EntitlementCache` | L1, Redis keys, build lock, replica, bumps | extends `BuildLock`; writers stand for webhook, plan change, grace job, cancel, admin invalidation |
| `UsageMetering` | ingestion and aggregation | |
| `EntitlementPolicy` | the decisions of `evaluate` as operators | |
| `QuotaEnforcement` | usage windows and answers of `evaluate` | composes `UsageMetering` and `EntitlementPolicy` |
| `Billing` | the promise of closing a period: billed, charged and announced at once, registered once, linked for good | abstract specification |
| `PeriodClose` | close task, invoice, ledger charge, sync task, provider | implements `Billing` (refinement mapping `BillOf`, `RegisteredOf`, `LinkOf`); reads aggregates that may change at any time |
| `Reconciliation` | the reconciliation run beside registries that move on | the moves stand for close and sync (`PeriodClose`), webhooks (`SubscriptionLifecycle`) and the provider |
| `ApiAccess` | authentication, auth cache, rate limit, issue, rotate, revoke | |
| `Catalog` | products, features, plans, prices, terms, publication, snapshot | `Subscribe` is the plan check of `SubscriptionLifecycle`'s create |
| `...Proofs` | the inductive invariant, lemmas and theorems about the module of that name | extends it; `QuotaEnforcementProofs` covers `UsageMetering` too, and the build lock of `EntitlementCache` (by `INSTANCE`) |
| `MC...` | instances for TLC; `MCUsageMetering` instantiates `QuotaEnforcement` | |

### How state and steps correspond

*Transactions.* A variable named after a table holds what is committed. What an
open transaction has read or decided is kept per process (`batch`/`outcome`,
`tx`, `held`/`ran`/`ending`, `req`, `job`, `close`). Commit is one step that moves
it to the tables; a crash or abort drops it. What a rollback cannot undo is kept
apart: messages in Kafka (`delivered`), provider calls (`calls`, `provider`,
`customers`), Redis.

*Granularity.* Where the code reads a row without a lock and writes it later,
the read and the write are two steps, and everything else may happen in
between. Where it reads `FOR UPDATE`, the row stays unavailable to others for as
long as the transaction is open. Awaits on Redis are steps of their own, so that
two requests of one process interleave too.

*`OutboxRelay`.* `Enqueue` is `OutboxService.enqueue` at the caller's commit,
`Claim` is `claim_outbox_batch`, `OrgMissing`, `PublishOk` and `PublishFailed` are
the three ends of one turn of the loop in `poll_and_publish`, `CommitPoll` and
`CrashPoll` the two ends of its transaction. A send is acknowledged, lost, or
`late`: stored although the producer raised. The best-effort copy a dead-lettered
row sends to `billing.dlq` has an outcome of its own. `ReplayLock`, `ReplayCommit`
and `ReplayRollback` are `replay_dead_letters`. A row stands for its id and its
idempotency key; its payload is left out.

*`SubscriptionLifecycle`.* `Ingest`, `Replay`, `Cancel` and `ChangePlan` open a
transaction and take the unlocked snapshot; `CommitWebhook`, `CommitCancel` and
`CommitPlanChange` decide from that snapshot and write onto the row as it is by
then, column by column, as the ORM does: `past_due_entered_at := None` writes
nothing if the snapshot had none. A plan change that its reads refuse (key known,
status forbidden, same plan) changes nothing and is no step.
A handler may raise before it writes (`RejectWebhook`: unknown subscription, illegal
transition) or after, and the poison guard of `process_webhook` does not roll back:
what was flushed is committed with the `failed` webhook. `GraceOverflows` is the
`compute_grace_until` that no date can hold (plans in `Endless`), after the transition and
before the events. `StartCampaign`, `InsertCampaign` and `RequeryCampaign` are
the three statements of `start_campaign`: the look-up, the `INSERT` in its savepoint,
and the look-up after an `IntegrityError`, whose bare `raise` leaves the transition and
both events with a `failed` webhook when the campaign that won the index was stopped
in between. While they run the transition is flushed, so other writers of the row wait
(`RowHeld`). `SetCampaign` is what operators and the task of `Dunning` do to a campaign
meanwhile. An error the database raises at a flush aborts the whole transaction (`Abort`).
`EnforceGraceExpiry` is one step because it locks what it reads; it may skip any
row that an open transaction may hold, and does not run while it would read the row of
an endless plan.

*`Dunning`.* `SelectDue` is the locking `SELECT` of `process_due_attempts`,
`ExecuteAttempt` one turn of its loop with the provider call in it, `CommitRun` the
one commit at the end. Several attempts may be overdue at once. `RequestOp` and
`CommitOp` are the unlocked read and the write of pause and resume. The history is
a sequence of actions; a request appends to the one it read and writes the result
over the one stored by then, as `_append_campaign_audit` does.

*`EntitlementCache`.* The entitlements of one organization are a number that each
change increments, so that "older" can be said. Times to live are steps that may
happen at any moment (for the lock: `MaxExpiries` times).

*`UsageMetering`.* A quantity is the set of usage rows it sums: a set shows which
event is counted twice or not at all, which a number hides. Time is counted in
ticks, with hours and months as multiples. The upsert holds the aggregate row's
lock until the job's commit; two sweeps may deadlock, and PostgreSQL then aborts
one.

*`EntitlementPolicy`, `QuotaEnforcement`.* `DecideAccess`, `DecideFeature`,
`DecideNumeric`, `EffectiveLimit`, `Remaining` and `SeatQuantity` are the functions of
the same names in `services/entitlements.py`, `EvaluateCheck` the loop body of
`_evaluate_checks`. Evaluate writes nothing, so it adds no step to
`UsageMetering`: the properties apply it in every reachable state, which stands for a
snapshot built at that moment (what caches add to that is `EntitlementCache`).

*`ApiAccess`.* A step ends at an await. `GetAuthContext` looks into the cache.
`Route` is the measurement of the lag, in a session of its own, and the choice of the
database; `Select` opens the session and runs the query, up to `Delay` ticks later, and
`ReadableAt` is what it may see: on a replica any moment since the lag *before the
measurement*. A standby that has replayed nothing since it started measures no lag
(`blank`) and may show any moment; `misled` (history) notes when one was chosen for a
revoked key. `Authenticate` is what is done with the answer, up to `Delay` ticks later again.
`CheckRateLimit` is the script in Redis, which runs up to `RedisDelay` ticks after the
window's name was chosen; windows start anywhere on the clock (`Phase`). `FlushRevoke`
invalidates, `CommitRevoke` commits. Times are ticks of one clock.
`admitted` is a history variable: the requests let through within the last window's
length, each with the window it named and the number the counter gave it. `Loads`
bounds what clients ask, by mixes of requests.

*`Catalog`.* An operation is its reads, each a step where another commit could
change what the next one sees, and one step that writes and commits. `Updated` is the
ORM's `UPDATE` of the columns that differ from what was loaded. The export is one
step per `SELECT`. `torn` and `bought` are history variables.

*`PeriodClose`.* A key stands for its period. The hours of an invoice are kept
beside its total, so that overlap can be stated. The provider is external and
modelled from how `invoice_sync` uses it: a repeated idempotency key is answered
with the invoice registered first. A failed task is retried, redelivered (its
worker died) or given up.

*`Reconciliation`.* The statements of a run are steps: `LookUp`, `InsertRun`,
`FetchStripeInvoices`, `LoadPlatformIndex`, `LoadInvoices`, one `CompareInvoice` per
invoice, `CommitRun`. Between them the registries move: an invoice is closed or
loaded, opened at the provider, synced, paid, booked. `lasting` is a history
variable: the differences that have existed at every moment since a run's insert.

## 3. Runs

`tlc -config X.cfg M` in this directory. A passing run checks the safety and the
liveness of its component together, under `FairSpec`; `api_access` and `catalog` have
safety only and use `Spec`. Every property of a passing
run has a mutant in `PROJECT.json`: a plausible bug in one definition under which
TLC finds the property violated in the same run.

| Run | Instance | What it shows |
|---|---|---|
| `outbox` | 2 rows (one whose partition key is no organization), 2 relays, 2 operators, batches of 2, 2 attempts, 1 replay, 2 crashes | no event lost, open dead letters park their rows, requeued only by replay, implements `EventDelivery`, every waiting row settles |
| `subscription` | 1 subscription, 2 payments, 2 failures, an event without handler and one without subscription, 2 plans, one of them endless, 2 plan change keys, 2 workers, 5 requests, campaigns stopped and resumed at any time | a payment's effects are whole and happen exactly when its webhook is processed, those of a failed payment come together, with a campaign, and with no webhook but a processed or failed one; a revocation is recorded, past due has a deadline and is resolved, plan changes and prorations go together |
| `dunning` | 2 campaigns of one subscription with 2 attempts each, 2 task workers, 2 operators, 1 crash, 2 operator requests | one active campaign, calls bounded by crashes, endings earned and final, no charge while paused, the history explains the status, a campaign with an attempt left is decided |
| `entitlement_cache` | 2 readers in 2 processes that ask again and again, 2 writes (with and without a bump), replica, 1 lapse of the lock, 1 fault | builders bounded, requests end, staleness ends |
| `usage` | 1 key, 2 requests of 1 event recorded at one of 3 instants in 3 hours and 2 months, 2 workers, 1 failure; a plan of six features, a period that starts within an hour | acknowledged is stored, once per month; aggregates count stored events and converge although overlapping jobs overwrite each other; hard limits hold and denials are earned |
| `period_close` | 2 adjacent periods meeting inside an hour, 2 close tasks, 2 sync slots, 1 failure | billed once and alike, no hour twice, implements `Billing`, an issued invoice reaches the provider, unless a task is given up |
| `reconciliation` | 1 invoice of 0, 1 or 2 cents, the daily task and a request with one key, 5 moves, 2 failures | a run is recorded whole or not at all and once per key, no lasting difference is missed, an invoice written with its charge is never reported, a requested run takes place |
| `api_access` | 1 tenant key, 1 administrator's key that expires, 1 key to issue, 2 processes with a request each, 7 mixes of requests, 5 ticks; lag, TTL, sessions and answers of PostgreSQL of a tick, answers of Redis of two, windows of three that start off the clock's zero, a limit of one | revocations bite within lag, session, answer and TTL; refusals are justified; no revoked key is replaced; bursts stay below five times the limit |
| `catalog` | 2 administrators, 2 plans of a product, 2 features, 2 bodies that disagree, 1 organization | versions dense, sold terms stable but for edits under way at the publication, the export closed and true |
| `subscription_transitions`, `entitlement_race`, `usage_key_once` | smallest instance that shows it | expected violations, section 6 |

Why the bounds are enough. Every race modelled is between two actors, so two relays,
workers, requests or tasks, plus the grace job, the operator or the clock. Two attempts
reach both the retry and the dead letter, and the replay lets a row start over. Five
requests make a subscription, activate it and lose and regain it once. Two readers are
enough for `StampedeBounded`: the holder that outlives its lock, its successor whose
lock it deletes, and, as readers ask again and again, the first one entering once more.
Of the three instants of `usage` two lie in different hours of one month and one in the
next month, on the boundary of an hour; one is before the period, one at its start
within an hour, and two sweeps with two hours each can deadlock. The common bound of the
periods lies inside an hour, the only case in which an hour could belong to both. Five
moves take an invoice from its close to its booked payment; what reconciliation reports
of one invoice does not depend on another. The alert threshold is two cents, so that a
difference can lie below, on and above it. The endless plan of `subscription` is one a
subscription can be created with or changed to, so a handler raises late in either of
its two ways. In `api_access` a revocation at tick zero has to bite by tick four and the
clock goes on to five. With windows of three ticks and answers of two a request can be
counted in a counter's second life, and the bound `5 * limit - 2`, three for a limit of
one, is reached: TLC finds `5 * limit - 3` violated. Each mix of `Loads` is one kind of
race: a burst; a key used, and rotated, while it is revoked; rotated while it is revoked
twice; keys used from when they are issued or replaced. One key to issue is enough, for
a key is replaced, issued and refused one at a time. In `catalog` two plans are two
versions and two requests for one of them. The plan in `usage` has a quota, rate limits
that reach less and more far back than the period and one that resets with it, seats
given as a string and a soft limit of zero.

`CHECK_DEADLOCK FALSE` is set where requests are bounded by a constant
(`MaxRequests`, `Loads`, `MaxMoves`, `Submit` once per message, `MaxTime`): when they are
used up the model may stop although the system would not.

## 4. Fairness

- Relay: `WF` of each relay's step. `_relay_loop` polls every second for as long
  as it runs, and a send ends by acknowledgement or the producer's request
  timeout.
- Grace job, dunning task, sweep: Celery beat starts them again and again; with
  late acknowledgement a task that died is delivered again. `WF` for the first
  two. For `StartSweep` the fairness is strong, because a sweep is enabled again
  and again rather than all the time: a worker may also be busy with the
  single-hour task.
- Time passes: `WF` of `GraceElapses`, `AttemptFallsDue`, `Tick`, and of the
  expiry of the Redis snapshot and of L1. The expiry of the build lock is not
  assumed for liveness: a waiting reader gives up after fifty polls.
- `SF` of `Upsert`: PostgreSQL queues the waiters of a row lock, so a worker is
  not passed over for ever although the row is taken again and again.
- A started request, task or reconciliation run goes on until it ends, is aborted
  or dies. In `SubscriptionLifecycle` only the two steps of a webhook that holds the
  subscription row need it (`WF` of `InsertCampaign` and `RequeryCampaign`): the grace
  job passes over a row that is held, and these end the holding.
- `ApiAccess` and `Catalog` assume none: what they promise is safety, with times
  in the bounds instead of "eventually".
- No fairness of clients: nobody need send, replay, pause or cancel anything.

## 5. Proofs

Every safety property of the passing runs is proved of its specification, for every
value of the constants: any number of rows, keys, workers, requests, plans and
operators, any bound on crashes, retries and time. So are both refinements.
`Invariance` is `Spec => []IInv` in each module; the others follow from it.

| Module | Theorem | States |
|---|---|---|
| `OutboxRelayProofs` | `TypeCorrect` | `Spec => []TypeOK` |
| | `NoLoss` | `Spec => []NoEventLost` |
| | `DeadLetterParks` | `Spec => []OpenDeadLetterParksRow` |
| | `NoneStranded` | `Spec => []NoRowStranded` |
| | `RequeueByReplay` | `Spec => RequeueOnlyByReplay` |
| | `Refinement` | `Spec => ImplementsDelivery` |
| `SubscriptionLifecycleProofs` | `Deadline` | `Spec => []PastDueHasDeadline` |
| | `EffectsWhole` | `Spec => []EffectsAreWhole` |
| | `PlanChangeWhole` | `Spec => []PlanChangeAccounted` |
| `DunningProofs` | `OneActive` | `Spec => []OneActiveCampaign` |
| | `RetriesBounded` | `Spec => []RetriesPerAttempt` |
| | `EndingEarned` | `Spec => []EndingIsEarned` |
| | `AuditExplains` | `Spec => []AuditExplainsStatus` |
| | `PauseHolds` | `Spec => NoChargeWhilePaused` |
| | `EndFinal` | `Spec => EndIsFinal` |
| `QuotaEnforcementProofs` | `StoredOnce` | `Spec => []AcknowledgedStoredOncePerMonth` |
| | `AggregateSound` | `Spec => []AggregateCountsStoredEvents` |
| | `HardLimit` | `Spec => []HardLimitHolds` |
| | `DenialEarned` | `Spec => []DenialIsEarned` |
| | `Stampede` | `Cache!Spec => []StampedeBounded` |
| `PeriodCloseProofs` | `BilledOnce` | `Spec => []BilledOnceAndAlike` |
| | `HoursOnce` | `Spec => []NoHourBilledTwice` |
| | `BillingRefined` | `Spec => ImplementsBilling` |
| `ReconciliationProofs` | `RunWhole` | `Spec => []RunIsWhole` |
| | `ChargedNotReported` | `Spec => []ChargedInvoiceNeverReported` |
| | `RunFrozen` | `Spec => RunIsFrozen` |
| | `LastingReported` | `Spec => LastingDifferenceReported` |
| `ApiAccessProofs` | `RevocationHolds` | `Spec => []RevocationBites` |
| | `RefusalsJustified` | `Spec => []RefusalIsJustified` |
| | `ReplacementsLive` | `Spec => []ReplacementOfLiveKey` |
| | `Bursts` | `Spec => []BurstBounded` |
| `CatalogProofs` | `Dense` | `Spec => []VersionsDense` |
| | `TermsStable` | `Spec => []SubscriberTermsStable` |
| | `SnapshotWhole` | `Spec => []SnapshotClosed` |

*Assumptions.* The named `ASSUME`s of the modules, and nothing else; TLC evaluates
them on every run. They give types to the constants. Beyond that: the relay's
attempt limit and batch size, the number of dunning attempts, the width of an hour,
a month, a day and a rate window are positive; an hour divides a day and a month;
markers such as `None` are no keys or numbers; a key that is not an administrator's
belongs to an organization. Limits and seats of a plan, the quantities asked for and
the rate limits of roles may be any integers, since nothing validates them. Nothing is
assumed of Kafka, the provider's amounts, the order of periods, or the sums an invoice
totals.

*The argument.* A property here is seldom inductive: whether a commit is right
depends on what the open transaction has read, claimed or locked. Each `IInv` adds
what the process may rely on between its steps. The lemmas are one per action, under
them one step per part the action can disturb; the action properties use `IInv` as
the invariant of the step. Each `IInv` was checked by TLC on the instance of section 3
before it was proved.

- `OutboxRelay`. `BatchHeld`: a row in a relay's hands is pending, below the limit and
  in no other relay's hands (the row lock). `NoRowStranded`: a pending row
  has attempts left, so that a claim does not pass over it for ever.
  `OutcomeJustified`: an uncommitted outcome
  belongs to a held row, `published` only if its message is in Kafka already, `retry`
  only if an attempt is left. `ReplayIdsExist`: the dead letters an operator has locked
  exist. In the refinement a commit is `Resolve`, a send `Send`, a replay `Requeue`, all
  else stutters.
- `SubscriptionLifecycle`. `TxTarget`: what a transaction read exists and still does.
  `WebhookLocked`: one open transaction per webhook event, and the event is not processed yet
  (without it two deliveries could both commit). `Flushed`: a webhook that holds the
  subscription row has a legal transition of a failed payment, and if the index has
  refused its campaign there is another one, whatever its status by now, which makes the
  events of a late raise come with a campaign. `EntriesPosted`: a ledger entry has its
  `entry_posted` event, which makes a post found under a known key whole.
- `Dunning`. `HeldLocked`: attempts in a batch are pending, of active campaigns, and
  their campaigns in no other batch. `RanHeld`, `EndingJustified`: results and endings not
  yet committed belong to held attempts and are earned by results in the same batch.
  `CallsCounted` is the exact bound behind `RetriesPerAttempt`: an attempt not yet in a
  committed result has been called once per crash at most. `ActiveUnique` says
  uniqueness without a cardinality.
- `UsageMetering`, `QuotaEnforcement`. `RequestInv`: each key of an open batch is stored
  or among its rows, and its uncommitted rows are unlike the stored ones; `HeldApart`:
  two open transactions hold no month's partition in common; `JobInv`: sums in a job's hands are
  of stored events of their own hour. The two theorems about `Evaluate` need no further
  invariant but a chain of lemmas: bucket bounds, cardinalities of counted events,
  `EffectiveLimit`, and each branch of `DecideNumeric`.
- `PeriodClose`. `CloseOK`: the hours a task read are those of its period, and its draft's
  key is not issued; `DraftUnique` is the unique index under two open inserts, `SyncOK`
  says that the amount a sync holds is the issued one, `OneRegistered` that the provider
  answers a repeated key with the first invoice. For the refinement `LinkInv` adds that
  an id a sync holds, or an invoice carries, is the one of the provider's only invoice of
  that key. The commit of a close is `Bill`, the first creation at the provider
  `Register`, the first commit of a sync `Link`; all else stutters, a second sync of the
  same invoice included, because what it registers and writes is there already.
- `Reconciliation`. `KeyHeld`: a key is inserted by one task at a time, and while it has no
  recorded run. `RegistriesLinked`: a booked payment is paid at the provider, and an invoice
  on both sides has one amount. `JobInv` says of every stage of a run what its possibly
  outdated lists still imply: what was listed as paid is unchanged, a row read has the
  total and charge of the row now, a `ledger_invoice_mismatch` found is a gap, and a
  difference that lasted is found or still ahead.
- `ApiAccess`. `CacheOK`: a cached context lapses within the TTL and by `HiddenUntil` its
  key, in every process. `ReqOK` carries the moments a request has looked at something
  through its awaits: `SelectOK` from the measurement of the lag to the opening of the
  session, `ResumeOK` from there to the answer, so that an answer is outdated by the lag
  and two delays at most. `BurstInv` is about the counters. A counter lives
  from its first increment to its expiry a window later, and numbers the requests of one
  life (`CounterOK`); two admissions with one window, life and number are one, and the
  lives of a window's counter are a window apart (`AdmissionsApart`). So a window has one
  live and one expired life in a stretch at most, and the admission that started the
  expired one is out of it (`OldBound`): `2 * limit - 1`. The window of the clock has not
  expired yet: `limit`. Of the windows before, requests can be let through in the name of
  the last two (`RecentWindows`). Together `5 * limit - 2`, for any latency
  of Redis below a window. Nothing here depends on how long a tick is: lengths are
  compared, never counted, and the theorems hold for every value of the constants, so
  a finer clock is a larger value of each of them. With TLC's limit of one
  an expired life leaves nothing (`limit - 1` is zero); that part of the
  bound has only the proof.
- `EntitlementCache`. `CacheInv`: the holders of the build lock are at most one if it is
  set, plus the lapses so far, and finitely many. Each step that adds a holder sets the lock that was free;
  what clears it removes a holder or counts a lapse.
- `Catalog`. `TxOK`: the version a transaction chose is at most one above the count, the ids of
  open inserts are apart (`IdsApart`). `EditsTorn`: an edit that read a draft and
  is still open when the plan is published makes the plan torn, so the plans outside
  `torn` are those nobody can still write. `SnapOK` says what each stage of an export
  has, given that rows are never deleted.

*What the proofs taught.* `HardLimitHolds` could not be proved as it stood first: a
rate limit that resets with the billing period, or without an interval, counts from
the period's start as it is, and an hour bucket that starts before it is left out.
TLC confirms it once the plan has such a feature. The property now excepts the
usage of that first hour (`CountsFrom`), the plan of the run has the feature, and
section 6 lists the behaviour. `DenialIsEarned` was stated for positive quantities,
which the request does not guarantee; it is now stated and proved for any integer.
`BurstBounded` has no better bound for fast answers: however short the latency, the second
life of the window before can overlap the end of its successor's, and both fall into one
stretch with the counter of the clock's window; only answers within a single tick of a
coarse clock would exclude it, which real time does not have.
`EffectsAreWhole` does not promise that a failed webhook has no effects: the invariant of a
handler that raises late is what remains true, that its two events come together
and with a campaign.

*Only model-checked.* All liveness (`EveryRowSettles`, `PastDueIsResolved`, `CampaignIsDecided`,
`EvaluateEnds`, `StalenessEnds`, `AggregatesConverge`, `InvoiceIsSynced`,
`RequestIsServed`): fairness and `ENABLED` are out of the prover's reach.

## 6. Where code and documents disagree

Each is a run whose single property states the quoted sentence and which TLC
finds violated. Quotations are in `PROJECT.json` under `findings`.

| Run | What the code does |
|---|---|
| `subscription_transitions` | a webhook overwrites a status that was committed after it read the row |
| `entitlement_race` | a build that read before a change is stored after its bump, under the new version |
| `usage_key_once` | one key recorded in two months by concurrent requests is stored twice |

Met while modelling and not given a run of their own:

- `invoice.paid` always moves the subscription to active, which is no transition for
  one that is active: the payment of a renewal fails and is not booked.
- `process_due_attempts` looks at the campaign's status in its `SELECT` only, and goes
  on charging the attempts it holds after one of them completed the campaign.
- Two operators who read a campaign before either writes lose one of the two entries
  of its history.
- A request that read a plan as a draft writes its prices or features after the
  publication ("Published plans cannot be modified", `api/v1/catalog.py`); two
  requests that look for a draft before either inserts one, the second choosing its
  version after the first has committed, create two drafts, and no further version
  can be created before both are published.
  `PUT features` is described as replacing the set; it updates and inserts, and never
  removes. Two of them at once may leave a row with columns of both.
- A replacement key has no expiry although the replaced one had; a rotation whose
  answer is lost leaves an active key nobody has. A key is refused for as long as
  the replica does not have it.
- A request names its rate window before it waits for Redis, and a counter whose key
  expired meanwhile starts over: for any latency below the window nearly five times
  the limit can be let through in a window's length.
- The poison guard of `process_webhook` (`services/webhook_processor.py:77-81`) sets `failed`
  without a rollback, so a handler that raises late has part of its effects committed, and
  the version of the entitlements is not bumped then. `start_campaign`
  raises again (`services/dunning.py:195`) when the campaign that won the index was paused or
  ended before it is looked up: transition and both events stay. `compute_grace_until`
  raises for a grace period no date can hold (`grace_period_days` is not bounded): the
  transition stays without its events, and the replay fails, as past due to past due is no
  transition. The same overflow makes `enforce_grace_expiry`, and `evaluate` for that
  subscription, raise: one such past due row stops the revocation of all others.
- The lag of the replica is measured in one session and the key looked up in another
  (`db/replica.py:101-106`, `db/session.py:99-101`), so what is read can be older than the
  threshold by the time between them. The SQL of the measurement
  reports lag 0 for a standby that has replayed no transaction since it started
  (`COALESCE`, `db/replica.py:22`), and compares a time stamp without zone, which is right
  only when the session's time zone is UTC.
- `alerts.py:51` and `docs/slo.md:91` raise the reconciliation alert for an amount `>` $100;
  the code, `docs/runbooks/reconciliation-mismatch.md:11` and its unit test
  (`test_alert_threshold_helpers`) use `>=`. `RunIsWhole` follows the code.
- A rate limit that resets with the billing period, or has no interval, is counted from
  the period's start without rounding to the hour (`_rate_window_start`,
  `services/entitlements.py`), so the bucket of the hour in which the period began is
  left out and a hard limit ("hard denies usage", `api/v1/catalog.py:177`) can be
  exceeded by that hour's usage. Quotas and the other intervals are rounded.
- Nothing moves `current_period_start` and `current_period_end` on after
  `create_subscription`: once the period is over quotas stay as they are and rate
  windows, which end with the period, count nothing.
- Reconciliation events carry a run id where the relay looks for an organization
  (`outbox_relay/publisher.py:231-251`), so all of them are dead-lettered.
- `subscription.access_revoked` is routed by its prefix and not to the topic the
  catalogue names; types without a known prefix go to `billing.dlq`.
- A pause decided on an unlocked read may overwrite a campaign that ended
  meanwhile; a resume then makes active a campaign without attempts.
- Nothing but the idempotency key identifies a closed period: two keys bill it twice.
  Line items cut fractional quantities off (`services/period_close.py:212`) that the
  ledger entry records. Every attempt of a sync registers a new customer.
- The marker of a revocation is keyed by the subscription alone: a second revocation
  after a late webhook revived it leaves no entry and no event of its own.
- Cancel commits without a bump, so a canceled subscription keeps its cached
  entitlements until the TTL ends.
- Two copies of a plan change with another change between their reads post a
  debit and a credit under one key, and the second copy overwrites the plan
  without an event.
- Reconciliation reads the provider before the ledger, so an invoice opened, paid
  and booked in between is reported as `missing_in_stripe`, which it never was. An
  invoice the platform lacks altogether has no delta and never raises
  `reconciliation.mismatch`, whatever its amount.

## 7. What is not modelled

- Signatures, hashing of API keys, JSON and UUID handling, formatting of payloads:
  data without protocol state.
- Kafka, Redis, PostgreSQL, Celery and the payment provider themselves: external,
  modelled by how the code uses them.
- DDL of usage partitions and its table locks; the task that creates partitions
  ahead of time.
- `Dunning` takes the setting `dunning_enabled` as on (off, its default, no campaign
  ever exists); in `SubscriptionLifecycle` it is the constant `DunningEnabled`, on in the run and
  either in the proofs. The payloads of dunning's outbox events.
- Negative or zero quantities of usage, which `api/v1/usage.py:44` accepts. An event counts
  as one unit in `UsageMetering` and `QuotaEnforcement`; with negative quantities a total can
  fall, and neither `HardLimitHolds` nor `DenialIsEarned` would hold.
- The lengths of grace periods: a plan is endless or not, and the grace of a past due row
  is running or over, whichever plan it has by now.
- Organizations: look-up, insert and look-up again under two unique keys, the pattern
  of `create_draft_invoice` and `start_campaign`; their other columns are read by no
  other component. The L1 map from public to internal organization ids.
- A check of a feature that is not in the plan, whose answer depends on no state.
- One organization and one metered feature stand for all: rows of different
  organizations never meet in a lock or a key, except in the relay, whose rows
  may belong to any.
- Health checks, middleware, telemetry, configuration, the demo UI, load tests.

## 8. Plan

Done: outbox and its promise; webhooks, subscriptions, plan changes and grace; dunning
with its history; entitlement cache; entitlement decisions and quotas over usage and
aggregation; period close and sync and their promise; reconciliation; API keys,
authentication and the rate limit; the catalog. Their safety is proved.

Left: the table locks of partition DDL beside ingestion, where every batch holds a lock
that the creation of a partition waits for (the hazard without a property in
`PROJECT.json`).
