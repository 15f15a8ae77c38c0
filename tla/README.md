# Verification of the server's core in TLA+

This directory holds TLA+ models of the parts of the server (`src/backend`) in
which a mistake costs money or runs an operation twice, the TLC configurations
that check them on small instances, and TLAPS proofs of their main properties
for every value of the constants.

## 1. The system

The program is a gateway in Go in front of AI providers. It sells balance and
subscriptions, hands out API keys, picks an upstream account for each request,
forwards and translates the request, and bills what it used. PostgreSQL (through
ent and plain SQL) holds the durable state, Redis the short-lived state (slots,
locks, caches), and several instances may run at once. No lock spans two
database statements except where a transaction or a row lock says so, so almost
every handler interleaves with every other one, in the same process or another.

### Inventory

| Component | State | Operations | Correct when |
|---|---|---|---|
| Payment orders (`payment_order*.go`, `payment_fulfillment.go`) | `payment_orders` row, its redeem code, audit rows, the user's balance or subscription | create, notify, verify, cancel, time out, fulfil, retry | a payment gives its value, once, and only for a full payment |
| Refunds (`payment_refund.go`) | the same row, balance, subscription | request, prepare, lock, deduct, call the provider, settle, roll back | money returned once; value taken exactly when money went back |
| Idempotency (`idempotency*.go`) | one row per scope and key | claim, take over, reclaim, mark, clean up | one execution per key and time to live |
| System operation lock (`system_operation_lock_service.go`) | the same table, one global key | acquire, renew, release | one update, rollback or restart at a time |
| Redeem, affiliate, promo (`redeem_service.go`, `affiliate_*.go`, `promo_*.go`) | codes, ledgers | redeem, accrue, transfer | each code or rebate counted once |
| Subscriptions (`subscription_service.go`) | `user_subscriptions` row, caches | assign, extend, revoke, reset windows, expire | no extension lost, windows reset once |
| Usage billing (`usage_billing_repo.go`, `billing_cache_service.go`, worker pool) | dedup and archive tables, balance, quotas, caches | claim and apply, cache, drop | one charge per request |
| Concurrency slots (`concurrency_cache.go`, `concurrency_service.go`) | sorted sets and wait counters in Redis | acquire, release, wait, clean up at start | limits hold, nothing leaks |
| Scheduler snapshot (`scheduler_snapshot_service.go`, outbox) | snapshots in Redis, outbox, watermark | enqueue, poll, rebuild | a change reaches the snapshot |
| OAuth refresh (`oauth_refresh_api.go`) | credentials, refresh lock | refresh, reread, recover | a rotating token is spent once and its successor kept |
| Message queue, WebSocket pool, rate limits, sessions | Redis keys, in-process pools | acquire, release, expire | serial use, bounded pools |
| Gateway, translation, pricing, admin, monitoring, setup, frontend | mostly none or single rows | request paths, CRUD | data transformation, outside these models |

`PROJECT.json` lists every component with its files and what became of it, and
the hazards, each at its line.

### How they interact

* A provider notifies the webhook; `HandlePaymentNotification` confirms the
  order and calls fulfilment, which redeems a code (balance) or calls
  `AssignOrExtendSubscription`, then accrues the affiliate rebate, then marks
  the order COMPLETED. The same fulfilment is reached from `VerifyOrderByOutTradeNo`,
  from a cancellation that finds the order paid upstream, from the expiry job
  and from the administrator's retry.
* Refunds and fulfilment share the order's status: REFUNDING and RECHARGING are
  its two locks, taken by conditional updates.
* Handlers of the admin API run behind the idempotency coordinator; the system
  operation lock stores its lease in the coordinator's table, and one clean-up
  service deletes what has expired from it.
* Billing, slots, scheduler and token refresh meet in the gateway's request path.

### What is hard here

Handlers race on one row between two statements; a statement may fail after it
was applied (a lost commit acknowledgement); a process may stop anywhere;
notifications are lost, repeated and late; leases run out under a slow owner;
rows expire and are deleted while someone holds their id; and compensation
(rollbacks) can fail half way.

## 2. Modules

| Module | Models | Kind |
|---|---|---|
| `OrderLedger` | what the payment component promises for an order that tops up a balance | abstract specification |
| `PaymentFulfillment` | the life of an order | component |
| `PaymentFulfillmentProofs` | its theorems | proofs |
| `RefundContract` | what the refund component promises | abstract specification |
| `PaymentRefund` | refund requests and refunds | component |
| `PaymentRefundProofs` | its theorems | proofs |
| `IdempotencyStore` | one row of `idempotency_records` and each statement of its repository | shared state |
| `Idempotency` | `IdempotencyCoordinator.Execute` and the clean-up over that row | component |
| `SystemOperationLock` | `Acquire`, the renewal loop and `Release` over that row | component |
| `SchedulerSnapshot` | how a change of an account reaches the copy in Redis that requests pick accounts from | component |
| `ConcurrencySlots` | the slots and wait queues of users and accounts and the per-account message lock, as `GatewayHandler.Messages` takes them | component |
| `OAuthRefresh` | the rotating OAuth credentials of one account and everyone who renews them | component |
| `UsageBilling` | from a served request to the charge and the cached balance | component |
| `IdempotencyProofs`, `SystemOperationLockProofs`, `SchedulerSnapshotProofs`, `ConcurrencySlotsProofs`, `OAuthRefreshProofs`, `UsageBillingProofs` | their theorems | proofs |
| `MC*` | symmetry and model values for TLC | checking |

`Idempotency` and `SystemOperationLock` both EXTEND `IdempotencyStore`: the code
shares the repository in the same way, and a mutation of one of its statements
reaches both.

### Conventions

A process of a model is a goroutine running one handler, with a program counter `pc`
and the values the handler holds from earlier reads. **One step is one database
statement, one transaction, or one provider call**, with the Go code up to the next
one. A conditional `UPDATE ... WHERE` is atomic; a read and a later update are two
steps. `MaxFaults` bounds failing statements and calls, `MaxCrashes` bounds handlers
lost in the middle (restart, panic, cancelled context); both are budgets of a run, and
the proofs hold for any value (the lock's, for any its lease leaves room for).
`LostAcks` lets a statement of the payment modules that is reported as failed have
been applied; one of `IdempotencyStore` always may have been, and so may a refund that
the provider answers with an error. An operator named `X_Something` before `X` is a
mutated form of `X` that no behaviour uses.

### PaymentFulfillment

`status`, `kind`, `paidAt`, `fresh` are the row (`fresh`: `updated_at` is within the
five-minute grace period of `toPaid`); `code`, `granted`, `rebated`, `audit` what
fulfilment wrote; `upstream`, `acked` the provider's view; `pc`, `cur`, `op` the
handlers. REFUND stands for the five states of `psIsRefundStatus`, NONE for an
order not created. Handlers start with `StartCreate` (`CreateOrder`), `StartCancel`
(`CancelOrder`, `AdminCancelOrder`, `ExpireTimedOutOrders`), `StartVerify` (verification
and the expiry job's reconciliation), `StartRetry` (`RetryFulfillment`) and `Notify`
(`HandlePaymentNotification`), and then run `confirmPayment`, `toPaid`, `alreadyProcessed`,
`executeFulfillment`, `doBalance` or `doSub`, `markCompleted` and `markFailed` statement
by statement. The environment pays, lets the grace period pass, and moves a
completed order into and out of refund, as `PaymentRefund` does in detail.

Not distinguished: amounts and currencies (a payment is in full or mispaid), the
provider and its selection, the cancel rate limit, audit rows nothing reads back,
logging. The rate limiter and lock of `Redeem` in Redis appear as its failure.
`AssignOrExtendSubscription` is one step. One user on one day.

### PaymentRefund

`status`, `kind`, `refundAmount`, `rollbackFailed` (an audit row the code reads back)
are the order; `traded` says whether it has a trade number to refund at the provider,
`paidBack` what the provider accepted and confirmed, `unanswered` what it accepted in
attempts that ended in an error, which `gwRefund` takes for a refusal; `balance`,
`term`, `revoked` are the account; `taken` is a history variable, what refunds took
from the user for the order and did not give back. A handler carries its `plan`
(`RefundPlan`): the amount and the deduction decided by `PrepareRefund` *before* the
lock. `Spend` and `DayPasses` are the user's spending and the calendar between those
two. Left out: `total_recharged`, pending answers of a provider (the code counts them
as success). `RefundContract` promises the merchant one confirmed refund of an order
at most, and no further request to the provider after it; it allows the attempts that
end in an error, and does not bound what they may pay back.

### IdempotencyStore, Idempotency, SystemOperationLock

`record` is the row or `Absent`, `lastId` the sequence of the table, `clock` the time.
Each repository statement is an operator that carries its `WHERE` clause
(`Reclaimable`, `Extendable`, `Deletable`); the marks update by id only, as in the code.
`Idempotency` follows `Execute`: the claim with the `now` read at its beginning, the
re-read on conflict, the takeover of an expired record, the reclaim of a retryable
one, the execution, and the mark. `effects` is a history of what executions did.
`SystemOperationLock` follows an operation through `Acquire`, renewals every
`RenewInterval`, and the release; the operation's own name is its fingerprint.

`OnTime` is the one timing assumption: claiming statements take less than a lease,
and a request less than the record's time to live (30 s and 24 h, or 1 h, by default);
the clock stops while it would be broken. For the lock, statements take less than
one tick and a renewal is not overdue; an operation may otherwise last any time.
Requests without a key, the observe-only mode, and truncation of stored responses
are left out.

Nothing else keeps requests or operations in order: requests for an expired key race,
and an operation that reclaimed the row may outlast its lease. Two history variables
let the properties say exactly what then happens. `overtaken` counts the effects whose
record was taken from them by a request that had read it expired, before it was
renewed (`Overtakes`): the one exception of `EffectsApart` and `SuccessIsKept`.
`outlasted` is the set of rows whose lock ran out under an operation that had
reclaimed them (`Outlasting`): two operations at once must hold one of these
(`OneOperation`).

### SchedulerSnapshot

One bucket and its accounts. `db` numbers the changes of each account's row; `outbox`,
`lastId` and `watermark` are the events, their sequence and the shared position;
`lock` is the bucket's lock, `active` what the active snapshot lists, `meta` the
account records (`sched:acc:`, `sched:meta:`). Of the snapshot versions only their
order matters: `drawn` lists the builders whose version is newer than the active one.
`Kinds` are the five ways in which repository methods announce a change (event or not,
in its transaction or after it, deduplicated or not, followed by
`syncSchedulerAccountSnapshot` or not). A writer runs `Change`, `Insert`, `Commit`,
`SyncRead`, `SyncWrite`; an outbox worker `Poll`, `Get`, `Set` for each event, a
rebuild, and `SetWatermark`; a rebuild is `Lock`, `Load`, `Incr`, `Write`, `Activate`,
`Unlock`; a request that finds no snapshot builds one without the lock (`Fallback`).
An event whose id is drawn early and committed late is marked `late`. Left out:
several buckets, bulk, group and last-used events, and the paging of large writes.

### ConcurrencySlots

`slots` are the sorted sets of one user and one account, `waits` their wait counters,
`lock` the message lock; `hold`, `counted` and `queued` are the release functions a
request has. The score of a member is abstracted to "has run out", which removes it. A
request counts itself as waiting, tries for the user's slot, leaves the queue, selects
an account (which tries the account's slot at once and otherwise waits for it in the
same way), takes the message lock, forwards, and releases in reverse; a fail-over goes
back to the selection. Beside it run the `AfterFunc` of a cancelled context, the
expiry of slots, counters and lock, and `CleanupStaleProcessSlots` of an instance that
starts. Commands fail, before or after they were applied; the counters' failures let
the request pass, as in the code. Left out: load batches, the limiter of image
requests, the delays between user messages, the reconciler that frees locks without a
time to live.

### OAuthRefresh

Refresh tokens are numbered by rotation; `row` holds the stored number, its
`_token_version` and whether a 401 set `expires_at` to now; `valid` is the number the
upstream accepts. `cache` and `lock` are Redis, `mutex` the local lock of an instance.
Every caller runs `RefreshIfNeeded` (`LockLocal` ... `Release`); a refresher adds
`refreshWithRetry`, `InvalidateToken` and `SetError`; a request adds `GetAccessToken`
with its cache, version check and wait, and the handling of a 401; an administrator
refreshes without either lock. A call fails of itself or because the request's context
is cancelled. `slips` records which events that the lock does not protect from have
happened, so that a property can say precisely what else must hold. Left out: the
OpenAI, Gemini and Antigravity providers, which share `RefreshIfNeeded`, temporary
unschedulability, privacy settings, batch refresh.

### UsageBilling

`balance`, `dedup`, `archive` are tables, `cache` the key `billing:balance:{id}`;
`pool` and `writer` the shutdown state of the record pool and of the queue of cache
writes of an instance, `writes` that queue. A record goes through `Submit`, `Take`,
`Claim`, `Charge`, `QueueDeductBalance` and, if the queue refuses, `DeductNow`. The
claim is inserted and the charge made in one transaction; a second transaction with
the same id waits (`Free`). A load of the cache is a miss, a read of the row, and a
queued write. The row's other writers are `Credit`, whose callers invalidate the cache
(`Purge`: redeem codes, recharges, promotions, rebates); `Refund`, whose callers do
not (`DeductBalance` in `ExecuteRefund`, `payment_refund.go:288`, `UpdateBalance` in
`RollbackRefund`, `:415`, and the grant of a first binding,
`auth_oauth_first_bind.go:81`); and the read and write of `userRepository.Update`.
`adrift` is a history variable, how far a `Refund` has left the copy above the balance
since the copy was written; `slips` records what else may part the two. Every record
costs 1 and charges the balance; quotas, subscriptions and rate counters happen in the
same transaction.

## 3. Runs

| Run | Instance | Shows |
|---|---|---|
| `payment_faults` | 1 order, 3 handlers, 1 failing statement, 1 lost handler, legacy rows, lost acknowledgements | credited and rebated once, only for a full payment, completion only after the credit, a recorded payment stays recorded, OrderLedger implemented; without failing statements also RECHARGING exclusive, acknowledged means recorded, nothing granted in refund |
| `payment_progress` | 1 order, 2 handlers, no failures, fairness | a paid order is completed, and granted once |
| `payment_double_extension` | 1 failing statement | *violated*: a subscription is granted twice |
| `refund_faults` | 1 order, amount 2, 2 handlers, 1 failure, 1 lost handler, 1 error of the provider, which may have paid back | REFUNDING exclusive, settled amount, RefundContract; without failing statements nothing taken twice and a refund that fails leaves the balance whole |
| `idempotency` | 3 requests that race for expired keys too, 2 payloads, clock to 6, 1 failure, 1 lost request | one owner, effects a time to live apart and success kept except by a raced takeover, replay of one's own response |
| `idempotency_raced_takeover` | 2 requests, no failures | *violated*: of two concurrent requests for an expired key both execute |
| `system_lock` | 3 operations of any length, clock to 15, 1 failing statement, 1 lost operation | one operation at a time until a reclaimed lease runs out, the creator keeps its lease |
| `scheduler_snapshot` | 1 account, 2 writers, an outbox worker, an interval rebuild, a request; any 2 changes, failures and lost workers | no visible event passed unhandled, rebuilds do not overlap, the snapshot converges to the database |
| `concurrency_slots` | 2 requests on 2 instances, limits and queues of 1, 1 failed command, 1 client that leaves, 1 lost instance, 1 fail-over | limits, wait counters, one message at a time, everything left behind is freed |
| `oauth_refresh` | a refresher on one instance, a request and an administrator on another; 1 expiry, 401, disconnect, fault, crash | guarded refreshes exclude one another, races lose no token, only a dead token retires the account, a due one is refreshed or retired |
| `oauth_401_retires` | no fault, no administrator | *violated*: a 401 leads to SetError |
| `usage_billing` | 2 records, 1 instance, queues of 1, 1 credit, refund or row update, 1 load, 1 fault, shutdown | one charge per request id, the cached balance agrees up to refunds, what was accepted is billed |

`TypeOK` of the payment and refund modules, and their invariants `PaymentInv` and
`RefundInv`, are proved (section 5) and not run again.

**Bounds.** The statements of the payment component touch one order, except the
limits' counts; hence one order. Three handlers are the fewest that show a
notification, a retry and a cancellation against each other, and a second racing pair
after one of them is lost. One failing statement and one lost handler is the failure
pattern that breaks an unguarded step order; the proofs do without bounds. Amount 2 is
the least that has a partial refund; one error of the provider lets an attempt follow
another that was refused, or that was paid back without an answer. In `idempotency` the clock passes two times to
live from the first claim, so a key is claimed, expires and is claimed again, by
several that have read it expired; in `system_lock` it passes the expiry of the first
record (12) with three renewals on the way, and the end of a lease got by reclaiming.
In `scheduler_snapshot` two writers are the fewest with which a lower id commits after
a higher one was polled and a change falls under the deduplication of an earlier one;
`MaxTogether` 2 lets two changes, a change and a failure, or two failures meet, and
counts a request without a snapshot among the failures. In `concurrency_slots` two
requests contend for one slot and one place in the queue at each level; the first may
be forwarded twice, so that its orphans meet its own next acquisition. In
`oauth_refresh` one refresher and one request show every pair of refreshes, of the
same instance (with the administrator) and of different ones, and two attempts of
`refreshWithRetry`. In `usage_billing` the second record repeats the first, conflicts
with it, or is independent; buffers of one are full with one entry. Symmetry permutes
handlers, or payloads, which no property names; the runs of liveness use none.

**Fairness.** `payment_progress` assumes weak fairness of each handler's next step
(goroutines are scheduled, statements return) and strong fairness of redelivery:
providers repeat an unacknowledged notification and the server keeps serving. It does
not assume that anyone verifies, retries or cancels. `scheduler_snapshot` assumes that
started operations go on, that the tickers of the outbox worker and of the full
rebuild fire, and that Redis expires a bucket lock nobody builds under; changes,
requests and failures need not happen. `concurrency_slots` assumes that a request goes
on (each wait and each forward has a time-out) and that Redis expires what nobody
uses; not that instances start or stop. `oauth_refresh` assumes that goroutines go on,
the refresh loop comes round and an abandoned lock expires; not that requests come or
tokens expire. `usage_billing` assumes the pool's workers only. The other safety runs
assume nothing.

**Deadlock** is not an error in any run: when everyone is idle and the budgets
are used up the system may rest.

## 4. What modelling showed

Three runs end in a counterexample, each against what the code's own comments or tests say:

* *Double extension* (`payment_double_extension`). `doSub` looks for a
  SUBSCRIPTION_SUCCESS audit row that is written by `markCompleted` after its
  update. If that update fails, the retry finds no row and extends again.
* *A 401 retires the account* (`oauth_401_retires`). `HandleUpstreamError` writes the
  request's own copy of the credentials, with `expires_at` set to now, over the
  stored ones. If they were rotated since (the request itself may have caused the
  refresh, whose result `GetAccessToken` keeps to itself), the next refresh spends
  the old token, is answered `invalid_grant`, finds that same token stored, and sets the
  account to error.
* *Raced takeover* (`idempotency_raced_takeover`). `TryReclaim` (called at
  `idempotency.go:291`) compares id, status and lock, not the expiry. Two requests
  read the same expired succeeded record; one takes it over, executes and succeeds;
  the other's `TryReclaim` matches the fresh success and executes again.
  `idempotency_test.go:392` expects of concurrent requests with one key that the side
  effect happens once.

Observed, and set apart by a premise or a bound:

* Payments. The count of pending orders and the insert are not serialized, so two
  creations may pass the limit of `docs/PAYMENT.md:65` together; the daily limit
  counts paid orders only. A handler lost in RECHARGING or REFUNDING leaves the
  order there, hence `payment_progress` loses no handlers.
* Refunds. `gwRefund` takes every error for a refusal, a time-out after the provider
  accepted included: the user's value is given back although the money went back, the
  order can be refunded again, and the next attempt asks the provider once more. What
  the contract, `SettledAmount` and `CompletedBalanceIsWhole` say of money is
  therefore about what the provider confirmed. After a refusal whose rollback failed
  (a revoked subscription cannot be extended back) the order is REFUND_FAILED; the
  next attempt has nothing to deduct, hence nothing to give back, and when it is
  refused too the order becomes COMPLETED with the subscription still revoked. A
  user's request made between `PrepareRefund` and the lock can be overwritten with
  COMPLETED. A lost REFUND_ROLLBACK_FAILED audit row lets a second attempt deduct
  again; `TakenOnce` and `CompletedBalanceIsWhole` are therefore stated for behaviours
  in which no statement fails, as are `NoGrantInRefund`, `OneFulfiller` and
  `AckedIsRecorded` for similar reasons. `RollbackRefund` credits through
  `UpdateBalance`, which raises `total_recharged`. A provider's *pending* refund is
  recorded as REFUNDED.
* Idempotency. A record left PROCESSING is refused until it expires, also after its lock ran
  out. A response cut to `max_stored_response_len` cannot be replayed.
* System lock. `TryReclaim` leaves the earlier operation's fingerprint on the row, so
  the new owner's renewals match nothing and its lease runs out, however it is doing;
  a third operation may then start beside it, and each releases by id what the other
  holds. `OneOperation` admits two operations at once only on such a row.
  `RestartService` releases the lock when the restart is scheduled, half a second
  before it happens; an update that begins in between is cut off, a `Crash` of the
  model.
* Scheduler. A bucket locked by another rebuild is skipped without an error. If that
  rebuild read the database before the change, the event counts as handled and the
  snapshot, and even the account's record, show the old state until the next full
  rebuild; `usage_billing_repo.go:323` expects the refresh with the event. Late ids
  and deduplicated events wait for it as well. `UnlockBucket` deletes the key whoever
  set it, so `OneRebuild` has the premise that no rebuild outlives the lock.
* Slots. An instance that starts removes the members of every other prefix and
  all wait counters, live instances' included, although only "stale" ones are meant
  (`concurrency_service.go:51`). When a client leaves, the slots are given back while a
  detached stream goes on upstream. The increment of a cancelled request is not
  sent but its decrement is, so a counter may be too low. `LimitKept` therefore
  speaks of requests whose slot was neither removed, nor expired, nor given back.
* OAuth. The lock lives 60 s, as long as the HTTP time-out of a refresh, and
  `ReleaseRefreshLock` deletes it unconditionally. Persisting and releasing use the
  request's context, so a client that leaves at the wrong moment loses a rotated token
  or leaves the lock for its time to live. `CheckTokenVersion` and the write to the
  cache are two steps, and an administrator's refresh keeps the old `_token_version`:
  an old access token can be cached after a newer one was stored.
* Billing. Refunds, their rollbacks and the grant of a first binding change the
  balance and invalidate nothing: the cached balance is off by their sum until the key
  expires, and each deduction renews its time to live (`CacheAgrees` counts it, by
  `adrift`). `userRepository.Update` writes the balance it read earlier, over charges
  and credits made since (`BalanceExplained` excludes the states after it, by
  `slips`). `enqueueCacheWrite` looks at `stopped` before it takes the mutex, and
  `Stop` closes the channel before it forgets it: a write in that window panics and is
  lost, where `TestBillingCacheServiceEnqueueAfterStopReturnsFalse` tests a refusal
  after it. A load of the balance that overlaps a charge caches the old balance, and
  every deduction keeps the difference alive in the same way. These and commands lost
  on the way to Redis are the `slips` that `CacheAgrees` names. A request id with
  another fingerprint is not billed. A record submitted to a stopped pool is dropped;
  so, by policy, may be one submitted to a full one. A claim archived between the two
  look-ups makes `Apply` fail.

## 5. Proofs

Every invariant, every action property and both refinements that a passing run checks
are also proved, for any orders, handlers, bounds and number of failures; the premises
some theorems have on the constants are named below. Each proof follows one pattern: an
inductive invariant, a lemma for each action (or for each *shape* of step, where many
actions do the same to what the invariant reads), and theorems that read off the
property.

**PaymentFulfillmentProofs.** `PaymentInv` is inductive: types; an order's creator alone
works on it until it exists (`OwnsNewOrder`); a handler is in its kind's branch
(`BranchOfKind`); the redeem code remembers the credit and the audit row the rebate
(`CodeRecordsCredit`); whoever is past the checks works for a paid order
(`PaymentBehind`); each trace of a success has a grant behind it (`GrantBehind`); a
recorded payment has left the unpaid states (`RecordedStatus`). None of the properties
is inductive alone: that a balance order is credited at most once needs
`CodeRecordsCredit`, because the guard of the credit is the code's state and not the
count; that completion follows the credit needs what `pc` says about handlers that wait
before `markCompleted`. From the invariant follow `TypeCorrect`, `CreditedOnce`,
`CreditNeedsPayment`, `CompletionFollowsCredit`, `PaymentStaysRecorded` (an action
property) and `Implementation`: every step is a step of `OrderLedger` or leaves it
unchanged under the mapping *paid = paid upstream, credits and rebates of balance
orders*.

The last part is about behaviours up to their first failing statement (`faults = 0`;
handlers may be lost at any time). `LockInv`: an order that a handler fulfils is
RECHARGING and has no other such handler (`Locked`); the order of a creation that was
refused cannot be paid, so that `CreateOrder`'s last update, which is by id, meets no
RECHARGING row (`Refused`); an order whose subscription was extended is past payment,
and a handler that still has it has only `markCompleted` left (`ExtendedOnce`).
`AckInv`: whoever is past `toPaid` works on a row that has left NONE, PENDING and
CANCELLED (`Seen`). From them: `FulfilsAlone`, `AckRecords`, `RefundGetsNothing`, and
`GrantsOnce`, which states `faults = 0 => GrantedOnce`: `payment_progress` checks it
without faults, and after one fault a subscription is granted twice
(`payment_double_extension`).

**PaymentRefundProofs.** No theorem here assumes anything of the provider's answers.
`TypeOK /\ OneRefunder` is inductive (`LockInvariant`, `RefundIsExclusive`): only the
compare-and-set enters REFUNDING, and only its holder leaves it. `RefundInv` adds that a
refund has been confirmed only of an order that is settled or held by the handler about to
settle it (`PaidBackIsLocked`, `MarkOkIsPaid`), whatever was paid back in attempts that
ended in an error (`RefundInvariant`, `SettledAmountHolds`); and since an order that is
settled, or has a confirmed refund, reaches the provider no more, each step is one of
`RefundContract` or leaves it unchanged (`ContractHolds`). `TakeInv` follows what a refund
takes from the user: a plan takes no more than it pays back (`TakesNoMore`), and until a
statement fails the holder of REFUNDING knows what it took (`HolderTook`), an order has had
nothing taken while it can be refunded, and no more than was confirmed once it is settled
(`BalanceTaken`). Hence `NothingTakenTwice` and `FailedRefundLeavesNothing`.

**IdempotencyProofs.** Premise: `Lease <= TTL` (30 s against 1 h or 24 h by default;
`config.go` does not compare the two). A step of a request looks at the row, claims it,
marks it, or executes. `Inv`: the row of an owner is PROCESSING under the id it has
read, locked and kept from the owner's beginning (`OwnsRecord`), and whoever read it
PROCESSING before the owner took it began too early to take it over in turn
(`LockedOut`); ids are not used twice, because an insertion follows a deletion and the
clock stands between (`IdsTimely`). From it `OwnerExclusive` and `ReplayMatches`.
`EffectsInv` follows the effects while takeovers race: a row in PROCESSING that a request is
about to take over is the expired one it read, or was locked after the request began, so
that `TryReclaim` will not match it (`TakesExpired`); and an effect younger than the time
to live is covered by a row that nobody may claim, unless it is among the `overtaken`
(`Covered`, `Protected`). A takeover of a success that has not expired is the only step that
uncovers an effect, and it is an `Overtakes` step. Hence `EffectOnce` and `SuccessStays` (an
action property) with any number of requests racing for an expired key.

**SystemOperationLockProofs.** Premise `LeaseCoversFaults`: `Lease <= TTL` and
`(MaxFaults + 1) * RenewInterval + 2 < Lease`, so that the lease outlives all renewals
that may fail and one more. `renewLoop` renews every third of the lease, hence this
means one failing statement at most; after two that fail in a row the third comes as
the lease runs out. `Inv` is about who `Keeps` the row: its creator, or who reclaimed
a row whose lock has not run out under a reclaimer so far. A creator has a reserve,
its lock ends after its next renewal and all that may still fail; a reclaimer's lock
has not ended (`Covered`). Each is the row's only holder (`Sole`), and the row
outlives its lock (`Terms`). From it `LeaseIsKept`, for whoever created the row, and
`NeverTwo`: of two operations at once one holds an outlasted row. Nothing is assumed
of the length of an operation.

**SchedulerSnapshotProofs.** `PollInv`: an event up to the last one a poll has listed is
handled, or still to do in that poll, or came too late for it (`Listed`), and the
watermark moves when the poll has nothing left (`Finished`); hence `NoEventLost`, with
any number of pollers moving one watermark back and forth. That a poll takes the first
events in the order of ids, up to the limit, is a lemma about finite sets of ids
(`Largest`, by the pigeonhole principle). `Held`: without a fault whoever builds has the
bucket's lock, from which `RebuildsApart`. `TypeCorrect` counts (`Bounded`): ids drawn,
and versions written, plus the writers about to draw or write, are no more than the
changes begun; and a poll handles only events it has listed.

**OAuthRefreshProofs.** `Inv` is inductive. `Guarded`: unless a refresh ran beside the
lock, whoever is between its acquisition and its release has it and the key is theirs;
this is what the unconditional DEL of a release needs (`RefreshExclusive`). `Chain`:
unless a 401 restored an older copy, no copy is newer than the stored token, the
upstream is at most one token ahead, and whoever holds that token is alone with it; no
lock is needed for that, since the upstream accepts one token only (`TokenKept`).
`Retired`: a token found dead under the lock stays dead (`OnlyDeadRetired`), which rests
on both. `TypeCorrect` bounds the tokens (`Traced`): a refresh happens because the
token's time was up, a request was answered 401, or an administrator asked for it, and
each of these causes is spent on one token only. No copy is newer than the token the
upstream accepts (`Copied`), and whoever is about to refresh and is no administrator
found its copy due (`Reasons`); so the tokens given beyond the expiries, the complaint
not yet answered, and the administrators about to refresh are together no more than the
401s and the rounds begun (`Caused`). This needs finitely many administrators, which
`RefreshConstants` assumes.

**UsageBillingProofs.** `Ledger` is inductive: the claims in the two tables are exactly
the request ids charged for (`ClaimedIsCharged`), and a transaction between its claim
and its commit is alone with an unclaimed id (`AloneWithKey`); hence each charge adds an
id, and the balance is explained by their number (`EachIdChargedOnce`), from finiteness
of `charged` alone. `Shapes` gives `TypeCorrect`: a queue takes a write only below its
capacity, and credits and refunds, and the addition of an update underway, are among
the changes.
`CopyInv`: a deduction in a queue is of a record of that instance that is done with
(`OwnDeduction`), and unless the copy has parted from the row for one of the reasons
`slips` names, it is the balance plus the charges yet to be deducted and what refunds left
it `adrift`, and a load is underway only when there is nothing to deduct (`Following`).
`CopyFollows` is the case in which everything is deducted.

**ConcurrencySlotsProofs.** `Inv` is inductive: the scripts keep the sets within the
limits (`WithinLimit`); the member a request holds is its own, and in the set unless it
has run out or a start removed it (`HeldIsThere`); a connected request past an
acquisition has its member (`HasMember`); whoever has the release function of the lock
has set it, unless it has run out (`LockIsThere`). `LimitsHold` counts: those members
are distinct, so the running requests map one to one into a set within its limit.
`HeldIsThere` needs that a release removes the request's own member only, and
`LockIsThere`, from which `SenderExclusive` follows, that `releaseLockScript` compares
before it deletes. `CountInv` is about the wait counters: a request is counted only
while it tries for a slot or is about to be uncounted (`CountedTries`), and a lost
instance turns its counted requests into phantoms, one each; from it `WaitersAreReal`
and `TypeCorrect`.

The assumptions on the constants (`...Constants` in each module) are evaluated by TLC in
each run.

**Only model-checked:** liveness (`PaidLeadsToCompleted`, `Converges`,
`EventuallyFree`, `RefreshedOrRetired`, `AcceptedIsBilled`), which is out of the
prover's reach. The three violated runs have no theorem.

## 6. Not modelled

`PROJECT.json` lists each component with its status and reason. Broadly: pure
translation and pricing (data, no interleaving), CRUD administration, wiring,
monitoring, generated code and the frontend: most of the repository's
lines. What has control worth a module and has none yet: the term of a
subscription under concurrent extensions and window resets, the WebSocket pool of
the OpenAI forwarder, the rotation of login refresh tokens, the invalidation of
the API-key cache, and the claimed clean-up tasks.

## 7. Plan

1. Theorems that need less than they assume now: the premise `faults = 0` of the
   payment properties says more than it must (only some statements' failures matter),
   `LeaseCoversFaults` counts all failing statements where only renewals failing in a
   row matter, and the helper lemmas about the shared row are stated in
   `IdempotencyProofs` and in `SystemOperationLockProofs` and belong in one module.
2. `SubscriptionTerm`: concurrent extensions, renewal after expiry, window resets.
3. Compose fulfilment and refund on one order, replacing the environment's
   `EnterRefund` and `RestoreCompleted` by `PaymentRefund`'s actions.
