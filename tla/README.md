# Formal verification of Tori

Tori bills subscriptions over Nomba. A merchant API, a customer portal, an
inbound payment webhook and a pool of background workers all write to the same
rows, with no transaction around "read, decide, call Nomba, write"; sessions,
one-time codes and counters live in Redis under the same regime. This directory
holds TLA+ models of that, the TLC runs that check them on small instances and
the TLAPS proofs of what must hold for every instance.

Paths below are relative to the repository root.

## 1. The system

| Part | Where | State | Operations | Talks to |
|---|---|---|---|---|
| Job queue | `internal/scheduler/worker.go`, `db/queries/scheduled_jobs.sql`, `internal/postgres/job_repo.go`, `cmd/worker/main.go` | table `scheduled_jobs` | enqueue, claim (`FOR UPDATE SKIP LOCKED`), mark done or failed, sweep of stale locks | calls the job handlers |
| Subscription state machine | `internal/subscription/state_machine.go`, `db/queries/subscriptions.sql` | status, dunning attempt, cancel flag, card of a row | `Transition` (pure), one `UPDATE` per operation | called by HTTP handlers only |
| Dunning engine | `internal/dunning/engine.go`, `internal/payment/failure.go` | none | `Decide`, `IsRetriable` | called by `RetryFailedPayment` and `GraceRetry` |
| Billing job handlers | `internal/billing/handlers.go`, `abandoned_checkout.go` | the row, invoices, ledger | `ExpireTrial`, `RetryFailedPayment`, `CancelAtPeriodEnd`, `CheckAbandonedCheckouts`, `GraceRetry`, `SuspendSubscription`, `SimulateWebhook`, `TrialEndingSoon` | Nomba, queue, ledger |
| Subscription API | `internal/api/handlers/subscriptions.go` | the row | cancel, pause, resume (with a charge), recover, retry now, send pay link | queue, Nomba |
| Customer portal | `internal/api/handlers/portal.go` | the row | cancel, pause, resume, new card | Nomba |
| Checkout | `internal/api/handlers/checkout.go` | rows, promo counters | create, regenerate | Nomba, queue |
| Inbound webhook | `internal/api/handlers/nomba_webhook.go` | the row, request ids in Redis | `payment_success`, `payment_failed`, payment links | ledger, queue |
| Ledger, invoices | `internal/ledger/service.go`, `db/queries/{ledger,invoices}.sql` | two tables with unique keys | record, mark paid | |
| Nomba client | `internal/payment/nomba_client.go` | money | charge a token, a mandate, a wallet; make a checkout | external |
| Payouts | `internal/api/handlers/payouts.go`, `internal/payout/service.go` | `payouts`, a Redis lock | create, process | Nomba, ledger |
| Outbound webhooks | `internal/webhook/dispatcher.go`, `internal/api/handlers/webhooks.go` | endpoints, deliveries, one job per event | dispatch, circuit breaker, create, update, delete, retry a delivery | queue, merchants |
| Sessions and tokens | `internal/cache/redis.go`, `internal/api/handlers/auth.go`, `internal/api/middleware/jwt.go` | Redis: session keys, their index, denylist, attempt counters | login, refresh with touch, logout, list, revoke | every authenticated request |
| Accounts and access | `oauth.go`, `team.go`, `portal_auth.go`, `middleware/tenant.go` | tenant, members, invitations, one-time codes, OAuth clients | register, verify, invite, join, change a role, remove; portal login; tokens | Redis, e-mail |
| Idempotency keys | `internal/api/middleware/idempotency.go` | stored responses | look up, run, store, clean up | every mutating request |
| Promo codes, payment links | `promo_codes.go`, `payment_links.go`, checkout, webhook | use counters | compare with the limit, increment, deactivate | Nomba |
| Plan changes, refunds | `plan_change.go`, `refund.go` | the row, ledger | change, refund | Nomba |
| Reconciliation | `internal/reconciliation` | its reports | match a day's transactions with the ledger | Nomba |
| Periods, proration | `internal/billing/{cycle,proration}.go` | none | pure arithmetic | |
| Audit trail, customers, plans, templates, analytics, e-mail, frontend | `internal/postgres`, `internal/finops`, `internal/email`, ... | single rows, or read-only | | |

### What is hard here

* **Interleaving.** Five goroutines per worker process, any number of HTTP
  requests and Nomba's webhooks work on one row. Each reads it, decides, and
  writes later; no `UPDATE` has a condition except `ClaimDunningAttempt`.
* **Crashes.** A worker may die between the charge and its record, between a
  claim and its outcome, or be told to stop: `main` does not wait for it.
* **Unreliable calls.** An answer of Nomba can be lost after the money moved.
  Errors of most writes are logged and dropped.
* **Two commands where one is meant.** Compare and increment (promo codes, payment
  links, attempt counters), look up and insert (idempotency keys, request ids), read
  and write back (sessions), `INCR` and `EXPIRE`: between the two anybody runs.
* **Re-execution.** A job may run again after a crash or a lost outcome; order
  references and unique keys are what keeps it harmless.
* **Liveness.** Jobs are the only thing that makes time act on a subscription:
  whatever no job is queued for never happens.

### What makes each part correct

* Queue: a job in one pair of hands, at most `max_attempts` executions, no row
  locked for ever, no due row starved.
* Subscription row: a cancelled subscription stays cancelled, a cancelling one
  is not charged and is cancelled in the end, access is paid for.
* Dunning: suspension only after a refusal or after the whole schedule; a
  declined retry is followed by another.
* Ledger: exactly the charges that were made. No entry without money, no charge
  recorded by two processes, every charge recorded.
* Payouts: one request at a time decides against the balance, one transfer and
  one entry per payout, and never more than has settled.
* Outbound webhooks: every endpoint that wants an event is sent it, again if it
  failed and never again if it took it; a dead endpoint is switched off and left
  alone; test and live events never mix.
* Sessions: a revoked session stays revoked, an active one can be seen by its
  owner, and none outlives its login.
* Accounts: limits bound attempts and locks end; a code or an invitation opens
  once; a revoked client gets no token; an owner is not removed.
* Idempotency: a handler succeeds once per key, its answer is kept, and money moves
  once.
* Sales: limits are passed by no more than what overlapped, plan changes are paid
  for, every refund and every payment of a link is booked.

## 2. Modules

    ScheduledJobs --+--> JobQueue --> MCJobQueue
     (SQL of a job) |          \---> JobQueue_proofs
                    +--> Payouts --> MCPayouts
                    |        \---> Payouts_proofs
                    +--> WebhookDelivery --> MCWebhooks
                    |                \---> WebhookDelivery_proofs
                    +--> Billing --> MCBilling
    Subscriptions --+      | \---> Billing_proofs --> Ladder_proofs
    Dunning --------+

    AccessStore --> Access --> MCAccess
                       \---> Access_proofs
    Sales --> MCSales
       \---> Sales_proofs

    ExclusiveJobs (abstract): INSTANCE in JobQueue (Promise) and in Billing_proofs,
                              Payouts_proofs and WebhookDelivery_proofs (Queue)
    SumTheorems: used by Payouts_proofs, Sales_proofs and WebhookDelivery_proofs

**ScheduledJobs** has the statements of `scheduled_jobs.sql` as operators on one
row. Two of them, `RequeueJob` and `RetryJob`, have no caller.
`CancelPendingJobsForSubscription` is called, but its parameter reaches the
query as a JSON string with its quotes and matches no row. None of the three is
modelled.

**JobQueue** models the table and the goroutines. `ClaimNext` is `processNext`
up to the handler; the handler ends in `Succeed`, `Fail` or `LoseOutcome` (the
discarded error of a `Mark` statement). `RecoverStaleLocks` is the stale ticker,
`Crash` the death or the shutdown of a process. Time is two flags of a row: it
is due, and its lock is older than ten minutes.

**ExclusiveJobs** is the abstract specification: what a handler may rely on. It
knows nothing of rows, locks or sweeps. `JobQueue` implements it under the
mapping `settled`, `tries`, `limit` and `executing <- doing`. `Billing`, `Payouts` and
`WebhookDelivery` each have a small queue of their own in their place; that these
implement the same specification is a theorem of each.

**Subscriptions** has the transition table and the `UPDATE` statements as
operators on one row. **Dunning** is `Engine.Decide`.

**Billing** is one subscription with everything that writes to it. A process is
a goroutine of the worker or one HTTP request, and its `at` names the call it
is about to make: between two calls everybody else runs. `seen` is the row as the
process read it, `ref` the order reference of the charge it made.

| Action | Code |
|---|---|
| `ExpireTrial`, `RetryFailedPayment`, `CancelAtPeriodEnd`, `CheckAbandonedCheckouts` | the handlers up to their first call |
| `Cancel`, `PortalCancel`, `Pause`, `Resume`, `PortalResume`, `Recover`, `RetryNow` | the requests up to their first write: read, `Transition` |
| `RegenerateCheckout`, `UpdatePaymentMethod` | a new checkout link |
| `PaymentSuccess`, `PaymentFailed` | a payment on a link and its webhook |
| `Lapse`, `Renew`, `EnterGrace`, `UpdateDunning`, `Suspend`, `CancelNow`, `FlagCancel`, `PauseRow`, `ResumeRow`, `ResumeForward`, `UpdateTokenKey` | the `UPDATE`s, unconditional |
| `ClaimDunningAttempt` | the one conditional `UPDATE` |
| `ChargeAccepted`, `ChargeDeclined`, `ChargeUnanswered`, `ActionRequired` | what Nomba answers, by the rail of the recovery ladder |
| `CreateInvoice`, `RecordCharge`, `MarkPaid` | `createInvoiceForCharge`, `createResumeInvoice`, `activateAndRecord` |
| `QueueRetry`, `QueueCancel`, `Finish`, `RecoverStaleLock`, `Crash` | the job queue, seen from one subscription |

Here the queue appears as `JobQueue` proves it to be: a job is executed by one goroutine
at a time and a lost one is given back (`Billing_proofs!JobsAsPromised`). Dates are left
out: a job may run at any time, so every order of the dates is among the behaviours.

What was abstracted: amounts (a link asks for the price or for the naira that
verifies a card), e-mails and outbound webhooks, the audit trail, the two
`TRIAL_END` markers, pause credits except that they may cover the price of a
resume, the name of the rail in use, failed reads and failed `UPDATE`s. A
handler that cannot read its row returns an error without a change. `INSERT`s of
invoices and ledger entries may fail (`WriteErrors`).

Nomba is external and modelled at its best: it takes money once per order
reference and repeats its answer. Whether it does is outside the repository;
`ChargeToken` does not send the idempotency key it is given.

**Payouts** is one tenant's balance with everything that draws on it. A request
(`requests`) is at a step of `Create`: `Begin` is the `SETNX`, `Approve` or `Refuse` the
balance check, `CreateRow`, `EnqueueJob`, and `Release` the deferred `DEL`, which
deletes the key whoever set it. A goroutine (`doing`) is at a step of
`ProcessPayout`: `Read`, `MarkProcessing`, `Transfer`, `MarkCompleted` with
`RecordLedgerDebit`, or `MarkFailed`, and `Return`. `moved` counts how often Nomba moved
the money. Every write may fail and every answer be lost; `Fault` counts these and the
deaths together, so that a property can say "whatever single thing goes
wrong". What settled is a constant: charges and refunds of the day are left out.
In test mode nothing is transferred, as in the code. Nomba is modelled at its
worst here, every call may move money, since no code relies on more.

**WebhookDelivery** is one tenant's endpoints and events. `Enqueue` is
`DispatchAsync`; when its `INSERT` fails the caller delivers by himself
(`DispatchInline`), and nobody runs that event again. A worker is at a step of
`Dispatch` and `deliver`: `Dispatch` lists the endpoints, `CreateDelivery` writes the row
before the request, `Succeed` or `Fail` marks it, `CheckCircuitBreaker` counts the
failures of a day, `DisableEndpoint` switches off, `Finish` returns nil whatever was
answered. `LoseUpdate`, `SkipDelivery`, `ListFails` and `Crash` are the faults,
`RecoverStaleLocks` the second run. The tenant creates, updates and deletes
endpoints and retries deliveries; an endpoint goes down and comes back
(`TurnOver`); a day goes by (`FailuresAge`). Two variables belong to the properties:
`awaiting`, the endpoints that have wanted an event ever since its job was claimed,
and `reenabled`, those the tenant switched on again. Left out: payloads and
signatures, and `next_retry_at`, which no running code reads. `FairSpec` adds that the
workers go on (`Proceed`) and that the sweep runs; one run needs it.

**AccessStore** has the rows and Redis values of accounts and sessions, with the
statements that change one of them, as operators on one value. **Access** says
which handler calls them and when. A request (`requests`) is at the call it is about to
make:

| Action | Code |
|---|---|
| `Register`, `CreateTenant`, `SetPassword`, `BackfillOwner`, `DropCodes`, `SendCode` | `Register`, in its order |
| `Login`, `Count`, `Window`, `ClearLoginFailures`, `CreateSession` | `Login`, and the counters every guarded handler uses |
| `Refresh`, `TouchRead`, `TouchWrite`, `Logout`, `RevokeOnLogout`, `RevokeSession`, `ListSessions` | `redis.go`, `auth.go` |
| `ResendVerification`, `VerifyEmail`, `MarkCode`, `MarkEmailVerified` | the address of the tenant |
| `InviteMember`, `InsertInvitation`, `AcceptInvite`, `CreateMember`, `MarkAccepted`, `RevokeInvitation` | invitations |
| `UpdateMemberRole`, `RemoveMember`, `DeleteMember` | members; the role is read before the `DELETE` |
| `RequestOTP`, `IssueCode`, `GuessOTP`, `VerifyOTP`, `ClearVerifyFailures`, `MarkUsed` | the customer's login to the portal |
| `CreateClient`, `RevokeClient`, `IssueToken`, `CreateToken` | OAuth clients |
| `Abort`, `IgnoredFailure` | a call that fails and ends the request, or is only logged |
| `Tick`, `WindowEnds`, `CodeExpires`, `InvitationExpires` | time |

Owner and developer stand for the four roles: what the code asks of a role is
whether it is the owner's, and whether it is in a list. `contested` collects the
objects (a session, a code, an address, the client) on which two requests
overlapped; a property that excuses a race excuses it there and nowhere else.
`opened`, `closed`, `born`, `touched`, `taken` and `late` are kept for the properties.
`Second` is the number of ticks in a second: Redis keeps an expiry exactly and answers
`TTL` in whole seconds, the nearest (`InSeconds`), which `Touch` writes back
(`redis.go:226`). How Redis rounds is outside the repository.

**Sales** is the platform API behind its middleware: `Lookup`, the handler, `Store`. The
handlers are `CreateCheckout` with a promo code (`Validate`, `Find`, `Create`,
`CountUse`), `ChangePlan` (`ReadPlan`, `Book`, `Switch`), `IssueRefund` (`Refund`,
`BookRefund`) and an order of a payment link (`ReadLink`, `Initiate`); Nomba's notice of a
paid order goes through the request-id store (`Seen`, `Mark`) to `Use` and `Charge`.
`Expire`, `DeleteExpired`, `Forget` and `NextDay` are time, `CountFails`, `RefundUnknown`,
`Skip` and `Drop` the faults. `NetAdjustment` is the proration of
`internal/billing/proration.go` in whole days. `disturbed` collects what overlapped,
was cut off or ran out; `ran`, `owed` and `uncounted` are kept for the properties. A
client sends a key again with the call it was sent with first: the middleware does
not compare the two. The `idempotency_key` in the body of a checkout (`BodyKeys`) is
another key than the header's: a checkout may have either, both or none. Notices are
marked by their request id (`Ids`), and several ids may tell of one order (`about`).
`refunds` counts what Nomba carried out by the key of the request; a payment may be
refunded in parts.

## 3. Runs

| Run | Configuration | Shows |
|---|---|---|
| `job_queue` | `MCJobQueue.cfg` | two rows of every date and attempt limit, three goroutines in two processes, two deaths |
| `billing_activation` | `MCBilling_Activation.cfg` | a checkout or a trial up to the first payment, two workers and two requests, lost answers, failed writes, one crash |
| `billing_recovery` | `MCBilling_Recovery.cfg` | a past-due row with two retry jobs, two workers, two requests out of nine kinds; no failure but declines |
| `payouts` | `MCPayouts_Faults.cfg` | two payouts of both modes, two requests, two goroutines, any two faults |
| `access` | `MCAccess.cfg` | any three requests, two at a time, in a tenant at work or just registering, with one fault, seconds of two ticks (2 million states) |
| `webhooks` | `MCWebhooks.cfg` | four events, two endpoints, two workers, two modes, one fault or change (2.5 million states) |
| `sales` | `MCSales.cfg` | any three requests, two at a time, under two keys or none, three plans, one order told under two request ids, two faults or expiries (3.3 million states) |

Properties of the passing runs:

* `OneWorkerPerJob`, `KeepsPromise`: exclusive execution, and the refinement of
  `ExclusiveJobs` (which adds the limit on executions and that a settled job is
  never started again).
* `NoRowStaysLocked`, `DueJobsAreServed`: the sweep and the order of `ClaimNext`.
* `LedgerIsBacked`: no entry without money.
* `OneRecorderPerCharge`: two processes never record one charge, though a
  re-run job and a duplicate webhook carry the same reference.
* `AccessIsPaid`: nobody is `ACTIVE` before the price was taken, when neither
  `Recover` nor the portal's card update is used. (The second of these is a real
  exception: its naira activates a `PENDING_PAYMENT` row, because the webhook
  does not say which link was paid.)
* `PaidInvoicesAreLedgered`: no paid invoice without its entry.
* `ChargesAreRecorded`, `ChargesReachTheLedger`: no interleaving drops a charge
  between Nomba and the ledger, and it arrives there.
* `SuspensionIsEarned`: stale attempt counters may repeat or overtake an
  attempt, never skip one.
* `CancelledEnds`: a row that is `CANCELLED` leaves that status only by the hand of a handler
  that had read it before, and while it is cancelled nobody new comes to where he could
  do so. Those who had read it do write over it: section 5.

* `OneRequestAtATime`: no two requests between balance check and row, if requests
  are quicker than the lock's ten seconds.
* `DebitsAreBacked`: no `PAYOUT` entry without a completed payout and its money.
* `PaidOutOnce`: one fault anywhere does not pay a payout twice. Two can:
  `MarkProcessing` fails, which is only logged, and the worker dies after the transfer.
* `BooksBalance`, `PayoutsAreDecided`: without faults status, ledger and bank agree
  on every payout nobody works on, and every queued payout is decided. A fault may
  leave a payout in `processing` for ever, its money gone and no entry written:
  the re-execution skips it.

* `RevokedStaysRevoked`, `ActiveIsListed`, `LoginsExpire`: nobody gets in on a revoked
  session, the index lists every active one for the lifetime of its login, and a refresh
  prolongs it by half a second at most, which is the rounding of `TTL`. What they excuse
  is real: `Touch` reads and writes back, so a session revoked in between is written
  again (`redis.go:234`).
* `CredentialsOpenOnce`: a login code gives one token and an invitation one member,
  unless two requests presented it at once or the statement that marks it failed.
* `AttemptsAreCapped`: a limit is passed by less than the requests served at a time.
* `OwnersAreNotRemoved`: what was read before a change of role is not acted on after it,
  except by requests that overlapped.

* `BreakerOpens`, `NotHammered`: an endpoint that keeps failing is switched off, and gets no
  more requests after the threshold than there are other workers.
* `EveryEndpointIsTried`, `SentOnce`: the failure of one endpoint neither keeps an event
  from another nor sends it again to one that took it. `SentOnce` says nothing against a
  second request to an endpoint that failed; that there is none is `failed_deliveries_retry`.
* `ModesApart`: no test event reaches a live endpoint, whatever a tenant changes while
  a worker goes through its list. A retry asked for in the other mode does cross.

* `RunsOncePerKey`: a handler succeeds once under a key and its answer is there, unless
  requests with the key overlapped, one was cut off or a day passed.
* `PromoIsBounded`: checkouts one after the other respect the limit; overlapping ones pass it
  by less than their number, failed increments by one each.
* `PlanIsPaidFor`: the entries of plan changes add up to what the changes cost.
* `FirstRefundIsBooked`: an entry of a refund stands for money that went, and the first
  refund of a payment has one. The key of the entry is the payment's, so that further
  refunds get none (section 5).
* `IssuedRefundsMoveOnce`: a refund answered as issued under a key moved its money once,
  however often it was repeated. One that moved money and was answered 500 is not stored
  and moves it again (section 5).
* `LinkUsesAreCharged`: a use for each request id handled, and a charge for exactly the
  orders these are about.

Five runs end in a violation. Each refutes a sentence of the repository:

| Run | Sentence | What the code does |
|---|---|---|
| `debt_is_collected_once` | `README.md:132`, no double billing by a retried job | a second retry job claims the next attempt, with the next reference |
| `dunning_moves_on` | `README.md:102`, retries at day 3, 7, 14, 21 | a declined retry queues no further one |
| `payments_reach_the_ledger` | `nomba_webhook.go:281`, `ARCHITECTURE.md:410` | outside `PENDING_PAYMENT` a payment is not recorded |
| `withdrawals_are_settled` | `ARCHITECTURE.md:1102`, never more than has settled | a pending payout does not lower the balance the next request is checked against |
| `failed_deliveries_retry` | `README.md:217`, `ARCHITECTURE.md:681`, four retries of a failed delivery | `Dispatch` returns nil, the job is done, and nothing reads `next_retry_at` |

### Bounds

* Two workers and two requests are what every known race needs: one that read
  early, one that writes in between, and a customer and a merchant beside them.
  A third adds states and no new pair of steps.
* `JobSlots` is three: the jobs of the start and one more. A full table only
  delays a request that would queue; the violations do not rest on it.
* `MaxAttempts` and `Intervals` are two in the passing runs: the schedule has a
  first, a middle and a last attempt (`LastAttempt + 1`). The two runs that need
  the third attempt's rail, or a schedule that is not over, use four.
* `MaxCrashes`: one death of the worker hits both goroutines anywhere. The queue
  is checked with two.
* A request of `Billing` is served once, and `MaxCrashes` is its only other cap.
* `MaxFaults` is two: enough for a failed write and a death, or for a retry that
  fails as well. Two kobo settled fit one payout of two or two of one.
* `MaxRequests` is three in `access` and `sales`, two of them at a time: a race needs two
  that overlap, and most hazards need one before them that set the scene (a
  session, a stored answer, a count at its limit). Every limit is one, so that the second
  request is the one to be refused.
* `Second` and `Ttl` are two ticks, `MaxClock` is three: a session may be young, half a
  second old, or over, a touch may write it back in each of these states, and where half
  a second is left the `TTL` is rounded up to a whole one, which lets the session live a
  tick too long. `MaxFaults` is one, which is what the properties without a fault need
  to be told from those with one.
* Four events and a threshold of two let an endpoint pass the threshold with both
  workers failing at the same time, and be offered another event afterwards;
  two modes and two endpoints are what could be mixed up. `MaxUpsets` bounds what the
  tenant does, what becomes of an endpoint and the faults together: it is one in `webhooks`,
  two in `sales`.
* Plans cost 3, 4 and 9 over a period of two days, so that the share of a day has to
  be rounded; three changes are enough to go to a plan, back, and there again.
* One order and two request ids let an order be told twice under one id, or once under each.
* Symmetry of goroutines, requests, sessions, keys and the like is used in
  `billing_activation`, `access`, `webhooks` and `sales`, which have no liveness property.

The system may stop (all requests served, all jobs settled), so deadlock is not
checked: each configuration says so.

### Fairness

Weak fairness only. Goroutines poll on tickers and run what they claimed, so
the steps of a worker are fair as one action per goroutine; a request that was
accepted is served to its end; the sweep runs every five minutes and the clock
passes every date. Nothing makes a request arrive, a payment happen, or a
process die, and no choice of Nomba's is fair: `ChargesReachTheLedger` holds
whichever answers it gives. `Access` and `Sales` are checked for safety alone: what they do
for a customer is done within one request. `WebhookDelivery` is fair in
`failed_deliveries_retry` only, where each worker that has something to do does it and
the sweep runs (`Fairness`): the missing retry is not a worker that stands still.

## 4. Proofs

For every number of goroutines, processes, rows, requests, jobs, endpoints, sessions
and keys:

| Theorem | Module | Assumption |
|---|---|---|
| `TypeCorrect` | `JobQueue_proofs` | none |
| `Exclusion` (`OneWorkerPerJob`) | `JobQueue_proofs` | `HandlersAreQuick` |
| `KeepsItsPromise` (`KeepsPromise`) | `JobQueue_proofs` | `HandlersAreQuick` |
| `TypeCorrect` | `Billing_proofs` | none |
| `LedgerBacked` (`LedgerIsBacked`) | `Billing_proofs` | none |
| `OneRecorder` (`OneRecorderPerCharge`) | `Billing_proofs` | none |
| `PaidInvoicesLedgered` (`PaidInvoicesAreLedgered`) | `Billing_proofs` | `WriteErrors = FALSE` |
| `ChargesRecorded` (`ChargesAreRecorded`) | `Billing_proofs` | no lost answers, failed writes or crashes |
| `JobsAsPromised` (steps of `ExclusiveJobs`) | `Billing_proofs` | none |
| `TypeCorrect` | `Payouts_proofs` | none |
| `CreationSerialised` (`OneRequestAtATime`) | `Payouts_proofs` | `RequestsAreQuick` |
| `DebitsBacked` (`DebitsAreBacked`) | `Payouts_proofs` | none |
| `OnePayment` (`PaidOutOnce`) | `Payouts_proofs` | at most one fault so far (in the property) |
| `BooksBalanced` (`BooksBalance`) | `Payouts_proofs` | no fault so far (in the property) |
| `DecidedOnce` | `Payouts_proofs` | none |
| `PatienceSettles` | `Payouts_proofs` | `RequestsAreQuick`, finitely many payouts, `Patient`; no fault so far |
| `JobsAsPromised` (`ExclusiveJobs!Spec`) | `Payouts_proofs` | none |
| `AccessPaid` (`AccessIsPaid`) | `Ladder_proofs` | `StartsUnpaid`: neither `Recover` nor the card update, and an unpaid start |
| `SuspensionEarned` (`SuspensionIsEarned`) | `Ladder_proofs` | `NothingLost`: no lost answers, no crashes; no start is `SUSPENDED` |
| `CancelledAfterAll` (`CancelledEnds`), `FlaggedRowsAreSpared` | `Ladder_proofs` | none |
| `TurnsCollectOnce` | `Ladder_proofs` | `NothingLost`, and `TakingTurns` all the time |
| `AwaitedPaymentsAreKept` | `Ladder_proofs` | `WriteErrors = FALSE` |
| `TypeCorrect` | `Access_proofs` | none |
| `RevocationHolds` (`RevokedStaysRevoked`), `IndexIsComplete` (`ActiveIsListed`), `SessionsEnd` (`LoginsExpire`) | `Access_proofs` | no overlap on the session (in the property) |
| `NoLateTokens` (`NoTokenAfterRevocation`), `OwnersStay` (`OwnersAreNotRemoved`) | `Access_proofs` | no overlap on the client, the member (in the property) |
| `LimitsHold` (`AttemptsAreCapped`) | `Access_proofs` | none |
| `LocksEnd` (`FailuresExpire`) | `Access_proofs` | no fault so far (in the property) |
| `OneUseEach` (`CredentialsOpenOnce`) | `Access_proofs` | no fault so far, no overlap (in the property) |
| `TypeCorrect` | `WebhookDelivery_proofs` | none |
| `ModesStayApart` (`ModesApart`) | `WebhookDelivery_proofs` | none |
| `EventsAreSentOnce` (`SentOnce`), `EndpointsAreTried` (`EveryEndpointIsTried`) | `WebhookDelivery_proofs` | no fault so far (in the property) |
| `BreakerDoesOpen` (`BreakerOpens`), `DeadEndpointsAreLeftAlone` (`NotHammered`) | `WebhookDelivery_proofs` | no fault so far, not switched on again (in the property) |
| `EventsAsPromised` (`ExclusiveJobs!Spec`) | `WebhookDelivery_proofs` | none |
| `TypeCorrect` | `Sales_proofs` | none |
| `PromoIsLimited` (`PromoIsBounded`) | `Sales_proofs` | none |
| `PlanChangesArePaidFor` (`PlanIsPaidFor`) | `Sales_proofs` | nothing disturbed (in the property) |
| `FirstRefundReachesTheLedger` (`FirstRefundIsBooked`), `IssuedRefundsAreMovedOnce` (`IssuedRefundsMoveOnce`), `KeysAreHonoured` (`RunsOncePerKey`), `LinkUsesAreKept` (`LinkUsesAreCharged`) | `Sales_proofs` | nothing disturbed (in the property); `Keys \cap Ids = {}` and `Nothing \notin Orders` |

**The queue.** `OneWorkerPerJob` is not inductive: it does not say why the sweep
cannot take a row from a goroutine that works on it. `LocksHeld` does: a row
in somebody's hands is `processing`, locked by that goroutine, and not stale.
With `AbsentRowsAreBlank` (a row not inserted has no limit yet) it gives the
refinement, one step of `JobQueue` at a time: claims become `Begin`, outcomes
`Settle`, lost outcomes and crashes `Vanish`, the sweep and the clock stutter.
The assumption is real: no code renews a lock, so a handler that runs for ten
minutes can be started a second time while it works.

**The books.** `Books` in `Billing_proofs` has four parts. `Backing`: an invoice,
an entry, and the reference a process carries, stand for money taken. `Keyed`:
who is between the invoice and its paid mark has created that invoice, and no
two such processes share a reference. `Marked`: a paid invoice, or one about to
be marked, has its entry. `Complete`: money Tori took is recorded or carried,
and every invoice has its entry, or a process about to write it. The last two
are implications, from the absence of failed writes and of all failures, so that
one invariant serves all four theorems. Steps that touch neither books nor
references go through one lemma, `OffTheBooksStep`.

**The payouts.** `Base` says who holds what: no payout is in two requests or two
goroutines, a job exists only of a row, the job of an executed payout is claimed.
`LockHeld`: while a request is in progress the key is there. `Standing`: what each step of
`ProcessPayout` may rely on, in particular that nothing before `MarkCompleted`
works on a completed row, which is why an entry, once written, stays backed.
`Single`: with at most one fault, money that moved for a row still `pending` is in the
hands of the goroutine whose `MarkProcessing` failed. `Balanced`: without faults
the books disagree only between a transfer and its entry.

`PatienceSettles` is about the sentence `withdrawals_are_settled` refutes
(`ARCHITECTURE.md:1102`). It puts one hypothesis on `Create`: that it approves nothing
while an earlier payout of the mode is in no ledger entry yet. `Prudent` then says that
what is unbooked, or approved and not inserted, is one payout per mode and covered by the
balance, and the sentence holds. So the payouts in flight are what the balance
forgets, and nothing else is.

**The jobs.** `Billing`, `Payouts` and `WebhookDelivery` each show their queue to be the one
`ExclusiveJobs` promises, step by step as `JobQueue` does. The invariants are `Owned` (who
is at work has a job that runs, and nobody else has it) and, in `WebhookDelivery`, `Untried`
(a job not inserted has no executions). An event its caller delivers inline is a step
of no queue. The jobs `Billing` starts with were submitted before, so its initial states are
those of `JobsAwait`: nothing executing, nothing settled, no executions, any limits.

**The ladder.** `PaidFor`: whoever is about to write `ACTIVE` or `PAUSED` over a row
acts on a payment, however old the row it read. `Ladder`: the attempt counter of the
row, and of every row a process carries, never runs ahead of the attempts put to
Nomba (`Reached`); that is why a stale counter may repeat an attempt and not skip one,
and why a crash between the claim and the charge, which spends an attempt nobody
made, has to be excluded.

Four more theorems say what is left of sentences the code does not keep. Two have a
run that refutes them (`debt_is_collected_once`, `payments_reach_the_ledger`), the others
are `README.md:61` and `ARCHITECTURE.md:870`:

* `CancelledAfterAll`: while a row is `CANCELLED` no process comes to a step that could
  revive it. Only those that decided before can, and when they are done the row
  stays `CANCELLED`. `Quiet` says so of each step.
* `TurnsCollectOnce`: if no two processes are between their read of an unpaid row and their
  write of the outcome at the same time (`TakingTurns`), the debt is collected once. The
  invariant `CollectedOnce`: who took the money is about to write `ACTIVE`, or the row is
  paid and nobody is on his way to a charge.
* `AwaitedPaymentsAreKept`: a payment that finds the row `PENDING_PAYMENT` is in the ledger,
  or a webhook brings it there. Two webhooks may bring the same payment, and the unique
  key of invoices stops one; `CheckoutKept` says that the other goes on or is done.
* `FlaggedRowsAreSpared`: the flag of a cancellation is never cleared, and while it is set
  no dunning retry comes to its charge that was not on its way there. The end of a
  trial and a resume do charge a flagged row.

**Access.** Each theorem has an invariant about what a request remembers. `Shape` says
that one request moves at a time, `Writers` which actions write which variable, and
`Alone` that an object that is not contested has one request at most. Then `Rewritten`,
the heart of the session theorems: on an uncontested session the `SET` of `Touch` writes
what is there, but for the rounding of half a second (`Rounding`). `RemovalInv`: a
`DELETE` about to run is of a row that is older than the member's, or is not an owner's.
`CapInv` counts the requests that have passed the comparison and not yet counted
together with those counted. `OpenInv`: what let somebody in is marked, or its one
request is about to mark it.

**Webhooks.** `Owned`: a job in a worker's hands is his alone. `Placed`: his list, and
the rows there are, name endpoints of the job's mode, since no statement changes a
mode. `OnceInv` (no fault): a pending job has no rows and neither have the endpoints still
on a list. `TriedInv` (no fault): whoever awaits an event is on the list, or has a row.
`BreakerInv` (no fault): while an endpoint is on, its failures stay below the threshold
plus those who failed and have not counted yet (`Judging`), since whoever counts last
sees them all; once it is off, those who still have it on a list or in hand (`Near`) make
one failure each, and with them it stays below the threshold plus the workers. That
needs `Apart`: an endpoint leaves a list before it is sent to.

**Sales.** `Alone` again, over `disturbed`. `PromoInv`: discounts given are uses,
increments about to come, or lost ones, and with those who passed the comparison they
stay below the bound. `KeyInv`: behind the middleware a handler runs only under a key
that has not succeeded yet. `LinkInv` adds up marks and uses, and says of each order
whether a request id that tells of it was handled (`LinkSums`) and of each notice what
its step may rely on (`Knows`). `RefundInv` is the property with the request that is
between Nomba and the ledger. `MoneyInv` says why an issued refund moved once: only the
first refund of the payment is ever issued, so money moved before it under its key is in
the hands of a request (`Paying`), and once it is issued the key is never run again
(`KeyInv`). `PlanInv` adds the request that has booked and not switched yet: what is
owed and its own net are the sum of the entries, and it computed that net from the plan
the row still has.

**Sums.** The properties about money and failures are about `MapThenSumSet` and
`SumFunctionOnSet` of the community modules. `SumTheorems` proves what these are after a step
(`SumWithout`, `SumWith`, `SumChanged`, `SumOfSupport`, ...) by induction over
finite sets, stated as the inclusion of `SUBSET S` in the set of those subsets for which the
fact holds.

Only model-checked: the liveness properties (`NoRowStaysLocked`, `DueJobsAreServed`,
`ChargesReachTheLedger`, `PayoutsAreDecided`), which need fairness and `ENABLED` and are out of
the prover's reach. Every invariant and every action property of a passing run is
proved for all values of the constants. Two invariants of `Access` are only proved:
`FailuresExpire` (no lock stays for ever unless its `EXPIRE` was lost) and
`NoTokenAfterRevocation` (no request that begins after the revocation of a client gets a
token); both excuse the interesting fault or overlap, and a run of them would say
little. The violations are runs. No run and no
theorem uses a `RECURSIVE` operator.

## 5. Not modelled

`GraceRetry` and `SuspendSubscription` are registered, but nothing enqueues
their jobs. `SendPayLink` creates no link: it queues a webhook. `SimulateWebhook`
runs in test mode only. `TrialEndingSoon` sends an e-mail. API keys are one row per
mode, replaced by one upsert. Whole parts without a module:

* Reconciliation compares a day of Nomba's transactions with the ledger and stores a
  report. It repairs nothing and no other part reads it; what it compares are
  formatted strings, which the models abstract.
* The audit trail is a row inserted after a status was written; its errors are
  logged and nothing decides on what it holds.
* `NextPeriod` is calendar arithmetic; the models have no dates.
* Customers, plans and e-mail templates are one statement per request on one row.
* Analytics reads; e-mail is I/O; the frontend is a user interface.

### Known from the code and not covered by a run

Found while modelling, each true of the models and stated by no property (a
property would have to allow for it):

* Queue: the stale sweep needs a goroutine named exactly `worker-1`, which no worker
  with another `WORKER_INSTANCE_ID` has (`worker.go:67`); a job whose handler
  returned an error is marked failed, though `handlers.go:224` and `:319` say it is
  retried.
* Billing: the sentence "nothing transitions out of `CANCELLED`" (`README.md:61`) does
  not hold. A handler that read the row before a cancellation writes the status it
  decided on over it, since no `UPDATE` asks for the old one
  (`abandoned_checkout.go:87`, and `activateAndRecord`); `CancelledEnds` bounds it to
  those under way. A ledger `INSERT` that fails leaves a paid invoice without its entry;
  a charge whose worker died before the invoice is not recorded; `PortalCancel`
  (`portal.go:527`) queues no job that would carry the cancellation out, and
  `ExpireTrial` (`handlers.go:211`) charges without a look at the flag, though
  `README.md:65` and `ARCHITECTURE.md:870` promise both (`FlaggedRowsAreSpared` proves
  the rest of the promise).
* Webhooks: the breaker counts the failures of a day, not consecutive ones; a death
  leaves delivery rows pending; `RetryDelivery` sends to every endpoint of the mode of its request
  (`webhooks.go:157`), not to the delivery's; two creations at once pass the limit of
  five endpoints.
* Idempotency: "without the operation running twice" (`idempotency.go:41`) holds for
  requests one after the other that are answered 2xx. Two at once both find no row and
  both run (`:65`), as does a retry after a death between the work and the store; an
  expired row keeps a new answer from being stored until the cleanup; a key sent with
  another path is answered with the first response.
* Sessions and accounts: a lost `EXPIRE` leaves a lock that never ends
  (`redis.go:84`); removing a member revokes none of his sessions; an owner's role can
  be changed and the member then removed (`team.go:178`, `:213`); `RequestOTP`
  does not clear the counter of guesses that `portal_auth.go:128` says it does; a
  registration whose `SetPassword` fails leaves an address that can neither log in nor
  register (`auth.go:165`); `UpdateMe` changes the address and keeps it verified; who
  refreshes whenever `TTL` is about to be rounded up keeps a session alive beyond
  `sessionTTL`, by half a second each time, and in the end beyond the index (`redis.go:226`).
* Sales: open orders of a payment link pass its limit; a second change to a plan the
  subscription was changed to before answers 500 for ever (the key of its entry is
  taken); a second partial refund moves money, meets the key of the first and writes no
  row, though `README.md:21` says that every refund does; its 500 is not stored under
  its key (`idempotency.go:78`), so that each retry moves the money again
  (`refund.go:149`, `:161`); `refund.go:148` says of the entry "always do this even if
  Nomba sandbox rejects", and the branches before it (`:130` to `:146`) return when
  Nomba fails or rejects, as the model does; a checkout that took the last use of a
  promo code and is repeated under its body key is answered `promo_code_depleted`, since
  the code is validated before the key is looked for (`checkout.go:224`, `:253`), though
  `README.md:189` promises the original subscription; two deliveries of one notice at
  once both pass the request-id store and count two uses (`nomba_webhook.go:148`;
  `README.md:185` says a duplicate is never processed twice), two request ids that tell
  of one order give two uses and one charge, and a notice without a request id is not
  deduplicated at all (`:146`).
* Reconciliation: `service.go:125` names a reference that differs from the keys
  under which charges of checkouts and payment links are booked.

## 6. Plan

1. Done: every module above, its run and its proofs; the queues of `Billing`, `Payouts` and
   `WebhookDelivery` as refinements of `ExclusiveJobs`; what is left of the refuted sentences.
2. Left: that `Payouts` with `Patient` implements an abstract account with
   reservations; the ladder of one subscription as an abstract machine of attempts.
3. Left: reconciliation against the keys of `Billing` and `Sales`; billing periods
   as pure functions against a reference definition; the audit trail as a history of the
   row.
