# TowFleet: a verification project for the towing backend

The repository is a monorepo. Its own logic lives in `src/apps/backend` (NestJS,
Postgres through Drizzle, Redis, BullMQ). The Next.js console
(`apps/towfleet-web`) and the two Expo apps (`apps/towgo`, `apps/towpartner`)
are clients of that API; `packages/` holds schemas, themes and UI.

Seven subsystems are modelled, the ones in which several processes act on the
same state and nobody holds a lock across the whole operation:

| Module | Subject | Against what it promises |
|---|---|---|
| `Dispatch` | how a confirmed booking finds a driver | `BookingLifecycle` (refinement) |
| `Trips` | one booking from the acceptance to its end: the driver's, operator's and customer's calls, the start code, the bill, the cancellation fee | `BookingLifecycle` (refinement) |
| `Payments` | how the fare of a completed booking is captured and settled | invariants on rows, orders, ledger and booking |
| `Refunds` | how a paid booking is refunded, wholly or in parts | invariants |
| `Payouts` | how an owner's wallet money reaches a bank | `Escrow` (refinement) |
| `Sessions` | one login: rotation of refresh tokens, reuse detection | invariants, proved |
| `Idempotency` | one idempotency key and the requests that name it | invariants, proved |

`BookingStates` holds the status table both booking modules use. They meet at the
row: `Dispatch` looks at a booking until it has a driver and treats the trip as
one action; `Trips` starts at the acceptance and treats the search as one action;
`Payments` starts where a trip is completed; `Refunds` where it is paid. Each
takes the others' outcomes as inputs. `MC*` modules give TLC its constants,
`*_proofs` modules hold the TLAPS proofs.

All paths below are relative to `src/apps/backend/src` unless they say otherwise.

## 1. Inventory

| Component | State | Operations | What is hard | What makes it correct |
|---|---|---|---|---|
| booking state machine (`modules/bookings/booking-state-machine.service.ts`) | `bookings.status` | `transition`, under `FOR UPDATE` | its callers act on rows they read earlier | every status change is an edge of the table |
| **dispatch engine** (`modules/dispatch`) | booking row, `dispatch_attempts`, Redis offer and search locks, BullMQ jobs | `runWave`, `offer`, `accept`, `reject`, `expire`, `revokeAll`, `redispatch`, `adminOfferToDriver`, `giveUp` | workers, drivers, customers and operators interleave at every await; job ids collide; tasks die | one live offer per driver, one live job per driver, nobody is asked twice, a search ends |
| queue adapter (`common/queue`) | BullMQ jobs | `enqueue` | refuses ids it still knows | a refused job is never the only one |
| **bookings** (`modules/bookings`) | booking rows, OTPs, fees | create, cancel, retry-search, issue and renew the code | the cancel fee is computed from a row read before the payment and the transaction; digest and readable code are two stores | a cancellation costs what was collected; the code on the screen opens the job; guesses are capped |
| **job execution** (`modules/job-execution`) | booking rows, photos | en route, arrived, start, complete, unable | the driver is authorised before the transition | every call, however old its reading, moves the job along the lifecycle, and the bill is the trip |
| admin bookings, disputes (`modules/admin-bookings`) | booking and dispute rows | reassign, cancel, override, resolve | several services called in sequence, each with its own transaction | a refused step leaves the booking as it was |
| driver presence (`modules/driver-presence`) | Redis presence, sequence numbers, locks | online, heartbeat, lock, release | unconditional DEL, TTLs, CAS on sequence numbers | a late heartbeat does not win |
| suspensions (`modules/admin-fleets`, `admin-drivers`, `admin-directory`) | account status, offers, bookings | suspend, apply a pending suspension | cancels bookings chosen by an earlier read | a suspended driver has no offer |
| ledger (`db/ledger`) | wallets, ledger rows, keys | `post`, `creditBookingSettlement` | idempotency keys, projection after the commit | a key moves money once |
| **payments** (`modules/money/payments*`) | payment rows, wallet, ledger, booking | intent, cash, wallet, capture, webhook, sweep, recheck, settle | a settlement is nine commits; six channels report in any order | the legs come from one captured row and are covered by what was collected |
| **refunds** (`modules/money/refunds*`) | refund rows, vendor, ledger, coupon, booking | full, partial, resume, clawback, webhook | ten commits, any of them the last before a death; unlocked reads | nothing is returned or taken back beyond what was paid or credited, and a request that reports success moved what it says |
| **payouts** (`modules/money/payout*`, `modules/admin-finance`, `modules/webhooks`) | payout rows, ledger holds, the provider's record | request, approve, reject, submit, paid, failed, reconcile | row, hold, provider call and reversal are four steps; answers and webhooks get lost | the amount is held once and ends once |
| earnings projection (`modules/money/earnings-projector*`) | projected cells | project, rebuild, reconcile | refused job ids, projections out of order | a cell equals its ledger rows |
| **sessions** (`modules/auth`) | refresh tokens, grace entries | rotate, explain a failed claim, logout, revoke a subject | a retry and a replay look alike; resolve and mint are two steps | one live token; a family is burnt only by a replay; logout and suspension are final |
| **idempotency interceptor** (`common/idempotency`) | key records in Redis | reserve, replay, complete, release, expire | two requests with one key; SET NX and GET are two steps; markers expire under slow handlers | a key has one effect, and nobody touches another's record |
| coupons, referrals | redemption rows | redeem, credit | limits under concurrency | limits hold |

The remaining modules (zones, banners, content, settings, analytics, dashboards,
invoices, notifications, realtime, tracking, support, ratings, chat, compliance)
are CRUD, read models or best-effort delivery. `PROJECT.json` lists every
component with its sources, its status and, where it is left out, the reason; its
"hazards" list says at which line each difficulty bites and which property is
about it.

### How the parts interact

* A request handler commits a booking row and then, outside the transaction,
  enqueues a `dispatch.search` job. A worker runs one wave, offers the job to a
  few drivers (Redis lock, attempt row, `dispatch.offer-timeout` job) and enqueues
  its own successor. Drivers answer over HTTP; a cancellation enqueues
  `dispatch.revoke`; a driver who cannot finish, or an operator, returns the
  booking to the search.
* From its acceptance on, a booking is moved by calls that read the row without a
  lock, decide, and then transition it in a transaction that looks at the status
  only. The start code lives as a digest in the row and as readable text in Redis.
* A completed trip is paid through the gateway, the wallet or in cash. Every
  channel that can report it (the client's capture call, the webhook, the sweep,
  the operator's recheck, the wallet, the driver's confirmation) ends in
  `settleCapturedPayment`. Finance and disputes take it back through
  `RefundsService`. All of them post legs through `LedgerService` under keys that
  are posted once.
* A payout request inserts a row, posts a debit in the ledger and calls the
  provider. Its webhooks, a five-minute reconcile sweep and Finance (above a
  threshold) act on the same row; whoever fails it owes the ledger a reversal.
* Clients refresh their tokens from several tabs with one cookie; admin actions
  suspend an account and then revoke its families. Unsafe requests name an
  idempotency key, whose slot in Redis the interceptor holds while a handler runs.

## 2. Dispatch

### State

| Variable | Code |
|---|---|
| `booking` | `bookings.status`, `driver_id`, `search_wave`, `dispatch_deadline_at` (as none / ahead / past) |
| `attempts` | `dispatch_attempts`, the set of outcomes per booking and driver |
| `offerLock`, `searchLock` | the Redis keys `driver:{id}:offer_lock` and `booking:{id}:search_lock` |
| `jobs`, `timers`, `revokes` | the BullMQ jobs `dispatch.search`, `dispatch.offer-timeout`, `dispatch.revoke`, with their ids and remaining attempts |
| `run` | what `runWave` has read and still has to do: its job, wave, deadline and candidates |
| `owed`, `assigning`, `releasing` | what a request has committed and still has to do: hand over a search, `afterAssign`, delete an offer lock |
| `due`, `paused` | whether `scheduled_at` has passed, whether the kill switch holds the zone |
| `reopened`, `crashed`, `lost` | two counters for the bounds; a ghost that records that a search job was refused, skipped or never enqueued |

The value of `offerLock` (which search owns it) is a ghost as well: Redis stores
`1`, and `releaseOfferLock` deletes whatever it finds. The ghost is what lets a
property say that a DEL hit the wrong lock.

### Actions

Every handler is cut where it awaits something another process can change.
`runWave` is `StartWave` / `WaveSkipped` (lock and read), then one of
`WaveStops`, `WaveWaitsForSchedule`, `WaveHeld`, `WaveGivesUp`, `WaveSelects`,
followed by one `WaveOffers` per candidate and `WaveReschedules`. Its failures are
`WaveOfferUntimed`, `WaveCannotReschedule`, `WorkerDies` and `JobRedelivered`.
An offer ends by `Accept` + `AfterAssign`, `Reject`, `OfferTimesOut`,
`FleetSuspended` or `RunRevoke`, each followed by `ReleaseOfferLock`. From outside
come `Progress`, `Cancel`, `Unable`, `Reassign`, `ReassignRefused`, `RetrySearch`,
`OverrideToSearching`, and after their commit `HandOver`, `Redispatch`,
`AdminOfferToDriver`.

Abstracted: geography and scoring (a wave picks any small set of drivers the
filters leave, the empty one included), eligibility other than the live-job check
(an ineligible driver is one who is not picked or whose accept rolls back), delays
(a job runs at any time after it is enqueued), notifications and the wave log.

`BookingLifecycle` is the abstract specification: statuses follow the table; a
booking is handed to a free driver out of a search only, stays with that driver
until it ends or is searched for again, and a tow under way is taken from nobody.
`ImplementsLifecycle` maps the holder to `driver_id` while the status is an
active one.

### Runs

| Run | Instance | What it shows |
|---|---|---|
| `dispatch_search` | one booking, two drivers, two waves, one hand-back, one killed task per booking | `HolderAcceptedAndStayed`, `NeverAskedTwice`; a killed task never leaves a search without a job (`SearchPendingUnlessLost`) |
| `dispatch_contention` | two bookings, one driver, one wave | `OneLiveOfferPerDriver`, `ImplementsLifecycle` (in it: one live job per driver) |
| `dispatch_faults` | one booking, one driver; retries, reassignments, overrides, failed enqueues and late workers together | a search loses its next job only in one of the recorded ways; the lifecycle holds in spite of all of them |
| `dispatch_live` | a scheduled booking, a pausable zone, customer retries, under `FairSpec` | `SearchesEnd`, `OffersEnd` |

Bounds. `MaxWave` bounds the waves before the deadline passes: the second wave
is the first with a stale deadline, an excluded driver and an id taken by an
earlier wave, and no code path counts waves further than that. `MaxReopen` bounds
how often a booking returns to the search: once is enough to meet the jobs, locks
and attempts of the earlier search. Two searches for one driver need one wave
each to compete; two drivers for one booking show winner and loser. `MaxReopen`
is 0 and `MaxWave` 1 in `dispatch_contention`, where the two searches already give
the interleavings the lock is for. One crash per booking. The runs with one
booking and two drivers use symmetry on the drivers (no liveness is checked there).

One thing about the search lock is left out: `SearchLockExpires` frees the lock of
a dead holder only. In the code its TTL of 15 seconds (`dispatch.service.ts:47`)
also runs under a live one, and `releaseSearchLock` is an unconditional DEL
(`presence-store.ts:264-271`): a wave that outlasts the TTL would run beside the
next one and delete its lock. The comment above the constant says that a wave
takes a few hundred milliseconds; nothing in the code enforces it, and the
properties of this section are about waves that keep to it.

What is deliberately *not* checked where it does not hold, because the code does
not promise it there: `HolderAcceptedAndStayed` and `NeverAskedTwice` with
`AdminReassigns` (a reassignment may name a driver whom an old successor has just
offered the job, and records the previous driver from an earlier read);
`OffersEnd` with `QueueCanFail` or `WorkersCrash` (the offer's row is written
before its timeout job, and nothing else expires it).

### Fairness

`FairSpec` assumes that the workers run (weak fairness of a wave's steps, of
offer timeouts and of lock releases), that a request carries on after its commit,
and that time passes (the deadline, the scheduled time, the TTLs). These are
BullMQ's worker loop, Node's event loop and clocks. Nothing is assumed of drivers,
customers or operators: every offer may be ignored, and a zone may be paused and
resumed at will (a zone paused for ever is not excluded: `paused` re-checks meet
the id BullMQ still knows, which is one of the recorded losses).

## 3. Payouts

### State

| Variable | Code |
|---|---|
| `row` | `payouts`: `status`, `approval_state`, whether `route_ref` is known, `amount` |
| `posted`, `balance` | the payout's idempotency keys in `wallet_transactions`, `wallets.balance` |
| `holding` | requests between `createWithHold`'s insert and its ledger post |
| `task` | the rest of `request`/`submit` or of Finance's decision: approved, calling, accepted, rejecting |
| `reversing` | `markFailed` between its update and its ledger post |
| `verdict` | what `reconcile` has learnt about a payout and not applied yet |
| `provider` | the provider's own record (external) |
| `seen` | the payouts whose final webhook is recorded or lost |

A payout is named by its owner and client key, which is what `payoutRowKey` does.

### Actions

`Request` / `TakeHold` / `HoldRefused`; `submit` is `ProviderAccepts`,
`ProviderRefuses`, `MarkProcessing`, `AnswerLost`; `Approve`, `Reject`,
`SubmitApproved`, `ApprovalFails`, `FailRejected` are Finance; `BankDecides`,
`Webhook`, `WebhookLost` the provider; `SweepReads`, `SweepApplies` the reconcile
job; `PostReversal` ends `markFailed` wherever it began; `Death` kills a task in
one of the phases in `Deaths`. `Stale` reads the two-minute `updated_at` floor of
`staleNonTerminal` as "no handler is at work any more", which the call policy's
timeouts justify.

Four constants choose the faults. `Deaths` is the set of phases in which a task
may be killed, `AnswersGetLost` lets the provider accept without our hearing of it,
`FinanceLooks` says whether Finance decides on requested payouts only (the code
checks `approval_state` alone, and the console's `PayoutDecisionDrawer.tsx:48`
does the same), `FinanceRaces` whether it may decide before the request returns.

`Escrow` is the abstract specification: an amount leaves the wallet once, when it
is covered, and ends at the bank or back in the wallet. `ImplementsEscrow` reads
the place of the money off the two ledger keys and the provider's record.

### Runs

| Run | Instance | What it shows |
|---|---|---|
| `payouts` | faults the code is built for: refusals, lost webhooks, failed approvals, tasks killed while approved, calling, rejecting or sweeping | `VerdictsAgree` (rows and bank agree), `ImplementsEscrow`, `FundsSettle` (held money ends somewhere) |
| `payout_faults` | every death, lost answers, a Finance that decides on anything at any time | what still holds: no negative balance (`TypeOK`), `OneEnd`, `PayoutsEnd` (the sweep frees every open slot) |

Bounds. Owners share nothing but code, so one owner is enough; two keys are one
payout after another in the same wallet (the unique index allows one open at a
time); amounts 1, 2, 3 against a balance of 2 and a threshold of 1 give an
automatic payout, one for Finance, and one that is not covered.

`FundsSettle` is not checked with a task killed while reversing: the row is failed,
the reversal is not posted, and no sweep looks at failed rows
(`payouts.service.ts:203`), so the money stays held.

### Fairness

Handlers that are not killed go on (weak fairness); the bank decides in the end;
the sweep is a cron job, and `SweepApplies` has strong fairness because a tick may
be killed, but not every tick for ever. Owners, Finance and webhooks owe nothing:
Finance may leave a payout undecided (the properties exclude
`pending_approval`), and every webhook may be lost.

## 4. Trips

### State

| Variable | Code |
|---|---|
| `booking` | the row: status, driver, `arrived_at`, `started_at`, waiting charge, total, the cancellation's fee, compensation and author |
| `call` | what each caller's request (two drivers, the operator, the customer) has read and still has to do |
| `otp`, `cached`, `renewals` | the digest, expiry and attempts in the row; the readable copy and the renewal counter in Redis |
| `screen`, `shown` | the customer's requests for the code, and the code last shown |
| `feeRow`, `orders`, `posted` | the amount of the open payment row of purpose `cancellation_fee`; the vendor's orders for it, by amount; the compensation leg |
| `gone`, `now`, `compared`, `faults` | drivers who left the job, the clock, a ghost that counts compared guesses, a bound |

### Actions

`DriverCalls` is `requireDriverJob` and the read; `Arrived`, `Start` (after
`verify`), `finalizeTrip`, `unable` and `reassign` are what follows it, in a
transaction that checks the status only. `CustomerCancels` / `OperatorCalls`
price the cancellation from the row they read; `PayCancellation` (`capture` of the
fee), `CommitCancel` and `Compensate` are the three commits of `cancel`. `OpenFee`,
`PayFee`, `SweepFailsFee` and `FeeConfirmed` are the fee's row and its orders, which
are two things: the order of a row the sweep failed stays payable, a second one may
be opened beside it, and `capture` marks the open row, whatever its amount, or
creates one; `issue`, `renew`,
`mint` and `cache` the code (a death between the two leaves what the `redis` fault
leaves); `CacheLoses` a Redis eviction; `Die` kills a call at a
point in `Deaths`.

### Run

`trips`: two drivers, two requests in flight at a time, one screen, one paid order
for the fee, calls that die before `start` or before the compensation. `unable` and
`reassign` take the job from its driver at any time, also from under his other call
or the call of a driver before him, as the code lets them.

* `GuessesAreCapped`: no code is compared with more guesses than the maximum, by
  all drivers together (the count is committed although `start` fails).
* `ShownCodeOpens`: the code on the screen opens the job while its window runs.
* `CancellationIsPaidFor`: a fee that a cancellation cost was collected, to the
  amount, and the compensation is its share and paid once.
* `BillIsTheTrip`, an action property: a completion by the driver who has the job
  or by an operator bills the locked total and the waiting there was, whatever was
  read before and whatever came between. A completion by a driver who lost the job
  meanwhile is in the run and outside the property: it fails there (section 9).
* `ImplementsLifecycle`: every call, also one that outlived its driver's job.

Bounds: two instants separate the fee's tiers and a code's expiry; one wrong guess
is the cap, two codes are one renewal; two drivers because a job changes hands; the
clock runs only while the booking is live, since nothing compares times after that.
2.8 million distinct states, depth 31.

## 5. Payments

### State

| Variable | Code |
|---|---|
| `booking`, `total`, `paidOn` | status, total, and the total `commission_amount` and `driver_payout` were computed from |
| `rows` | the booking's `payments` rows, oldest first |
| `orders`, `events` | the gateway's orders and its webhooks (external) |
| `balance`, `ledger` | the customer's wallet; the three legs under the booking's keys |
| `intent` | `createIntent` between its reads, its insert and its order |
| `lock`, `task` | the capture lock; what each settlement has read and still has to do |
| `stuck`, `closing`, `faults` | the row the sweep is about to fail; a coupon change between its commit and `closeOpenIntents`; a bound |

### Actions

`createIntent` is `CreateIntentRead`, `-Insert` (or `-Replays`), `-Order`, `-Ends`;
`chooseCash`, `ChangeCoupon` followed by `closeOpenIntents`, and `SpendElsewhere` are
the customer (a coupon change commits the new total in a transaction and closes the
open intent after it, or dies in between); `PayOrder`,
`AttemptFails` and `WebhookLost` the gateway. A settlement begins in `capture`,
`applyPayment` (webhook), `reconcile`, `recheckBooking`, `payWithWallet` or
`confirmCashCollected` and then takes one action per statement:
`settlementInputs`, `ensureCapturedRow`, `markCaptured` / `InsertRow` /
`CaptureMadeRow`, `PostWalletDebit`, `PostCashDebit`, `creditBookingSettlement`,
`TransitionToPaid`. `Die` may end it after any of them, `LockExpires` lets a second
in; disputes open, charge and cancel beside it.

### Run

`payments`: two settlements, two rows, a fare of 2 with a coupon of 1, a wallet of
at most 1, one fault out of: death after any statement or in an intent, an expired
or unavailable lock, a switch to online during a cash confirmation (a `createIntent`
in flight beside the driver's confirmation included), a coupon that was applied and
whose request died before it closed the old intent.

* `LegsComeFromTheCapturedRow`: legs of two rows never mix, and a paid booking has
  every leg its captured row asks for.
* `CreditIsCollected`: the shares are computed on no more than was collected.
* `NoSettlementDrift`: booking, ledger and customer's total agree on what was settled.

`CaptureMadeRow` writes a row that is not captured yet and leaves one that is:
the upsert on the provider's reference has that condition
(`payments.repo.ts:209`).

Off in the run, because the properties fail there (section 9): a coupon that changes
while a payment opens or settles (`coupon`; a wallet payment between the commit of a
coupon change and the closing of the intent counts as one), and the removal of a
coupon after an order was made (`remove`).

Bounds: two rows are the old intent and the one that replaces it. Two settlements are the pair that races; a third meets the same rows and the same
unique indexes. Symmetry on the workers. 1.7 million distinct states, depth 33.

`FairSpec` (statements run, the sweep returns to each row it selects, the lock
expires) is used for `CaptureConverges`, which does not hold; see section 9.

## 6. Refunds

State: `booking`, `payment`, `coupon`; per key the operator's intent (`intents`),
its `refunds` row (`rows`), what the vendor returned (`vendor`), the wallet credit
(`credited`) and the debits per owner (`debits`); the requests in flight (`req`).

`Submit` is `refundBooking` / `refundPartial` up to the insert, or `resumeRefund`
when the key's row exists. The chain is one action per commit: `InsertRow`,
`callGateway`, `RecordVendor` / `RecordFailure`, `creditWallet`, `MarkProcessed`,
`ReadLegs` and `PostLegs` (`reverseLedger` or the clawback), `MoveBooking`,
`ReleaseCoupon`, `applyRefund`; a resumed refund releases the coupon before it
moves the booking, as the code does. `WebhookConfirms`, `DisputeMoves` and `Die`
run beside it. A request is submitted whenever an operator likes, also while another
refund is at work, and a dispute is opened or upheld at any time: the code has no
check against either.

Three things the code does not prevent are recorded in ghosts, which no action
reads, and the properties name them where they need them:

| Ghost | Happens when | What it costs |
|---|---|---|
| `slips`: `overlap` | a refund is submitted while another one of the booking is unfinished | both read the same remainder (`refunds.service.ts:698`) |
| `slips`: `redebit` | a resume posts a leg that the first pass had rounded to 0, and therefore not posted | the legs were computed on another remainder (`refunds.service.ts:837-865`) |
| `misfiled` | a row is closed as failed although the vendor or the wallet returned money under it, or another request of the key is at work | `refundedSplit` forgets what the row returned |

`refunds`: a full refund by Finance or a shared partial one of 5, and beside it a
full one for a dispute, or a partial one of 2, at the provider's cost to the card or
at the platform's to the wallet; two requests, so each may be submitted twice
and the two may overlap; one death, refusal or lost answer.

* `ReturnedWithinPaid`: over all refunds, retries and resumes at most what was paid
  is returned, over the rows that are not `misfiled`, until an `overlap`.
* `ReversedWithinCredit`: no owner gives back more than the trip credited, until a
  slip of either kind.
* `RefundedMeansReturned`: a booking that a full refund moved has been refunded and
  its credits taken back: the status is the last of the three.
* `SuccessMeansMoved`: a request that is about to report success, fresh or resumed,
  has moved all its row promises, whatever died, was refused or runs beside it.

There is no liveness property: the code has no sweep of refunds, a refund that died
is taken up when an operator submits it again, and nobody has to. What a resubmission
achieves when it succeeds is `SuccessMeansMoved`.

Bounds: a fleet trip that credits the driver 7 and the fleet 1 (a clawback rounds
the fleet's leg to 0, so that `redebit` happens), 4 at the gateway and 6 in the
wallet; the partial refund of 5 takes from both pools, the one of 2 part of either.
`MaxFaults` is 1. 3.6 million distinct states, depth 58. On this same instance each
condition of the four properties is needed: with any one of them dropped TLC finds a
violation (section 9).

`RefundsAssumption` takes the credits of the driver side to be at most two (the
driver's and the fleet's: `creditBookingSettlement` posts no third) and together
no more than what was paid, since they are shares of the settled total.

## 7. Sessions

State: the family's rows (`row`, `minted`), the pairs parked for late tabs
(`parked`), the cookie (`jar`), each tab's refresh in flight (`request`), the
subject's authority (`active`, `suspending`), the clock, and ghosts (`late`,
`loggedOut`, `faulted`).

`Present` sends the cookie; `Claim` is the conditional UPDATE of `rotate`, then
`Resolve`, `Mint`, `Park`; a lost claim is `GraceFound`, `GraceMissed` or
`ExplainFailedClaim`, which burns the family on reuse. `Logout`, `Suspend` +
`RevokeSubject`, `Reactivate`, `Tick`, `GraceExpires`, `Death`.

`sessions`: two tabs, three tokens, every death, a failing grace, lost answers.

* `OneLiveToken`, `SuspensionIsFinal` (at most the one pair whose rotation had
  already resolved), `LogoutIsFinal`.
* `TogetherIsNotReuse`: tabs that refresh together are never taken for a replay;
  the family burns only after a fault or a token presented after the window.

Three tokens are a rotation, its successor and one more after a lost answer; the
third tab would wait like the second.

Two guards are the model's and not the code's. `LogoutRaces` is FALSE in the run:
`logout` (`token.service.ts:208-220`) does not look for a rotation, and one beside a
rotation revokes the family before the successor's insert, so that the successor
lives (section 9). `LogoutIsFinal` is therefore about a logout of a login at rest,
with lost answers before it. `Present` sends the cookie's current value only, and
not beside a request that carries an older one: the endpoint takes any token at any
time, and a tab that kept an old one is a replay, which `ExplainFailedClaim` meets in
the model only as a token presented after the grace.

## 8. Idempotency

State: the `slot` of one key, the place (`pc`), payload, passes and answer of each
request, the committed handlers (`effects`), and two ghosts (`overrun`, `lapsed`).
Slots do not meet, so one is enough.

`SetNX`, `GetNothing` and `GetRecord` are the passes of `acquire`; `Succeed` /
`Fail` the handler; `Complete` and `Release` the two scripts; `Expire` a TTL; `Die`
a killed process.

`idempotency`: three requests, two payloads, two passes. `OneAtATime`,
`EffectOnce`, `ReplayIsOwn` and `NotClobbered` (an action property);
`KeyComesBack` under `FairSpec`: Redis expires what has a TTL, and a request that
is not killed goes on. Two requests race; the third is the retry that meets the
slot after one of them expired, released or completed.

## 9. Findings and disagreements

`fee_settles_fare` is the run in which TLC violates what the repository says.
`cancellation-fee.service.ts:13` calls the fee "DELIBERATELY NOT A SETTLEMENT". But
`settleCapturedPayment` (`payments.service.ts:513`) does not look at the purpose of
the payment it is told of, the webhook does not either, and the sweep selects
captured fees of bookings that were not cancelled. TLC's trace needs no refusal: the
customer opens the fee's order and pays it, and the trip is completed; the fee's
confirmation then settles the whole fare (`Accept`, three overrides by the operator,
`OpenFee`, `PayFee`, `FeeConfirmed`). The same follows when the fee was priced in an
earlier tier and refused by `cancel`.

The other disagreements met while modelling have a named definition in the models
and no run of their own. Each is reproduced by setting the constants shown in the
module's cfg and checking the property alone.

| Property | Constants | The repository says | The code does |
|---|---|---|---|
| `Dispatch!SearchNeverStranded` | `CustomerRetries = TRUE`, `Drivers = {}` | `dispatch.service.ts:173` "RE-ENTRANT AND SELF-SCHEDULING" | `retrySearch` resets the wave counter (`bookings.service.ts:387`), so its successor takes the id `dispatch-{id}-wave-1` that BullMQ keeps for an hour |
| `Dispatch!SearchNeverStranded` | `Drivers = {d1}` | `dispatch.service.ts:181` losing the lock "means another worker is running the very wave this call wanted to run" | the lock's holder may have read an older status and will schedule nothing |
| `Dispatch!HandedBackSearchEnds` (`FairSpec`) | `QueueCanFail = TRUE`, `Drivers = {d1}` | `job-execution.service.ts:430` "the periodic sweep" still reaches it | no sweep looks at searching bookings |
| `Payouts!NeverPaidAndReturned` | `AnswersGetLost = TRUE`, one key | `payouts.service.ts:343` "A timeout is not a failure" | `isTimeout` does not know `ExternalCallTimeoutError` (`external-call.policy.ts:59`): the hold is returned and the bank pays too |
| `Payouts!ReturnedWasHeld` | `Deaths = {"holding"}` | `payouts.service.ts:229` "Insert the row and take the hold in one transaction" | two steps; a death between them leaves a row whose reversal credits money never debited |
| `Payouts!SentWasHeld` | `FinanceLooks = FALSE`, `Deaths = {}` | `0016_money_capture_and_ratings.sql:358` "debited at REQUEST time regardless" | a refused hold leaves the row in Finance's queue, and approving it sends it |
| `Sessions!NoFamilyOutlivesCap` | one tab, `AbsoluteLimit = 3`, `MaxTokens = 5`, `MaxTime = 4`, no faults | `realm.policy.ts:20` "No family outlives this from its first mint, however active." | the window is measured on a row every rotation replaces (`token.service.ts:349`) |
| `Sessions!LogoutIsFinal` | `LogoutRaces = TRUE` | no descendant can be refreshed after a logout | the mint of a rotation under way follows the revocation |
| `Payments!CaptureConverges` (`FairSpec`) | `Faults = {"wallet"}`, one row, one worker, `MaxWallet = 0` | `payments.service.ts:453-456` "IT CONVERGES INSTEAD OF ALARMING" | the sweep selects pending rows only (`payments.repo.ts:359-375`) and `recheckBooking` returns for captured ones, so a death after the capture is never taken up |
| `Payments!CashIsOwed` | `Faults = {"switch"}` | the driver of a cash trip is debited the full total | the captured row may be an online one the customer opened meanwhile |
| `Payments!CreditIsCollected` | `Faults = {"remove"}` | as the property | removing a coupon after an order was made raises the total the credit is computed from |
| `Payments!CreditIsCollected` | `Faults = {"intent"}`, `Fare = 3`, `Discount = 2`, `MaxWallet = 2` | as the property | `createIntent` dies after its insert, the coupon is removed, and the retry with the same client key orders for the new total less the new wallet part, while the replayed row keeps the larger one |
| `Payments!NoSettlementDrift` | `Faults = {"coupon"}` | as the property | a coupon that changes while a payment settles |
| `Payments!LegsComeFromTheCapturedRow` | `redis` and `switch` together | as the property | with the lock gone, two settlements of two channels mix |
| `Payments!CreditIsCollected` | `Faults = {"coupon"}`, `MaxFaults = 0` | `payment-coupon.service.ts:31` an intent that outlives a fare change is "a customer paying the old number" | the intent is closed after the commit (`payment-coupon.service.ts:80`, `:109`): a wallet intent opened for the discounted total is confirmed after the coupon is removed and before it is closed, crediting 2 of which 1 was collected |
| `Refunds!ReversedWithinCredit` without its condition on `redebit` | `Refunds.cfg` | `refunds.service.ts:840` "a resume is a ledger replay rather than a second debit" | a clawback leg of 0 is not posted, so submitting the first refund again computes its legs on what the second one left, and debits the owner a second time |
| `Refunds!ReversedWithinCredit` without its condition on `overlap` | `Refunds.cfg` | `refundPartial`: "THE CAP" on what the driver side gives back | two overlapping refunds read the same remainder (`refunds.service.ts:698`) |
| `Refunds!ReturnedWithinPaid` over all rows, or after an `overlap` | `Refunds.cfg` | over all refunds at most what was paid | a lost answer or a refused duplicate closes a row under which money moved, and frees its amount for the next refund; two overlapping refunds both take the remainder |
| `Refunds!RefundedMeansReturned` after an `overlap`, or with a `misfiled` row | `Refunds.cfg` | `refunds.service.ts:255-260` moves the booking after the money | the full refund beside or after such a row returns less than is left, or more |
| `Refunds!SuccessMeansMoved`, its debit part without `slips = {}` | `Refunds.cfg` | `refunds.service.ts:863-867` "either none of this refund's legs landed" or all of them | an overlap, or a resumed leg of 0, debits another sum than the row's share |
| `Refunds`: a row closed as failed moved nothing (`misfiled` stays empty) | `Refunds.cfg` | `resumeRefund` leaves a failed row alone, as one that moved no money | two submissions of one key: the vendor refuses the second call after it accepted the first; or its answer is lost |
| a payment is `refunded` only with its booking | `Refunds.cfg` | `refunds.service.ts:258` "The booking MUST leave `paid`" | a full refund submitted while the booking is disputed intends to leave its status alone; the dispute upheld beside it (`admin-disputes.service.ts:442-450`) returns the booking to `paid`, and its payment becomes refunded |
| `Refunds!SuccessMeansMoved` without its condition on a stray row | `StrayRow = TRUE` | `refunds.service.ts:482` a "replay converges the system" | it takes the latest payment row, which need not be the captured one, and calls no vendor |
| `Trips!BillIsTheTrip` without `booking.driver = a` | `Trips.cfg` | `job-execution.service.ts:534` "This job is no longer yours" | the transition checks the status, not the driver who was authorised: a completion read before a hand-back bills the next driver's trip |
| `Trips`: `unable` takes the job from its own driver only | `Trips.cfg` | the same | an `unable` authorised before a reassignment takes the job off the driver who has it now |
| `Trips!ShownCodeOpens` | `Faults = {"redis"}`, `MaxFaults = 1`, or two screens | the readable copy is the code | the copy is written after the digest, and a lost or overtaken write leaves the older one |
| `Trips!CancellationIsPaidFor` | `Deaths = {"commit"}` | the fee is collected to the amount | a fee captured before a death is accepted for a later cancellation of another price (`cancellation-fee.service.ts:46-48`) |
| `Trips!CancellationIsPaidFor` | `Faults = {"silent"}`, `MaxFaults = 1` | the same | "A null amount means the gateway did not say", and is taken for the fee (`cancellation-fee.service.ts:74`); of the repository's adapters only the development one says null |
| `Trips`: a captured fee row has the amount its order collected | `Trips.cfg` | a captured row records what was paid | `capture` marks the open row, which may be of another tier than the order that was paid (`cancellation-fee.service.ts:82-86`) |

Also visible in the models: the re-check of a paused zone always uses one id
(`dispatch.service.ts:232-235`); an operator's override back to `searching`
enqueues nothing; an operator's "exclusive" offer is not alone while an old
successor is queued (`dispatch.service.ts:388-391`); a task killed between an
offer's row and its timeout job leaves an offer nothing expires
(`offer.service.ts:128-131`); the payout sweep's "Nothing was ever accepted"
(`payout-reconcile.service.ts:59`) fails for a task killed between the acceptance
and `markProcessing` (`Deaths = {"accepted"}`); a cancel priced en route commits
its fee after `unable` returned the booking to the search
(`cancellation-policy.ts:115`); the wallet debit of a settlement has no
precondition, so a wallet spent elsewhere meanwhile goes below zero.

The passing runs check a property only on instances that leave its switch off;
where a switch is on (`dispatch_faults`, `payout_faults`, `switch`, `redis` and
`close` in `payments`) they check what still holds. `refunds` and `trips` leave the
failing steps in, and the properties say which of them they exclude.

## 10. What is proved

Seven modules hold proofs, for every value of the constants that satisfies the
module's named assumption. Each theorem is `Spec => []P` (or `Spec => P` for an
action property or a refinement), shown from an inductive invariant with one lemma
per action or group of actions. Where a theorem has a hypothesis it names faults
that do not happen; section 9 shows what happens when they do, so none of them is
there for the proof's convenience. The properties of `Refunds` and `BillIsTheTrip`
carry their conditions themselves, as ghosts or as the steps they are about, and
their theorems have no hypothesis.

| Theorem | Property | Holds provided |
|---|---|---|
| `Dispatch_proofs!TypeCorrect` | `TypeOK` | - |
| `DispatchImplementsLifecycle` | `ImplementsLifecycle` | - |
| `SearchStrandedOnlyByLoss` | `SearchPendingUnlessLost` | - |
| `OneOfferAtATime`, `OfferLockIsOwned` | `OneLiveOfferPerDriver`, `OfferLockInv` | `Timely` |
| `NobodyIsAskedTwice`, `HolderStayed` | `NeverAskedTwice`, `HolderAcceptedAndStayed` | `NoOperator` |
| `PayoutsTypeCorrect`, `PayoutHasOneEnd` | `TypeOK`, `OneEnd` | - |
| `RecordsAgree`, `RowsAgreeWithBank`, `PayoutsImplementEscrow` | `PayoutInv`, `VerdictsAgree`, `ImplementsEscrow` | `Benign` |
| `TripsTypeCorrect`, `CodeIsGuarded`, `TripsImplementLifecycle` | `TypeOK`, `GuessesAreCapped`, `ImplementsLifecycle` | - |
| `CodeOnScreenOpens` | `ShownCodeOpens` | `OneScreen` |
| `TripIsBilledRight` | `BillIsTheTrip` | - |
| `CancellationsArePaidFor` | `CancellationIsPaidFor` | `CommitSurvives`, `AmountIsSaid` |
| `PaymentsTypeCorrect` | `TypeOK` | - |
| `LegsMatchTheRow` | `LegsComeFromTheCapturedRow` | `Serial` or `Steady` |
| `TotalsAgree` | `NoSettlementDrift` | `Serial` or `Steady`, no `coupon` |
| `CreditsAreCollected` | `CreditIsCollected` | `Careful` |
| `RefundsTypeCorrect`, `NeverReturnsMoreThanPaid`, `TheBookingMovesLast`, `OwnersOweNoMore`, `SuccessfulRefundsMoved` | `TypeOK`, `ReturnedWithinPaid`, `RefundedMeansReturned`, `ReversedWithinCredit`, `SuccessMeansMoved` | - |
| `SessionsTypeCorrect`, `OneLiveTokenPerLogin`, `SuspensionEndsSession` | `TypeOK`, `OneLiveToken`, `SuspensionIsFinal` | - |
| `RequestsAreAnswered`, `RefreshingTogetherIsSafe` | `SessionInv`, `TogetherIsNotReuse` | - |
| `LogoutEndsSession` | `LogoutIsFinal` | logout does not race a rotation |
| `IdempotencyTypeCorrect`, `SlotIsHeld`, `OneRequestAtATime`, `AtMostOneEffect`, `ReplaysAreOwn`, `MarkersAreNotClobbered` | `TypeOK`, `SlotInv`, `OneAtATime`, `EffectOnce`, `ReplayIsOwn`, `NotClobbered` | - |

### Dispatch

`TypeOK` is not inductive: that a thrown job has an attempt left, and that the wave
stays within its bound, needs `WaveInv`, which ties the running job's state to what
the wave read.

`Timely`: offer timeouts are enqueued and run within the lock's five seconds of
grace (no `LateWorkers`, `QueueCanFail`, `WorkersCrash`) and no operator offers
beside the waves. `OfferLockInv`: a live offer owns its driver's lock and has a
timer (`Held`); an offer that is over but whose DEL is still to come owns the lock
too, once (`Closing`); a driver a wave has yet to ask has never been asked
(`Fresh`). The second part is what makes the unconditional DEL harmless, and the
assumption is what it costs: with a late worker the DEL can hit another search's
lock.

The refinement needs none of that: the conditional UPDATE reads the row it writes,
so every step maps to a step of `BookingLifecycle` from the type invariant alone.
`AskedInv` (for the two properties of the history of asking) says that a driver
a wave still has to ask was never asked, that a live offer is all that is recorded
of its driver, and that the driver on the row accepted and stayed; every step is a
`Quiet` one, a selection, an acceptance or a hand-back. `SearchInv` adds to
`SearchPendingUnlessLost` that a lock left behind by a killed task guards a job
that BullMQ will deliver again; without it a wave that is dropped at that lock
would strand the search.

### Payouts

`Benign`: no task is killed between insert and hold or between acceptance and
`markProcessing`, no answer is lost, and Finance decides on requested payouts
whose request has returned. `PayoutInv` is `RowInv` (what a status says about
ledger and bank), `TaskInv` (what a task in flight may rely on) and `KnowledgeInv`
(an open payout without a reference on which nobody works was never accepted,
which is what the sweep concludes). The refinement is one step lemma per group of
actions.

### Trips

`TypeInv` adds to `TypeOK` who is on the row in which status and that every total,
also one that a call has read, is the locked one plus the waiting beside it; with
a monotonicity lemma about `waitingCharge` the bill stays within its bound.
`GuessInv` counts comparisons against the attempts on the row, which only the
statement that reads the code increases. `CodeInv` (`OneScreen`: one request for
the code at a time, and no write to Redis fails): between two requests the copy and the
code shown are the row's. `BillInv` needs no condition on hand-backs: a driver who
left the job (`gone`) is not offered it again, so a call that outlived its job can
never again be the call of the driver on the row (`CallerInv`), and what a completion
by the driver on the row or by an operator read is what the row says but for an
arrival or start that came later (`CompletionInv`). `FeeInv` (`CommitSurvives`: no
death between the capture of a fee and the cancellation's commit;
`AmountIsSaid`: the vendor reports the amount): an order is
taken for the cancellation about to commit, and of its amount, and a compensation is
posted only for the one on the row. `TripsImplementLifecycle` is the refinement of
the same `BookingLifecycle` from whatever row each call had read.

### Payments

`BaseInv` is types, one captured row, unique references, and what a settlement in
each of its steps holds. `MadeInv` follows the one row a settlement makes up itself
(a cash confirmation whose row was closed under it). `LegsInv`: what is on the ledger
comes from a captured row in the order wallet, cash, credit. `Serial` says the
capture lock is kept (no `redis` fault), `Steady` that no channel is switched and
no dispute cancels under a payment; one of the two suffices, and with neither it
fails. `TotalInv` carries the total from the read at the start of a settlement to
the credit. `MoneyInv`, for `CreditIsCollected`: every order with its row's wallet
part covers the bill, of the open rows only the latest can be anything but cash, a row
left by a dead `createIntent` asks the wallet for no less than its retry.
`Careful` is `Steady` without `coupon` and `remove`, and without `intent` unless the
wallet cannot cover more than the smallest bill (section 9 has the case it excludes).

### Refunds

`SoundInv` is types and, until an overlap, the order of the requests and the budget:
the rows that count and the request that has read but not inserted stay within each
pool. Sums over the keys are sums over a finite set; the lemmas of the first part say
how they change with one key. `MoneyInv` holds whatever overlaps: vendor and wallet
move what the row says or nothing, the vendor first, nothing under a row that is not
live unless it is `misfiled`, and a request past a step has that step behind it. With
the budget it gives `ReturnedWithinPaid`. `FullInv` says that a full refund leaves
nothing for others to return and nothing to take back, so that the booking moves
last. `DebtInv`, until a slip, bounds the shares still to be debited by what the
owners hold. A lemma about `Clawback` carries it: for two owners the rounded part of
the first and the remainder of the second are each within what that owner holds, and
together they are the share. `FullLegs` and `CouponGone` are the parts of
`SuccessMeansMoved` that concern full refunds; with `MoneyInv` and `DebtInv` they make
the theorem.

### Sessions and idempotency

`SessionInv` says why a second tab is safe: until something fails, at most one
request works on a rotation, the cookie is the token in use or its parked
successor, and every rotated token in use has that successor parked or coming.
`SlotInv`: until a marker expires under a handler, whoever is at work holds the slot,
and until a response lapses whatever was committed still occupies it. `NotClobbered`
needs no invariant: the scripts compare the holder in the step that writes.

### Only model-checked

The liveness properties (`SearchesEnd`, `OffersEnd`, `FundsSettle`, `PayoutsEnd`,
`KeyComesBack`): fairness and ENABLED are out of the prover's
reach. Every invariant, action property and refinement a passing run checks is
also proved, under the conditions of the table. The runs reach beyond
`CreditsAreCollected` on their instance: `payments` has `switch` on.
Conversely the type invariants of Dispatch, Sessions and Idempotency are not listed
in a run: the theorems establish them for every instance.

## 11. What is not modelled, and the plan

Not modelled for good: user interfaces, schemas, CRUD on configuration and
documents, notifications, realtime and tracking streams, PDF and analytics read
models, fare arithmetic, the breaker's counters. They either keep no state another
component decides on, or one row behind one guarded update. They are most of the
repository's lines: the backend's own concurrent logic is a small part of it.

Next, in this order:

1. Dispatch: a live wave that outlasts its search lock. Payments: the weakest
   condition on coupons under which `CreditsAreCollected` holds.
2. **Presence and suspension**: the sequence CAS of heartbeats, the sweep, the
   suspension shelved until the current job ends.
3. **Earnings projection**: the projection of ledger rows after the commit,
   refused job ids and the nightly reconcile.
4. Coupon limits and referral rewards under concurrency.
