# Baytna in TLA+

Baytna is a marketplace for home-cooked food. Its back end, `src/backend/app`, is a
FastAPI application over PostgreSQL: two uvicorn processes with thread pools serve
requests, and a worker process (`scripts/worker.py`) runs the outbox and the background jobs
in a loop.
This directory holds TLA+ models of it: the order with its stock hold and its payment, the
chef's answer and the driver's mission, the queues that carry out what a transaction leaves
to do, special orders, what customers keep (carts, addresses, tickets, reviews, points,
uploads), what providers hold (transactions, settlements, messages), and the machinery that
keeps the launch of a zone in bounds. TLC checks the models on small instances and TLAPS
proves the safety properties of the runs for every value of the constants.

Paths below are relative to `src/backend/app/modules` unless they begin with `core/` or
`docs/`.

## 1. The system

### How it executes

- One SQLAlchemy session per request, `autoflush=False, expire_on_commit=False`
  (`core/database.py:35-40`). `get_db` rolls back on an exception (`:43-51`). The worker
  opens a session of its own per step.
- PostgreSQL runs at READ COMMITTED. No table has a version column, and only launch
  governance, launch command, notification delivery and the two queues use
  `SELECT ... FOR UPDATE`.
- Two ways of writing live side by side, and every race below comes from mixing them. A
  *guarded UPDATE* (`UPDATE ... WHERE status = expected`) is evaluated on the committed row
  when it gets the row lock. An *ORM attribute* is written back by primary key as the
  absolute value computed from what was read, whatever the row holds by then, and only if
  it differs from what was read.
- Some handlers commit in the middle: `release_expired_holds` commits by itself
  (`orders/service.py:86`) before its caller goes on; `start`, `advance` and `resume` of a
  rollout commit an assessment before they commit the zone; the maintenance of the launch
  commits after each of its parts.
- The worker schedules its jobs every minute (`reliability/jobs.py:62-98`) and takes them,
  the outbox and the notifications from their tables in one loop.

### Components

| Component | State | Operations | What is hard | What makes it correct | Modules |
|---|---|---|---|---|---|
| Orders, carts, holds (`orders/`) | carts, orders, items, inventory reservations | fill a cart, checkout, cancel, expire holds | two customers and the last portion; sweep against payment; write-back of a quantity; a menu that changes under a cart | portions conserved; a pending order is held; a closed one holds nothing; one kitchen per order; a customer's contract | `OrderPayment`, `OrderContract`, `HoldRace`, `KitchenCart` |
| Payments (`payments/`) | payments, webhook events, refunds | intent, webhook, success, failure, refund, expiry | events late, twice, out of order, for several payments of one order; declined refunds | one success per confirmed order; success is final; refunds add up | `OrderPayment`, `HoldRace`, `SpecialOrders` |
| Pricing (`pricing/`), Loyalty (`loyalty/`) | coupons with counters, redemptions; accounts, ledger | reserve, apply, release; award | counters and balances written back | counters equal the rows; points conserved | `OrderPayment`, `HoldRace`, `LoyaltyAccount` |
| Menus (`menus/`) | kitchens, dishes, daily items | open, close, replace, edit | the chef's edit against holds and carts | `sold_out` iff nothing is left | `OrderPayment`, `KitchenCart` |
| Fulfillment (`fulfillment/`) | a row per confirmed order with a stage | sync, accept, reject, prepare, package, ready | a refund at the provider inside a transaction that may roll back; a stage written without a guard | stage follows the order; a rejected order is refunded | `OrderPayment`, `Delivery` |
| Delivery (`delivery/`) | tasks, driver profiles | availability, claim, arrive, pick up, start, deliver, report, resume | two drivers and one task, one driver and two tasks | one mission per driver; task, order, profile agree | `Delivery` |
| Outbox, jobs, worker (`reliability/`) | outbox rows, job rows | enqueue, claim, execute, mark, recover, retry | crash between effect and mark; stale locks; administrators' retries | at least once; one worker per item; every item closes | `WorkQueue`, `AtLeastOnce` |
| Special orders (`special_orders/`) | requests, schedules, overrides | request, accept, counter, reject, cancel, checkout, expire | an offer that expires while it is paid; the capacity of a day | a request is scheduled iff its order is paid; capacity kept; offers end | `SpecialOrders` |
| Traffic admission (`launch_governance/`) | zone policies, admission events | admit at checkout and change of address, update caps | caps counted under the lock of one zone | caps of zone, hour and chef kept | `TrafficAdmission` |
| Zone rollout (`operational_economics/`, `financial_automation/`, `launch_governance/`) | zone status, stage, assessments, snapshots | assess, approve, start, advance, pause twice over, resume, monitor | two commits per request; three ways to pause | status and stage agree; a red zone is paused | `ZoneRollout` |
| Payment reconciliation (`payment_reconciliation/`) | the provider's transactions, issues | ingest, refund, run, resolve | callbacks lost, repeated, reordered; answers lost | no more counted as returned than was; lasting discrepancies reopen | `Reconciliation` |
| Notification delivery (`notification_delivery/`) | deliveries, receipts | plan, claim, send, mark, ingest, replay, retry | receipts before the send commits; a slow worker | what arrived is not sent again; early receipts are applied | `NotificationDelivery` |
| Settlements, imports, vendor accounting (`financial_automation/`, `vendor_accounting/`) | settlement and cost files, cost entries, budgets | create, reconcile, close, reopen; validate, assign, approve, reject, apply; allocate, commit, release, spend | no unique key on costs; ledger and file in either order | a fee per line, or none; maker and checker differ; every purchase counted | `SettlementBooks`, `ZoneBudget` |
| Launch command (`launch_command/`) | sessions, runbook, overrides, drills, closes, evidence packs | start to complete or abort; override, revert, expire; drill; prepare, close, reopen a day | overlapping overrides and live drills restore each other's values; a close while figures change | the policy is given back, but for admission crossed by a live drill; a closed day stands | `LaunchCommand` |
| Operations control (`operations_control/`) | incidents, notifications | scan, acknowledge, assign, escalate, resolve | a scan and an administrator on one row | severity kept; unattended incidents escalate | `Incidents` |
| Post-launch (`post_launch/`) | daily closes, expansion reviews | prepare, monitor, review | windows and dates; a day closed before it is over | unclosed days block, but for one that today's close stands for; closed ones do not | `PostLaunchReview` |
| Pilot stability (`pilot_stability/`) | programs, weekly snapshots, evidence, reports | create, activate, complete, refresh, report | whole weeks, late facts | scaling rests on whole good weeks | `PilotProgram` |
| Support (`support/`), reviews (`reviews/`) | tickets; reviews and ratings | answer, assign, move; create, edit, moderate | aggregate read back in a session that does not flush | a ticket waits only for a silent customer; ratings follow reviews | `SupportDesk`, `ReviewRatings` |
| Addresses (`addresses/`), media (`media/`) | a user's addresses; assets and objects | edit, choose default; upload, complete, delete, attach | the object store takes no part in transactions | one default; a ready asset has its object | `AddressBook`, `MediaAssets` |
| Authentication, users, favourites, notification texts, administration, health, analytics, clients | - | - | - | - | not modelled, section 8 |

How they interact. Checkout calls menus (quantities), pricing and loyalty (benefits) and
traffic admission in its own transaction. A payment's success moves the order, its
reservations and its benefits, and for a special order the request. The chef's acceptance
and readiness create the driver's task; delivery pays loyalty. Every part leaves rows in
the outbox, which the worker carries out. The provider's callbacks reach payments through
reconciliation, and the same ledger is what settlements are compared with. Launch command
changes the policies that admission reads; the monitor pauses the zones that command
launches; incidents, reviews and reports read what the others wrote.

The hazards, each at its line, are listed in `PROJECT.json`; section 7 says which of them
turned out to be real.

## 2. Modules

| Module | What it is |
|---|---|
| `OrderPayment`, `OrderContract` | one action per transaction, from checkout to the chef's answer; what a customer is promised of an order, which they implement |
| `HoldRace` | the same rows with each transaction taken apart, statement by statement |
| `Delivery` | two steps per request (read, commit), from the chef's answer to the door |
| `WorkQueue`, `AtLeastOnce` | claim, effect and mark as separate steps; the contract they implement |
| `SpecialOrders`, `KitchenCart`, `LoyaltyAccount`, `ReviewRatings`, `SupportDesk`, `AddressBook`, `MediaAssets` | what customers keep; each handler is what it read and, later, what it commits |
| `Reconciliation`, `NotificationDelivery` | Baytna beside a provider with a memory of its own: callbacks late, twice, out of order |
| `SettlementBooks`, `ZoneBudget` | the finance books |
| `TrafficAdmission`, `ZoneRollout`, `LaunchCommand`, `Incidents`, `PostLaunchReview`, `PilotProgram` | the launch of a zone and what watches it |
| `MCOrderPayment`, `MCHoldRace`, `MCDelivery`, `MCReconciliation`, `MCPostLaunch` | single instances for TLC |
| `MCOrderLoads`, `MCHoldLoads`, `MCDeliveryLoads`, `MCWorkerJobs`, `MCCustomerRows`, `MCProviders`, `MCOperations` | several instances in one behaviour: a variable `load`, chosen first and never changed, selects the part or the handlers; what a load is not about keeps its initial value; the sets a composition gives its parts are constants of its own, set in the .cfg |
| `OrderPaymentProofs`, `HoldRaceProofs`, `HoldLoadsProofs`, `DeliveryProofs`, `WorkQueueProofs`, `CustomerRowsProofs`, `ProvidersProofs`, `OperationsProofs` | theorems; the last three and `HoldLoadsProofs` are about the compositions |

A definition marked `\* seeded fault` is a plausible bug of the definition that follows it.
Nothing uses it: it is there to be put in that definition's place and to show that the
property of a run would notice.

### State and actions against the code

Variables carry the names of the columns and actions those of the methods, in the spelling of
the language. What recurs:

- *A handler that only reads and refuses* is the choice not to take its action.
- *A handler that reads, then writes what it computed* is two steps where something may come
  between: the first puts into `txn`, `request`, `task`, `open`, `pending` or `movement` what
  will be committed, the second commits it. A constant (`Clients`, `Requests`, `Interleaved`,
  `Overlaps`) says how many may be open at once. A row lock is a conjunct that nobody else
  holds it.
- *Guarded UPDATEs* look at the committed row in the step that commits.
- *Time* is a bounded clock or a set of facts that may become true (`overdue`, `stale`).
- *History variables* (`edited`, `delivered`, `bought`, `wanted`, `crossed`, `stageBefore`, `last`,
  `answered`, `cutOff`, `happened`) are named so where they are declared; no action reads them.

**OrderPayment.** `hold` is `inventory_hold_expires_at`, `resv` the status of an order's
reservation rows, which every handler moves together. Actions: `CreatePendingOrder`,
`CancelPendingOrder`, `ReleaseExpiredHolds`, `UpdateQuantity`, `CreatePaymentIntent`,
`ProcessWebhook` (success, failure, cancellation, and an event whose amount is not the
payment's), `ExpirePendingPayments`, `CreateRefund`, `EnsureFulfillment`, `Accept`,
`Reject`. `ProviderSends` is the environment: an event is sent at most once but handled any
number of times, in any order, only for a payment that was asked for. The action of a handler
that calls `release_expired_holds` does not include that call: it commits by itself, and
`ReleaseExpiredHolds` may run just before, or not (another request may have run it a moment
ago). `OrderContract` has the same clock and nothing of items on sale, payments that did not
succeed, events, coupons and points; `Contract` in `OrderPayment` is the mapping.

**HoldRace.** `item`, `coupon` and the orders' columns are committed rows; `req[r]` is what
request `r` has read, what it will write, the row locks it holds and the statements it has
still to run. `Program` lists the statements of each handler that touch rows others write.
A write waits until no other request has the row's lock (`Free`), a guarded UPDATE decides
on the committed row, and `Commit` publishes. `RollBack` is at every point: a 409, an error,
a deadlock PostgreSQL breaks, a process that dies. One item, one portion per order, one
payment per order; a unique key makes a second request for the same thing wait (`Alone`).

**Delivery.** `BeginChef`, `BeginClaim`, `BeginDriver`, `BeginReport`, `BeginResume` and
`BeginAvailability` read and check; a second step named like the method commits.
`TransitionOrder` and `TransitionTask` are the guarded UPDATEs of `delivery/repository.py`;
stage, profile status and `issue_from_status` are ORM attributes. `moneyBack` is the
provider's memory and survives a rollback: `RefundAtProvider` is the call that `reject` makes
before its guarded UPDATE.

**WorkQueue.** Both tables with the names of the jobs; an outbox row says pending,
processing, published where a job says queued, running, succeeded. `lockedBy` and one bit
`stale` are the lock; `Claim`, `Execute`/`ExecuteFails`, `MarkSucceeded`/`MarkFailed` are the
three transactions of a worker, with `Crash` between any two. `Rereads` is the difference
between the tables: `mark_failed` of a job reads the row again after a rollback, that of an
outbox row writes what the worker has in memory.

**SpecialOrders.** `txn[r]` is a write set per table, the ORM session of request `r`; the job
runs in a session of its own. Dates matter as what capacity counts by: final, proposed or
requested. **KitchenCart.** `KitchenOf` is the chef and date of an item; the customer's
requests read and commit apart, the chefs' come between. **LoyaltyAccount.** Checkout's
guarded UPDATE is one step, the other handlers two. **ReviewRatings.** The aggregate query runs
before the flush: its WHERE clause sees the table, the row objects it returns are those of the
session. **SupportDesk**, **AddressBook**: one ticket, one customer. **MediaAssets.** `Head`
and `Erase` are the calls to the store, and happen at once.

**Reconciliation.** `provider` is the truth and changes by itself; `IngestUnmatched`,
`IngestPayment`, `IngestRefund`, `IngestVoid` and `RefuseLateSuccess` are what a callback does,
by what it finds; a callback may tell the present state or the one before, any number of times.
`CreateRefund` takes an answer that may be final, merely submitted, a refusal, or lost.
**NotificationDelivery.** A worker's claim, call and mark are three steps, with crashes between
them; receipts are unique by message and status and stay `unmatched` until a row knows
the message. **SettlementBooks.** `Observe` and `SetIssue` are the environment, the rest the
handlers; `ReadSettlement`/`CommitSettlement` and `ReadImport`/`CommitImport` are apart.
**ZoneBudget** has the amounts of one budget row.

**TrafficAdmission.** `EnterAdmission` is what is read before the lock, `Admit` and `Reject`
take it and count, `CommitOrder` and `RollBack` let it go. The daily caps are constants, the
hourly ones may be edited. **ZoneRollout.** `BeginTask` is the first commit of start, advance
and resume, `FinishTask` the second; `RefreshMonitoring` (an administrator) and
`RefreshAllLiveZones` (the job) commit a snapshot, `EvaluateSlo` pauses. The gates of a stage
(economics, open payment issues, a command session) are inputs that change. **LaunchCommand.**
`policy` is what the zone's row says. A column is held (`Held`) while an override of it is active
or, for admission, a live drill runs; `EditPolicy` is allowed held or not, `wanted` is what
administrators last set a column to while nothing held it, and `crossed` says that since then a
live drill ended while something else still stopped admission. An override may begin during a
drill, as in the code; a live drill may not begin under an admission override. The figures of
a day are a number, 0 for a day with a blocker; a checksum is the figures it was taken of.
**Incidents.** `condition` is what a detector would find, `ReadScan`/`CommitScan` the job.
**PostLaunchReview.** `worker` is the part of `maintain` that comes next. **PilotProgram.** A
day is good, bad or empty; weeks and gates are computed as the code does.

## 3. Runs

| Run | Loads | Question |
|---|---|---|
| `order_rows` | *stock*: two carts for two items of 1 and 2 portions, which the chef edits; *money*: one order, two payments, three events each, refunds, the chef's answer; *benefits*: two carts of one customer for a coupon's last use and two points | do order, hold, stock, payment, benefit and refund rows agree in every state, and does every step keep the contract with the customer? |
| `hold_safe` | *serial*: all handlers, one at a time, cut off anywhere, 3 orders; *portions*: 3 overlapping requests of checkout, intent, success on 2 portions; *coupons*: 3 of checkout and intent on 2 uses | where do the guarded UPDATEs suffice? |
| `delivery_safe` | *serial*: all handlers, one at a time; *races*: two overlapping requests of all but `resume`; 2 orders, 2 drivers | do order, task, stage, driver agree, and do orders take one step at a time? |
| `worker_jobs` | *queue*: 2 items, 2 workers, 2 attempts, a crash, a retry; *holds*, *offers*, *sends*, *money*, *settlements*, *rollout*, *alerts*: a job each, with the part it must settle | at least once, exclusive, truthful; does every item close, and does every job get its part settled? |
| `customer_rows` | *special* (one handler at a time: 2 requests, 2 dates, 1 order, 2 payments), *carts* (two overlapping requests against kitchens that change), *book*, *desk*, *reviews*, *points*, *media* (one request at a time; uploads and crashes at any moment) | do the rows that customers keep agree with each other? |
| `providers` | *refunds*: a capture, two refunds, two keys; *voids*: a void, a strange transaction in another currency; *settlements*: a file of two lines, a cost file, dual control; *budget*; *sends*: two workers, a crash, a retry | is no more counted, booked or sent than what happened? |
| `operations` | *traffic*: two overlapping requests, 3 orders, caps of 2 a day and 1 or 2 an hour; *rollout*; *controls*: two overrides, a drill on paper or live, edits of the policy; *closing*: the close of a day, drills on paper, evidence, completion; *alerts*; *after*; *pilot* | do the launch's bounds hold, and does whoever changes them put them back? |
| `rejection_refund`, `hold_oversell`, `two_missions`, `captured_money_known`, `closed_days_block` | small instances | statements of the documents that the code does not keep, section 7 |

**Bounds, and why they are enough.** Two carts that want the last portion, the coupon's last
use and the same points are all it takes to lose or double something; a third order in
`hold_safe` lets two winners and a loser overlap, and in `operations` a third order wants a
place the first two have filled. Two payments of one order give success after failure,
failure after success and two successes. Clocks stop after 1 or 2 units, and what expires lives one:
it can be live, expired, and taken again. Two requests suffice for a lost update, which has one
writer and one overwriter. `MaxAttempts = 2` has a first, a last and (after recovery) an excess
attempt; `MaxCrashes` and `MaxRetries` bound the environment, never the system. Three
messages let a delivery be sent, lost by a crash, sent again and retried. Two dates
of one weekday, one of them with an override, make a rule of capacity and its exception. Two overrides are the
least that can be ended in the order they began in. A stabilization of two days, seen through a
window of two, has a first day that leaves the window. A week of two days and a program of at
most two weeks has whole and partial ones.

Some loads leave out what their question does not need, and each restriction has a name:
`Plain`, `NoBenefits`, `OnePortion`, `Unedited` (`MCOrderLoads`) keep refunds, cancellations
and the queue of the chef to the money load, benefits and quantities to theirs; `NotExpired`
keeps the expiry of payments, which moves no portion, out of the stock load; `Narrow` (`MCWorkerJobs`)
keeps the pausing policy on and snapshots green or red, because the property is about zones
that stay red; `Calm` (`MCOperations`) leaves the review the closes and a missing
snapshot to block on, no incident, red health or caution; `Unused` (`MCProviders`)
separates refunds from voids. The launch command has two loads: *controls* lets overrides, live
drills and edits meet and leaves the books of the day alone, *closing* leaves the policy alone.
The theorems `PolicyIsGivenBack` and `UnclosedDaysBlock` are about the whole components,
without these restrictions.

**Symmetry.** In `order_rows` the two payment keys of one order are interchangeable: `OnePayment`
asks that one of them is unused, not which. In `delivery_safe` orders and drivers are interchangeable; requests `r1`, `r2`
are so in the load that has both, and the other load has `r1` alone, so no two of its states
differ by a swap. In `operations` the two admission requests are interchangeable, and
so are the two overrides; each pair is mentioned by one part alone. No run with symmetry has a
liveness property.

**Deadlock** is not checked: bounded clocks, closed orders, and requests that have nothing
more to ask for are real ends. That nothing hangs before its end is what the liveness
properties say.

**Fairness** is that of the worker alone. No handler of a user, an administrator or a provider
is fair.
`QueueFairness`: a worker that has claimed goes on to its mark unless it crashes, some worker
claims an item that is due, locks grow old, and recovery runs; each is one line of
`WorkerService.run_once`, which is called in a loop. `Execute` and `ExecuteFails` are fair
together: an effect may fail every time. The other jobs are scheduled every minute
(`reliability/jobs.py:62-98`), and time passes: `SweepFairness` (the sweep of holds, the
expiry of offers, the commit of each open handler), `ReceiptFairness` (the replay of a receipt;
the job takes the oldest hundred, and the loads have fewer), `MoneyFairness` (reconciliation of
payments and of settlements), `WatchFairness` (the monitor and the scan). Two are strong:
`ReadSettlement` of the job, because an administrator's requests for the same file may disable it
now and then but not at every minute, and `TimePasses` in `Incidents`, because a scan in
progress disables it. `worker_jobs` assumes for a load only the fairness of its job.

## 4. Theorems

| Theorem | Assumes | Says |
|---|---|---|
| `OrderPaymentProofs!TypeCorrect` | - | `TypeOK`, with the ranges of the CHECK constraints |
| `...!PendingIsHeld`, `ConfirmedIsPaidOnce`, `ClosedHoldsNothing` | - | the three agreements between an order and its rows |
| `...!SuccessStays`, `OrdersMoveForward` | - | no step takes back a success or a refund; an order takes the documented steps |
| `...!ImplementsOrderContract` | - | every behaviour of orders, holds, payments and refunds is one of `OrderContract` |
| `...!StockIsExact` | - | on sale, held and sold portions are the chef's quantity; sold out iff none is on sale |
| `...!RefundsSumUp` | - | the refunded amount is the sum of the successful refunds |
| `...!BenefitsAreExact` | - | the coupon's counters and the customer's points are what the orders' rows add up to |
| `HoldRaceProofs!SellingNeverOversells` | `SellingOnly`: checkout, intent and success only | no overlap of any number of requests oversells |
| `...!CheckoutsKeepLimit` | `CheckoutOnly`: checkout and intent only | no overlap overbooks a coupon |
| `...!SerialCountersStayExact` | `OneRequest` | all handlers, each cut off anywhere: stock, coupon and order rows agree |
| `HoldLoadsProofs!LoadsNeverOversell` | - | the two statements on overlap, of the loads that TLC runs |
| `...!LoadsKeepPaidOrders` | `OneRequest` (in the serial load) | a paid order stays confirmed with its portion, in all three loads |
| `DeliveryProofs!OrdersStepByStep` | - | overlapping requests move an order one documented step at a time |
| `...!TasksFollow` | no `resume` | task, driver and order stay together under any overlap |
| `...!SerialRequestsAgree` | `OneRequest` | one mission per driver, a truthful profile, stage and task that follow the order |
| `CustomerRowsProofs!SerialPaidRequestScheduled`, `SerialCapacityKept` | `OneHandler`: the job and the requests take turns | a special request is scheduled iff its order is with the chef; no handler overfills a date |
| `...!CustomersRowsAgree` | `OneCaller`: one request at a time, but for the carts | the six agreements of what customers keep |
| `ProvidersProofs!RefundsWereReturned` | no answer `accepted` | Baytna never counts more as returned than the provider returned |
| `...!DeliveredStaysSent` | - | what a receipt reported delivered is not sent again |
| `...!BooksAreHonest` | - | fees all or none, imported costs approved, every purchase counted |
| `OperationsProofs!DailyCapKept` | - | no overlap of any number of checkouts and changes of address exceeds a zone's daily cap |
| `...!ZoneStateFits` | - | the two columns of a zone's state agree |
| `...!PolicyIsGivenBack` | - (of `CommandSpec`) | what nothing holds is as administrators last set it unheld: overrides, drills on paper and live, and edits in any order, but for admission that a live drill crossed |
| `...!ClosedDaysStand` | - | a closed day keeps its figures and its two signatures |
| `...!SeverityIsKept` | - | an active incident never becomes less severe |
| `...!UnclosedDaysBlock` | `ReviewWindow <= StabilizationDays` | (of `AfterSpec`) a review that does not block has seen its required days closed, but for one if today is closed |
| `...!ScalesOnWholeWeeks` | - | a report allows scaling only on the last whole weeks of an ended program, none with a bad day |
| `WorkQueueProofs!TypeCorrect` | - | `TypeOK` |
| `...!WorkersExclusive`, `ClosedTruthful`, `SucceededStays` | `Disciplined`: no worker outlives `worker_stale_seconds`, retries of closed items only | one worker per item; a mark is true; succeeded stays |
| `...!ImplementsContract` | `Disciplined` | every behaviour of the queue is one of `AtLeastOnce` |

**Assumptions.** The constants' own are the named ASSUMEs of the modules: sets of orders,
transactions and request rows are finite, limits and amounts are natural numbers, weeks have a
day, addresses are numbered in the order they are created, 0 stars stand for NULL, and the
values for "none" (`Nobody`, `None`, `Nothing`) are no members of the sets they are
missing from. Everything else is open: how many requests, orders, items, payments, drivers,
zones, days there are, and how large limits and quantities get.

The hypotheses of the theorems are not for convenience. Without each of them TLC finds
a property of that theorem violated (section 7): with releases or cancellations beside a
payment, with `resume`, with two requests for one row, with a worker that outlives its lock,
with a retry of a running row, with an answer that calls a pending refund accepted, or with a window
longer than the cadence (by default both are 7 days, `core/config.py:126`, `:128`). They draw the line
between what the code guarantees and what it does not. A theorem about a composition
(`LoadsSpec`) is about each of its loads, with all values of the constants of its part.
`CommandSpec` and `AfterSpec` are the launch command and the review by themselves, with every
action of theirs. Where the composition itself fixes a constant (one request at a time in
`operations`: `Interleaved <- FALSE`), the theorem has that for a hypothesis too.

**Arguments.** No property below is inductive as it stands. Four ideas recur.
- *Sums are cardinalities of sets of pairs* (a portion, a use, a point, a piastre), so
  nothing is proved by induction over data: a step adds or removes a set of units,
  and units of different orders are disjoint.
- *What an open request has read is still so.* One request at a time, that is the whole secret:
  `RequestsFresh`, `RequestsCurrent`, `BookFresh`, `TicketFresh`, `ReviewFresh`, `PointsFresh`,
  `MediaFresh`, `watch[a].seen = rollout` and `scan.seen = incident` say that the row is what the
  request remembers, so that writing back an absolute value changes what the handler
  means to change. Under overlap these are exactly what fails.
- *A lock is owned*: between lock and commit the owner's copy is current, and nobody else
  is in that section.
- *An instance is not its module.* The operators of an INSTANCE are other symbols to the prover;
  lemmas such as `SameCount` show that an instance counts as the module does, and `HoldLoadsProofs`
  maps the theorems of `HoldRace` to the three instances of the composition.

By component:
- *OrderPayment.* That a confirmed order is
  paid once needs that a pending one is not paid, and that an order before checkout has no
  payments. `OrderInv` is `TypeOK`, `EventsKnown` (the provider speaks of payments it was
  asked for) and `RowsAgree(o)` for every order. `CloseUnpaid`, which three handlers share, is
  one lemma; a step leaves orders it does not name `Untouched`. The action properties follow
  from `OrderInv` before the step. For the sums, `UnitsOfOneMore` adds an order's units
  and `UnitsOfParts` takes a set of orders away; `StockInv` and `BenefitsInv` add them to
  `OrderInv`, whose agreement between order and reservation says that a handler which
  gives something back gives back what was held. `RefundsInv` also says that a key is used once.
- *OrderContract.* `StateOf(o)` folds status, stage and reservation into what the customer
  sees, `until` is the hold column, `portions` what the reservation keeps (`KeptFor`), `charges` the
  payments that succeeded. Under `OrderInv` the mapping is step by step: checkout is `Place`, a
  success is `Pay` (the reservation's own expiry, which the handler looks at, is the order's hold,
  so payment is in time), the sweep is `Lapse` of orders whose moment has passed, cancellation
  and a payment's failure are `Withdraw`, refunds that succeed are `Return`, the chef's
  answers `Accept` and `Reject`. All else, failures of orders that no longer wait included, is a
  stutter (`SightStays`). That `Reject` returns the price of the one charge needs that a
  confirmed order is paid once.
- *HoldRace.* `SaleInv` adds up the committed quantity and the holders, and says of every
  request in flight that, once past the guarded UPDATE, it alone has the item's lock and its
  copy of the quantity is the committed one less one. That is what the write-back of a release
  lacks. `CouponInv` says the same of the coupon's counters. `SerialInv` is `RequestsFresh`,
  `OrdersAgree` and `SharedRowsExact`: the handler's remaining statements
  decide what the order's rows still lack, statement by statement.
- *Delivery.* `Follows` is the type invariant (a request remembers an order, a driver and, for
  a report, a mission's status) and `TaskFollowsOrder`. What a request read is never used
  except through a guard evaluated again at commit, so the invariant says nothing of stale
  reads; `resume` is the handler for which this fails. `MissionsInv`, one request at a time,
  adds `RequestsCurrent` and that a driver has one active task iff the profile says so.
- *Special orders.* `RowsFit` takes the rows as parameters: `SpecialInv` says it of the tables and,
  while a handler is open, of the tables with its uncommitted writes (`WritesFit`).
  Capacity is a cardinality: a date gains a request only from a handler that has counted.
- *What customers keep.* A checkout carries what it checked, so no change of a kitchen after its
  read makes an order of two kitchens (any number of requests, no freshness needed). The
  least remaining address exists because addresses are well founded. Averages are
  never unfolded: a recalculation stores the average of the rows the session will commit, and the
  invariant needs only that they are the same rows. An asset is settled while no upload is in
  flight, and then a ready row has its object.
- *Providers.* `RefundsInv`: the refunds Baytna has counted are different transactions of that payment,
  each returned by the provider, so their sum bounds `refunded`. `SendsInv` relates a delivery, its
  worker, its message and its receipts: a row is worked on again only when its message failed and
  Baytna was told, and what a worker has just sent no row and no receipt knows.
  `BooksInv`: fees are a function of the file's status; whoever has a file open is alone with it.
- *TrafficAdmission.* A commit adds an order without looking.
  `AdmissionInv` adds `RoomIsKept`: a request that was admitted holds the lock of its zone's
  policy, and there is still room for its order. Whoever was admitted before is in another
  zone, because the lock was free; orders that leave only make room; no step but a commit adds
  an order to a zone, and it adds it to the zone it has locked. For the chef's cap there is no
  such lock, and it fails.
- *Launch.* At most one override of a column is active, and the value it will restore is the
  administrators', unless it began beneath a live drill that still runs or was crossed
  (`OverridesStack`). One drill of a session runs at a time, and some live one among those that run
  took its snapshot with nothing else in the way: what it will restore is the administrators',
  until it is crossed (`DrillsStack`). A revert under
  way is of an active override (`RevertsActive`). An edit of a held column changes neither. A closed
  day is not what a preparation read. A review counts closed days of its window; the only one of
  these that is not required is today, so as many as required leave at most one required day
  unclosed, and none while today is not closed (`CountedAreClosed`).
- *Pilot.* A snapshot saved earlier is never a full week outside the program, because a
  week that had begun stays begun (`BegunStays`) and is recomputed; so the eligible weeks are
  1..K with K the whole weeks, and enough passed ones at the end of a run are its last ones (`LastOfRun`).
- *WorkQueue.* `QueueInv` rests on `Holding`: a worker between claim and mark has the row
  running, locked by itself, not stale, with the attempts it remembers. The refinement maps
  the six statuses to the contract's four and shows each action to be a step or a stutter.

**Model-checked only.** Every safety and action property of the passing runs is stated by a
theorem. The liveness properties of `worker_jobs` stay with TLC, since the prover has no rules
for fairness and ENABLED here, and so do the properties of the violation runs and of section 7.

## 5. What the checks show

Transaction by transaction the design is sound: with transactions one after the other,
failing anywhere, with events and jobs in any order, stock, money, coupons and points are
exact, and the order's rows agree. Where two transactions overlap, everything that a guarded
UPDATE or a row lock decides is sound too: checkouts do not oversell or overbook, orders and
tasks take one step at a time, queue items have one worker, a zone keeps its daily cap. What is
written back from a read is not.

The worker settles what it is scheduled for: holds, offers, receipts, discrepancies, files,
red zones and unattended incidents do not wait for ever, whatever requests do meanwhile.
Beside the payment provider Baytna never counts too much as returned; it may know too little,
because it forgets what it refuses. The caps of a launch are always given back by
the overrides that took them, and admission too unless a live drill ends while something else still
stops it; an edit made under a hold is lost when the hold ends. A required day that was never
closed blocks the review, unless today was closed early in its place.

## 6. Reading a property

Each property's comment says what it promises and names the document or the code it comes
from. A property of a load is stated where its module is and named again in the MC module.
`CustomerRowsAgree`, `BooksHonest`, `StockExact`, `BenefitsExact` and `SerialMissionsAgree`
are conjunctions whose parts are stated separately.

## 7. Where the code does not do what its documents say

Each of these is a run that TLC ends with a short counterexample:

| Run | Statement | What happens |
|---|---|---|
| `hold_oversell` | only one of two customers gets the last portion (docs/ORDER_DOMAIN.md:49) | `release_inventory` writes back a quantity read before a checkout committed |
| `rejection_refund` | a rejection creates a full refund (docs/FULFILLMENT_DOMAIN.md:58) | a refund the provider declines is ignored, and cannot be tried again |
| `two_missions` | no second active task of a driver (docs/DELIVERY_DOMAIN.md:30) | two claims of different tasks overlap |
| `captured_money_known` | callbacks are stored so that no evidence is lost (docs/PAYMENT_RECONCILIATION.md:4) | a success after the hold ended answers 409, and the rollback takes the record with it |
| `closed_days_block` | an incomplete cadence blocks the review (docs/POST_LAUNCH_STABILIZATION.md:39) | with 7 days and a window of 7, complete ones block it too from the eighth day on |

More instances fail. They are not kept as runs of their own; TLC finds each in seconds with
`INIT Init`, `NEXT Next` and these constants (functions need a small module that defines
them), the others as in the passing run:

| Module | Instance | Property violated | Why |
|---|---|---|---|
| `MCHoldRace` | 2 orders, 2 requests, checkout intent succeed cancel, `Total = 2`, `CouponLimit = 2` | `PaidOrderStands` | a cancellation that read `pending_payment` writes over the payment's success (`orders/service.py:770`, `:783`) |
| `MCHoldRace` | 3 orders, 2 requests, checkout intent succeed, `Total = 3`, `CouponLimit = 2` | `CouponNotOverbooked` | a success writes back the counters it read |
| `MCHoldRace` | 2 orders, 2 requests, checkout intent succeed fail, `Total = 2`, `CouponLimit = 2` | `SuccessIsFinal` | a failure event that read the payment before its success |
| `MCDelivery` | 1 order, 1 driver, 2 requests, accept reject | `AcceptedNotRefunded` | the money is returned before the guarded UPDATE fails; the chef cooks an unpaid order (docs/FULFILLMENT_DOMAIN.md:82) |
| `MCDelivery` | 1 order, 1 driver, 2 requests, prepare package ready | `StageFollowsOrder` | `start_packaging` sets the stage unguarded |
| `MCDelivery` | 1 order, 1 driver, 2 requests, prepare ready, the driver's handlers, report resume availability | `TaskFollowsOrder` | a resume restores the status of an earlier issue |
| `MCDelivery` | 1 order, 2 drivers, 2 requests, prepare ready, the driver's handlers, availability | `DriverStatusTruthful` | the profile is written back |
| `WorkQueue` | 1 item, 2 workers, 2 attempts, 3 crashes, retries of `dead_letter`, `MaxRetries = 0` | `AttemptsBounded` | recovery of a stale lock does not count attempts (docs/RELIABILITY_DOMAIN.md:65) |
| `WorkQueue` | 1 item, 2 workers, `SlowWorkers = TRUE`, no crash, no retry | `OneWorkerPerItem`, `SucceededIsFinal` | a mark does not look at `locked_by` |
| `WorkQueue` | 1 item, 2 workers, `RetriedStatuses = {"running"}`, `MaxRetries = 1` | `OneWorkerPerItem` | the administrator's retry takes a row from its worker |
| `SpecialOrders` | two clients | `PaidRequestScheduled`, `CapacityKept` | a counter-offer commits over an acceptance that was checked out meanwhile; a day is checked before another request, or the chef's edit of it, commits |
| `TrafficAdmission` | two zones | `ChefCapHolds` | the chef's orders are counted under the lock of one zone |
| `ZoneRollout` | one administrator, one request at a time | `ResumeRestoresStage` | a resume returns to `from_stage` of the last event; the older pausing endpoint writes none (docs/CONTROLLED_ROLLOUT.md:39) |
| `ZoneRollout` | `Interleaved = TRUE` | `StatusFitsStage` | an advance whose zone is paused between its two commits leaves it paused and limited |
| `Reconciliation` | a capture and refunds | `ReturnedMoneyKnown`, `RefundsTheCapture` | the counted sum is compared with each refund alone, so one made in the dashboard hides behind Baytna's own; a second attempt that is pending takes over the reference of the capture |
| `NotificationDelivery` | `SlowWorkers = TRUE`, or `Bounces = TRUE` | `DeliveredNotResent` | recovery, or the bounce of an earlier message, takes a row from a worker that still sends it |
| `NotificationDelivery` | as in `providers` | `FailureNotForgotten` | an acceptance reported after the failure of the same message says `succeeded` |
| `SettlementBooks` | `Interleaved = TRUE` | `FeesAllOrNothing` | two reconciliations of one file insert the fee twice |
| `SettlementBooks` | as in `providers` | `FeeCountedOnce` | a cost file and a settlement both count the fee of an order |
| `SettlementBooks` | `JobLimit = 1`, an older file that never matches | `LateLedgerReconciles` | the job takes the oldest files, again and again |
| `LaunchCommand` | as in `operations` | `AdmissionGivenBack` | an override stops admission during a live drill, which ends first: the override puts back the stop it found, and nothing is left that would undo it (`create_override` does not look at drills, `launch_command/service.py:472-524`, `_restore_drill_policy` not at overrides, `:1134-1138`; docs/ROLLBACK_DRILLS.md:29) |
| `LaunchCommand` | `Interleaved = TRUE` | `PolicyGivenBack` | of two reverts of one override, the second restores its value again, over what was set meanwhile |
| `LaunchCommand` | as in `operations` | `StopHolds` | an edit of the policy, or the end of a live drill, opens admission while an override stops it (docs/SPRINT_49.md:41) |
| `LaunchCommand` | as in `operations` | `CompletedLeavesNoOverride` | completion does not look at overrides begun after the evidence pack (docs/GO_LIVE_EVIDENCE_PACK.md:58) |
| `LaunchCommand` | `Interleaved = TRUE` | `ClosedDayStands` | a preparation that read before the close commits after it: the closer becomes the preparer |
| `Incidents` | detector `support_sla`, `Interleaved = TRUE` | `SeverityKept` | a scan raises the severity it read before an administrator raised it further |
| `Incidents` | one request at a time | `ReturnIsTold`, `ReturnWaits` | the second return has the dedupe key of the first, and the time of the last escalation is not reset (docs/ESCALATION_AUTOMATION.md:79, :39) |
| `ReviewRatings` | one request at a time | `RatingFollowsReviews` | an edit that adds the driver's rating is not counted, and a hidden review counts until the next recalculation (docs/POST_ORDER_DOMAIN.md:23-32) |
| `ReviewRatings` | two requests | `ChefRatingFollowsReviews` | an average over a table without the other's review |
| `AddressBook` | two requests | `OneDefault` | two first addresses are created together |
| `KitchenCart` | `MaxOrders = 2` | `OneOrderPerCart` | two checkouts of one cart |
| `PostLaunchReview` | as in `operations` | `EveryUnclosedDayBlocks` | today's close is counted in place of one that is missing: required are the days before today (`post_launch/service.py:118-119`), counted all closes of the window (`:123-128`, `:170`; docs/POST_LAUNCH_STABILIZATION.md:34-39) |
| `PostLaunchReview` | `StabilizationDays = 1`, `ReviewWindow = 3` | `UnclosedDayBlocks` | in a window longer than the cadence a later closed day is counted in place of a required one |
| `Reconciliation` | `Answers` with `accepted` | `RefundedWasReturned` | an answer `is_refund: true` that is still pending is counted as returned (`payments/provider.py:375-379`) |
| `PilotProgram` | as in `operations` | `ScaleAfterLastDay` | a program can be completed, and allowed to scale, before its last day (docs/PILOT_STABILITY_GATE.md:17) |
| `SupportDesk` | two requests | `ClosedStays` | a status read before the close is written after it |
| `ZoneBudget`, `LoyaltyAccount` | two requests (`LoyaltyAccount` also with one and `Overlaps = TRUE`, 3 orders) | `EveryPurchaseCounted`, `PointsAddUp` | lost updates |
| `MediaAssets` | two requests, or `Reuploads = TRUE` | `ReadyHasObject` | a deletion overlaps a completion, or an upload through the link that still works |
| `MediaAssets` | one request at a time | `AttachedIsReady` | an asset can be deleted while a dish refers to it |

Smaller observations of the same kind: a day that is reopened or blocked after its session
completed can never be prepared again; a close that is blocked and overdue is counted as two
blockers; a ticket that is resolved twice notifies once; the least required stability that the
code accepts is eight weeks.

## 8. What is not modelled

Within the modelled parts: the checks that only refuse (cut-off, address, notice);
the arithmetic of prices, fees and discounts (an order has a total); the per-customer limit of a
coupon under overlapping checkouts; notifications, timelines, audit logs and the outbox rows a
handler adds (nothing in these modules reads them); `sync_ready_orders`, which creates a task
that `ready_for_pickup` has already created; signatures of webhooks. In `HoldRace`, loyalty
points (their rows follow the coupon's) and orders of several items. In `Delivery`, offers,
proofs of delivery, notes and addresses. In `WorkQueue`, recovery scans and writes in one step,
and backoff only delays, so that an item that waits may be claimed at any time. In
`TrafficAdmission`, edits of the daily caps and the numbers of a forecast. In `ZoneRollout` the
numbers behind a gate. In `SettlementBooks` the parsing and the risk flags of a file.
In `PilotProgram` the cohort report, which writes nothing. In the database, the order in which
two transactions wait for coupon and item rows: PostgreSQL breaks the deadlock, and `HoldRace`
has the rollback.

Not modelled at all: authentication and rate counters, where the question is who may forge or
guess what; users, favourites and notification texts, rows of one user edited by that user;
administration, health, observability and analytics, which read; the client applications, whose
requests are the environment of every module here.

## 9. Plan

What is left, in order of worth:

1. The composition of `OrderPayment` with `Delivery` at `confirmed` and with `LoyaltyAccount` at
   delivery; `NotificationDelivery` as a second implementation of `AtLeastOnce`.
2. Theorems about properties that hold under overlap and are stated only in section 7's terms: the hourly cap of
   `TrafficAdmission`, refunds at the provider of `Delivery` with one request at a time.
3. Discounts, fees and rounding of `pricing/` as functions against a reference definition over
   bounded inputs; the per-customer coupon limit.
4. One-time codes, refresh tokens and rate counters of `auth/` as counters with limits.
