---------------------------- MODULE MCWorkerJobs ----------------------------
(***************************************************************************)
(* The worker process (scripts/worker.py): every minute it schedules the   *)
(* jobs of reliability/jobs.py:62-98 and carries them out through the work *)
(* queue.  One load is the queue; each of the others is a job and the part *)
(* of the system that the job must make settle, under the fairness of that *)
(* job alone.  `load' is chosen first and never changes.                   *)
(***************************************************************************)
EXTENDS WorkQueue, TLC

CONSTANTS i1, i2, w1, w2, NoHold

VARIABLES
    load,
    now, avail, itemStatus, edited, orderStatus, hold, resv, qty, expiry, stage,
    payStatus, payExpires, refunded, refund, event, coupon, reservedCount,
    redeemedCount, loyalty, points, balance, lifetimeRedeemed,
    clock, weekly, override, req, ord, pay, txn,
    delivery, target, sender, message, receipt, sendCrashes, sendRetries,
    order, payment, returned, txRef, refundRow, ledger, issue, provider, delivered,
    books, open, batch, import, fee, cost, task,
    zone, gates, assessment, pausedFrom, stageBefore, health, reds, autoPause, watch,
    condition, incident, told, scan

Holds == INSTANCE OrderPayment WITH
    Items <- {"item"}, Orders <- {"o1", "o2"}, Customers <- {"alice"},
    OwnerOf <- [o \in {"o1", "o2"} |-> "alice"],
    Payments <- {"p1"}, PaymentOrder <- [p \in {"p1"} |-> "o1"],
    RefundKeys <- {"kChef"}, ChefRejectKey <- "kChef",
    Total <- [i \in {"item"} |-> 2], MaxPerOrder <- 1,
    OrderTotal <- [o \in {"o1", "o2"} |-> 1],
    CouponLimit <- 0, CouponPerCustomer <- 0, InitialPoints <- 0, MaxPoints <- 0,
    EditableItems <- {}, SentTypes <- {"payment.succeeded", "payment.failed", "mismatch"},
    HoldTTL <- 1, PaymentTTL <- 1, NoHold <- NoHold, MaxTime <- 2

Offers == INSTANCE SpecialOrders WITH
    Rows <- {"s1"}, Dates <- {"d1"}, OverrideDates <- {}, WeekdayOf <- [d \in {"d1"} |-> "mon"],
    MaxCapacity <- 1, OrderIds <- {"o1", "o2"}, Keys <- {"p1"}, Clients <- {"r1"},
    OfferWindow <- 1, Horizon <- 1, None <- "None"

Sends == INSTANCE NotificationDelivery WITH
    Deliveries <- {"n1"}, Workers <- {"w1"}, Messages <- {"m1", "m2"}, MaxAttempts <- 2,
    SlowWorkers <- FALSE, Bounces <- FALSE, MaxCrashes <- 1, MaxRetries <- 0, Nothing <- "Nothing",
    worker <- sender, crashes <- sendCrashes, retries <- sendRetries

Money == INSTANCE Reconciliation WITH
    Payments <- {"p1"}, OrderOf <- [p \in {"p1"} |-> "o1"], Price <- [p \in {"p1"} |-> 2],
    Txs <- {"t1", "r1"}, Kind <- [t1 |-> "payment", r1 |-> "refund"],
    PaymentOf <- [t1 |-> "p1", r1 |-> "p1"], Amount <- [t1 |-> 2, r1 |-> 1],
    OtherCurrency <- {}, OrderRefAtIntent <- FALSE, Keys <- {"k1"},
    Answers <- {"succeeded", "submitted", "declined", "lost"}, Nobody <- "Nobody",
    refunded <- returned, refund <- refundRow

Settlements == INSTANCE SettlementBooks WITH
    Txs <- {"t1"}, Batches <- {"b1", "b2"}, Lines <- [b1 |-> {"t1"}, b2 |-> {"t1"}],
    BadLines <- {<<"b2", "t1">>}, Age <- [b1 |-> 1, b2 |-> 2], JobLimit <- 2,
    Imports <- {}, ImportTx <- <<>>, Admins <- {"a1"}, DualControl <- FALSE, Interleaved <- TRUE,
    ledger <- books, issue <- open, task <- task

Rollout == INSTANCE ZoneRollout WITH
    Admins <- {"a1"}, Interleaved <- TRUE,
    Gates <- {[economics |-> TRUE, money |-> TRUE, session |-> TRUE]},
    RolloutRequired <- TRUE, RequiredReds <- 2, task <- watch

Alerts == INSTANCE Incidents WITH
    Conditions <- {"c1"}, Detector <- [c \in {"c1"} |-> "delivery_issue"], Window <- 1, Threshold <- 3,
    Admins <- {"a1"}, Interleaved <- TRUE

holdVars == <<now, avail, itemStatus, edited, orderStatus, hold, resv, qty, expiry, stage,
              payStatus, payExpires, refunded, refund, event, coupon, reservedCount,
              redeemedCount, loyalty, points, balance, lifetimeRedeemed>>
offerVars == <<clock, weekly, override, req, ord, pay, txn>>
sendVars == <<delivery, target, sender, message, receipt, sendCrashes, sendRetries>>
moneyVars == <<order, payment, returned, txRef, refundRow, ledger, issue, provider, delivered>>
settlementVars == <<books, open, batch, import, fee, cost, task>>
rolloutVars == <<zone, gates, assessment, pausedFrom, stageBefore, health, reds, autoPause, watch>>
alertVars == <<condition, incident, told, scan>>

all == <<load, vars, holdVars, offerVars, sendVars, moneyVars, settlementVars, rolloutVars,
         alertVars>>

Loads == {"queue", "holds", "offers", "sends", "money", "settlements", "rollout", "alerts"}

\* In the rollout load the policy asks for pausing, the older endpoint that pauses
\* without an event is not used, and a snapshot is green or red.
Narrow == autoPause /\ stageBefore = pausedFrom /\ health # "amber"

StartsClosed == weekly = [d \in DOMAIN weekly |-> 0]
StartsPlain == autoPause

LoadsInit ==
    /\ Init /\ Holds!Init /\ Offers!Init /\ Sends!Init /\ Money!Init
    /\ Settlements!Init /\ Rollout!Init /\ Alerts!Init
    /\ load \in Loads
    /\ load # "offers" => StartsClosed
    /\ StartsPlain
    /\ load # "queue" => job = [w \in Workers |-> i1]

\* The parts a load is not about stay as they start.
LoadsNext ==
    \/ /\ load = "queue" /\ Next
       /\ UNCHANGED <<load, holdVars, offerVars, sendVars, moneyVars,
                      settlementVars, rolloutVars, alertVars>>
    \/ /\ load = "holds" /\ Holds!Next
       /\ UNCHANGED <<load, vars, offerVars, sendVars, moneyVars,
                      settlementVars, rolloutVars, alertVars>>
    \/ /\ load = "offers" /\ Offers!Next
       /\ UNCHANGED <<load, vars, holdVars, sendVars, moneyVars,
                      settlementVars, rolloutVars, alertVars>>
    \/ /\ load = "sends" /\ Sends!Next
       /\ UNCHANGED <<load, vars, holdVars, offerVars, moneyVars,
                      settlementVars, rolloutVars, alertVars>>
    \/ /\ load = "money" /\ Money!Next
       /\ UNCHANGED <<load, vars, holdVars, offerVars, sendVars,
                      settlementVars, rolloutVars, alertVars>>
    \/ /\ load = "settlements" /\ Settlements!Next
       /\ UNCHANGED <<load, vars, holdVars, offerVars, sendVars,
                      moneyVars, rolloutVars, alertVars>>
    \/ /\ load = "rollout" /\ Rollout!Next /\ Narrow'
       /\ UNCHANGED <<load, vars, holdVars, offerVars, sendVars,
                      moneyVars, settlementVars, alertVars>>
    \/ /\ load = "alerts" /\ Alerts!Next
       /\ UNCHANGED <<load, vars, holdVars, offerVars, sendVars,
                      moneyVars, settlementVars, rolloutVars>>

QueueFairness ==
    /\ \A w \in Workers : /\ WF_vars(load = "queue" /\ (Execute(w) \/ ExecuteFails(w)))
                         /\ WF_vars(load = "queue" /\ (MarkSucceeded(w) \/ MarkSucceededFails(w)))
                         /\ WF_vars(load = "queue" /\ MarkFailed(w))
    /\ \A i \in Items : /\ WF_vars(load = "queue" /\ \E w \in Workers : Claim(w, i))
                       /\ WF_vars(load = "queue" /\ LockGetsStale(i))
    /\ WF_vars(load = "queue" /\ RecoverStale)

SweepFairness ==
    /\ WF_holdVars(load = "holds" /\ Holds!Tick)
    /\ WF_holdVars(load = "holds" /\ Holds!ReleaseExpiredHolds)
    /\ WF_offerVars(load = "offers" /\ Offers!Tick)
    /\ WF_offerVars(load = "offers" /\ Offers!ExpireDueRequests("worker"))
    /\ \A r \in {"r1", "worker"} : WF_offerVars(load = "offers" /\ Offers!Commit(r))

ReceiptFairness ==
    \A m \in {"m1", "m2"}, r \in Sends!Receipts : WF_sendVars(load = "sends" /\ Sends!Replay(m, r))

MoneyFairness ==
    /\ WF_moneyVars(load = "money" /\ Money!Reconcile)
    /\ \A b \in {"b1", "b2"} : SF_settlementVars(load = "settlements" /\ Settlements!ReadSettlement("job", b))
    /\ WF_settlementVars(load = "settlements" /\ Settlements!CommitSettlement("job"))

WatchFairness ==
    /\ WF_rolloutVars(load = "rollout" /\ (\E S \in Rollout!SignalSets : Rollout!RefreshAllLiveZones(S)) /\ Narrow')
    /\ WF_rolloutVars(load = "rollout" /\ Rollout!EvaluateSlo /\ Narrow')
    /\ WF_alertVars(load = "alerts" /\ Alerts!ReadScan)
    /\ WF_alertVars(load = "alerts" /\ Alerts!CommitScan)
    /\ SF_alertVars(load = "alerts" /\ Alerts!TimePasses)

LoadsSpec ==
    /\ LoadsInit /\ [][LoadsNext]_all
    /\ QueueFairness /\ SweepFairness /\ ReceiptFairness /\ MoneyFairness /\ WatchFairness

\* A checkout always ends: the sweep of release_expired_holds gives the portions
\* of an unpaid order back, whatever its payments did (orders/service.py:49-66).
PendingSettles == Holds!PendingSettles

\* The offer of a special order does not wait for ever, even when handlers race
\* for the request (special_orders/service.py, expire_due_requests).
OfferSettles == Offers!OfferSettles

\* A receipt that came before the commit of its message is applied once the row
\* knows the message, unless a later message takes its place
\* (docs/INTEGRATION_RECONCILIATION.md:4).
EarlyReceiptApplied == Sends!EarlyReceiptApplied

\* A discrepancy between the provider and the payments that lasts is open again
\* and again, however often administrators resolve it
\* (docs/PAYMENT_RECONCILIATION.md:52).
DiscrepancyReopens == Money!DiscrepancyReopens

\* A settlement whose transactions all reach the ledger is reconciled in the end,
\* whichever came first (docs/SETTLEMENT_RECONCILIATION.md:67).
LateLedgerReconciles == Settlements!LateLedgerReconciles

\* While every snapshot is red and the policy asks for it, the zone does not stay
\* live, whatever administrators do meanwhile (docs/SLO_AUTOMATION.md).
SloPausesZone == Rollout!SloPausesZone

\* An incident whose condition lasts becomes critical unless an administrator
\* acknowledges or resolves it (docs/ESCALATION_AUTOMATION.md:39).
UnattendedEscalates == Alerts!UnattendedEscalates
=============================================================================
