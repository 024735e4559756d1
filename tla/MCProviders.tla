---------------------------- MODULE MCProviders ----------------------------
(***************************************************************************)
(* What Baytna keeps about money and messages that others hold: the        *)
(* payment provider's refunds (one load) and its voids, other currencies   *)
(* and strange transactions (another), the finance books made of settlement*)
(* and cost files, the budget of a zone, and the push and SMS providers.   *)
(* The books and the budget run one request at a time, the others overlap. *)
(* `load' is chosen first and never changes.                               *)
(***************************************************************************)
EXTENDS Reconciliation, TLC

CONSTANTS o1, p1, t1, t2, r1, r2, v1, x1, k1, k2

CONSTANTS
    Paid, Batches, Lines, BadLines, Age, JobLimit, Imports, ImportTx, FinanceAdmins, DualControl,
    MaxAmount,
    Deliveries, Workers, Messages, MaxAttempts, MaxCrashes, MaxRetries, Nothing

ASSUME SendsAssumption == Nothing \notin Deliveries \cup Messages

VARIABLES
    load,
    books, open, batch, import, fee, cost, task,
    budget, bought, movement,
    delivery, target, worker, message, receipt, crashes, retries

OneOrder  == (p1 :> o1)
TwoPounds == (p1 :> 2)
Kinds     == (t1 :> "payment") @@ (r1 :> "refund") @@ (r2 :> "refund") @@ (v1 :> "void") @@ (x1 :> "payment")
Abouts    == (t1 :> p1) @@ (r1 :> p1) @@ (r2 :> p1) @@ (v1 :> p1) @@ (x1 :> Nobody)
Amounts   == (t1 :> 2) @@ (r1 :> 1) @@ (r2 :> 1) @@ (v1 :> 2) @@ (x1 :> 1)

BothLines == [b1 |-> {t1, t2}]
OneAge == [b1 |-> 1]
FirstTx == [f1 |-> t1]

Settlements == INSTANCE SettlementBooks WITH
    Txs <- Paid, Admins <- FinanceAdmins, Interleaved <- FALSE, ledger <- books, issue <- open

Budget == INSTANCE ZoneBudget WITH Requests <- {"q1"}

Sends == INSTANCE NotificationDelivery WITH SlowWorkers <- FALSE, Bounces <- FALSE

settlementVars == <<books, open, batch, import, fee, cost, task>>
budgetVars == <<budget, bought, movement>>
sendVars == <<delivery, target, worker, message, receipt, crashes, retries>>

LoadsInit ==
    /\ Init /\ Settlements!Init /\ Budget!Init /\ Sends!Init
    /\ load \in {"refunds", "voids", "settlements", "budget", "sends"}

Unused(S) == \A t \in S : provider[t] = "none"

\* The parts a load is not about stay as they start.
LoadsNext ==
    \/ /\ load = "refunds" /\ Next /\ Unused({v1, x1})'
       /\ UNCHANGED <<load, settlementVars, budgetVars, sendVars>>
    \/ /\ load = "voids" /\ Next /\ Unused({r1, r2})'
       /\ UNCHANGED <<load, settlementVars, budgetVars, sendVars>>
    \/ /\ load = "settlements" /\ Settlements!Next
       /\ UNCHANGED <<load, prVars, budgetVars, sendVars>>
    \/ /\ load = "budget" /\ Budget!Next
       /\ UNCHANGED <<load, prVars, settlementVars, sendVars>>
    \/ /\ load = "sends" /\ Sends!Next
       /\ UNCHANGED <<load, prVars, settlementVars, budgetVars>>

LoadsSpec == LoadsInit /\ [][LoadsNext]_<<load, prVars, settlementVars, budgetVars, sendVars>>

\* The books are honest: a settlement has booked the fee of each of its lines once, or
\* none at all; costs of a file were approved by someone other than its maker,
\* also when it was validated, assigned or rejected again in between; the budget of
\* a zone knows of every purchase (docs/SETTLEMENT_RECONCILIATION.md:53,
\* docs/VENDOR_ACCOUNTING_OPERATIONS.md:14, docs/EXPANSION_BUDGETS.md:33-37).
BooksHonest ==
    /\ Settlements!FeesAllOrNothing
    /\ Settlements!ImportedCostsApproved
    /\ Budget!EveryPurchaseCounted

\* What a receipt reported delivered is not sent again, while workers crash and
\* retry and receipts come early, late and in any order (notification_delivery/
\* service.py, ingest_provider_event and reconcile).
DeliveredNotResent == Sends!DeliveredNotResent
=============================================================================
