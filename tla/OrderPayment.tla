--------------------------- MODULE OrderPayment ---------------------------
(***************************************************************************)
(* Standard orders of Baytna from checkout to the chef's answer: the       *)
(* portions of Today's Kitchen, the ten-minute inventory hold, the payment *)
(* rows with their provider webhooks, refunds, the coupon and the loyalty  *)
(* points an order takes with it.                                          *)
(*                                                                         *)
(* One action is one SQL transaction of the back end.  A handler that      *)
(* commits twice is two actions: release_expired_holds commits by itself   *)
(* (orders/service.py:86) before the handler that called it goes on, and a *)
(* worker or another request may run in between, so it is an action of its *)
(* own.  Inside a transaction the steps are atomic here; HoldRace.tla      *)
(* takes the transactions apart.                                           *)
(*                                                                         *)
(* All reservation rows of an order are created together and every handler *)
(* moves all of them together, so the order carries one reservation status *)
(* and one quantity per item.  A payment slot p stands for an idempotency  *)
(* key, which is bound to one order for ever; `PaymentOrder' is that order.*)
(***************************************************************************)
EXTENDS Integers, FiniteSets

CONSTANTS
    Items,          \* rows of daily_menu_items
    Orders,         \* carts that may be checked out, and the order of each
    Customers,
    OwnerOf,        \* the customer of each cart
    Payments,       \* idempotency keys of payment intents
    PaymentOrder,   \* the order each key is used for
    RefundKeys,     \* idempotency keys of refunds
    ChefRejectKey,  \* the key "chef-reject-{order}" (payments belong to one order)
    Total,          \* quantity_total of each item
    MaxPerOrder,    \* max_per_order, the same for every item
    OrderTotal,     \* total_minor of each order
    CouponLimit, CouponPerCustomer,   \* total_usage_limit, per_customer_usage_limit
    InitialPoints,  \* loyalty points of every customer at the start
    MaxPoints,      \* most points one order redeems
    EditableItems,  \* items whose quantity the chef overwrites
    SentTypes,      \* the kinds of event the provider sends
    HoldTTL, PaymentTTL,
    NoHold,         \* the NULL of inventory_hold_expires_at
    MaxTime         \* bound on the clock

\* "mismatch" is an event whose amount or currency is not the payment's.
EventTypes == {"payment.succeeded", "payment.failed", "payment.cancelled", "mismatch"}

ASSUME FiniteAssumption == IsFiniteSet(Orders)
ASSUME SetsAssumption ==
    /\ OwnerOf \in [Orders -> Customers]
    /\ PaymentOrder \in [Payments -> Orders]
    /\ ChefRejectKey \in RefundKeys
    /\ EditableItems \subseteq Items
    /\ SentTypes \subseteq EventTypes
ASSUME NumbersAssumption ==
    /\ Total \in [Items -> Nat]
    /\ OrderTotal \in [Orders -> Nat \ {0}]
    /\ MaxPerOrder \in Nat \ {0}
    /\ CouponLimit \in Nat /\ CouponPerCustomer \in Nat
    /\ InitialPoints \in Nat /\ MaxPoints \in Nat
    /\ HoldTTL \in Nat \ {0} /\ PaymentTTL \in Nat \ {0}
    /\ MaxTime \in Nat
    /\ NoHold \notin Nat

VARIABLES
    now,            \* the wall clock
    avail,          \* quantity_available of each item
    itemStatus,     \* status of each item
    edited,         \* history: the chef has overwritten the quantity of the item
    orderStatus, hold,        \* orders.status, orders.inventory_hold_expires_at
    resv, qty, expiry,        \* inventory_reservations of each order
    stage,          \* chef_order_fulfillments.stage
    payStatus, payExpires, refunded,  \* payments
    refund,         \* refunds, by payment and key
    event,          \* payment_webhook_events, and what the provider has sent
    coupon,         \* coupon_redemptions.status of each order
    reservedCount, redeemedCount,     \* counters of the coupon
    loyalty, points,          \* loyalty_redemptions of each order
    balance, lifetimeRedeemed \* loyalty_accounts

stockVars == <<avail, itemStatus, edited>>
orderVars == <<orderStatus, hold, resv, qty, expiry, stage>>
payVars   == <<payStatus, payExpires, refunded, refund>>
priceVars == <<coupon, reservedCount, redeemedCount, loyalty, points,
               balance, lifetimeRedeemed>>
vars == <<now, stockVars, orderVars, payVars, event, priceVars>>

-----------------------------------------------------------------------------
ItemStatuses  == {"available", "sold_out"}
OrderStatuses == {"none", "pending_payment", "confirmed", "accepted_by_chef",
                  "cancelled", "expired"}
ResvStatuses  == {"none", "active", "converted", "released", "expired"}
Stages        == {"none", "new", "accepted", "rejected"}
PayStatuses   == {"none", "pending", "succeeded", "failed", "cancelled", "expired"}
Benefits      == {"none", "reserved", "applied", "released"}
EventStatuses == {"unsent", "sent", "processed", "failed"}
RefundRows    == [status : {"none", "succeeded", "failed"}, amount : Nat]
NoRefund      == [status |-> "none", amount |-> 0]

AmountOf(p) == OrderTotal[PaymentOrder[p]]
PaymentsOf(o) == {p \in Payments : PaymentOrder[p] = o}
SucceededPayments(o) == {p \in PaymentsOf(o) : payStatus[p] = "succeeded"}

\* The portions of item i that the orders of S hold, one element each.
Portions(i, S) == {u \in S \X (1..MaxPerOrder) : u[2] <= qty[u[1]][i]}
\* The loyalty points that the orders of S took from customer c, one element each.
PointsOf(c, S) == {u \in S \X (1..MaxPoints) : OwnerOf[u[1]] = c /\ u[2] <= points[u[1]]}

Init ==
    /\ now = 0
    /\ avail = Total
    /\ itemStatus = [i \in Items |-> IF Total[i] = 0 THEN "sold_out" ELSE "available"]
    /\ edited = [i \in Items |-> FALSE]
    /\ orderStatus = [o \in Orders |-> "none"]
    /\ hold = [o \in Orders |-> NoHold]
    /\ resv = [o \in Orders |-> "none"]
    /\ qty = [o \in Orders |-> [i \in Items |-> 0]]
    /\ expiry = [o \in Orders |-> 0]
    /\ stage = [o \in Orders |-> "none"]
    /\ payStatus = [p \in Payments |-> "none"]
    /\ payExpires = [p \in Payments |-> 0]
    /\ refunded = [p \in Payments |-> 0]
    /\ refund = [p \in Payments |-> [k \in RefundKeys |-> NoRefund]]
    /\ event = [e \in Payments \X EventTypes |-> "unsent"]
    /\ coupon = [o \in Orders |-> "none"]
    /\ reservedCount = 0
    /\ redeemedCount = 0
    /\ loyalty = [o \in Orders |-> "none"]
    /\ points = [o \in Orders |-> 0]
    /\ balance = [c \in Customers |-> InitialPoints]
    /\ lifetimeRedeemed = [c \in Customers |-> 0]

-----------------------------------------------------------------------------
(* Effects shared by the handlers.                                         *)

Unclamped(a, b) == a     \* seeded fault
AtMost(a, b) == IF a > b THEN b ELSE a         \* min(a, b)
Minus(a, b)  == IF a > b THEN a - b ELSE 0     \* max(0, a - b)

\* Status of item i, of which n portions are on sale once the orders of S have
\* given theirs back.
StaysSoldOut(i, S, n) == itemStatus[i]     \* seeded fault
StatusAfterRelease(i, S, n) ==
    IF itemStatus[i] = "sold_out" /\ Portions(i, S) # {} /\ n > 0
    THEN "available" ELSE itemStatus[i]

\* release_inventory for every reservation row of the orders in S: each item
\* gets its portions back, never above quantity_total, and is on sale again.
ReleaseInventory(S) ==
    /\ avail' = [i \in Items |->
                    AtMost(avail[i] + Cardinality(Portions(i, S)), Total[i])]
    /\ itemStatus' = [i \in Items |-> StatusAfterRelease(i, S, avail'[i])]
    /\ UNCHANGED edited

\* A redemption row of an order that is given up.
KeepsReserved(s) == s     \* seeded fault
Released(s) == IF s = "reserved" THEN "released" ELSE s

\* release_for_unpaid_order for the orders in S.
ReleaseBenefits(S) ==
    LET C == {o \in S : coupon[o] = "reserved"}
        L == {o \in S : loyalty[o] = "reserved"}
    IN /\ coupon' = [o \in Orders |-> IF o \in S THEN Released(coupon[o]) ELSE coupon[o]]
       /\ reservedCount' = Minus(reservedCount, Cardinality(C))
       /\ loyalty' = [o \in Orders |-> IF o \in S THEN Released(loyalty[o]) ELSE loyalty[o]]
       /\ balance' = [c \in Customers |-> balance[c] + Cardinality(PointsOf(c, L))]
       /\ UNCHANGED <<redeemedCount, points, lifetimeRedeemed>>

\* apply_for_paid_order.
ApplyBenefits(o) ==
    LET hasCoupon == coupon[o] = "reserved"
        hasPoints == loyalty[o] = "reserved"
    IN /\ coupon' = [coupon EXCEPT ![o] = IF hasCoupon THEN "applied" ELSE @]
       /\ reservedCount' = IF hasCoupon THEN Minus(reservedCount, 1) ELSE reservedCount
       /\ redeemedCount' = IF hasCoupon THEN redeemedCount + 1 ELSE redeemedCount
       /\ loyalty' = [loyalty EXCEPT ![o] = IF hasPoints THEN "applied" ELSE @]
       /\ lifetimeRedeemed' = IF hasPoints
              THEN [lifetimeRedeemed EXCEPT ![OwnerOf[o]] = @ + points[o]]
              ELSE lifetimeRedeemed
       /\ UNCHANGED <<points, balance>>

\* Status of the reservations of order o when those of R end.
ResvKept(o, R, resvEnd) == resv[o]     \* seeded fault
ResvAfter(o, R, resvEnd) == IF o \in R THEN resvEnd ELSE resv[o]

\* The orders of S leave pending_payment unpaid and the reservations of the
\* orders of R are given back.
CloseUnpaid(S, status, R, resvEnd) ==
    /\ orderStatus' = [o \in Orders |-> IF o \in S THEN status ELSE orderStatus[o]]
    /\ hold' = [o \in Orders |-> IF o \in S THEN NoHold ELSE hold[o]]
    /\ ReleaseInventory(R)
    /\ resv' = [o \in Orders |-> ResvAfter(o, R, resvEnd)]
    /\ ReleaseBenefits(S)
    /\ UNCHANGED <<qty, expiry, stage>>

ActiveOf(o) == {x \in {o} : resv[x] = "active"}

-----------------------------------------------------------------------------
(* Checkout and the inventory hold.                                        *)

Tick ==
    /\ now < MaxTime
    /\ now' = now + 1
    /\ UNCHANGED <<stockVars, orderVars, payVars, event, priceVars>>

\* The touched orders that a sweep expires: a reservation can outlive its order.
NoneUnpaid(S) == {}     \* seeded fault
Unpaid(S) == {o \in S : orderStatus[o] = "pending_payment"}

\* Run by the worker every minute and at the start of every cart, order and
\* cancel request.
ReleaseExpiredHolds ==
    LET expired == {o \in Orders : resv[o] = "active" /\ expiry[o] <= now}
    IN /\ expired # {}
       /\ CloseUnpaid(Unpaid(expired), "expired", expired, "expired")
       /\ UNCHANGED <<now, payVars, event>>

\* The campaign has uses left, and the customer of order o too.
CouponLeftCountingPaid(o) == redeemedCount < CouponLimit     \* seeded fault
CouponLeftFor(o) ==
    /\ reservedCount + redeemedCount < CouponLimit
    /\ Cardinality({x \in Orders : OwnerOf[x] = OwnerOf[o]
                                    /\ coupon[x] \in {"reserved", "applied"}})
          < CouponPerCustomer

\* Carts that were not checked out yet.
Carts == {o \in Orders : orderStatus[o] = "none"}

\* Checkout of cart o with q portions of each item, optionally with the coupon
\* and with k points.  Kitchen, cut-off, address and traffic refusals change
\* nothing, so they are the choice not to take this action.
CreatePendingOrder(o, q, withCoupon, k) ==
    /\ orderStatus[o] = "none"
    /\ now + HoldTTL <= MaxTime       \* bound: the clock reaches the end of the hold
    /\ \E i \in Items : q[i] > 0
    /\ \A i \in Items : q[i] > 0 => itemStatus[i] = "available" /\ q[i] <= avail[i]
    /\ withCoupon => CouponLeftFor(o)
    /\ k <= balance[OwnerOf[o]]
    /\ orderStatus' = [orderStatus EXCEPT ![o] = "pending_payment"]
    /\ hold' = [hold EXCEPT ![o] = now + HoldTTL]
    /\ expiry' = [expiry EXCEPT ![o] = now + HoldTTL]
    /\ resv' = [resv EXCEPT ![o] = "active"]
    /\ qty' = [qty EXCEPT ![o] = q]
    /\ avail' = [i \in Items |-> avail[i] - q[i]]
    /\ itemStatus' = [i \in Items |-> IF q[i] > 0 /\ avail[i] = q[i]
                                      THEN "sold_out" ELSE itemStatus[i]]
    /\ coupon' = [coupon EXCEPT ![o] = IF withCoupon THEN "reserved" ELSE @]
    /\ reservedCount' = IF withCoupon THEN reservedCount + 1 ELSE reservedCount
    /\ loyalty' = [loyalty EXCEPT ![o] = IF k > 0 THEN "reserved" ELSE @]
    /\ points' = [points EXCEPT ![o] = k]
    /\ balance' = [balance EXCEPT ![OwnerOf[o]] = @ - k]
    /\ UNCHANGED <<now, edited, stage, payVars, event, redeemedCount, lifetimeRedeemed>>

CancelPendingOrder(o) ==
    /\ orderStatus[o] = "pending_payment"
    /\ CloseUnpaid({o}, "cancelled", ActiveOf(o), "released")
    /\ UNCHANGED <<now, payVars, event>>

\* The chef overwrites the quantity on sale.
UpdateQuantity(i, n) ==
    /\ n <= Total[i]
    /\ avail' = [avail EXCEPT ![i] = n]
    /\ itemStatus' = [itemStatus EXCEPT ![i] = IF n = 0 THEN "sold_out" ELSE "available"]
    /\ edited' = [edited EXCEPT ![i] = TRUE]
    /\ UNCHANGED <<now, orderVars, payVars, event, priceVars>>

-----------------------------------------------------------------------------
(* Payments.                                                               *)

\* A retry with the key of an existing payment returns it and changes nothing.
CreatePaymentIntent(p) ==
    LET o == PaymentOrder[p]
        deadline == hold[o]
    IN /\ payStatus[p] = "none"
       /\ orderStatus[o] = "pending_payment"
       /\ hold[o] # NoHold
       /\ deadline > now
       /\ payStatus' = [payStatus EXCEPT ![p] = "pending"]
       /\ payExpires' = [payExpires EXCEPT ![p] = AtMost(deadline, now + PaymentTTL)]
       /\ UNCHANGED <<now, stockVars, orderVars, refunded, refund, event, priceVars>>

\* The provider knows payment p and emits an event about it, at any time: the
\* checkout page stays open whatever happens to the order.
ProviderSends(p, t) ==
    /\ payStatus[p] # "none"
    /\ event[<<p, t>>] = "unsent"
    /\ event' = [event EXCEPT ![<<p, t>>] = "sent"]
    /\ UNCHANGED <<now, stockVars, orderVars, payVars, priceVars>>

\* Every reservation of the order is live.
StillReserved(o) == resv[o] = "active"     \* seeded fault
HoldLive(o) == resv[o] = "active" /\ expiry[o] > now

\* _apply_payment_success past its early return.  The guards are the 409s,
\* after which the transaction is rolled back, webhook row included.
ApplyPaymentSuccess(p) ==
    LET o == PaymentOrder[p]
    IN /\ orderStatus[o] = "pending_payment"
       /\ HoldLive(o)
       /\ ApplyBenefits(o)
       /\ payStatus' = [payStatus EXCEPT ![p] = "succeeded"]
       /\ resv' = [resv EXCEPT ![o] = "converted"]
       /\ orderStatus' = [orderStatus EXCEPT ![o] = "confirmed"]
       /\ hold' = [hold EXCEPT ![o] = NoHold]
       /\ UNCHANGED <<stockVars, qty, expiry, stage, payExpires, refunded, refund>>

\* A failed payment ends the order only while it waits for payment.
ClosesAnyOrder(o) == TRUE     \* seeded fault
ClosesOrder(o) == orderStatus[o] = "pending_payment"

\* _apply_payment_failure past its early returns.
ApplyPaymentFailure(p, status) ==
    LET o == PaymentOrder[p]
    IN /\ payStatus' = [payStatus EXCEPT ![p] = status]
       /\ IF ClosesOrder(o)
          THEN CloseUnpaid({o}, "expired", ActiveOf(o), "released")
          ELSE UNCHANGED <<stockVars, orderVars, priceVars>>
       /\ UNCHANGED <<payExpires, refunded, refund>>

\* A payment with one of these statuses is past failing.
FailureKnown == {"failed", "cancelled"}     \* seeded fault
FailureIgnored == {"failed", "cancelled", "succeeded"}

FailureTypes == {"payment.failed", "payment.cancelled"}
SettledBy(t) == IF t = "payment.cancelled" THEN "cancelled" ELSE "failed"

\* process_webhook.  An event id whose row exists is a duplicate and changes
\* nothing; an event can arrive late and out of order.
ProcessWebhook(p, t) ==
    /\ event[<<p, t>>] = "sent"
    /\ event' = [event EXCEPT ![<<p, t>>] = IF t = "mismatch" THEN "failed" ELSE "processed"]
    /\ \/ /\ \/ t = "mismatch"
             \/ t = "payment.succeeded" /\ payStatus[p] = "succeeded"
             \/ t \in FailureTypes /\ payStatus[p] \in FailureIgnored
          /\ UNCHANGED <<stockVars, orderVars, payVars, priceVars>>
       \/ /\ t = "payment.succeeded"
          /\ payStatus[p] # "succeeded"
          /\ ApplyPaymentSuccess(p)
       \/ /\ t \in FailureTypes
          /\ payStatus[p] \notin FailureIgnored
          /\ ApplyPaymentFailure(p, SettledBy(t))
    /\ UNCHANGED now

\* The maintenance job "payments.expire_pending".
ExpirePendingPayments ==
    LET late == {p \in Payments : payStatus[p] = "pending" /\ payExpires[p] <= now}
    IN /\ late # {}
       /\ payStatus' = [p \in Payments |-> IF p \in late THEN "expired" ELSE payStatus[p]]
       /\ UNCHANGED <<now, stockVars, orderVars, payExpires, refunded, refund, event, priceVars>>

-----------------------------------------------------------------------------
(* Refunds and the chef's answer.                                          *)

WholeAmount(p) == AmountOf(p)     \* seeded fault
Remaining(p) == AmountOf(p) - refunded[p]

\* The refund row and its effect; `ok` is the provider's answer.
RecordRefund(p, k, n, ok) ==
    /\ refund' = [refund EXCEPT ![p][k] =
                    [status |-> IF ok THEN "succeeded" ELSE "failed", amount |-> n]]
    /\ refunded' = [refunded EXCEPT ![p] = IF ok THEN @ + n ELSE @]

\* An administrator's refund of n of payment p with key k.
CreateRefund(p, k, n, ok) ==
    /\ orderStatus[PaymentOrder[p]] = "confirmed"
    /\ payStatus[p] = "succeeded"
    /\ refund[p][k].status = "none"
    /\ n <= Remaining(p)
    /\ RecordRefund(p, k, n, ok)
    /\ UNCHANGED <<now, stockVars, orderVars, payStatus, payExpires, event, priceVars>>

\* sync_queue and detail create the fulfillment row of a confirmed order.
EnsureFulfillment(o) ==
    /\ stage[o] = "none"
    /\ orderStatus[o] = "confirmed"
    /\ stage' = [stage EXCEPT ![o] = "new"]
    /\ UNCHANGED <<now, stockVars, orderStatus, hold, resv, qty, expiry, payVars, event, priceVars>>

\* The chef accepts, the fulfillment row being created on the way if missing.
Accept(o) ==
    /\ orderStatus[o] = "confirmed"
    /\ stage[o] \in {"none", "new"}
    /\ orderStatus' = [orderStatus EXCEPT ![o] = "accepted_by_chef"]
    /\ stage' = [stage EXCEPT ![o] = "accepted"]
    /\ UNCHANGED <<now, stockVars, hold, resv, qty, expiry, payVars, event, priceVars>>

\* The refund that reject asks for: everything that remains, unless a row with
\* the key exists already.
RejectionRefund(p, ok) ==
    IF Remaining(p) > 0 /\ refund[p][ChefRejectKey].status = "none"
    THEN RecordRefund(p, ChefRejectKey, Remaining(p), ok)
    ELSE UNCHANGED <<refund, refunded>>

\* The chef rejects a paid order.  The answer of the provider is recorded in
\* the refund row and not looked at: the order is cancelled either way.
Reject(o, ok) ==
    /\ orderStatus[o] = "confirmed"
    /\ stage[o] \in {"none", "new"}
    /\ \E p \in SucceededPayments(o) : RejectionRefund(p, ok)
    /\ ReleaseInventory({x \in {o} : resv[x] = "converted"})
    /\ resv' = [resv EXCEPT ![o] = IF @ = "converted" THEN "released" ELSE @]
    /\ orderStatus' = [orderStatus EXCEPT ![o] = "cancelled"]
    /\ stage' = [stage EXCEPT ![o] = "rejected"]
    /\ UNCHANGED <<now, hold, qty, expiry, payStatus, payExpires, event, priceVars>>

Next ==
    \/ Tick
    \/ ReleaseExpiredHolds
    \/ \E o \in Carts, q \in [Items -> 0..MaxPerOrder], c \in BOOLEAN, k \in 0..MaxPoints :
            CreatePendingOrder(o, q, c, k)
    \/ \E o \in Orders : CancelPendingOrder(o)
    \/ \E i \in EditableItems : \E n \in 0..Total[i] : UpdateQuantity(i, n)
    \/ \E p \in Payments : CreatePaymentIntent(p)
    \/ \E p \in Payments, t \in SentTypes : ProviderSends(p, t)
    \/ \E p \in Payments, t \in SentTypes : ProcessWebhook(p, t)
    \/ ExpirePendingPayments
    \/ \E p \in Payments, k \in RefundKeys \ {ChefRejectKey}, ok \in BOOLEAN :
          \E n \in 1..AmountOf(p) : CreateRefund(p, k, n, ok)
    \/ \E o \in Orders : EnsureFulfillment(o)
    \/ \E o \in Orders : Accept(o)
    \/ \E o \in Orders, ok \in BOOLEAN : Reject(o, ok)

Spec == Init /\ [][Next]_vars

\* The worker schedules the hold expiry every minute and time passes.
Fairness == WF_vars(Tick) /\ WF_vars(ReleaseExpiredHolds)
FairSpec == Spec /\ Fairness

-----------------------------------------------------------------------------
(* Properties.                                                             *)

StockTypeOK ==
    /\ avail \in [Items -> Nat] /\ \A i \in Items : avail[i] <= Total[i]
    /\ itemStatus \in [Items -> ItemStatuses]
    /\ edited \in [Items -> BOOLEAN]

OrderTypeOK ==
    /\ orderStatus \in [Orders -> OrderStatuses]
    /\ hold \in [Orders -> Nat \cup {NoHold}]
    /\ resv \in [Orders -> ResvStatuses]
    /\ qty \in [Orders -> [Items -> 0..MaxPerOrder]]
    /\ expiry \in [Orders -> Nat]
    /\ stage \in [Orders -> Stages]

PayTypeOK ==
    /\ payStatus \in [Payments -> PayStatuses]
    /\ payExpires \in [Payments -> Nat]
    /\ refunded \in [Payments -> Nat] /\ \A p \in Payments : refunded[p] <= AmountOf(p)
    /\ refund \in [Payments -> [RefundKeys -> RefundRows]]

PriceTypeOK ==
    /\ coupon \in [Orders -> Benefits]
    /\ reservedCount \in Nat /\ redeemedCount \in Nat
    /\ loyalty \in [Orders -> Benefits]
    /\ points \in [Orders -> 0..MaxPoints]
    /\ balance \in [Customers -> Nat]
    /\ lifetimeRedeemed \in [Customers -> Nat]

\* Every column keeps its type and its range, whatever handlers race for it (the
\* CHECK constraints of the tables included: quantity_available between 0 and
\* quantity_total, refunded_minor between 0 and amount_minor).
TypeOK ==
    /\ now \in 0..MaxTime
    /\ event \in [Payments \X EventTypes -> EventStatuses]
    /\ StockTypeOK
    /\ OrderTypeOK
    /\ PayTypeOK
    /\ PriceTypeOK

Holders == {o \in Orders : resv[o] \in {"active", "converted"}}

StockConserved ==
    \A i \in Items : ~edited[i] =>
        avail[i] + Cardinality(Portions(i, Holders)) = Total[i]

SoldOutIffEmpty == \A i \in Items : itemStatus[i] = "sold_out" <=> avail[i] = 0

\* reserve_inventory, release_inventory and the status updates around them
\* neither lose a portion nor sell one twice: what is on sale and what unpaid
\* holds and paid orders have is the chef's quantity, unless the chef has
\* overwritten the quantity herself.  And an item is sold out exactly when
\* nothing of it is on sale, whichever handler moved the quantity last.
StockExact == StockConserved /\ SoldOutIffEmpty

\* An order waiting for payment has its portions on hold until the moment its
\* own hold column names, is not paid, and has spent no coupon or points.
PendingOrderHeld ==
    \A o \in Orders : orderStatus[o] = "pending_payment" =>
        /\ resv[o] = "active" /\ hold[o] = expiry[o]
        /\ SucceededPayments(o) = {}
        /\ {coupon[o], loyalty[o]} \cap {"applied", "released"} = {}

\* An order the chef may cook is paid by exactly one payment, whatever failed,
\* expired or came late besides, and its portions and benefits are final.
ConfirmedOrderPaidOnce ==
    \A o \in Orders : orderStatus[o] \in {"confirmed", "accepted_by_chef"} =>
        /\ \E p \in PaymentsOf(o) : SucceededPayments(o) = {p}
        /\ resv[o] = "converted" /\ hold[o] = NoHold
        /\ {coupon[o], loyalty[o]} \cap {"reserved", "released"} = {}

\* An order that ended holds no portion and reserves no benefit; it took money
\* or spent benefits only when the chef rejected it after payment.
ClosedOrderHoldsNothing ==
    \A o \in Orders : orderStatus[o] \in {"cancelled", "expired"} =>
        /\ resv[o] \in {"released", "expired"} /\ hold[o] = NoHold
        /\ {coupon[o], loyalty[o]} \cap {"reserved"} = {}
        /\ stage[o] # "rejected" =>
              SucceededPayments(o) = {} /\ {coupon[o], loyalty[o]} \cap {"applied"} = {}

CouponCountsExact ==
    /\ reservedCount = Cardinality({o \in Orders : coupon[o] = "reserved"})
    /\ redeemedCount = Cardinality({o \in Orders : coupon[o] = "applied"})
    /\ reservedCount + redeemedCount <= CouponLimit

WithPoints(status) == {o \in Orders : loyalty[o] = status}

PointsConserved ==
    \A c \in Customers :
        /\ balance[c] + Cardinality(PointsOf(c, WithPoints("reserved")))
                      + Cardinality(PointsOf(c, WithPoints("applied"))) = InitialPoints
        /\ lifetimeRedeemed[c] = Cardinality(PointsOf(c, WithPoints("applied")))

\* The coupon's counters are its redemption rows, counted, and pending checkouts
\* cannot overbook the campaign.  No loyalty point is lost or spent twice: a
\* customer's balance and the points that orders reserve or have spent add up,
\* and the lifetime total is what was spent.
BenefitsExact == CouponCountsExact /\ PointsConserved

RefundedUnits(p) ==
    {u \in RefundKeys \X (1..AmountOf(p)) :
        refund[p][u[1]].status = "succeeded" /\ u[2] <= refund[p][u[1]].amount}

\* Whatever mix of partial refunds and a chef's rejection, the money recorded as
\* refunded is the sum of the refunds that succeeded, never more than was paid,
\* and only on a payment that succeeded.
RefundsAddUp ==
    \A p \in Payments :
        /\ refunded[p] = Cardinality(RefundedUnits(p))
        /\ refunded[p] <= AmountOf(p)
        /\ refunded[p] > 0 => payStatus[p] = "succeeded"

\* A rejected order has got its money back (docs/FULFILLMENT_DOMAIN.md:57-58).
RejectedOrderRefunded ==
    \A o \in Orders : stage[o] = "rejected" =>
        \A p \in SucceededPayments(o) : refunded[p] = AmountOf(p)

\* A late, duplicated or reordered event or job never takes back a payment that
\* succeeded, nor money that was refunded.
SuccessIsFinal ==
    [][\A p \in Payments :
         /\ payStatus[p] = "succeeded" => payStatus'[p] = "succeeded"
         /\ refunded'[p] >= refunded[p]]_vars

OrderSteps ==
    {<<"none", "pending_payment">>, <<"pending_payment", "confirmed">>,
     <<"pending_payment", "cancelled">>, <<"pending_payment", "expired">>,
     <<"confirmed", "accepted_by_chef">>, <<"confirmed", "cancelled">>}

\* No payment, retry or sweep reopens an order or pulls a paid one back: it
\* takes only the documented steps, and from `confirmed` only the chef moves it.
OrderMovesForward ==
    [][\A o \in Orders : orderStatus'[o] # orderStatus[o] =>
         /\ <<orderStatus[o], orderStatus'[o]>> \in OrderSteps
         /\ orderStatus[o] = "confirmed" => stage'[o] \in {"accepted", "rejected"}]_vars

\* How an order that is over has ended: after payment by the chef, by its hold's end,
\* or before it.
EndOf(o) ==
    IF stage[o] = "rejected" THEN "rejected"
    ELSE IF resv[o] = "expired" THEN "lapsed" ELSE "withdrawn"

StateOf(o) ==
    CASE orderStatus[o] = "none"             -> "nothing"
      [] orderStatus[o] = "pending_payment"  -> "held"
      [] orderStatus[o] = "confirmed"        -> "paid"
      [] orderStatus[o] = "accepted_by_chef" -> "accepted"
      [] OTHER                               -> EndOf(o)

KeptFor(o) == IF resv[o] \in {"active", "converted"} THEN qty[o] ELSE [i \in Items |-> 0]

Contract == INSTANCE OrderContract WITH
    Price <- OrderTotal, MostPortions <- MaxPerOrder, Never <- NoHold,
    state <- [o \in Orders |-> StateOf(o)],
    until <- hold,
    portions <- [o \in Orders |-> KeptFor(o)],
    charges <- [o \in Orders |-> SucceededPayments(o)],
    returned <- refunded

\* What the handlers do to an order's status, hold, reservation, payments and refunds
\* is what its customer was promised: portions kept until the moment named at checkout
\* (docs/ORDER_DOMAIN.md, Inventory Reservation), one charge, made in time, and no end
\* after it but the chef's.  Among other things no payment, retry or sweep reopens an
\* order or pulls a paid one back.
KeepsContract == Contract!Spec

\* A checkout always ends: an order does not hold portions for ever.
PendingSettles ==
    \A o \in Orders : orderStatus[o] = "pending_payment" ~> orderStatus[o] # "pending_payment"
=============================================================================
