------------------------------ MODULE HoldRace ------------------------------
(***************************************************************************)
(* The rows of OrderPayment with its transactions taken apart, statement   *)
(* by statement.                                                           *)
(*                                                                         *)
(* PostgreSQL runs at READ COMMITTED and no table has a version column.  A *)
(* request reads its rows, decides in Python and writes: an UPDATE with a  *)
(* WHERE clause is evaluated on the committed row when it gets the row     *)
(* lock, but an ORM attribute is written back as the absolute value        *)
(* computed from what was read, and only if it differs from that.  A row   *)
(* that was written stays locked, and invisible to others, until commit.   *)
(*                                                                         *)
(* One item, one portion per order, one coupon that every checkout uses,   *)
(* one payment per order.  Loyalty points are left out: their rows follow  *)
(* the coupon's.                                                           *)
(***************************************************************************)
EXTENDS Integers, FiniteSets, Sequences

CONSTANTS
    Orders,
    Requests,      \* requests, webhooks and worker jobs that run at the same time
    Handlers,      \* the handlers that are in use
    Total,         \* quantity_total of the item
    CouponLimit    \* total_usage_limit of the coupon

\* The statements of each handler that touch a row others write too.
Program ==
    [checkout |-> <<"couponUpdate", "itemUpdate", "commit">>,
     intent   |-> <<"commit">>,
     succeed  |-> <<"couponRead", "couponWrite", "commit">>,
     cancel   |-> <<"itemRead", "itemWrite", "couponRead", "couponWrite", "commit">>,
     fail     |-> <<"itemRead", "itemWrite", "couponRead", "couponWrite", "commit">>,
     sweep    |-> <<"itemRead", "itemWrite", "couponRead", "couponWrite", "commit">>]

ASSUME HandlersAssumption == Handlers \subseteq DOMAIN Program
ASSUME NumbersAssumption == Total \in Nat /\ CouponLimit \in Nat

VARIABLES
    item,          \* the committed daily_menu_items row
    coupon,        \* the committed counters of the coupons row
    orderStatus, resv, payment, benefit,   \* the committed rows of each order
    late,          \* the hold of the order is past expires_at
    req            \* what each request has read and has still to do

orderRows == <<orderStatus, resv, payment, benefit>>
rows == <<item, coupon, orderRows>>
vars == <<rows, late, req>>

Idle == [todo |-> <<>>, handler |-> "none", orders |-> {}, locks |-> {}]

Init ==
    /\ item = [avail |-> Total, status |-> IF Total = 0 THEN "sold_out" ELSE "available"]
    /\ coupon = [reserved |-> 0, redeemed |-> 0]
    /\ orderStatus = [o \in Orders |-> "none"]
    /\ resv = [o \in Orders |-> "none"]
    /\ payment = [o \in Orders |-> "none"]
    /\ benefit = [o \in Orders |-> "none"]
    /\ late = [o \in Orders |-> FALSE]
    /\ req = [r \in Requests |-> Idle]

-----------------------------------------------------------------------------
(* A request starts: it reads the rows of its orders and passes the checks *)
(* on them.  A request that fails a check ends there and is no step.       *)

UnpaidOf(S) == {o \in S : orderStatus[o] = "pending_payment"}

\* `unpaid' are the orders it will take out of pending_payment, `held' those
\* whose reservation it will end; `used', read later, those whose redemption ends.
Start(r, h, S, unpaid, held) ==
    /\ h \in Handlers
    /\ req[r] = Idle
    /\ req' = [req EXCEPT ![r] =
          [todo |-> Program[h], handler |-> h, orders |-> S, unpaid |-> unpaid,
           held |-> held, used |-> {}, item |-> item, coupon |-> coupon, locks |-> {}]]
    /\ UNCHANGED <<rows, late>>

ActiveOf(S) == {o \in S : resv[o] = "active"}

\* A unique key (source_cart_id, the event id, the payment's idempotency key)
\* makes a second request for the same thing wait for the first.
Alone(h, o) == \A x \in Requests : ~(req[x].handler = h /\ o \in req[x].orders)

StartCheckout(r, o) ==
    /\ Alone("checkout", o)
    /\ orderStatus[o] = "none"
    /\ item.status = "available" /\ item.avail >= 1
    /\ coupon.reserved + coupon.redeemed < CouponLimit
    /\ Start(r, "checkout", {o}, {}, {})

StartIntent(r, o) ==
    /\ Alone("intent", o)
    /\ payment[o] = "none"
    /\ orderStatus[o] = "pending_payment" /\ ~late[o]
    /\ Start(r, "intent", {o}, {}, {})

StartSucceed(r, o) ==
    /\ Alone("succeed", o)
    /\ payment[o] \notin {"none", "succeeded"}
    /\ orderStatus[o] = "pending_payment"
    /\ resv[o] = "active" /\ ~late[o]
    /\ Start(r, "succeed", {o}, {o}, {o})

CancelsAnything == {"pending_payment", "confirmed"}     \* seeded fault
Cancellable == {"pending_payment"}

StartCancel(r, o) ==
    /\ orderStatus[o] \in Cancellable
    /\ Start(r, "cancel", {o}, {o}, ActiveOf({o}))

FailureIgnored == {"failed", "succeeded"}

StartFail(r, o) ==
    /\ Alone("fail", o)
    /\ payment[o] # "none" /\ payment[o] \notin FailureIgnored
    /\ Start(r, "fail", {o}, UnpaidOf({o}), ActiveOf(UnpaidOf({o})))

\* The orders of the reservations are read later, with "couponRead".
StartSweep(r) ==
    LET expired == {o \in Orders : resv[o] = "active" /\ late[o]}
    IN expired # {} /\ Start(r, "sweep", expired, {}, expired)

-----------------------------------------------------------------------------
(* The statements.                                                         *)

At(r, s) == req[r] # Idle /\ Head(req[r].todo) = s

Free(row) == \A x \in Requests : row \notin req[x].locks

\* Request r ends its current statement and is then q.
Step(r, q) ==
    /\ req' = [req EXCEPT ![r] = [q EXCEPT !.todo = Tail(@)]]
    /\ UNCHANGED <<rows, late>>

\* UPDATE coupons ... WHERE reserved_count + redeemed_count < limit.
CouponWasOpen(r) == req[r].coupon.reserved + req[r].coupon.redeemed < CouponLimit   \* seeded fault
CouponOpen(r) == coupon.reserved + coupon.redeemed < CouponLimit

CouponUpdate(r) ==
    /\ At(r, "couponUpdate") /\ Free("coupon") /\ CouponOpen(r)
    /\ Step(r, [req[r] EXCEPT !.coupon = [coupon EXCEPT !.reserved = @ + 1],
                              !.locks = @ \cup {"coupon"}])

\* UPDATE daily_menu_items ... WHERE status = 'available' AND
\* quantity_available >= quantity; then the item in memory, as it was read, less
\* the portion, says whether it is sold out.
WasOnSale(r) == req[r].item.avail >= 1     \* seeded fault
OnSale(r) == item.status = "available" /\ item.avail >= 1

ItemUpdate(r) ==
    /\ At(r, "itemUpdate") /\ Free("item") /\ OnSale(r)
    /\ Step(r, [req[r] EXCEPT
          !.item = [avail |-> item.avail - 1,
                    status |-> IF @.avail = 1 THEN "sold_out" ELSE item.status],
          !.locks = @ \cup {"item"}])

\* release_inventory: SELECT the item ...
ItemRead(r) ==
    /\ At(r, "itemRead")
    /\ Step(r, [req[r] EXCEPT !.item = item])

\* ... and write the columns that changed.
ItemWrite(r) ==
    LET q == req[r]
        sum == q.item.avail + Cardinality(q.held)
        avail == IF sum > Total THEN Total ELSE sum
        resumes == q.held # {} /\ q.item.status = "sold_out" /\ avail > 0
    IN /\ At(r, "itemWrite")
       /\ IF avail = q.item.avail /\ ~resumes
          THEN Step(r, q)
          ELSE /\ Free("item")
               /\ Step(r, [q EXCEPT
                    !.item = [avail |-> IF avail # q.item.avail THEN avail ELSE item.avail,
                              status |-> IF resumes THEN "available" ELSE item.status],
                    !.locks = @ \cup {"item"}])

CouponRead(r) ==
    LET unpaid == IF req[r].handler = "sweep" THEN UnpaidOf(req[r].orders) ELSE req[r].unpaid
    IN /\ At(r, "couponRead")
       /\ Step(r, [req[r] EXCEPT
             !.coupon = coupon,
             !.unpaid = unpaid,
             !.used = {o \in unpaid : benefit[o] = "reserved"}])

\* How many uses of the coupon a request ends.
NotCounted(q) == 0     \* seeded fault
Ended(q) == Cardinality(q.used)

\* release_for_unpaid_order or apply_for_paid_order writes the counters.
CouponWrite(r) ==
    LET q == req[r]
        n == Ended(q)
        reserved == IF q.coupon.reserved > n THEN q.coupon.reserved - n ELSE 0
        changed == reserved # q.coupon.reserved
        paid == q.handler = "succeed"
    IN /\ At(r, "couponWrite")
       /\ IF n = 0 \/ (~changed /\ ~paid)
          THEN Step(r, q)
          ELSE /\ Free("coupon")
               /\ Step(r, [q EXCEPT
                    !.coupon = [reserved |-> IF changed THEN reserved ELSE coupon.reserved,
                                redeemed |-> IF paid THEN q.coupon.redeemed + 1 ELSE coupon.redeemed],
                    !.locks = @ \cup {"coupon"}])

-----------------------------------------------------------------------------
(* Commit and rollback.                                                    *)

Put(row, S, status) == [o \in Orders |-> IF o \in S THEN status ELSE row[o]]

\* What handler h leaves in the rows of its orders.
OrderEnd == [checkout |-> "pending_payment", succeed |-> "confirmed", cancel |-> "cancelled",
             fail |-> "expired", sweep |-> "expired"]
ResvEnd == [checkout |-> "active", succeed |-> "converted", cancel |-> "released",
            fail |-> "released", sweep |-> "expired"]
BenefitEnd == [checkout |-> "reserved", succeed |-> "applied", cancel |-> "released",
               fail |-> "released", sweep |-> "released"]
PaymentEnd == [intent |-> "pending", succeed |-> "succeeded", fail |-> "failed"]

Commit(r) ==
    LET q == req[r]
        h == q.handler
        new == h = "checkout"
    IN /\ At(r, "commit")
       /\ item' = IF "item" \in q.locks THEN q.item ELSE item
       /\ coupon' = IF "coupon" \in q.locks THEN q.coupon ELSE coupon
       /\ IF h = "intent"
          THEN UNCHANGED <<orderStatus, resv, benefit>>
          ELSE /\ orderStatus' = Put(orderStatus, IF new THEN q.orders ELSE q.unpaid, OrderEnd[h])
               /\ resv' = Put(resv, IF new THEN q.orders ELSE q.held, ResvEnd[h])
               /\ benefit' = Put(benefit, IF new THEN q.orders ELSE q.used, BenefitEnd[h])
       /\ payment' = IF h \in DOMAIN PaymentEnd THEN Put(payment, q.orders, PaymentEnd[h]) ELSE payment
       /\ req' = [req EXCEPT ![r] = Idle]
       /\ UNCHANGED late

\* A 409, an error, a deadlock that the database breaks, or a process that dies.
RollBack(r) ==
    /\ req[r] # Idle
    /\ req' = [req EXCEPT ![r] = Idle]
    /\ UNCHANGED <<rows, late>>

\* The ten minutes of a hold pass.
HoldExpires(o) ==
    /\ resv[o] = "active" /\ ~late[o]
    /\ late' = [late EXCEPT ![o] = TRUE]
    /\ UNCHANGED <<rows, req>>

Next ==
    \/ \E r \in Requests, o \in Orders :
          StartCheckout(r, o) \/ StartIntent(r, o) \/ StartSucceed(r, o)
             \/ StartCancel(r, o) \/ StartFail(r, o)
    \/ \E r \in Requests : StartSweep(r)
    \/ \E r \in Requests :
          CouponUpdate(r) \/ ItemUpdate(r) \/ ItemRead(r) \/ ItemWrite(r)
             \/ CouponRead(r) \/ CouponWrite(r) \/ Commit(r) \/ RollBack(r)
    \/ \E o \in Orders : HoldExpires(o)

Spec == Init /\ [][Next]_vars

-----------------------------------------------------------------------------
(* Properties.                                                             *)

Holders == {o \in Orders : resv[o] \in {"active", "converted"}}
Uses == {o \in Orders : benefit[o] \in {"reserved", "applied"}}

\* The statements of the handlers, run one after the other with failures between
\* any two of them, keep the item row and the coupon row equal to what the rows
\* of the orders add up to, and sold_out equal to an empty quantity.
CountersExact ==
    /\ item.avail + Cardinality(Holders) = Total
    /\ item.status = "sold_out" <=> item.avail = 0
    /\ coupon.reserved = Cardinality({o \in Orders : benefit[o] = "reserved"})
    /\ coupon.redeemed = Cardinality({o \in Orders : benefit[o] = "applied"})

\* If two customers try to buy the last portion at the same moment only one can
\* succeed (docs/ORDER_DOMAIN.md:49): no more portions are held than there are.
NoOversell == Cardinality(Holders) <= Total

\* Pending checkouts cannot overbook the campaign cap (docs/PRICING_DOMAIN.md:33).
CouponNotOverbooked == Cardinality(Uses) <= CouponLimit

\* An order can be cancelled, and a hold can run out, only before payment
\* (orders/service.py:770): a payment that succeeded has a confirmed order with
\* its portions converted.
PaidOrderStands ==
    \A o \in Orders : payment[o] = "succeeded" =>
        orderStatus[o] = "confirmed" /\ resv[o] = "converted"

\* Never downgrade a succeeded payment (payments/service.py:563).
SuccessIsFinal ==
    [][\A o \in Orders : payment[o] = "succeeded" => payment'[o] = "succeeded"]_vars
=============================================================================
