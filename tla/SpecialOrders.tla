--------------------------- MODULE SpecialOrders ---------------------------
(***************************************************************************)
(* Special orders of one chef: a customer asks for a dish on a future      *)
(* date, the chef accepts it or makes a counter offer, the customer pays   *)
(* the agreed quote before it expires and the request is scheduled on the  *)
(* chef's calendar.                                                        *)
(*                                                                         *)
(* A handler reads the rows, checks them and collects attribute writes in  *)
(* its session; they reach the database when it commits.  No row is locked *)
(* and no write is guarded, so txn[r] holds the writes the handler of      *)
(* request r will commit, computed from what it read, and other handlers   *)
(* may commit in between.  The reads of one handler are one step here.     *)
(* The job that expires offers runs in the request `worker'.               *)
(***************************************************************************)
EXTENDS Integers, FiniteSets

CONSTANTS
    Rows,           \* special_order_requests that may be created
    Dates,          \* service dates
    OverrideDates,  \* those whose override the chef edits
    WeekdayOf,      \* the weekday of each date
    MaxCapacity,    \* largest max_special_orders a chef enters
    OrderIds,       \* ids that checkouts draw for the orders they create
    Keys,           \* idempotency keys of payment intents
    Clients,        \* requests of customers, the chef and the provider at once
    OfferWindow,    \* special_order_payment_window_minutes
    Horizon,        \* bound on the clock
    None            \* NULL

\* NULL is no id of an order and no date.
ASSUME NullAssumption == None \notin OrderIds /\ None \notin Dates
ASSUME RowsAssumption == IsFiniteSet(Rows)
ASSUME DatesAssumption == OverrideDates \subseteq Dates
ASSUME WindowAssumption == OfferWindow \in Nat

VARIABLES
    clock,
    weekly,         \* chef_weekly_schedules: capacity by weekday, 0 when closed
    override,       \* chef_schedule_overrides, by date
    req,            \* special_order_requests
    ord,            \* orders.status of the special orders
    pay,            \* payments
    txn             \* uncommitted writes of each open handler

Slots == Clients \cup {"worker"}

spVars == <<clock, weekly, override, req, ord, pay, txn>>

ActiveStatuses == {"chef_review", "counter_offer", "awaiting_payment", "scheduled"}
Closed == {"rejected", "cancelled", "expired"}

\* A write set: per table, the new columns of the rows it changes.
Idle == [req |-> <<>>, ord |-> <<>>, pay |-> <<>>, weekly |-> <<>>, override |-> <<>>]

\* The write to the row or column k alone.
Only(k, v) == [x \in {k} |-> v]

\* What a write leaves: the new values over those that were there.
Over(new, old) ==
    [k \in DOMAIN new \cup DOMAIN old |-> IF k \in DOMAIN new THEN new[k] ELSE old[k]]

NoRequest == [status |-> "none", requested |-> None, proposed |-> None,
              final |-> None, offer |-> 0, order |-> None]
NoPayment == [status |-> "none", order |-> None]
NoOverride == [open |-> FALSE, cap |-> None, set |-> FALSE]

Init ==
    /\ clock = 0
    /\ weekly \in [{WeekdayOf[d] : d \in Dates} -> 0..MaxCapacity]
    /\ override = [d \in Dates |-> NoOverride]
    /\ req = [s \in Rows |-> NoRequest]
    /\ ord = [o \in OrderIds |-> "none"]
    /\ pay = [p \in Keys |-> NoPayment]
    /\ txn = [r \in Slots |-> Idle]

Begin(r, w) ==
    /\ txn[r] = Idle
    /\ txn' = [txn EXCEPT ![r] = w]
    /\ UNCHANGED <<clock, weekly, override, req, ord, pay>>

-----------------------------------------------------------------------------
(* The calendar.                                                           *)

\* A date's override beats the rule of its weekday, and inherits its capacity.
Capacity(d) ==
    LET inherited == weekly[WeekdayOf[d]]
        own == override[d]
    IN CASE ~own.set -> inherited
         [] own.set /\ ~own.open -> 0
         [] own.set /\ own.open /\ own.cap = None -> inherited
         [] OTHER -> own.cap

EffectiveDate(s) ==
    CASE req[s].final # None -> req[s].final
      [] req[s].final = None /\ req[s].proposed # None -> req[s].proposed
      [] OTHER -> req[s].requested

\* Requests, other than those of S, that take a place of date d.
UsedBy(S, d) == {s \in Rows \ S : req[s].status \in ActiveStatuses /\ EffectiveDate(s) = d}

AnyOpenDay(d, s) == Capacity(d) > 0     \* seeded fault
Schedulable(d, s) == Cardinality(UsedBy({s}, d)) < Capacity(d)

\* The chef edits the rule of a weekday or the override of a date, without a
\* look at the requests.
UpsertWeeklySchedule(r, w, n) ==
    /\ weekly[w] # n
    /\ Begin(r, [Idle EXCEPT !.weekly = Only(w, n)])

UpsertOverride(r, d, open, n) ==
    Begin(r, [Idle EXCEPT !.override = Only(d, [open |-> open, cap |-> n, set |-> TRUE])])

-----------------------------------------------------------------------------
(* The negotiation.  The refusals for notice, horizon, window and dish     *)
(* change nothing, so they are the choice not to take the action.          *)

Change(s, columns) == [Idle EXCEPT !.req = Only(s, columns)]

CreateRequest(r, s, d) ==
    /\ req[s].status = "none"
    /\ \A q \in Slots : s \notin DOMAIN txn[q].req     \* a fresh uuid
    /\ Schedulable(d, s)
    /\ Begin(r, Change(s, [status |-> "chef_review", requested |-> d]))

ChefAccept(r, s) ==
    /\ req[s].status = "chef_review"
    /\ Schedulable(req[s].requested, s)
    /\ clock + OfferWindow <= Horizon       \* bound: the offer can expire
    /\ Begin(r, Change(s, [status |-> "awaiting_payment", final |-> req[s].requested,
                           offer |-> clock + OfferWindow]))

ChefCounterOffer(r, s, d) ==
    /\ req[s].status = "chef_review"
    /\ Schedulable(d, s)
    /\ Begin(r, Change(s, [status |-> "counter_offer", proposed |-> d]))

ChefReject(r, s) ==
    /\ req[s].status \in {"chef_review", "counter_offer"}
    /\ Begin(r, Change(s, [status |-> "rejected"]))

AcceptCounterOffer(r, s) ==
    /\ req[s].status = "counter_offer"
    /\ Schedulable(req[s].proposed, s)
    /\ clock + OfferWindow <= Horizon       \* bound: the offer can expire
    /\ Begin(r, Change(s, [status |-> "awaiting_payment", final |-> req[s].proposed,
                           offer |-> clock + OfferWindow]))

\* The order of a request that ends, while it still waits for payment.
OrderClosed(S, status) ==
    [o \in {req[s].order : s \in S} \ {None} |->
        IF ord[o] = "pending_payment" THEN status ELSE ord[o]]

Cancel(r, s) ==
    /\ req[s].status \in {"chef_review", "counter_offer", "awaiting_payment"}
    /\ Begin(r, [Change(s, [status |-> "cancelled"])
                 EXCEPT !.ord = OrderClosed({s}, "cancelled")])

-----------------------------------------------------------------------------
(* The bridge to orders and payments.                                      *)

\* checkout of a request that has no order yet.  It commits the order before
\* it asks for a payment intent.
Checkout(r, s, o) ==
    /\ req[s].status = "awaiting_payment"
    /\ req[s].offer > clock
    /\ req[s].order = None
    /\ ord[o] = "none" /\ \A q \in Slots : o \notin DOMAIN txn[q].ord   \* a fresh uuid
    /\ Begin(r, [Change(s, [order |-> o]) EXCEPT !.ord = Only(o, "pending_payment")])

\* The request an order belongs to, if any.
RequestsOf(o) == {s \in Rows : req[s].order = o}
Payable(o) ==
    /\ ord[o] = "pending_payment"
    /\ \E s \in RequestsOf(o) : req[s].status = "awaiting_payment" /\ req[s].offer > clock

\* create_payment_intent, by the same checkout, a second one or the payment screen.
CreatePaymentIntent(r, o, p) ==
    /\ Payable(o)
    /\ pay[p].status = "none"
    /\ Begin(r, [Idle EXCEPT !.pay = Only(p, [status |-> "pending", order |-> o])])

\* _apply_payment_success for a special order; the provider's event may be late.
ApplyPaymentSuccess(r, p) ==
    LET o == pay[p].order
    IN /\ pay[p].status \notin {"none", "succeeded"}
       /\ Payable(o)
       /\ Begin(r, [Idle EXCEPT !.req = [s \in RequestsOf(o) |-> [status |-> "scheduled"]],
                                !.ord = Only(o, "accepted_by_chef"),
                                !.pay = Only(p, [status |-> "succeeded"])])

\* A failed attempt leaves the order open: the customer tries again.
OrderExpires(o) == Only(o, "expired")     \* seeded fault
OrderKept(o) == <<>>
ApplyPaymentFailure(r, p) ==
    /\ pay[p].status = "pending"
    /\ Begin(r, [Idle EXCEPT !.ord = OrderKept(pay[p].order),
                             !.pay = Only(p, [status |-> "failed"])])

\* cancel_pending_order of the orders service.
CancelPendingOrder(r, o) ==
    LET S == {s \in RequestsOf(o) : req[s].status \in {"awaiting_payment", "counter_offer"}}
    IN /\ ord[o] = "pending_payment"
       /\ Begin(r, [Idle EXCEPT !.req = [s \in S |-> [status |-> "cancelled"]],
                                !.ord = Only(o, "cancelled")])

\* expire_due_requests: a job of every minute, and the first commit of the
\* customer's and the chef's lists and of checkout.
NeverDue == {}     \* seeded fault
Due == {s \in Rows : req[s].status = "awaiting_payment" /\ req[s].offer <= clock}
ExpireDueRequests(r) ==
    /\ Due # {}
    /\ Begin(r, [Idle EXCEPT !.req = [s \in Due |-> [status |-> "expired"]],
                             !.ord = OrderClosed(Due, "expired")])

\* The columns a session wrote, over the row as it is now.
Written(table, changes) ==
    [k \in DOMAIN table |-> IF k \in DOMAIN changes THEN Over(changes[k], table[k]) ELSE table[k]]

\* Two intents with one idempotency key: the unique constraint aborts the later.
DuplicateKey(w) ==
    \E p \in DOMAIN w.pay : w.pay[p].status = "pending" /\ pay[p].status # "none"

Commit(r) ==
    LET w == txn[r]
    IN /\ w # Idle
       /\ txn' = [txn EXCEPT ![r] = Idle]
       /\ IF DuplicateKey(w)
          THEN UNCHANGED <<weekly, override, req, ord, pay>>
          ELSE /\ req' = Written(req, w.req)
               /\ ord' = Over(w.ord, ord)
               /\ pay' = Written(pay, w.pay)
               /\ weekly' = Over(w.weekly, weekly)
               /\ override' = Over(w.override, override)
       /\ UNCHANGED clock

\* Time passes between two handlers and inside one.
Tick ==
    /\ clock < Horizon
    /\ clock' = clock + 1
    /\ UNCHANGED <<weekly, override, req, ord, pay, txn>>

Next ==
    \/ Tick
    \/ \E r \in Clients, w \in DOMAIN weekly, n \in 0..MaxCapacity : UpsertWeeklySchedule(r, w, n)
    \/ \E r \in Clients, d \in OverrideDates :
          \/ UpsertOverride(r, d, FALSE, None)
          \/ \E n \in (0..MaxCapacity) \cup {None} : UpsertOverride(r, d, TRUE, n)
    \/ \E r \in Clients, s \in Rows, d \in Dates : CreateRequest(r, s, d)
    \/ \E r \in Clients, s \in Rows : ChefAccept(r, s)
    \/ \E r \in Clients, s \in Rows, d \in Dates : ChefCounterOffer(r, s, d)
    \/ \E r \in Clients, s \in Rows : ChefReject(r, s)
    \/ \E r \in Clients, s \in Rows : AcceptCounterOffer(r, s)
    \/ \E r \in Clients, s \in Rows : Cancel(r, s)
    \/ \E r \in Clients, s \in Rows, o \in OrderIds : Checkout(r, s, o)
    \/ \E r \in Clients, o \in OrderIds, p \in Keys : CreatePaymentIntent(r, o, p)
    \/ \E r \in Clients, p \in Keys : ApplyPaymentSuccess(r, p)
    \/ \E r \in Clients, p \in Keys : ApplyPaymentFailure(r, p)
    \/ \E r \in Clients, o \in OrderIds : CancelPendingOrder(r, o)
    \/ \E r \in Slots : ExpireDueRequests(r)
    \/ \E r \in Slots : Commit(r)

\* The job runs every minute and every handler commits.
SpFairness ==
    /\ WF_spVars(Tick)
    /\ WF_spVars(ExpireDueRequests("worker"))
    /\ \A r \in Slots : WF_spVars(Commit(r))

-----------------------------------------------------------------------------
PaidFor(s) == {p \in Keys : pay[p].status = "succeeded" /\ pay[p].order = req[s].order}

\* Request, order and payment agree, whatever mix of expiry, cancellation from
\* either side, failed attempts and retries: a request is scheduled exactly when
\* its order is with the kitchen, paid once; nobody is charged for a request that
\* ended, and an order waits for payment only while its quote stands
\* (docs/SPECIAL_ORDER_DOMAIN.md, "Payment Success" and "Payment Failure").
PaidRequestScheduled ==
    \A s \in Rows : req[s].order # None =>
        LET o == req[s].order
        IN /\ req[s].status = "scheduled" <=> ord[o] = "accepted_by_chef"
           /\ req[s].status = "awaiting_payment" <=> ord[o] = "pending_payment"
           /\ req[s].status = "scheduled" => \E p \in Keys : PaidFor(s) = {p}
           /\ req[s].status \in Closed => PaidFor(s) = {}

\* A date never gets more requests than the chef's capacity by what customers
\* and the chef do to requests; only the chef's own edit of the calendar can
\* leave a date above it (docs/SPECIAL_ORDER_DOMAIN.md, "Capacity").
CapacityKept ==
    [][\A d \in Dates : Cardinality(UsedBy({}, d)') > Cardinality(UsedBy({}, d)) =>
          Cardinality(UsedBy({}, d)') <= Capacity(d)']_spVars

\* An offer does not wait for ever, even when handlers race for the request.
OfferSettles ==
    \A s \in Rows : req[s].status = "awaiting_payment" ~> req[s].status # "awaiting_payment"
=============================================================================
