--------------------------- MODULE LoyaltyAccount ---------------------------
(***************************************************************************)
(* The loyalty account of one customer: points reserved at checkout, spent *)
(* when the order is paid, given back when it is not, and earned when an   *)
(* order is delivered.  Checkout takes points with one guarded UPDATE; the *)
(* other handlers read the row, add in Python and write the sums back.     *)
(***************************************************************************)
EXTENDS Integers, FiniteSets

CONSTANTS
    Orders,
    Points,     \* what an order may redeem, 0 included
    Earned,     \* what an order may earn: its total and the multiplier of the plan
    Requests,   \* requests that may be open at once
    Overlaps    \* may a checkout come between the read and the write of one of them?

VARIABLES
    account,    \* loyalty_accounts: balance_points, lifetime_earned, lifetime_redeemed
    order,      \* by order: where it is, loyalty_redemptions.points, points it earns
    ledger,     \* loyalty_transactions, by idempotency key
    request     \* what each request has read and will write

laVars == <<account, order, ledger, request>>

Idle == [kind |-> "none"]
NoOrder == [status |-> "cart", points |-> 0, earns |-> 0]

Init ==
    /\ account = [balance |-> 0, earned |-> 0, redeemed |-> 0]
    /\ order = [o \in Orders |-> NoOrder]
    /\ ledger = {}
    /\ request = [q \in Requests |-> Idle]

\* reserve_for_order: the multiplier of the customer's plan is fixed here.
ReserveForOrder(o, points, earns) ==
    /\ Overlaps \/ \A q \in Requests : request[q] = Idle
    /\ order[o].status = "cart" /\ points <= account.balance
    /\ account' = [account EXCEPT !.balance = @ - points]
    /\ order' = [order EXCEPT ![o] = [status |-> "reserved", points |-> points, earns |-> earns]]
    /\ UNCHANGED <<ledger, request>>

Reads(q, kind, o, new, entry) ==
    /\ request[q] = Idle
    /\ request' = [request EXCEPT ![q] = [kind |-> kind, order |-> o, old |-> account, new |-> new, entry |-> entry]]
    /\ UNCHANGED <<account, order, ledger>>

Entry(kind, o, points) == IF points = 0 THEN {} ELSE {[key |-> <<kind, o>>, points |-> points]}

NotSpent(o) == order[o].status \in {"reserved", "unpaid"}     \* seeded fault
Reserved(o) == order[o].status = "reserved"

ApplyForPaidOrder(q, o) ==
    /\ Reserved(o)
    /\ Reads(q, "paid", o, [account EXCEPT !.redeemed = @ + order[o].points], Entry("redeem", o, -order[o].points))

ReleaseForUnpaidOrder(q, o) ==
    /\ Reserved(o)
    /\ Reads(q, "unpaid", o, [account EXCEPT !.balance = @ + order[o].points], {})

\* The key order-delivered:{id} makes the award happen once.
NotAwarded(o) == \A e \in ledger : e.key # <<"earn", o>>

AwardForDeliveredOrder(q, o) ==
    /\ order[o].status = "paid" /\ NotAwarded(o)
    /\ LET n == order[o].earns
       IN Reads(q, "delivered", o, [account EXCEPT !.balance = @ + n, !.earned = @ + n], Entry("earn", o, n))

Written(r) == [f \in DOMAIN account |-> IF r.new[f] = r.old[f] THEN account[f] ELSE r.new[f]]
Recorded(r) == \E e \in r.entry, x \in ledger : x.key = e.key
\* mark_delivered moves the order with a guarded UPDATE; the other two write what they read.
StillThere(r) == r.kind = "delivered" => order[r.order].status = "paid"

\* A key that is there already, or an order that moved on, rolls the request back.
Commit(q) ==
    LET r == request[q]
        fits == StillThere(r) /\ ~Recorded(r)
    IN /\ r.kind # "none"
       /\ account' = IF fits THEN Written(r) ELSE account
       /\ order' = IF fits THEN [order EXCEPT ![r.order].status = r.kind] ELSE order
       /\ ledger' = IF fits THEN ledger \cup r.entry ELSE ledger
       /\ request' = [request EXCEPT ![q] = Idle]

Next ==
    \/ \E q \in Requests :
          \/ Commit(q)
          \/ \E o \in Orders :
                ApplyForPaidOrder(q, o) \/ ReleaseForUnpaidOrder(q, o) \/ AwardForDeliveredOrder(q, o)
    \/ \E o \in Orders, points \in Points, earns \in Earned : ReserveForOrder(o, points, earns)

-----------------------------------------------------------------------------
\* A pair for each point that the ledger earned or redeemed, or an order holds.
EarnedPoints == UNION {{e} \X (1..e.points) : e \in ledger}
RedeemedPoints == UNION {{e} \X (1..-e.points) : e \in ledger}
HeldPoints == UNION {{o} \X (1..order[o].points) : o \in {x \in Orders : order[x].status = "reserved"}}

\* Between two requests no point is lost or made twice: the balance is what the
\* ledger earned and spent, less what unpaid orders hold, and so are the lifetime
\* totals (docs/RETENTION_DOMAIN.md:62-78, docs/PRICING_DOMAIN.md:47-53).
PointsAddUp ==
    (\A q \in Requests : request[q] = Idle) =>
        /\ account.balance = Cardinality(EarnedPoints) - Cardinality(RedeemedPoints) - Cardinality(HeldPoints)
        /\ account.earned = Cardinality(EarnedPoints)
        /\ account.redeemed = Cardinality(RedeemedPoints)
=============================================================================
