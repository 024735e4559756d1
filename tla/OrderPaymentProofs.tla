------------------------ MODULE OrderPaymentProofs ------------------------
(***************************************************************************)
(* What OrderPayment guarantees for any number of carts, items, payments,  *)
(* refund keys and customers.                                              *)
(***************************************************************************)
EXTENDS OrderPayment, FiniteSetTheorems, TLAPS

(***************************************************************************)
(* Counting portions and points.                                           *)
(***************************************************************************)

\* A set of orders holds a finite number of portions of an item and of points.
LEMMA UnitsFinite ==
    ASSUME NEW S \in SUBSET Orders
    PROVE  /\ \A i : IsFiniteSet(Portions(i, S)) /\ Cardinality(Portions(i, S)) \in Nat
           /\ \A c : IsFiniteSet(PointsOf(c, S)) /\ Cardinality(PointsOf(c, S)) \in Nat
           /\ IsFiniteSet(S) /\ Cardinality(S) \in Nat
<1>1. IsFiniteSet(S) /\ Cardinality(S) \in Nat
  BY FS_Subset, FS_CardinalityType, FiniteAssumption
<1>2. IsFiniteSet(1..MaxPerOrder) /\ IsFiniteSet(1..MaxPoints)
  BY FS_Interval, NumbersAssumption
<1>3. IsFiniteSet(S \X (1..MaxPerOrder)) /\ IsFiniteSet(S \X (1..MaxPoints))
  BY <1>1, <1>2, FS_Product
<1>4. ASSUME NEW i
      PROVE  IsFiniteSet(Portions(i, S)) /\ Cardinality(Portions(i, S)) \in Nat
  <2>1. Portions(i, S) \in SUBSET (S \X (1..MaxPerOrder))
    BY DEF Portions
  <2>. QED  BY <2>1, <1>3, FS_Subset, FS_CardinalityType
<1>5. ASSUME NEW c
      PROVE  IsFiniteSet(PointsOf(c, S)) /\ Cardinality(PointsOf(c, S)) \in Nat
  <2>1. PointsOf(c, S) \in SUBSET (S \X (1..MaxPoints))
    BY DEF PointsOf
  <2>. QED  BY <2>1, <1>3, FS_Subset, FS_CardinalityType
<1>. QED  BY <1>1, <1>4, <1>5

(***************************************************************************)
(* Types.                                                                  *)
(***************************************************************************)

LEMMA AmountType ==
    ASSUME NEW p \in Payments
    PROVE  PaymentOrder[p] \in Orders /\ AmountOf(p) \in Nat
  BY SetsAssumption, NumbersAssumption DEF AmountOf

\* Giving portions back keeps the stock within its columns' ranges.
LEMMA ReleaseInventoryType ==
    ASSUME StockTypeOK, NEW S \in SUBSET Orders, ReleaseInventory(S)
    PROVE  StockTypeOK'
<1>1. ASSUME NEW i \in Items
      PROVE  avail'[i] \in Nat /\ avail'[i] <= Total[i]
  <2>1. Cardinality(Portions(i, S)) \in Nat  BY UnitsFinite
  <2>2. avail[i] \in Nat /\ Total[i] \in Nat  BY NumbersAssumption DEF StockTypeOK
  <2>. QED  BY <2>1, <2>2 DEF ReleaseInventory, AtMost
<1>2. avail' \in [Items -> Nat] /\ \A i \in Items : avail'[i] <= Total[i]
  BY <1>1 DEF ReleaseInventory
<1>3. itemStatus' \in [Items -> ItemStatuses]
  BY DEF ReleaseInventory, StatusAfterRelease, StockTypeOK, ItemStatuses
<1>. QED  BY <1>2, <1>3 DEF ReleaseInventory, StockTypeOK

\* So does giving benefits back.
LEMMA ReleaseBenefitsType ==
    ASSUME PriceTypeOK, NEW S \in SUBSET Orders, ReleaseBenefits(S)
    PROVE  PriceTypeOK'
<1>. DEFINE C == {o \in S : coupon[o] = "reserved"}
            L == {o \in S : loyalty[o] = "reserved"}
<1>1. Cardinality(C) \in Nat /\ \A c : Cardinality(PointsOf(c, L)) \in Nat
  BY UnitsFinite
<1>2. reservedCount' \in Nat
  <2>1. reservedCount' = Minus(reservedCount, Cardinality(C))
    BY DEF ReleaseBenefits
  <2>. HIDE DEF C
  <2>. QED  BY <1>1, <2>1 DEF Minus, PriceTypeOK
<1>3. balance' \in [Customers -> Nat]
  <2>1. balance' = [c \in Customers |-> balance[c] + Cardinality(PointsOf(c, L))]
    BY DEF ReleaseBenefits
  <2>. HIDE DEF L
  <2>. QED  BY <1>1, <2>1 DEF PriceTypeOK
<1>4. coupon' \in [Orders -> Benefits] /\ loyalty' \in [Orders -> Benefits]
  BY DEF ReleaseBenefits, Released, PriceTypeOK, Benefits
<1>. QED  BY <1>2, <1>3, <1>4 DEF ReleaseBenefits, PriceTypeOK

\* Closing unpaid orders keeps every column typed.
LEMMA CloseUnpaidType ==
    ASSUME StockTypeOK, OrderTypeOK, PriceTypeOK,
           NEW S \in SUBSET Orders, NEW R \in SUBSET Orders,
           NEW status \in OrderStatuses, NEW resvEnd \in ResvStatuses,
           CloseUnpaid(S, status, R, resvEnd)
    PROVE  StockTypeOK' /\ OrderTypeOK' /\ PriceTypeOK'
<1>1. StockTypeOK' /\ PriceTypeOK'
  BY ReleaseInventoryType, ReleaseBenefitsType DEF CloseUnpaid
<1>2. OrderTypeOK'
  BY DEF CloseUnpaid, ResvAfter, OrderTypeOK
<1>. QED  BY <1>1, <1>2

\* Spending the benefits of a paid order keeps every column typed.
LEMMA ApplyBenefitsType ==
    ASSUME PriceTypeOK, NEW o \in Orders, ApplyBenefits(o)
    PROVE  PriceTypeOK'
<1>1. OwnerOf[o] \in Customers  BY SetsAssumption
<1>2. reservedCount' \in Nat /\ redeemedCount' \in Nat
  BY DEF ApplyBenefits, PriceTypeOK, Minus
<1>3. coupon' \in [Orders -> Benefits] /\ loyalty' \in [Orders -> Benefits]
  BY DEF ApplyBenefits, PriceTypeOK, Benefits
<1>4. lifetimeRedeemed' \in [Customers -> Nat]
  <2>1. points[o] \in Nat  BY NumbersAssumption DEF PriceTypeOK
  <2>. QED  BY <1>1, <2>1 DEF ApplyBenefits, PriceTypeOK
<1>. QED  BY <1>2, <1>3, <1>4 DEF ApplyBenefits, PriceTypeOK

\* A refund of at most what remains keeps the payment's money columns in range.
LEMMA RecordRefundType ==
    ASSUME PayTypeOK, NEW p \in Payments, NEW k \in RefundKeys, NEW n \in Nat,
           n <= Remaining(p), NEW ok \in BOOLEAN, RecordRefund(p, k, n, ok),
           UNCHANGED <<payStatus, payExpires>>
    PROVE  PayTypeOK'
<1>1. AmountOf(p) \in Nat /\ refunded[p] \in Nat  BY AmountType DEF PayTypeOK
<1>2. refunded[p] + n <= AmountOf(p)  BY <1>1 DEF Remaining
<1>3. refunded' \in [Payments -> Nat]  BY <1>1 DEF RecordRefund, PayTypeOK
<1>4. \A r \in Payments : refunded'[r] <= AmountOf(r)
  BY <1>1, <1>2 DEF RecordRefund, PayTypeOK
<1>5. refund' \in [Payments -> [RefundKeys -> RefundRows]]
  BY DEF RecordRefund, PayTypeOK, RefundRows
<1>. QED  BY <1>3, <1>4, <1>5 DEF PayTypeOK

LEMMA InitType == Init => TypeOK
<1>. SUFFICES ASSUME Init PROVE TypeOK  OBVIOUS
<1>. USE NumbersAssumption, SetsAssumption
<1>1. StockTypeOK  BY DEF Init, StockTypeOK, ItemStatuses
<1>2. OrderTypeOK  BY DEF Init, OrderTypeOK, OrderStatuses, ResvStatuses, Stages
<1>3. PayTypeOK
  BY AmountType DEF Init, PayTypeOK, PayStatuses, RefundRows, NoRefund
<1>4. PriceTypeOK  BY DEF Init, PriceTypeOK, Benefits
<1>5. now \in 0..MaxTime /\ event \in [Payments \X EventTypes -> EventStatuses]
  BY DEF Init, EventStatuses
<1>. QED  BY <1>1, <1>2, <1>3, <1>4, <1>5 DEF TypeOK

\* Type correctness, one step per action.
LEMMA StepType == TypeOK /\ [Next]_vars => TypeOK'
<1>. SUFFICES ASSUME TypeOK, [Next]_vars PROVE TypeOK'  OBVIOUS
<1>. USE SetsAssumption, NumbersAssumption
<1>1. CASE Tick
  BY <1>1 DEF Tick, TypeOK, StockTypeOK, OrderTypeOK, PayTypeOK, PriceTypeOK, AmountOf,
              stockVars, orderVars, payVars, priceVars
<1>2. CASE ReleaseExpiredHolds
  <2>. DEFINE E == {o \in Orders : resv[o] = "active" /\ expiry[o] <= now}
  <2>1. CloseUnpaid(Unpaid(E), "expired", E, "expired") /\ UNCHANGED <<now, payVars, event>>
    BY <1>2 DEF ReleaseExpiredHolds
  <2>2. Unpaid(E) \subseteq Orders /\ E \subseteq Orders  BY DEF Unpaid
  <2>3. "expired" \in OrderStatuses /\ "expired" \in ResvStatuses
    BY DEF OrderStatuses, ResvStatuses
  <2>. HIDE DEF E
  <2>4. StockTypeOK' /\ OrderTypeOK' /\ PriceTypeOK'
    BY <2>1, <2>2, <2>3, CloseUnpaidType DEF TypeOK
  <2>. QED  BY <2>1, <2>4 DEF TypeOK, PayTypeOK, payVars, AmountOf
<1>3. ASSUME NEW o \in Orders, NEW q \in [Items -> 0..MaxPerOrder], NEW c \in BOOLEAN,
             NEW k \in 0..MaxPoints, CreatePendingOrder(o, q, c, k)
      PROVE  TypeOK'
  <2>1. OwnerOf[o] \in Customers  OBVIOUS
  <2>2. StockTypeOK'
    <3>1. ASSUME NEW i \in Items
          PROVE  avail'[i] \in Nat /\ avail'[i] <= Total[i]
      BY <1>3 DEF CreatePendingOrder, TypeOK, StockTypeOK
    <3>2. avail' \in [Items -> Nat] /\ \A i \in Items : avail'[i] <= Total[i]
      BY <3>1, <1>3 DEF CreatePendingOrder
    <3>. QED
      BY <3>2, <1>3 DEF CreatePendingOrder, TypeOK, StockTypeOK, ItemStatuses
  <2>3. OrderTypeOK'
    BY <1>3 DEF CreatePendingOrder, TypeOK, OrderTypeOK, OrderStatuses, ResvStatuses
  <2>4. PriceTypeOK'
    <3>1. coupon' \in [Orders -> Benefits] /\ loyalty' \in [Orders -> Benefits]
      BY <1>3 DEF CreatePendingOrder, TypeOK, PriceTypeOK, Benefits
    <3>2. balance' \in [Customers -> Nat]
      BY <1>3, <2>1 DEF CreatePendingOrder, TypeOK, PriceTypeOK
    <3>3. /\ reservedCount' \in Nat /\ redeemedCount' \in Nat
          /\ points' \in [Orders -> 0..MaxPoints]
          /\ lifetimeRedeemed' \in [Customers -> Nat]
      BY <1>3 DEF CreatePendingOrder, TypeOK, PriceTypeOK
    <3>. QED  BY <3>1, <3>2, <3>3 DEF PriceTypeOK
  <2>. QED
    BY <1>3, <2>2, <2>3, <2>4 DEF CreatePendingOrder, TypeOK, PayTypeOK, payVars, AmountOf
<1>4. ASSUME NEW o \in Orders, CancelPendingOrder(o)
      PROVE  TypeOK'
  <2>1. CloseUnpaid({o}, "cancelled", ActiveOf(o), "released")
    BY <1>4 DEF CancelPendingOrder
  <2>2. {o} \subseteq Orders /\ ActiveOf(o) \subseteq Orders  BY DEF ActiveOf
  <2>3. "cancelled" \in OrderStatuses /\ "released" \in ResvStatuses
    BY DEF OrderStatuses, ResvStatuses
  <2>4. StockTypeOK' /\ OrderTypeOK' /\ PriceTypeOK'
    BY <2>1, <2>2, <2>3, CloseUnpaidType DEF TypeOK
  <2>. QED  BY <1>4, <2>4 DEF CancelPendingOrder, TypeOK, PayTypeOK, payVars, AmountOf
<1>5. ASSUME NEW i \in EditableItems, NEW n \in 0..Total[i], UpdateQuantity(i, n)
      PROVE  TypeOK'
  <2>1. StockTypeOK'
    BY <1>5 DEF UpdateQuantity, TypeOK, StockTypeOK, ItemStatuses
  <2>. QED
    BY <1>5, <2>1 DEF UpdateQuantity, TypeOK, OrderTypeOK, PayTypeOK, PriceTypeOK,
                      orderVars, payVars, priceVars, AmountOf
<1>6. ASSUME NEW p \in Payments, CreatePaymentIntent(p)
      PROVE  TypeOK'
  <2>1. hold[PaymentOrder[p]] \in Nat
    BY <1>6 DEF CreatePaymentIntent, TypeOK, OrderTypeOK
  <2>2. AtMost(hold[PaymentOrder[p]], now + PaymentTTL) \in Nat
    BY <2>1 DEF AtMost, TypeOK
  <2>3. PayTypeOK'
    BY <1>6, <2>2 DEF CreatePaymentIntent, TypeOK, PayTypeOK, PayStatuses, AmountOf
  <2>. QED
    BY <1>6, <2>3 DEF CreatePaymentIntent, TypeOK, StockTypeOK, OrderTypeOK, PriceTypeOK,
                      stockVars, orderVars, priceVars
<1>7. ASSUME NEW p \in Payments, NEW t \in SentTypes, ProviderSends(p, t)
      PROVE  TypeOK'
  <2>1. event' \in [Payments \X EventTypes -> EventStatuses]
    BY <1>7 DEF ProviderSends, TypeOK, EventStatuses
  <2>. QED
    BY <1>7, <2>1 DEF ProviderSends, TypeOK, StockTypeOK, OrderTypeOK, PayTypeOK,
                      PriceTypeOK, stockVars, orderVars, payVars, priceVars, AmountOf
<1>8. ASSUME NEW p \in Payments, NEW t \in SentTypes, ProcessWebhook(p, t)
      PROVE  TypeOK'
  <2>. DEFINE o == PaymentOrder[p]
  <2>1. now' = now /\ event' \in [Payments \X EventTypes -> EventStatuses]
    BY <1>8 DEF ProcessWebhook, TypeOK, EventStatuses
  <2>2. StockTypeOK' /\ OrderTypeOK' /\ PayTypeOK' /\ PriceTypeOK'
    <3>1. CASE UNCHANGED <<stockVars, orderVars, payVars, priceVars>>
      BY <3>1 DEF TypeOK, StockTypeOK, OrderTypeOK, PayTypeOK, PriceTypeOK,
                  stockVars, orderVars, payVars, priceVars, AmountOf
    <3>2. CASE ApplyPaymentSuccess(p)
      <4>1. PriceTypeOK'  BY <3>2, ApplyBenefitsType DEF ApplyPaymentSuccess, TypeOK
      <4>2. StockTypeOK'
        BY <3>2 DEF ApplyPaymentSuccess, TypeOK, StockTypeOK, stockVars
      <4>3. OrderTypeOK'
        BY <3>2 DEF ApplyPaymentSuccess, TypeOK, OrderTypeOK, OrderStatuses, ResvStatuses
      <4>4. PayTypeOK'
        BY <3>2 DEF ApplyPaymentSuccess, TypeOK, PayTypeOK, PayStatuses, AmountOf
      <4>. QED  BY <4>1, <4>2, <4>3, <4>4
    <3>3. CASE ApplyPaymentFailure(p, SettledBy(t))
      <4>1. PayTypeOK'
        BY <3>3 DEF ApplyPaymentFailure, SettledBy, TypeOK, PayTypeOK, PayStatuses, AmountOf
      <4>2. CASE ClosesOrder(o)
        <5>1. CloseUnpaid({o}, "expired", ActiveOf(o), "released")
          BY <3>3, <4>2 DEF ApplyPaymentFailure
        <5>2. {o} \subseteq Orders /\ ActiveOf(o) \subseteq Orders  BY DEF ActiveOf
        <5>3. "expired" \in OrderStatuses /\ "released" \in ResvStatuses
          BY DEF OrderStatuses, ResvStatuses
        <5>. HIDE DEF o
        <5>. QED  BY <4>1, <5>1, <5>2, <5>3, CloseUnpaidType DEF TypeOK
      <4>3. CASE ~ClosesOrder(o)
        BY <3>3, <4>1, <4>3 DEF ApplyPaymentFailure, TypeOK, StockTypeOK, OrderTypeOK,
                                PriceTypeOK, stockVars, orderVars, priceVars
      <4>. QED  BY <4>2, <4>3
    <3>. QED  BY <1>8, <3>1, <3>2, <3>3 DEF ProcessWebhook
  <2>. QED  BY <2>1, <2>2 DEF TypeOK
<1>9. CASE ExpirePendingPayments
  <2>1. PayTypeOK'
    BY <1>9 DEF ExpirePendingPayments, TypeOK, PayTypeOK, PayStatuses, AmountOf
  <2>. QED
    BY <1>9, <2>1 DEF ExpirePendingPayments, TypeOK, StockTypeOK, OrderTypeOK, PriceTypeOK,
                      stockVars, orderVars, priceVars
<1>10. ASSUME NEW p \in Payments, NEW k \in RefundKeys \ {ChefRejectKey}, NEW ok \in BOOLEAN,
              NEW n \in 1..AmountOf(p), CreateRefund(p, k, n, ok)
       PROVE  TypeOK'
  <2>1. n \in Nat  BY AmountType
  <2>2. PayTypeOK'
    BY <1>10, <2>1, RecordRefundType DEF CreateRefund, TypeOK
  <2>. QED
    BY <1>10, <2>2 DEF CreateRefund, TypeOK, StockTypeOK, OrderTypeOK, PriceTypeOK,
                       stockVars, orderVars, priceVars
<1>11. ASSUME NEW o \in Orders, EnsureFulfillment(o) \/ Accept(o)
       PROVE  TypeOK'
  <2>1. OrderTypeOK'
    BY <1>11 DEF EnsureFulfillment, Accept, TypeOK, OrderTypeOK, OrderStatuses, Stages
  <2>. QED
    BY <1>11, <2>1 DEF EnsureFulfillment, Accept, TypeOK, StockTypeOK, PayTypeOK, PriceTypeOK,
                       stockVars, payVars, priceVars, AmountOf
<1>12. ASSUME NEW o \in Orders, NEW ok \in BOOLEAN, Reject(o, ok)
       PROVE  TypeOK'
  <2>. DEFINE R == {x \in {o} : resv[x] = "converted"}
  <2>1. StockTypeOK'
    <3>1. ReleaseInventory(R) /\ R \subseteq Orders  BY <1>12 DEF Reject
    <3>. HIDE DEF R
    <3>. QED  BY <3>1, ReleaseInventoryType DEF TypeOK
  <2>2. OrderTypeOK'
    BY <1>12 DEF Reject, TypeOK, OrderTypeOK, OrderStatuses, ResvStatuses, Stages
  <2>3. PayTypeOK'
    <3>1. PICK p \in SucceededPayments(o) : RejectionRefund(p, ok)
      BY <1>12 DEF Reject
    <3>2. p \in Payments  BY DEF SucceededPayments, PaymentsOf
    <3>3. UNCHANGED <<payStatus, payExpires>>  BY <1>12 DEF Reject
    <3>4. CASE Remaining(p) > 0 /\ RecordRefund(p, ChefRejectKey, Remaining(p), ok)
      <4>1. Remaining(p) \in Nat
        BY <3>2, <3>4, AmountType DEF Remaining, TypeOK, PayTypeOK
      <4>. QED  BY <3>2, <3>3, <3>4, <4>1, RecordRefundType DEF TypeOK
    <3>5. CASE UNCHANGED <<refund, refunded>>
      BY <3>3, <3>5 DEF TypeOK, PayTypeOK, AmountOf
    <3>. QED  BY <3>1, <3>4, <3>5 DEF RejectionRefund
  <2>. QED
    BY <1>12, <2>1, <2>2, <2>3 DEF Reject, TypeOK, PriceTypeOK, priceVars
<1>13. CASE UNCHANGED vars
  BY <1>13 DEF vars, TypeOK, StockTypeOK, OrderTypeOK, PayTypeOK, PriceTypeOK, AmountOf,
               stockVars, orderVars, payVars, priceVars
<1>. QED
  BY <1>1, <1>2, <1>3, <1>4, <1>5, <1>6, <1>7, <1>8, <1>9, <1>10, <1>11, <1>12, <1>13
     DEF Next, Carts

\* Every handler keeps every column in its range (TypeOK), whatever the number
\* of carts, payments and refunds.
THEOREM TypeCorrect == Spec => []TypeOK
  BY InitType, StepType, PTL DEF Spec

(***************************************************************************)
(* The rows of one order agree with each other.                            *)
(*                                                                         *)
(* PendingOrderHeld, ConfirmedOrderPaidOnce and ClosedOrderHoldsNothing    *)
(* are inductive together, once one knows what an order has before its     *)
(* checkout (nothing) and how its fulfillment row follows its status.      *)
(***************************************************************************)

BlankBeforeCheckout(o) == orderStatus[o] = "none" =>
    /\ resv[o] = "none" /\ hold[o] = NoHold
    /\ coupon[o] = "none" /\ loyalty[o] = "none"
    /\ \A p \in PaymentsOf(o) : payStatus[p] = "none"

StageFollowsOrder(o) ==
    /\ orderStatus[o] \in {"none", "pending_payment", "expired"} => stage[o] = "none"
    /\ orderStatus[o] = "confirmed" => stage[o] \in {"none", "new"}
    /\ orderStatus[o] = "accepted_by_chef" => stage[o] = "accepted"
    /\ orderStatus[o] = "cancelled" => stage[o] \in {"none", "rejected"}

PendingHeld(o) == orderStatus[o] = "pending_payment" =>
    /\ resv[o] = "active" /\ hold[o] = expiry[o]
    /\ SucceededPayments(o) = {}
    /\ {coupon[o], loyalty[o]} \cap {"applied", "released"} = {}

PaidOnce(o) == orderStatus[o] \in {"confirmed", "accepted_by_chef"} =>
    /\ \E p \in PaymentsOf(o) : SucceededPayments(o) = {p}
    /\ resv[o] = "converted" /\ hold[o] = NoHold
    /\ {coupon[o], loyalty[o]} \cap {"reserved", "released"} = {}

HoldsNothing(o) == orderStatus[o] \in {"cancelled", "expired"} =>
    /\ resv[o] \in {"released", "expired"} /\ hold[o] = NoHold
    /\ {coupon[o], loyalty[o]} \cap {"reserved"} = {}
    /\ stage[o] # "rejected" =>
          SucceededPayments(o) = {} /\ {coupon[o], loyalty[o]} \cap {"applied"} = {}

RowsAgree(o) ==
    /\ BlankBeforeCheckout(o)
    /\ StageFollowsOrder(o)
    /\ PendingHeld(o)
    /\ PaidOnce(o)
    /\ HoldsNothing(o)

\* The provider only tells about payments it was asked for.
EventsKnown ==
    \A p \in Payments, t \in EventTypes : event[<<p, t>>] # "unsent" => payStatus[p] # "none"

OrderInv ==
    /\ TypeOK
    /\ EventsKnown
    /\ \A o \in Orders : RowsAgree(o)

\* A step that leaves the rows of order x alone.
Untouched(x) ==
    /\ UNCHANGED <<orderStatus[x], hold[x], resv[x], expiry[x], stage[x], coupon[x], loyalty[x]>>
    /\ SucceededPayments(x)' = SucceededPayments(x)
    /\ orderStatus[x] = "none" => \A p \in PaymentsOf(x) : payStatus'[p] = payStatus[p]

LEMMA UntouchedAgrees ==
    ASSUME NEW x \in Orders, RowsAgree(x), Untouched(x)
    PROVE  RowsAgree(x)'
<1>1. PaymentsOf(x)' = PaymentsOf(x)  BY DEF PaymentsOf
<1>. QED
  BY <1>1 DEF Untouched, RowsAgree, BlankBeforeCheckout, StageFollowsOrder, PendingHeld,
              PaidOnce, HoldsNothing

\* Which payments of an order succeeded changes only when one of them does.
LEMMA SameSuccesses ==
    ASSUME NEW x \in Orders,
           \A p \in PaymentsOf(x) : payStatus'[p] = "succeeded" <=> payStatus[p] = "succeeded"
    PROVE  SucceededPayments(x)' = SucceededPayments(x)
  BY DEF SucceededPayments, PaymentsOf

\* Only orders that wait for payment hold active reservations.
LEMMA ActiveIsPending ==
    ASSUME OrderInv, NEW x \in Orders, resv[x] = "active"
    PROVE  orderStatus[x] = "pending_payment"
  BY DEF OrderInv, TypeOK, OrderTypeOK, OrderStatuses, RowsAgree, BlankBeforeCheckout,
         PaidOnce, HoldsNothing

\* Closing unpaid orders together with their reservations keeps all rows in
\* agreement when no payment succeeds or starts in the same step.
LEMMA CloseUnpaidAgrees ==
    ASSUME OrderInv, NEW S \in SUBSET Orders,
           \A x \in S : orderStatus[x] = "pending_payment",
           NEW status \in {"cancelled", "expired"}, NEW resvEnd \in {"released", "expired"},
           CloseUnpaid(S, status, S, resvEnd),
           \A x \in Orders : SucceededPayments(x)' = SucceededPayments(x),
           \A p \in Payments : payStatus[p] = "none" => payStatus'[p] = "none"
    PROVE  \A x \in Orders : RowsAgree(x)'
<1>1. ASSUME NEW x \in Orders, x \notin S  PROVE RowsAgree(x)'
  <2>1. UNCHANGED <<orderStatus[x], hold[x], resv[x], expiry[x], stage[x], coupon[x], loyalty[x]>>
    BY <1>1 DEF CloseUnpaid, ResvAfter, ReleaseBenefits
  <2>2. RowsAgree(x)  BY DEF OrderInv
  <2>3. orderStatus[x] = "none" => \A p \in PaymentsOf(x) : payStatus'[p] = payStatus[p]
    BY <2>2 DEF RowsAgree, BlankBeforeCheckout, PaymentsOf
  <2>. QED  BY <2>1, <2>2, <2>3, UntouchedAgrees DEF Untouched
<1>2. ASSUME NEW x \in Orders, x \in S  PROVE RowsAgree(x)'
  <2>1. RowsAgree(x) /\ orderStatus[x] = "pending_payment"  BY <1>2 DEF OrderInv
  <2>2. /\ orderStatus'[x] = status /\ hold'[x] = NoHold /\ resv'[x] = resvEnd
        /\ stage'[x] = stage[x]
        /\ coupon'[x] = Released(coupon[x]) /\ loyalty'[x] = Released(loyalty[x])
    BY <1>2 DEF CloseUnpaid, ResvAfter, ReleaseBenefits
  <2>3. stage'[x] = "none" /\ SucceededPayments(x)' = {}
    BY <2>1, <2>2 DEF RowsAgree, StageFollowsOrder, PendingHeld
  <2>4. {coupon'[x], loyalty'[x]} \cap {"reserved", "applied"} = {}
    BY <2>1, <2>2 DEF RowsAgree, PendingHeld, Released
  <2>. QED
    BY <2>2, <2>3, <2>4 DEF RowsAgree, BlankBeforeCheckout, StageFollowsOrder, PendingHeld,
                            PaidOnce, HoldsNothing
<1>. QED  BY <1>1, <1>2

LEMMA InitAgrees == Init => OrderInv
<1>. SUFFICES ASSUME Init PROVE OrderInv  OBVIOUS
<1>1. \A o \in Orders : RowsAgree(o)
  BY DEF Init, RowsAgree, BlankBeforeCheckout, StageFollowsOrder, PendingHeld, PaidOnce,
         HoldsNothing, PaymentsOf
<1>2. EventsKnown  BY DEF Init, EventsKnown
<1>. QED  BY <1>1, <1>2, InitType DEF OrderInv

\* The steps that concern neither the status of a payment nor an event.
Elsewhere ==
    \/ Tick \/ ReleaseExpiredHolds
    \/ \E o \in Orders, q \in [Items -> 0..MaxPerOrder], c \in BOOLEAN, k \in 0..MaxPoints :
            CreatePendingOrder(o, q, c, k)
    \/ \E o \in Orders : CancelPendingOrder(o)
    \/ \E i \in EditableItems : \E n \in 0..Total[i] : UpdateQuantity(i, n)
    \/ \E p \in Payments, k \in RefundKeys \ {ChefRejectKey}, ok \in BOOLEAN :
          \E n \in 1..AmountOf(p) : CreateRefund(p, k, n, ok)
    \/ \E o \in Orders : EnsureFulfillment(o) \/ Accept(o)
    \/ \E o \in Orders, ok \in BOOLEAN : Reject(o, ok)
    \/ UNCHANGED vars

LEMMA StepsByEvents ==
    ASSUME [Next]_vars
    PROVE  \/ Elsewhere
           \/ ExpirePendingPayments
           \/ \E p \in Payments : CreatePaymentIntent(p)
           \/ \E p \in Payments, t \in SentTypes : ProviderSends(p, t)
           \/ \E p \in Payments, t \in SentTypes : ProcessWebhook(p, t)
  BY Zenon DEF Next, Elsewhere, Carts

LEMMA ElsewhereKeeps ==
    ASSUME Elsewhere
    PROVE  UNCHANGED <<payStatus, event>>
<1>1. CASE Tick \/ ReleaseExpiredHolds \/ UNCHANGED vars
  BY <1>1 DEF Tick, ReleaseExpiredHolds, vars, payVars
<1>2. CASE \E o \in Orders, q \in [Items -> 0..MaxPerOrder], c \in BOOLEAN,
              k \in 0..MaxPoints : CreatePendingOrder(o, q, c, k)
  BY <1>2 DEF CreatePendingOrder, payVars
<1>3. CASE \E o \in Orders : CancelPendingOrder(o)
  BY <1>3 DEF CancelPendingOrder, payVars
<1>4. CASE \E i \in EditableItems : \E n \in 0..Total[i] : UpdateQuantity(i, n)
  BY <1>4 DEF UpdateQuantity, payVars
<1>5. CASE \E p \in Payments, k \in RefundKeys \ {ChefRejectKey}, ok \in BOOLEAN :
              \E n \in 1..AmountOf(p) : CreateRefund(p, k, n, ok)
  BY <1>5 DEF CreateRefund
<1>6. CASE \E o \in Orders : EnsureFulfillment(o) \/ Accept(o)
  BY <1>6 DEF EnsureFulfillment, Accept, payVars
<1>7. CASE \E o \in Orders, ok \in BOOLEAN : Reject(o, ok)
  BY <1>7 DEF Reject
<1>. QED  BY <1>1, <1>2, <1>3, <1>4, <1>5, <1>6, <1>7 DEF Elsewhere

\* A payment row never goes away, so neither does what makes an event known.
LEMMA StepEvents == TypeOK /\ EventsKnown /\ [Next]_vars => EventsKnown'
<1>. SUFFICES ASSUME TypeOK, EventsKnown, [Next]_vars,
                     NEW p \in Payments, NEW t \in EventTypes, event'[<<p, t>>] # "unsent"
              PROVE  payStatus'[p] # "none"
  BY DEF EventsKnown
<1>1. payStatus[p] # "none" => payStatus'[p] # "none"
  <2>1. CASE UNCHANGED payStatus  BY <2>1
  <2>2. CASE \E r \in Payments : CreatePaymentIntent(r)
    BY <2>2 DEF CreatePaymentIntent, TypeOK, PayTypeOK
  <2>3. CASE \E r \in Payments, u \in SentTypes : ProcessWebhook(r, u)
    <3>1. PICK r \in Payments, u \in SentTypes : ProcessWebhook(r, u)  BY <2>3
    <3>2. \/ UNCHANGED payStatus
          \/ payStatus' = [payStatus EXCEPT ![r] = "succeeded"]
          \/ payStatus' = [payStatus EXCEPT ![r] = SettledBy(u)]
      BY <3>1 DEF ProcessWebhook, ApplyPaymentSuccess, ApplyPaymentFailure, payVars
    <3>. QED  BY <3>2 DEF SettledBy, TypeOK, PayTypeOK
  <2>4. CASE ExpirePendingPayments
    BY <2>4 DEF ExpirePendingPayments, TypeOK, PayTypeOK
  <2>5. CASE Elsewhere  BY <2>1, <2>5, ElsewhereKeeps
  <2>6. CASE \E r \in Payments, u \in SentTypes : ProviderSends(r, u)
    BY <2>1, <2>6 DEF ProviderSends, payVars
  <2>. QED  BY <2>2, <2>3, <2>4, <2>5, <2>6, StepsByEvents
<1>2. event[<<p, t>>] # "unsent" \/ payStatus[p] # "none"
  <2>1. CASE UNCHANGED event  BY <2>1
  <2>2. CASE \E r \in Payments, u \in SentTypes : ProviderSends(r, u)
    <3>1. PICK r \in Payments, u \in SentTypes : ProviderSends(r, u)  BY <2>2
    <3>2. event' = [event EXCEPT ![<<r, u>>] = "sent"] /\ payStatus[r] # "none"
      BY <3>1 DEF ProviderSends
    <3>. QED  BY <3>2 DEF TypeOK
  <2>3. CASE \E r \in Payments, u \in SentTypes : ProcessWebhook(r, u)
    <3>1. PICK r \in Payments, u \in SentTypes : ProcessWebhook(r, u)  BY <2>3
    <3>2. /\ event[<<r, u>>] = "sent"
          /\ event' = [event EXCEPT ![<<r, u>>] = IF u = "mismatch" THEN "failed" ELSE "processed"]
      BY <3>1 DEF ProcessWebhook
    <3>. QED  BY <3>2 DEF TypeOK
  <2>4. CASE Elsewhere  BY <2>1, <2>4, ElsewhereKeeps
  <2>5. CASE ExpirePendingPayments \/ \E r \in Payments : CreatePaymentIntent(r)
    BY <2>1, <2>5 DEF ExpirePendingPayments, CreatePaymentIntent
  <2>. QED  BY <2>2, <2>3, <2>4, <2>5, StepsByEvents
<1>. QED  BY <1>1, <1>2 DEF EventsKnown

\* The rows of every order keep agreeing, one step per action.
LEMMA StepAgrees == OrderInv /\ [Next]_vars => OrderInv'
<1>. SUFFICES ASSUME OrderInv, [Next]_vars PROVE OrderInv'  OBVIOUS
<1>. USE SetsAssumption
<1>t. TypeOK /\ TypeOK'  BY StepType DEF OrderInv
<1>e. EventsKnown /\ EventsKnown'  BY StepEvents DEF OrderInv
<1>. SUFFICES \A x \in Orders : RowsAgree(x)'  BY <1>t, <1>e DEF OrderInv
<1>a. \A x \in Orders : RowsAgree(x)  BY DEF OrderInv
<1>1. ASSUME UNCHANGED <<orderVars, payStatus, coupon, loyalty>>
      PROVE  \A x \in Orders : RowsAgree(x)'
  <2>1. \A x \in Orders : SucceededPayments(x)' = SucceededPayments(x)
    BY <1>1, SameSuccesses
  <2>. QED  BY <1>1, <1>a, <2>1, UntouchedAgrees DEF Untouched, orderVars
<1>2. CASE ReleaseExpiredHolds
  <2>. DEFINE E == {o \in Orders : resv[o] = "active" /\ expiry[o] <= now}
  <2>1. CloseUnpaid(Unpaid(E), "expired", E, "expired") /\ UNCHANGED payVars
    BY <1>2 DEF ReleaseExpiredHolds
  <2>2. \A x \in E : orderStatus[x] = "pending_payment"  BY ActiveIsPending
  <2>3. Unpaid(E) = E /\ E \subseteq Orders  BY <2>2 DEF Unpaid
  <2>4. \A x \in Orders : SucceededPayments(x)' = SucceededPayments(x)
    BY <2>1, SameSuccesses DEF payVars
  <2>. HIDE DEF E
  <2>. QED  BY <2>1, <2>2, <2>3, <2>4, CloseUnpaidAgrees DEF payVars
<1>3. ASSUME NEW o \in Orders, NEW q \in [Items -> 0..MaxPerOrder], NEW c \in BOOLEAN,
             NEW k \in 0..MaxPoints, CreatePendingOrder(o, q, c, k)
      PROVE  \A x \in Orders : RowsAgree(x)'
  <2>1. \A x \in Orders : SucceededPayments(x)' = SucceededPayments(x)
    BY <1>3, SameSuccesses DEF CreatePendingOrder, payVars
  <2>2. ASSUME NEW x \in Orders, x # o  PROVE RowsAgree(x)'
    <3>1. Untouched(x)
      BY <1>3, <1>t, <2>1, <2>2
         DEF CreatePendingOrder, Untouched, payVars, TypeOK, OrderTypeOK, PriceTypeOK
    <3>. QED  BY <1>a, <3>1, UntouchedAgrees
  <2>3. RowsAgree(o)'
    <3>1. /\ orderStatus'[o] = "pending_payment" /\ resv'[o] = "active"
          /\ hold'[o] = expiry'[o] /\ stage'[o] = stage[o]
      BY <1>3, <1>t DEF CreatePendingOrder, TypeOK, OrderTypeOK
    <3>2. orderStatus[o] = "none"  BY <1>3 DEF CreatePendingOrder
    <3>3. stage[o] = "none" /\ coupon[o] = "none" /\ loyalty[o] = "none"
          /\ SucceededPayments(o) = {}
      BY <1>a, <3>2 DEF RowsAgree, BlankBeforeCheckout, StageFollowsOrder, SucceededPayments
    <3>4. {coupon'[o], loyalty'[o]} \cap {"applied", "released"} = {}
      BY <1>3, <1>t, <3>3 DEF CreatePendingOrder, TypeOK, PriceTypeOK
    <3>. QED
      BY <2>1, <3>1, <3>3, <3>4 DEF RowsAgree, BlankBeforeCheckout, StageFollowsOrder,
                                    PendingHeld, PaidOnce, HoldsNothing
  <2>. QED  BY <2>2, <2>3
<1>4. ASSUME NEW o \in Orders, orderStatus[o] = "pending_payment",
             NEW status \in {"cancelled", "expired"},
             CloseUnpaid({o}, status, ActiveOf(o), "released"),
             \A p \in Payments : payStatus'[p] = "succeeded" <=> payStatus[p] = "succeeded",
             \A p \in Payments : payStatus[p] = "none" => payStatus'[p] = "none"
      PROVE  \A x \in Orders : RowsAgree(x)'
  <2>1. ActiveOf(o) = {o}  BY <1>4, <1>a DEF ActiveOf, RowsAgree, PendingHeld
  <2>2. \A x \in Orders : SucceededPayments(x)' = SucceededPayments(x)
    BY <1>4, SameSuccesses DEF PaymentsOf
  <2>. QED  BY <1>4, <2>1, <2>2, CloseUnpaidAgrees
<1>5. ASSUME NEW o \in Orders, CancelPendingOrder(o)
      PROVE  \A x \in Orders : RowsAgree(x)'
  BY <1>5, <1>4 DEF CancelPendingOrder, payVars
<1>6. ASSUME NEW p \in Payments, CreatePaymentIntent(p)
      PROVE  \A x \in Orders : RowsAgree(x)'
  <2>1. \A r \in Payments : /\ payStatus'[r] = "succeeded" <=> payStatus[r] = "succeeded"
                            /\ r # p => payStatus'[r] = payStatus[r]
    BY <1>6, <1>t DEF CreatePaymentIntent, TypeOK, PayTypeOK
  <2>2. \A x \in Orders : SucceededPayments(x)' = SucceededPayments(x)
    BY <2>1, SameSuccesses DEF PaymentsOf
  <2>3. \A x \in Orders : orderStatus[x] = "none" =>
           \A r \in PaymentsOf(x) : payStatus'[r] = payStatus[r]
    BY <1>6, <2>1 DEF CreatePaymentIntent, PaymentsOf
  <2>. QED
    BY <1>6, <1>a, <2>2, <2>3, UntouchedAgrees
       DEF CreatePaymentIntent, Untouched, orderVars, priceVars
<1>7. ASSUME NEW p \in Payments, ApplyPaymentSuccess(p)
      PROVE  \A x \in Orders : RowsAgree(x)'
  <2>. DEFINE o == PaymentOrder[p]
  <2>0. o \in Orders /\ p \in PaymentsOf(o)  BY DEF PaymentsOf
  <2>1. \A r \in Payments : payStatus'[r] = IF r = p THEN "succeeded" ELSE payStatus[r]
    BY <1>7, <1>t DEF ApplyPaymentSuccess, TypeOK, PayTypeOK
  <2>2. ASSUME NEW x \in Orders, x # o  PROVE RowsAgree(x)'
    <3>1. \A r \in PaymentsOf(x) : payStatus'[r] = payStatus[r]
      BY <2>1, <2>2 DEF PaymentsOf
    <3>2. UNCHANGED <<orderStatus[x], hold[x], resv[x], expiry[x], stage[x], coupon[x], loyalty[x]>>
      BY <1>7, <1>t, <2>2
         DEF ApplyPaymentSuccess, ApplyBenefits, TypeOK, OrderTypeOK, PriceTypeOK
    <3>. QED  BY <1>a, <3>1, <3>2, SameSuccesses, UntouchedAgrees DEF Untouched
  <2>3. RowsAgree(o)'
    <3>1. /\ orderStatus[o] = "pending_payment" /\ stage'[o] = stage[o]
          /\ orderStatus'[o] = "confirmed" /\ resv'[o] = "converted" /\ hold'[o] = NoHold
      BY <1>7, <1>t, <2>0 DEF ApplyPaymentSuccess, TypeOK, OrderTypeOK
    <3>2. stage[o] = "none" /\ SucceededPayments(o) = {}
          /\ {coupon[o], loyalty[o]} \cap {"applied", "released"} = {}
      BY <1>a, <2>0, <3>1 DEF RowsAgree, StageFollowsOrder, PendingHeld
    <3>3. SucceededPayments(o)' = {p}
      BY <2>0, <2>1, <3>2 DEF SucceededPayments, PaymentsOf
    <3>4. {coupon'[o], loyalty'[o]} \cap {"reserved", "released"} = {}
      BY <1>7, <1>t, <2>0, <3>2 DEF ApplyPaymentSuccess, ApplyBenefits, TypeOK, PriceTypeOK
    <3>5. \E r \in PaymentsOf(o)' : SucceededPayments(o)' = {r}
      BY <2>0, <3>3 DEF PaymentsOf
    <3>. HIDE DEF o
    <3>. QED
      BY <3>1, <3>2, <3>4, <3>5 DEF RowsAgree, BlankBeforeCheckout, StageFollowsOrder,
                                    PendingHeld, PaidOnce, HoldsNothing
  <2>. QED  BY <2>2, <2>3
<1>8. ASSUME NEW p \in Payments, NEW t \in SentTypes, ProcessWebhook(p, t)
      PROVE  \A x \in Orders : RowsAgree(x)'
  <2>1. CASE UNCHANGED <<stockVars, orderVars, payVars, priceVars>>
    BY <2>1, <1>1 DEF payVars, priceVars
  <2>2. CASE ApplyPaymentSuccess(p)
    BY <2>2, <1>7
  <2>3. CASE t \in FailureTypes /\ payStatus[p] \notin FailureIgnored
             /\ ApplyPaymentFailure(p, SettledBy(t))
    <3>. DEFINE o == PaymentOrder[p]
    <3>1. \A r \in Payments : payStatus'[r] = IF r = p THEN SettledBy(t) ELSE payStatus[r]
      BY <2>3, <1>t DEF ApplyPaymentFailure, TypeOK, PayTypeOK
    <3>2. SettledBy(t) \in {"failed", "cancelled"} /\ payStatus[p] # "succeeded"
      BY <2>3 DEF SettledBy, FailureIgnored
    <3>3. \A r \in Payments : payStatus'[r] = "succeeded" <=> payStatus[r] = "succeeded"
      BY <3>1, <3>2
    <3>4. payStatus[p] # "none"
      BY <1>8, <1>e DEF ProcessWebhook, EventsKnown
    <3>5. \A r \in Payments : payStatus[r] = "none" => payStatus'[r] = "none"
      BY <3>1, <3>4
    <3>6. CASE ClosesOrder(o)
      <4>1. /\ orderStatus[o] = "pending_payment"
            /\ CloseUnpaid({o}, "expired", ActiveOf(o), "released")
        BY <2>3, <3>6 DEF ApplyPaymentFailure, ClosesOrder
      <4>2. o \in Orders  OBVIOUS
      <4>. HIDE DEF o
      <4>. QED  BY <1>4, <3>3, <3>5, <4>1, <4>2
    <3>7. CASE ~ClosesOrder(o)
      <4>1. UNCHANGED <<orderVars, priceVars>>
        BY <2>3, <3>7 DEF ApplyPaymentFailure
      <4>2. ASSUME NEW x \in Orders  PROVE RowsAgree(x)'
        <5>1. SucceededPayments(x)' = SucceededPayments(x)
          BY <3>3, SameSuccesses DEF PaymentsOf
        <5>2. orderStatus[x] = "none" => \A r \in PaymentsOf(x) : payStatus'[r] = payStatus[r]
          BY <1>a, <3>5 DEF RowsAgree, BlankBeforeCheckout, PaymentsOf
        <5>. QED
          BY <1>a, <4>1, <5>1, <5>2, UntouchedAgrees DEF Untouched, orderVars, priceVars
      <4>. QED  BY <4>2
    <3>. QED  BY <3>6, <3>7
  <2>. QED
    BY <1>8, <2>1, <2>2, <2>3, SetsAssumption DEF ProcessWebhook, EventTypes, FailureTypes
<1>9. CASE ExpirePendingPayments
  <2>1. \A r \in Payments : /\ payStatus'[r] = "succeeded" <=> payStatus[r] = "succeeded"
                            /\ payStatus[r] = "none" => payStatus'[r] = "none"
    BY <1>9 DEF ExpirePendingPayments
  <2>2. ASSUME NEW x \in Orders  PROVE RowsAgree(x)'
    <3>1. SucceededPayments(x)' = SucceededPayments(x)
      BY <2>1, SameSuccesses DEF PaymentsOf
    <3>2. orderStatus[x] = "none" => \A r \in PaymentsOf(x) : payStatus'[r] = payStatus[r]
      BY <1>a, <2>1 DEF RowsAgree, BlankBeforeCheckout, PaymentsOf
    <3>. QED
      BY <1>a, <1>9, <3>1, <3>2, UntouchedAgrees
         DEF ExpirePendingPayments, Untouched, orderVars, priceVars
  <2>. QED  BY <2>2
<1>10. ASSUME NEW o \in Orders, NEW ok \in BOOLEAN,
              EnsureFulfillment(o) \/ Accept(o) \/ Reject(o, ok)
       PROVE  \A x \in Orders : RowsAgree(x)'
  <2>1. \A x \in Orders : SucceededPayments(x)' = SucceededPayments(x)
    BY <1>10, SameSuccesses DEF EnsureFulfillment, Accept, Reject, payVars
  <2>2. UNCHANGED <<payStatus, hold, expiry, coupon, loyalty>>
    BY <1>10 DEF EnsureFulfillment, Accept, Reject, payVars, priceVars
  <2>3. ASSUME NEW x \in Orders, x # o  PROVE RowsAgree(x)'
    <3>1. UNCHANGED <<orderStatus[x], resv[x], stage[x]>>
      BY <1>10, <1>t, <2>3 DEF EnsureFulfillment, Accept, Reject, TypeOK, OrderTypeOK
    <3>. QED  BY <1>a, <2>1, <2>2, <3>1, UntouchedAgrees DEF Untouched
  <2>4. RowsAgree(o)'
    <3>0. PaymentsOf(o)' = PaymentsOf(o)  BY DEF PaymentsOf
    <3>1. orderStatus[o] = "confirmed" /\ RowsAgree(o)
      BY <1>10, <1>a DEF EnsureFulfillment, Accept, Reject
    <3>2. PaidOnce(o) /\ resv[o] = "converted" /\ hold[o] = NoHold
          /\ {coupon[o], loyalty[o]} \cap {"reserved", "released"} = {}
      BY <3>1 DEF RowsAgree, PaidOnce
    <3>3. CASE EnsureFulfillment(o)
      <4>1. orderStatus'[o] = "confirmed" /\ resv'[o] = resv[o] /\ stage'[o] = "new"
        BY <3>3, <1>t DEF EnsureFulfillment, TypeOK, OrderTypeOK
      <4>. QED
        BY <2>1, <2>2, <3>0, <3>1, <3>2, <4>1
           DEF RowsAgree, BlankBeforeCheckout, StageFollowsOrder, PendingHeld, PaidOnce, HoldsNothing
    <3>4. CASE Accept(o)
      <4>1. orderStatus'[o] = "accepted_by_chef" /\ resv'[o] = resv[o] /\ stage'[o] = "accepted"
        BY <3>4, <1>t DEF Accept, TypeOK, OrderTypeOK
      <4>. QED
        BY <2>1, <2>2, <3>0, <3>1, <3>2, <4>1
           DEF RowsAgree, BlankBeforeCheckout, StageFollowsOrder, PendingHeld, PaidOnce, HoldsNothing
    <3>5. CASE Reject(o, ok)
      <4>1. orderStatus'[o] = "cancelled" /\ resv'[o] = "released" /\ stage'[o] = "rejected"
        BY <3>2, <3>5, <1>t DEF Reject, TypeOK, OrderTypeOK
      <4>. QED
        BY <2>2, <3>2, <4>1
           DEF RowsAgree, BlankBeforeCheckout, StageFollowsOrder, PendingHeld, PaidOnce, HoldsNothing
    <3>. QED  BY <1>10, <3>3, <3>4, <3>5
  <2>. QED  BY <2>3, <2>4
<1>11. CASE Tick \/ UNCHANGED vars
  BY <1>1, <1>11 DEF Tick, vars, payVars, priceVars
<1>12. CASE \E i \in EditableItems : \E n \in 0..Total[i] : UpdateQuantity(i, n)
  BY <1>1, <1>12 DEF UpdateQuantity, payVars, priceVars
<1>13. CASE \E p \in Payments, t \in SentTypes : ProviderSends(p, t)
  BY <1>1, <1>13 DEF ProviderSends, payVars, priceVars
<1>14. CASE \E p \in Payments, k \in RefundKeys \ {ChefRejectKey}, ok \in BOOLEAN :
               \E n \in 1..AmountOf(p) : CreateRefund(p, k, n, ok)
  BY <1>1, <1>14 DEF CreateRefund, priceVars
<1>. QED
  BY <1>2, <1>3, <1>5, <1>6, <1>8, <1>9, <1>10, <1>11, <1>12, <1>13, <1>14 DEF Next, Carts

LEMMA OrderInvariant == Spec => []OrderInv
  BY InitAgrees, StepAgrees, PTL DEF Spec

\* While an order waits for payment its hold is live, it is unpaid and has spent
\* no benefit (PendingOrderHeld).
THEOREM PendingIsHeld == Spec => []PendingOrderHeld
<1>1. OrderInv => PendingOrderHeld
  BY DEF OrderInv, RowsAgree, PendingHeld, PendingOrderHeld
<1>. QED  BY <1>1, OrderInvariant, PTL

\* An order the chef may cook is paid by exactly one payment and everything it
\* took is final (ConfirmedOrderPaidOnce), in whatever order events arrive.
THEOREM ConfirmedIsPaidOnce == Spec => []ConfirmedOrderPaidOnce
<1>1. OrderInv => ConfirmedOrderPaidOnce
  BY DEF OrderInv, RowsAgree, PaidOnce, ConfirmedOrderPaidOnce
<1>. QED  BY <1>1, OrderInvariant, PTL

\* An order that ended holds no portion and no reserved benefit, and took money
\* only if the chef rejected it after payment (ClosedOrderHoldsNothing).
THEOREM ClosedHoldsNothing == Spec => []ClosedOrderHoldsNothing
<1>1. OrderInv => ClosedOrderHoldsNothing
  BY DEF OrderInv, RowsAgree, HoldsNothing, ClosedOrderHoldsNothing
<1>. QED  BY <1>1, OrderInvariant, PTL

(***************************************************************************)
(* What a step may never do.                                               *)
(***************************************************************************)

\* A refund adds to what was returned, it never subtracts.
LEMMA RefundGrows ==
    ASSUME TypeOK, NEW p \in Payments, NEW k, NEW n \in Nat, NEW ok \in BOOLEAN,
           RecordRefund(p, k, n, ok)
    PROVE  \A r \in Payments : refunded'[r] >= refunded[r]
  BY DEF RecordRefund, TypeOK, PayTypeOK

LEMMA RemainingType ==
    ASSUME TypeOK, NEW p \in Payments
    PROVE  Remaining(p) \in Nat
<1>1. AmountOf(p) \in Nat /\ refunded[p] \in Nat /\ refunded[p] <= AmountOf(p)
  BY AmountType DEF TypeOK, PayTypeOK
<1>. QED  BY <1>1 DEF Remaining

\* The money returned grows in the two actions that record a refund and stays in
\* the others.
LEMMA ElsewhereRefunds ==
    ASSUME TypeOK, Elsewhere
    PROVE  \A r \in Payments : refunded'[r] >= refunded[r]
<1>0. CASE UNCHANGED refunded  BY <1>0 DEF TypeOK, PayTypeOK
<1>1. CASE Tick \/ ReleaseExpiredHolds \/ UNCHANGED vars
  BY <1>0, <1>1 DEF Tick, ReleaseExpiredHolds, vars, payVars
<1>2. CASE \E o \in Orders, q \in [Items -> 0..MaxPerOrder], c \in BOOLEAN,
              k \in 0..MaxPoints : CreatePendingOrder(o, q, c, k)
  BY <1>0, <1>2 DEF CreatePendingOrder, payVars
<1>3. CASE \E o \in Orders : CancelPendingOrder(o)
  BY <1>0, <1>3 DEF CancelPendingOrder, payVars
<1>4. CASE \E i \in EditableItems : \E n \in 0..Total[i] : UpdateQuantity(i, n)
  BY <1>0, <1>4 DEF UpdateQuantity, payVars
<1>5. ASSUME NEW p \in Payments, NEW k \in RefundKeys \ {ChefRejectKey}, NEW ok \in BOOLEAN,
             NEW n \in 1..AmountOf(p), CreateRefund(p, k, n, ok)
      PROVE  \A r \in Payments : refunded'[r] >= refunded[r]
  <2>1. n \in Nat  BY AmountType
  <2>. QED  BY <1>5, <2>1, RefundGrows DEF CreateRefund
<1>6. CASE \E o \in Orders : EnsureFulfillment(o) \/ Accept(o)
  BY <1>0, <1>6 DEF EnsureFulfillment, Accept, payVars
<1>7. ASSUME NEW o \in Orders, NEW ok \in BOOLEAN, Reject(o, ok)
      PROVE  \A r \in Payments : refunded'[r] >= refunded[r]
  <2>1. PICK p \in SucceededPayments(o) : RejectionRefund(p, ok)  BY <1>7 DEF Reject
  <2>2. p \in Payments /\ Remaining(p) \in Nat
    BY RemainingType DEF SucceededPayments, PaymentsOf
  <2>. QED  BY <1>0, <2>1, <2>2, RefundGrows DEF RejectionRefund
<1>. QED  BY <1>1, <1>2, <1>3, <1>4, <1>5, <1>6, <1>7 DEF Elsewhere

\* What SuccessIsFinal says of one step.
Final == \A p \in Payments :
    /\ payStatus[p] = "succeeded" => payStatus'[p] = "succeeded"
    /\ refunded'[p] >= refunded[p]

LEMMA StepFinal == TypeOK /\ [Next]_vars => Final
<1>. SUFFICES ASSUME TypeOK, [Next]_vars PROVE Final  OBVIOUS
<1>1. CASE Elsewhere
  BY <1>1, ElsewhereKeeps, ElsewhereRefunds DEF Final
<1>. USE DEF TypeOK, PayTypeOK, Final
<1>2. CASE ExpirePendingPayments
  BY <1>2 DEF ExpirePendingPayments
<1>3. CASE \E p \in Payments : CreatePaymentIntent(p)
  BY <1>3 DEF CreatePaymentIntent
<1>4. CASE \E p \in Payments, t \in SentTypes : ProviderSends(p, t)
  BY <1>4 DEF ProviderSends, payVars
<1>5. ASSUME NEW p \in Payments, NEW t \in SentTypes, ProcessWebhook(p, t)
      PROVE  Final
  <2>1. \/ UNCHANGED payVars
        \/ ApplyPaymentSuccess(p)
        \/ payStatus[p] \notin FailureIgnored /\ ApplyPaymentFailure(p, SettledBy(t))
    BY <1>5 DEF ProcessWebhook
  <2>. QED
    BY <2>1 DEF payVars, ApplyPaymentSuccess, ApplyPaymentFailure, FailureIgnored
<1>. QED  BY <1>1, <1>2, <1>3, <1>4, <1>5, StepsByEvents

\* Once a payment has succeeded it stays so, and money that was returned stays
\* returned, in whatever order events and jobs come (SuccessIsFinal).
THEOREM SuccessStays == Spec => SuccessIsFinal
<1>1. TypeOK /\ [Next]_vars => [Final]_vars  BY StepFinal
<1>2. [][Final]_vars => SuccessIsFinal  BY DEF Final, SuccessIsFinal
<1>. QED  BY <1>1, <1>2, TypeCorrect, PTL DEF Spec

\* What OrderMovesForward says of one order.
Forward(o) == orderStatus'[o] # orderStatus[o] =>
    /\ <<orderStatus[o], orderStatus'[o]>> \in OrderSteps
    /\ orderStatus[o] = "confirmed" => stage'[o] \in {"accepted", "rejected"}

LEMMA SameStatusForward ==
    ASSUME UNCHANGED orderStatus
    PROVE  \A o \in Orders : Forward(o)
  BY DEF Forward

LEMMA CloseUnpaidForward ==
    ASSUME OrderTypeOK, NEW S \in SUBSET Orders, \A x \in S : orderStatus[x] = "pending_payment",
           NEW status \in {"cancelled", "expired"}, NEW R, NEW resvEnd,
           CloseUnpaid(S, status, R, resvEnd)
    PROVE  \A o \in Orders : Forward(o)
  BY DEF CloseUnpaid, OrderTypeOK, Forward, OrderSteps

\* No payment, retry or sweep reopens an order or pulls a paid one back
\* (OrderMovesForward).
THEOREM OrdersMoveForward == Spec => OrderMovesForward
<1>1. ASSUME OrderInv, Next PROVE \A o \in Orders : Forward(o)
  <2>0. OrderTypeOK  BY <1>1 DEF OrderInv, TypeOK
  <2>1. CASE Elsewhere
    <3>1. CASE Tick \/ UNCHANGED vars
      BY <3>1, SameStatusForward DEF Tick, vars, orderVars
    <3>2. CASE ReleaseExpiredHolds
      <4>. DEFINE E == {o \in Orders : resv[o] = "active" /\ expiry[o] <= now}
      <4>1. CloseUnpaid(Unpaid(E), "expired", E, "expired")
        BY <3>2 DEF ReleaseExpiredHolds
      <4>2. Unpaid(E) \in SUBSET Orders /\ \A x \in Unpaid(E) : orderStatus[x] = "pending_payment"
        BY DEF Unpaid
      <4>. QED  BY <2>0, <4>1, <4>2, CloseUnpaidForward
    <3>3. CASE \E o \in Orders, q \in [Items -> 0..MaxPerOrder], c \in BOOLEAN,
                  k \in 0..MaxPoints : CreatePendingOrder(o, q, c, k)
      BY <2>0, <3>3 DEF CreatePendingOrder, OrderTypeOK, Forward, OrderSteps
    <3>4. ASSUME NEW x \in Orders, CancelPendingOrder(x)
          PROVE  \A o \in Orders : Forward(o)
      BY <2>0, <3>4, CloseUnpaidForward DEF CancelPendingOrder
    <3>5. CASE \E i \in EditableItems : \E n \in 0..Total[i] : UpdateQuantity(i, n)
      BY <3>5, SameStatusForward DEF UpdateQuantity, orderVars
    <3>6. CASE \E p \in Payments, k \in RefundKeys \ {ChefRejectKey}, ok \in BOOLEAN :
                  \E n \in 1..AmountOf(p) : CreateRefund(p, k, n, ok)
      BY <3>6, SameStatusForward DEF CreateRefund, orderVars
    <3>7. CASE \E o \in Orders : EnsureFulfillment(o)
      BY <3>7, SameStatusForward DEF EnsureFulfillment
    <3>8. CASE \E o \in Orders : Accept(o)
      BY <2>0, <3>8 DEF Accept, OrderTypeOK, Forward, OrderSteps
    <3>9. CASE \E o \in Orders, ok \in BOOLEAN : Reject(o, ok)
      BY <2>0, <3>9 DEF Reject, OrderTypeOK, Forward, OrderSteps
    <3>. QED  BY <2>1, <3>1, <3>2, <3>3, <3>4, <3>5, <3>6, <3>7, <3>8, <3>9 DEF Elsewhere
  <2>2. CASE ExpirePendingPayments
    BY <2>2, SameStatusForward DEF ExpirePendingPayments, orderVars
  <2>3. CASE \E p \in Payments : CreatePaymentIntent(p)
    BY <2>3, SameStatusForward DEF CreatePaymentIntent, orderVars
  <2>4. CASE \E p \in Payments, t \in SentTypes : ProviderSends(p, t)
    BY <2>4, SameStatusForward DEF ProviderSends, orderVars
  <2>5. ASSUME NEW p \in Payments, NEW t \in SentTypes, ProcessWebhook(p, t)
        PROVE  \A o \in Orders : Forward(o)
    <3>1. PaymentOrder[p] \in Orders  BY AmountType
    <3>2. CASE UNCHANGED orderVars  BY <3>2, SameStatusForward DEF orderVars
    <3>3. CASE ApplyPaymentSuccess(p)
      BY <2>0, <3>1, <3>3 DEF ApplyPaymentSuccess, OrderTypeOK, Forward, OrderSteps
    <3>4. CASE ApplyPaymentFailure(p, SettledBy(t))
      <4>1. CASE ClosesOrder(PaymentOrder[p])
        <5>1. CloseUnpaid({PaymentOrder[p]}, "expired", ActiveOf(PaymentOrder[p]), "released")
          BY <3>4, <4>1 DEF ApplyPaymentFailure
        <5>. QED  BY <2>0, <3>1, <4>1, <5>1, CloseUnpaidForward DEF ClosesOrder
      <4>2. CASE ~ClosesOrder(PaymentOrder[p])
        BY <3>2, <3>4, <4>2 DEF ApplyPaymentFailure
      <4>. QED  BY <4>1, <4>2
    <3>. QED  BY <2>5, <3>2, <3>3, <3>4 DEF ProcessWebhook
  <2>. QED  BY <1>1, <2>1, <2>2, <2>3, <2>4, <2>5, StepsByEvents
<1>2. OrderInv /\ [Next]_vars => [\A o \in Orders : Forward(o)]_vars  BY <1>1
<1>3. [][\A o \in Orders : Forward(o)]_vars => OrderMovesForward
  BY DEF Forward, OrderMovesForward
<1>. QED  BY <1>2, <1>3, OrderInvariant, PTL DEF Spec

(***************************************************************************)
(* What the columns that count something add up to: the portions on sale,  *)
(* the coupon's counters, the points, the money that was returned.  The    *)
(* models count units, one element per portion, point or piastre, so every *)
(* sum is the cardinality of a set of pairs.                               *)
(***************************************************************************)

\* f[x] units of each x of S, for an f that does not exceed N.
Units(S, f, N) == {u \in S \X (1..N) : u[2] <= f[u[1]]}

LEMMA UnitsFiniteSet ==
    ASSUME NEW S, IsFiniteSet(S), NEW f, NEW N \in Nat
    PROVE  IsFiniteSet(Units(S, f, N))
<1>1. IsFiniteSet(1..N)  BY FS_Interval
<1>2. IsFiniteSet(S \X (1..N))  BY <1>1, FS_Product
<1>3. Units(S, f, N) \in SUBSET (S \X (1..N))  BY DEF Units
<1>. QED  BY <1>2, <1>3, FS_Subset

LEMMA FirstNumbers ==
    ASSUME NEW n \in Nat
    PROVE  IsFiniteSet(1..n) /\ Cardinality(1..n) = n
<1>1. Cardinality(1..n) = IF 1 > n THEN 0 ELSE n - 1 + 1  BY FS_Interval
<1>2. IsFiniteSet(1..n)  BY FS_Interval
<1>. QED  BY <1>1, <1>2

\* One more element brings its own units.
LEMMA UnitsOfOneMore ==
    ASSUME NEW S, NEW f, NEW N \in Nat, NEW x, x \notin S, f[x] \in 0..N,
           IsFiniteSet(Units(S, f, N))
    PROVE  /\ IsFiniteSet(Units(S \cup {x}, f, N))
           /\ Cardinality(Units(S \cup {x}, f, N)) = Cardinality(Units(S, f, N)) + f[x]
<1>. DEFINE A == Units(S, f, N)
            B == {x} \X (1..f[x])
<1>1. Units(S \cup {x}, f, N) = A \cup B  BY DEF Units
<1>2. A \cap B = {}  BY DEF Units
<1>3. IsFiniteSet({x}) /\ Cardinality({x}) = 1  BY FS_Singleton
<1>4. IsFiniteSet(1..f[x]) /\ Cardinality(1..f[x]) = f[x]
  BY FirstNumbers
<1>5. IsFiniteSet(B) /\ Cardinality(B) = f[x]
  <2>1. IsFiniteSet(B) /\ Cardinality(B) = Cardinality({x}) * Cardinality(1..f[x])
    BY <1>3, <1>4, FS_Product
  <2>. QED  BY <1>3, <1>4, <2>1
<1>6. IsFiniteSet(A) /\ Cardinality(A) \in Nat /\ Cardinality({}) = 0
  BY FS_CardinalityType, FS_EmptySet
<1>. HIDE DEF A, B
<1>7. IsFiniteSet(A \cup B)
      /\ Cardinality(A \cup B) = Cardinality(A) + Cardinality(B) - Cardinality(A \cap B)
  BY <1>5, <1>6, FS_Union
<1>8. Cardinality(A \cup B) = Cardinality(A) + f[x]
  <2>1. Cardinality(A \cap B) = 0  BY <1>2, <1>6
  <2>. QED  BY <1>5, <1>6, <1>7, <2>1
<1>. QED  BY <1>1, <1>7, <1>8 DEF A

\* The units of a part and of the rest.
LEMMA UnitsOfParts ==
    ASSUME NEW S, NEW R \in SUBSET S, NEW f, NEW N \in Nat, IsFiniteSet(Units(S, f, N))
    PROVE  /\ Cardinality(Units(S, f, N)) =
                 Cardinality(Units(S \ R, f, N)) + Cardinality(Units(R, f, N))
           /\ Cardinality(Units(S \ R, f, N)) \in Nat /\ Cardinality(Units(R, f, N)) \in Nat
           /\ Cardinality(Units(S, f, N)) \in Nat
<1>. DEFINE A == Units(S \ R, f, N)
            B == Units(R, f, N)
<1>1. Units(S, f, N) = A \cup B /\ A \cap B = {}  BY DEF Units
<1>2. A \in SUBSET Units(S, f, N) /\ B \in SUBSET Units(S, f, N)  BY DEF Units
<1>3. IsFiniteSet(A) /\ IsFiniteSet(B)  BY <1>2, FS_Subset
<1>4. Cardinality(A \cup B) = Cardinality(A) + Cardinality(B) - Cardinality(A \cap B)
  <2>. HIDE DEF A, B
  <2>. QED  BY <1>3, FS_Union
<1>5. Cardinality(A) \in Nat /\ Cardinality(B) \in Nat /\ Cardinality({}) = 0
  BY <1>3, FS_CardinalityType, FS_EmptySet
<1>. HIDE DEF A, B
<1>6. Cardinality(A \cup B) = Cardinality(A) + Cardinality(B)
  <2>1. Cardinality(A \cap B) = 0  BY <1>1, <1>5
  <2>. QED  BY <1>4, <1>5, <2>1
<1>7. Cardinality(A) + Cardinality(B) \in Nat  BY <1>5
<1>. QED  BY <1>1, <1>5, <1>6, <1>7 DEF A, B

\* The units of S depend on the values of f in S alone.
LEMMA SameUnits ==
    ASSUME NEW S, NEW f, NEW g, NEW N, \A x \in S : f[x] = g[x]
    PROVE  Units(S, f, N) = Units(S, g, N)
  BY DEF Units

(***************************************************************************)
(* Portions.                                                               *)
(***************************************************************************)

\* How many portions of an item each order has.
Wanted(i) == [o \in Orders |-> qty[o][i]]

LEMMA PortionsAreUnits ==
    ASSUME NEW S \in SUBSET Orders, NEW i
    PROVE  Portions(i, S) = Units(S, Wanted(i), MaxPerOrder)
  BY DEF Portions, Units, Wanted

LEMMA PortionsAfter ==
    ASSUME NEW i, Holders' \subseteq Orders
    PROVE  Portions(i, Holders)' = Units(Holders', Wanted(i)', MaxPerOrder)
  BY DEF Portions, Units, Wanted

StockInv == OrderInv /\ StockConserved /\ SoldOutIffEmpty

\* Giving the portions of some holders back: nothing is clamped, because what
\* they held was part of the total.
LEMMA ReleaseKeepsStock ==
    ASSUME StockInv, NEW R \in SUBSET Holders, ReleaseInventory(R),
           Holders' = Holders \ R, UNCHANGED qty
    PROVE  StockConserved' /\ SoldOutIffEmpty'
<1>. SUFFICES ASSUME NEW i \in Items
              PROVE  /\ ~edited'[i] => avail'[i] + Cardinality(Portions(i, Holders)') = Total[i]
                     /\ itemStatus'[i] = "sold_out" <=> avail'[i] = 0
  BY DEF StockConserved, SoldOutIffEmpty
<1>. DEFINE n == Cardinality(Portions(i, R))
<1>1. R \in SUBSET Orders /\ Holders \in SUBSET Orders /\ Holders' \subseteq Orders
  BY DEF Holders
<1>2. IsFiniteSet(Portions(i, R)) /\ n \in Nat  BY <1>1, UnitsFinite
<1>3. avail[i] \in Nat /\ Total[i] \in Nat /\ avail[i] <= Total[i]
  BY NumbersAssumption DEF StockInv, OrderInv, TypeOK, StockTypeOK
<1>4. avail'[i] = AtMost(avail[i] + n, Total[i])  BY DEF ReleaseInventory
<1>5. ASSUME ~edited'[i]
      PROVE  avail'[i] + Cardinality(Portions(i, Holders)') = Total[i]
  <2>1. MaxPerOrder \in Nat /\ IsFiniteSet(Holders)
    BY <1>1, NumbersAssumption, FiniteAssumption, FS_Subset
  <2>2. IsFiniteSet(Units(Holders, Wanted(i), MaxPerOrder))  BY <2>1, UnitsFiniteSet
  <2>3. Portions(i, Holders)' = Units(Holders \ R, Wanted(i), MaxPerOrder)
    BY <1>1, PortionsAfter DEF Wanted
  <2>4. /\ Cardinality(Portions(i, Holders)) = Cardinality(Portions(i, Holders)') + n
        /\ Cardinality(Portions(i, Holders)') \in Nat
    <3>1. /\ Portions(i, Holders) = Units(Holders, Wanted(i), MaxPerOrder)
          /\ Portions(i, R) = Units(R, Wanted(i), MaxPerOrder)
      BY <1>1, PortionsAreUnits
    <3>2. /\ Cardinality(Units(Holders, Wanted(i), MaxPerOrder)) =
                Cardinality(Units(Holders \ R, Wanted(i), MaxPerOrder))
                + Cardinality(Units(R, Wanted(i), MaxPerOrder))
          /\ Cardinality(Units(Holders \ R, Wanted(i), MaxPerOrder)) \in Nat
      BY <2>1, <2>2, UnitsOfParts
    <3>. QED  BY <2>3, <3>1, <3>2
  <2>5. avail[i] + Cardinality(Portions(i, Holders)) = Total[i]
    BY <1>5 DEF StockInv, StockConserved, ReleaseInventory
  <2>. HIDE DEF n
  <2>. QED  BY <1>2, <1>3, <1>4, <2>4, <2>5 DEF AtMost
<1>6. itemStatus'[i] = "sold_out" <=> avail'[i] = 0
  <2>1. itemStatus[i] = "sold_out" <=> avail[i] = 0  BY DEF StockInv, SoldOutIffEmpty
  <2>2. itemStatus'[i] = IF itemStatus[i] = "sold_out" /\ Portions(i, R) # {} /\ avail'[i] > 0
                         THEN "available" ELSE itemStatus[i]
    BY DEF ReleaseInventory, StatusAfterRelease
  <2>3. Portions(i, R) # {} <=> n > 0  BY <1>2, FS_EmptySet
  <2>. HIDE DEF n
  <2>. QED  BY <1>2, <1>3, <1>4, <2>1, <2>2, <2>3 DEF AtMost
<1>. QED  BY <1>5, <1>6

\* Unpaid orders hold what they give back.
LEMMA CloseKeepsStock ==
    ASSUME StockInv, NEW S, NEW status, NEW R \in SUBSET Orders, \A o \in R : resv[o] = "active",
           NEW resvEnd \in {"released", "expired"}, CloseUnpaid(S, status, R, resvEnd)
    PROVE  StockConserved' /\ SoldOutIffEmpty'
<1>1. R \in SUBSET Holders  BY DEF Holders
<1>2. Holders' = Holders \ R  BY DEF Holders, CloseUnpaid, ResvAfter
<1>. QED  BY <1>1, <1>2, ReleaseKeepsStock DEF CloseUnpaid

\* A step that leaves the portions where they are.
LEMMA QuietStock ==
    ASSUME StockInv, UNCHANGED <<stockVars, qty>>, Holders' = Holders
    PROVE  StockConserved' /\ SoldOutIffEmpty'
  BY DEF StockInv, StockConserved, SoldOutIffEmpty, stockVars, Portions

\* A checkout takes its portions off sale and becomes a holder.
LEMMA CheckoutKeepsStock ==
    ASSUME StockInv, NEW o \in Orders, NEW q \in [Items -> 0..MaxPerOrder], NEW c \in BOOLEAN,
           NEW k \in 0..MaxPoints, CreatePendingOrder(o, q, c, k)
    PROVE  StockConserved' /\ SoldOutIffEmpty'
<1>. SUFFICES ASSUME NEW i \in Items
              PROVE  /\ ~edited'[i] => avail'[i] + Cardinality(Portions(i, Holders)') = Total[i]
                     /\ itemStatus'[i] = "sold_out" <=> avail'[i] = 0
  BY DEF StockConserved, SoldOutIffEmpty
<1>t. OrderTypeOK /\ StockTypeOK  BY DEF StockInv, OrderInv, TypeOK
<1>1. Holders' = Holders \cup {o} /\ o \notin Holders
  <2>1. resv[o] = "none"
    BY DEF StockInv, OrderInv, RowsAgree, BlankBeforeCheckout, CreatePendingOrder
  <2>. QED  BY <1>t, <2>1 DEF Holders, CreatePendingOrder, OrderTypeOK
<1>2. q[i] \in 0..MaxPerOrder /\ MaxPerOrder \in Nat  BY NumbersAssumption
<1>3. avail'[i] = avail[i] - q[i] /\ avail[i] \in Nat  BY <1>t DEF CreatePendingOrder, StockTypeOK
<1>4. ASSUME ~edited'[i]
      PROVE  avail'[i] + Cardinality(Portions(i, Holders)') = Total[i]
  <2>1. Holders \in SUBSET Orders /\ IsFiniteSet(Holders)
    BY FiniteAssumption, FS_Subset DEF Holders
  <2>2. Portions(i, Holders)' = Units(Holders \cup {o}, Wanted(i)', MaxPerOrder)
    BY <1>1, <2>1, PortionsAfter
  <2>3. Wanted(i)'[o] = q[i] /\ \A x \in Holders : Wanted(i)'[x] = Wanted(i)[x]
    BY <1>t, <1>1, <2>1 DEF Wanted, CreatePendingOrder, OrderTypeOK
  <2>4. Units(Holders, Wanted(i)', MaxPerOrder) = Portions(i, Holders)
    BY <2>1, <2>3, SameUnits, PortionsAreUnits
  <2>5. IsFiniteSet(Portions(i, Holders)) /\ Cardinality(Portions(i, Holders)) \in Nat
    BY <2>1, UnitsFinite
  <2>6. Cardinality(Portions(i, Holders)') = Cardinality(Portions(i, Holders)) + q[i]
    BY <1>1, <1>2, <2>2, <2>3, <2>4, <2>5, UnitsOfOneMore
  <2>7. avail[i] + Cardinality(Portions(i, Holders)) = Total[i]
    BY <1>4 DEF StockInv, StockConserved, CreatePendingOrder
  <2>8. Total[i] \in Nat  BY NumbersAssumption
  <2>. QED  BY <1>2, <1>3, <2>5, <2>6, <2>7, <2>8
<1>5. itemStatus'[i] = "sold_out" <=> avail'[i] = 0
  <2>1. itemStatus[i] = "sold_out" <=> avail[i] = 0  BY DEF StockInv, SoldOutIffEmpty
  <2>2. itemStatus'[i] = IF q[i] > 0 /\ avail[i] = q[i] THEN "sold_out" ELSE itemStatus[i]
    BY DEF CreatePendingOrder
  <2>3. q[i] > 0 => itemStatus[i] = "available"  BY DEF CreatePendingOrder
  <2>. QED  BY <1>2, <1>3, <2>1, <2>2, <2>3
<1>. QED  BY <1>4, <1>5

LEMMA InitStock == Init => StockInv
<1>. SUFFICES ASSUME Init PROVE StockConserved /\ SoldOutIffEmpty  BY InitAgrees DEF StockInv
<1>1. Holders = {}  BY DEF Init, Holders
<1>2. \A i \in Items : Cardinality(Portions(i, Holders)) = 0
  <2>1. \A i \in Items : Portions(i, {}) = {}  BY DEF Portions
  <2>. QED  BY <1>1, <2>1, FS_EmptySet
<1>. QED  BY <1>2, NumbersAssumption DEF Init, StockConserved, SoldOutIffEmpty

LEMMA StepStock == StockInv /\ [Next]_vars => StockInv'
<1>. DEFINE Exact == StockConserved /\ SoldOutIffEmpty
<1>. SUFFICES ASSUME StockInv, [Next]_vars PROVE Exact'  BY StepAgrees DEF StockInv
<1>t. OrderTypeOK /\ StockTypeOK  BY DEF StockInv, OrderInv, TypeOK
<1>q. ASSUME UNCHANGED <<stockVars, qty, resv>> PROVE Exact'
  BY <1>q, QuietStock DEF Holders
<1>1. CASE Tick \/ UNCHANGED vars
  BY <1>1, <1>q DEF Tick, vars, orderVars
<1>2. CASE ReleaseExpiredHolds
  <2>. DEFINE E == {o \in Orders : resv[o] = "active" /\ expiry[o] <= now}
  <2>1. CloseUnpaid(Unpaid(E), "expired", E, "expired")  BY <1>2 DEF ReleaseExpiredHolds
  <2>2. E \in SUBSET Orders /\ \A o \in E : resv[o] = "active"  OBVIOUS
  <2>. HIDE DEF E
  <2>. QED  BY <2>1, <2>2, CloseKeepsStock
<1>3. ASSUME NEW o \in Orders, NEW q \in [Items -> 0..MaxPerOrder], NEW c \in BOOLEAN,
             NEW k \in 0..MaxPoints, CreatePendingOrder(o, q, c, k)
      PROVE  Exact'
  BY <1>3, CheckoutKeepsStock
<1>4. ASSUME NEW o \in Orders, NEW S, NEW status, CloseUnpaid(S, status, ActiveOf(o), "released")
      PROVE  Exact'
  <2>1. ActiveOf(o) \in SUBSET Orders /\ \A x \in ActiveOf(o) : resv[x] = "active"
    BY DEF ActiveOf
  <2>. QED  BY <1>4, <2>1, CloseKeepsStock
<1>5. ASSUME NEW o \in Orders, CancelPendingOrder(o) PROVE Exact'
  BY <1>4, <1>5 DEF CancelPendingOrder
<1>6. ASSUME NEW i \in EditableItems, NEW n \in 0..Total[i], UpdateQuantity(i, n) PROVE Exact'
  BY <1>6, <1>t, SetsAssumption
     DEF UpdateQuantity, orderVars, StockInv, StockConserved, SoldOutIffEmpty, StockTypeOK, Portions,
         Holders
<1>7. CASE \/ \E p \in Payments : CreatePaymentIntent(p)
           \/ \E p \in Payments, t \in SentTypes : ProviderSends(p, t)
           \/ ExpirePendingPayments
           \/ \E p \in Payments, k \in RefundKeys \ {ChefRejectKey}, ok \in BOOLEAN :
                 \E n \in 1..AmountOf(p) : CreateRefund(p, k, n, ok)
           \/ \E o \in Orders : EnsureFulfillment(o) \/ Accept(o)
  BY <1>7, <1>q DEF CreatePaymentIntent, ProviderSends, ExpirePendingPayments, CreateRefund,
                    EnsureFulfillment, Accept, orderVars
<1>8. ASSUME NEW p \in Payments, NEW t \in SentTypes, ProcessWebhook(p, t) PROVE Exact'
  <2>. DEFINE o == PaymentOrder[p]
  <2>0. o \in Orders  BY SetsAssumption
  <2>1. CASE UNCHANGED <<stockVars, orderVars>>  BY <2>1, <1>q DEF orderVars
  <2>2. CASE ApplyPaymentSuccess(p)
    <3>1. Holders' = Holders
      BY <1>t, <2>0, <2>2 DEF ApplyPaymentSuccess, Holders, OrderTypeOK, HoldLive
    <3>. QED  BY <2>2, <3>1, QuietStock DEF ApplyPaymentSuccess
  <2>3. CASE ApplyPaymentFailure(p, SettledBy(t))
    BY <1>4, <2>0, <2>1, <2>3 DEF ApplyPaymentFailure
  <2>. QED  BY <1>8, <2>1, <2>2, <2>3 DEF ProcessWebhook
<1>9. ASSUME NEW o \in Orders, NEW ok \in BOOLEAN, Reject(o, ok) PROVE Exact'
  <2>. DEFINE R == {x \in {o} : resv[x] = "converted"}
  <2>1. ReleaseInventory(R) /\ UNCHANGED qty  BY <1>9 DEF Reject
  <2>2. R \in SUBSET Holders /\ Holders' = Holders \ R
    BY <1>9, <1>t DEF Reject, Holders, OrderTypeOK
  <2>. HIDE DEF R
  <2>. QED  BY <2>1, <2>2, ReleaseKeepsStock
<1>. QED  BY <1>1, <1>2, <1>3, <1>5, <1>6, <1>7, <1>8, <1>9 DEF Next, Carts

\* No portion is lost or sold twice, and an item is sold out exactly when nothing
\* of it is on sale, for any number of items, carts and editions of quantities
\* (reserve_inventory, release_inventory, update_quantity, one transaction at a
\* time).
THEOREM StockIsExact == Spec => []StockExact
<1>1. StockInv => StockExact  BY DEF StockInv, StockExact
<1>. QED  BY InitStock, StepStock, <1>1, PTL DEF Spec

(***************************************************************************)
(* The money that was returned.                                            *)
(***************************************************************************)

\* The refund keys of a payment whose refund succeeded, and the amounts.
Returned(p) == {k \in RefundKeys : refund[p][k].status = "succeeded"}
AmountReturned(p) == [k \in RefundKeys |-> refund[p][k].amount]

RefundsExact(p) ==
    /\ IsFiniteSet(RefundedUnits(p))
    /\ refunded[p] = Cardinality(RefundedUnits(p))
    /\ refunded[p] > 0 => payStatus[p] = "succeeded"

RefundsInv == TypeOK /\ \A p \in Payments : RefundsExact(p)

LEMMA ReturnedAreUnits ==
    ASSUME NEW p
    PROVE  RefundedUnits(p) = Units(Returned(p), AmountReturned(p), AmountOf(p))
  BY DEF RefundedUnits, Units, Returned, AmountReturned

LEMMA ReturnedAfter ==
    ASSUME NEW p \in Payments
    PROVE  RefundedUnits(p)' = Units(Returned(p)', AmountReturned(p)', AmountOf(p))
  BY DEF RefundedUnits, Units, Returned, AmountReturned, AmountOf

\* A refund row is written once, of what remains at most, on a paid payment.
LEMMA RecordKeepsSum ==
    ASSUME RefundsInv, NEW p \in Payments, payStatus[p] = "succeeded", NEW k \in RefundKeys,
           refund[p][k].status = "none", NEW n \in Nat, n <= Remaining(p), NEW ok \in BOOLEAN,
           RecordRefund(p, k, n, ok), UNCHANGED payStatus
    PROVE  \A x \in Payments : RefundsExact(x)'
<1>t. PayTypeOK  BY DEF RefundsInv, TypeOK
<1>1. ASSUME NEW x \in Payments, x # p PROVE RefundsExact(x)'
  <2>1. refund'[x] = refund[x] /\ refunded'[x] = refunded[x]
    BY <1>t, <1>1 DEF RecordRefund, PayTypeOK
  <2>2. RefundedUnits(x)' = RefundedUnits(x)
    BY <2>1 DEF RefundedUnits, AmountOf
  <2>. QED  BY <2>1, <2>2 DEF RefundsInv, RefundsExact
<1>2. RefundsExact(p)'
  <2>1. /\ \A j \in RefundKeys \ {k} : refund'[p][j] = refund[p][j]
        /\ refund'[p][k] = [status |-> IF ok THEN "succeeded" ELSE "failed", amount |-> n]
        /\ refunded'[p] = IF ok THEN refunded[p] + n ELSE refunded[p]
    BY <1>t DEF RecordRefund, PayTypeOK
  <2>2. AmountOf(p) \in Nat /\ refunded[p] \in Nat /\ n \in 0..AmountOf(p)
    BY <1>t, AmountType DEF PayTypeOK, Remaining
  <2>3. k \notin Returned(p) /\ \A j \in Returned(p) : AmountReturned(p)'[j] = AmountReturned(p)[j]
    BY <2>1 DEF Returned, AmountReturned
  <2>4. Units(Returned(p), AmountReturned(p)', AmountOf(p)) = RefundedUnits(p)
    BY <2>3, SameUnits, ReturnedAreUnits
  <2>5. IsFiniteSet(RefundedUnits(p)) /\ refunded[p] = Cardinality(RefundedUnits(p))
    BY DEF RefundsInv, RefundsExact
  <2>6. CASE ok
    <3>1. Returned(p)' = Returned(p) \cup {k} /\ AmountReturned(p)'[k] = n
      BY <2>1, <2>6 DEF Returned, AmountReturned
    <3>2. /\ IsFiniteSet(Units(Returned(p) \cup {k}, AmountReturned(p)', AmountOf(p)))
          /\ Cardinality(Units(Returned(p) \cup {k}, AmountReturned(p)', AmountOf(p))) =
                refunded[p] + n
      BY <2>2, <2>3, <2>4, <2>5, <3>1, UnitsOfOneMore
    <3>3. RefundedUnits(p)' = Units(Returned(p) \cup {k}, AmountReturned(p)', AmountOf(p))
      BY <3>1, ReturnedAfter
    <3>. QED  BY <2>1, <2>6, <3>2, <3>3 DEF RefundsExact
  <2>7. CASE ~ok
    <3>1. Returned(p)' = Returned(p)  BY <2>1, <2>3, <2>7 DEF Returned
    <3>2. RefundedUnits(p)' = RefundedUnits(p)  BY <2>4, <3>1, ReturnedAfter
    <3>. QED  BY <2>1, <2>5, <2>7, <3>2 DEF RefundsExact
  <2>. QED  BY <2>6, <2>7
<1>. QED  BY <1>1, <1>2

LEMMA InitRefunds == Init => RefundsInv
<1>. SUFFICES ASSUME Init, NEW p \in Payments PROVE RefundsExact(p)
  BY InitType DEF RefundsInv
<1>1. RefundedUnits(p) = {}  BY DEF Init, RefundedUnits, NoRefund
<1>. QED  BY <1>1, FS_EmptySet DEF Init, RefundsExact

LEMMA StepRefunds == RefundsInv /\ [Next]_vars => RefundsInv'
<1>. DEFINE Exact == \A p \in Payments : RefundsExact(p)
<1>. SUFFICES ASSUME RefundsInv, [Next]_vars PROVE Exact'  BY StepType DEF RefundsInv
<1>0. ASSUME UNCHANGED <<refund, refunded>> PROVE Exact'
  <2>1. Final  BY StepFinal DEF RefundsInv
  <2>. QED  BY <1>0, <2>1 DEF RefundsInv, RefundsExact, RefundedUnits, AmountOf, Final
<1>1. CASE \/ Tick \/ ReleaseExpiredHolds \/ ExpirePendingPayments \/ UNCHANGED vars
           \/ \E p \in Payments : CreatePaymentIntent(p)
           \/ \E p \in Payments, t \in SentTypes : ProviderSends(p, t)
           \/ \E o \in Orders : CancelPendingOrder(o) \/ EnsureFulfillment(o) \/ Accept(o)
  BY <1>0, <1>1 DEF Tick, ReleaseExpiredHolds, ExpirePendingPayments, CreatePaymentIntent,
                    ProviderSends, CancelPendingOrder, EnsureFulfillment, Accept, payVars, vars
<1>2. CASE \E o \in Orders, q \in [Items -> 0..MaxPerOrder], c \in BOOLEAN,
              k \in 0..MaxPoints : CreatePendingOrder(o, q, c, k)
  BY <1>0, <1>2 DEF CreatePendingOrder, payVars
<1>3. CASE \E i \in EditableItems : \E n \in 0..Total[i] : UpdateQuantity(i, n)
  BY <1>0, <1>3 DEF UpdateQuantity, payVars
<1>4. CASE \E p \in Payments, t \in SentTypes : ProcessWebhook(p, t)
  BY <1>0, <1>4 DEF ProcessWebhook, ApplyPaymentSuccess, ApplyPaymentFailure, payVars
<1>5. ASSUME NEW p \in Payments, NEW k \in RefundKeys \ {ChefRejectKey}, NEW ok \in BOOLEAN,
             NEW n \in 1..AmountOf(p), CreateRefund(p, k, n, ok)
      PROVE  Exact'
  <2>1. n \in Nat  BY AmountType
  <2>. QED  BY <1>5, <2>1, RecordKeepsSum DEF CreateRefund
<1>6. ASSUME NEW o \in Orders, NEW ok \in BOOLEAN, Reject(o, ok) PROVE Exact'
  <2>1. PICK p \in SucceededPayments(o) : RejectionRefund(p, ok)  BY <1>6 DEF Reject
  <2>2. /\ p \in Payments /\ payStatus[p] = "succeeded" /\ UNCHANGED payStatus
        /\ ChefRejectKey \in RefundKeys
    BY <1>6, SetsAssumption DEF Reject, SucceededPayments, PaymentsOf
  <2>3. Remaining(p) \in Nat  BY <2>2, RemainingType DEF RefundsInv
  <2>. QED  BY <1>0, <2>1, <2>2, <2>3, RecordKeepsSum DEF RejectionRefund
<1>. QED  BY <1>1, <1>2, <1>3, <1>4, <1>5, <1>6 DEF Next, Carts

\* The money recorded as refunded is the sum of the refunds that succeeded, never
\* more than was paid and only on a payment that succeeded, for any number of
\* partial refunds and rejections (create_refund, reject).
THEOREM RefundsSumUp == Spec => []RefundsAddUp
<1>1. RefundsInv => RefundsAddUp
  BY DEF RefundsInv, TypeOK, PayTypeOK, RefundsExact, RefundsAddUp
<1>. QED  BY InitRefunds, StepRefunds, <1>1, PTL DEF Spec

(***************************************************************************)
(* The coupon and the points.                                              *)
(***************************************************************************)

LEMMA UnitsOfOne ==
    ASSUME NEW f, NEW N \in Nat, NEW x, f[x] \in 0..N
    PROVE  Cardinality(Units({x}, f, N)) = f[x]
<1>1. IsFiniteSet(Units({}, f, N)) /\ Cardinality(Units({}, f, N)) = 0
  <2>1. Units({}, f, N) = {}  BY DEF Units
  <2>. QED  BY <2>1, FS_EmptySet
<1>2. x \notin {}  OBVIOUS
<1>3. Cardinality(Units({} \cup {x}, f, N)) = Cardinality(Units({}, f, N)) + f[x]
  BY <1>1, <1>2, UnitsOfOneMore
<1>4. Units({} \cup {x}, f, N) = Units({x}, f, N)  BY DEF Units
<1>. QED  BY <1>1, <1>3, <1>4

WithCoupon(status) == {o \in Orders : coupon[o] = status}

\* The orders of S that are customer c's.
Own(c, S) == {o \in S : OwnerOf[o] = c}

LEMMA PointsAreUnits ==
    ASSUME NEW c, NEW S
    PROVE  PointsOf(c, S) = Units(Own(c, S), points, MaxPoints)
  BY DEF PointsOf, Units, Own

LEMMA PointsAfter ==
    ASSUME NEW c, NEW status
    PROVE  PointsOf(c, WithPoints(status))' = Units(Own(c, WithPoints(status)'), points', MaxPoints)
  BY DEF PointsOf, Units, Own

BenefitsInv == OrderInv /\ CouponCountsExact /\ PointsConserved

\* Sets of orders, of orders of one customer, and their points are finite.
LEMMA OrdersFinite ==
    ASSUME NEW S \in SUBSET Orders
    PROVE  /\ IsFiniteSet(S) /\ Cardinality(S) \in Nat
           /\ \A c : /\ IsFiniteSet(Own(c, S))
                    /\ IsFiniteSet(Units(Own(c, S), points, MaxPoints))
                    /\ Cardinality(Units(Own(c, S), points, MaxPoints)) \in Nat
<1>1. IsFiniteSet(S) /\ Cardinality(S) \in Nat  BY UnitsFinite
<1>2. ASSUME NEW c PROVE IsFiniteSet(Own(c, S))
  <2>1. Own(c, S) \in SUBSET S  BY DEF Own
  <2>. QED  BY <1>1, <2>1, FS_Subset
<1>3. ASSUME NEW c
      PROVE  /\ IsFiniteSet(Units(Own(c, S), points, MaxPoints))
             /\ Cardinality(Units(Own(c, S), points, MaxPoints)) \in Nat
  BY <1>2, UnitsFiniteSet, NumbersAssumption, FS_CardinalityType
<1>. QED  BY <1>1, <1>2, <1>3

LEMMA PartsCounted ==
    ASSUME NEW S \in SUBSET Orders, NEW R \in SUBSET S
    PROVE  /\ Cardinality(S \ R) = Cardinality(S) - Cardinality(R)
           /\ Cardinality(S) \in Nat /\ Cardinality(R) \in Nat /\ Cardinality(S \ R) \in Nat
<1>1. /\ IsFiniteSet(S \ R) /\ IsFiniteSet(R)
      /\ Cardinality(S \ R) \in Nat /\ Cardinality(R) \in Nat /\ Cardinality(S) \in Nat
  BY OrdersFinite
<1>2. Cardinality((S \ R) \cup R) =
         Cardinality(S \ R) + Cardinality(R) - Cardinality((S \ R) \cap R)
  BY <1>1, FS_Union
<1>3. (S \ R) \cup R = S /\ (S \ R) \cap R = {}  OBVIOUS
<1>4. Cardinality((S \ R) \cap R) = 0  BY <1>3, FS_EmptySet
<1>5. Cardinality((S \ R) \cup R) = Cardinality(S)  BY <1>3
<1>. QED  BY <1>1, <1>2, <1>4, <1>5

LEMMA OneMoreCounted ==
    ASSUME NEW S \in SUBSET Orders, NEW o, o \notin S
    PROVE  Cardinality(S \cup {o}) = Cardinality(S) + 1 /\ Cardinality(S) \in Nat
  BY OrdersFinite, FS_AddElement

\* What is released was reserved, so no counter is clamped.
LEMMA ReleaseKeepsCoupons ==
    ASSUME BenefitsInv, NEW S \in SUBSET Orders, ReleaseBenefits(S)
    PROVE  CouponCountsExact'
<1>. DEFINE C == {o \in S : coupon[o] = "reserved"}
<1>1. C \in SUBSET WithCoupon("reserved") /\ WithCoupon("reserved") \in SUBSET Orders
  BY DEF WithCoupon
<1>2. /\ WithCoupon("reserved")' = WithCoupon("reserved") \ C
      /\ WithCoupon("applied")' = WithCoupon("applied")
  BY DEF WithCoupon, ReleaseBenefits, Released
<1>3. reservedCount' = Minus(reservedCount, Cardinality(C)) /\ redeemedCount' = redeemedCount
  BY DEF ReleaseBenefits
<1>4. /\ reservedCount = Cardinality(WithCoupon("reserved"))
      /\ redeemedCount = Cardinality(WithCoupon("applied"))
      /\ reservedCount + redeemedCount <= CouponLimit
      /\ redeemedCount \in Nat /\ CouponLimit \in Nat
  BY NumbersAssumption DEF BenefitsInv, CouponCountsExact, WithCoupon, OrderInv, TypeOK, PriceTypeOK
<1>. HIDE DEF C
<1>5. /\ Cardinality(WithCoupon("reserved") \ C) = reservedCount - Cardinality(C)
      /\ reservedCount \in Nat /\ Cardinality(C) \in Nat /\ reservedCount - Cardinality(C) \in Nat
  BY <1>1, <1>4, PartsCounted
<1>6. /\ reservedCount' = Cardinality(WithCoupon("reserved")')
      /\ redeemedCount' = Cardinality(WithCoupon("applied")')
      /\ reservedCount' + redeemedCount' <= CouponLimit
  BY <1>2, <1>3, <1>4, <1>5 DEF Minus
<1>. QED  BY <1>6 DEF CouponCountsExact, WithCoupon

LEMMA ReleaseKeepsPoints ==
    ASSUME BenefitsInv, NEW S \in SUBSET Orders, ReleaseBenefits(S)
    PROVE  PointsConserved'
<1>. DEFINE L == {o \in S : loyalty[o] = "reserved"}
            Res == WithPoints("reserved")
<1>1. L \in SUBSET Res /\ Res \in SUBSET Orders  BY DEF WithPoints
<1>2. Res' = Res \ L /\ WithPoints("applied")' = WithPoints("applied")
  BY DEF WithPoints, ReleaseBenefits, Released
<1>3. points' = points /\ lifetimeRedeemed' = lifetimeRedeemed  BY DEF ReleaseBenefits
<1>4. SUFFICES ASSUME NEW c \in Customers
               PROVE  /\ balance'[c] + Cardinality(PointsOf(c, Res)')
                            + Cardinality(PointsOf(c, WithPoints("applied"))') = InitialPoints
                      /\ lifetimeRedeemed'[c] = Cardinality(PointsOf(c, WithPoints("applied"))')
  BY DEF PointsConserved
<1>5. PointsOf(c, WithPoints("applied"))' = PointsOf(c, WithPoints("applied"))
  BY <1>2, <1>3, PointsAfter, PointsAreUnits
<1>6. balance'[c] = balance[c] + Cardinality(PointsOf(c, L))  BY DEF ReleaseBenefits
<1>7. /\ balance[c] + Cardinality(PointsOf(c, Res))
           + Cardinality(PointsOf(c, WithPoints("applied"))) = InitialPoints
      /\ lifetimeRedeemed[c] = Cardinality(PointsOf(c, WithPoints("applied")))
      /\ balance[c] \in Nat
  BY DEF BenefitsInv, PointsConserved, OrderInv, TypeOK, PriceTypeOK
<1>. HIDE DEF L
<1>8. /\ Cardinality(PointsOf(c, Res)) = Cardinality(PointsOf(c, Res)') + Cardinality(PointsOf(c, L))
      /\ Cardinality(PointsOf(c, Res)') \in Nat /\ Cardinality(PointsOf(c, L)) \in Nat
  <2>1. Own(c, L) \in SUBSET Own(c, Res) /\ Own(c, Res \ L) = Own(c, Res) \ Own(c, L)
    BY <1>1 DEF Own
  <2>2. IsFiniteSet(Units(Own(c, Res), points, MaxPoints)) /\ MaxPoints \in Nat
    BY <1>1, OrdersFinite, NumbersAssumption
  <2>. HIDE DEF Res
  <2>3. /\ Cardinality(Units(Own(c, Res), points, MaxPoints)) =
              Cardinality(Units(Own(c, Res) \ Own(c, L), points, MaxPoints))
              + Cardinality(Units(Own(c, L), points, MaxPoints))
        /\ Cardinality(Units(Own(c, Res) \ Own(c, L), points, MaxPoints)) \in Nat
        /\ Cardinality(Units(Own(c, L), points, MaxPoints)) \in Nat
    BY <2>1, <2>2, UnitsOfParts
  <2>4. PointsOf(c, Res)' = Units(Own(c, Res) \ Own(c, L), points, MaxPoints)
    BY <1>2, <1>3, <2>1, PointsAfter DEF Res
  <2>. QED  BY <2>3, <2>4, PointsAreUnits
<1>9. Cardinality(PointsOf(c, WithPoints("applied"))) \in Nat
  BY UnitsFinite DEF WithPoints
<1>. HIDE DEF Res
<1>. QED  BY <1>3, <1>5, <1>6, <1>7, <1>8, <1>9

\* A paid order turns its reservations into what is spent.
LEMMA ApplyKeepsCoupons ==
    ASSUME BenefitsInv, NEW o \in Orders, ApplyBenefits(o)
    PROVE  CouponCountsExact'
<1>1. /\ reservedCount = Cardinality(WithCoupon("reserved"))
      /\ redeemedCount = Cardinality(WithCoupon("applied"))
      /\ reservedCount + redeemedCount <= CouponLimit
      /\ redeemedCount \in Nat /\ CouponLimit \in Nat /\ reservedCount \in Nat
  BY NumbersAssumption DEF BenefitsInv, CouponCountsExact, WithCoupon, OrderInv, TypeOK, PriceTypeOK
<1>t. coupon \in [Orders -> Benefits]  BY DEF BenefitsInv, OrderInv, TypeOK, PriceTypeOK
<1>2. CASE coupon[o] = "reserved"
  <2>1. /\ o \in WithCoupon("reserved") /\ WithCoupon("reserved") \in SUBSET Orders
        /\ o \notin WithCoupon("applied") /\ WithCoupon("applied") \in SUBSET Orders
        /\ WithCoupon("reserved")' = WithCoupon("reserved") \ {o}
        /\ WithCoupon("applied")' = WithCoupon("applied") \cup {o}
    BY <1>t, <1>2 DEF WithCoupon, ApplyBenefits
  <2>2. reservedCount' = Minus(reservedCount, 1) /\ redeemedCount' = redeemedCount + 1
    BY <1>2 DEF ApplyBenefits
  <2>3. Cardinality(WithCoupon("reserved") \ {o}) = reservedCount - 1 /\ reservedCount - 1 \in Nat
    <3>1. {o} \in SUBSET WithCoupon("reserved") /\ Cardinality({o}) = 1
      BY <2>1, FS_Singleton
    <3>. QED  BY <1>1, <2>1, <3>1, PartsCounted
  <2>4. Cardinality(WithCoupon("applied") \cup {o}) = redeemedCount + 1
    BY <1>1, <2>1, OneMoreCounted
  <2>5. /\ Cardinality(WithCoupon("reserved")') = reservedCount - 1
        /\ Cardinality(WithCoupon("applied")') = redeemedCount + 1
    BY <2>1, <2>3, <2>4
  <2>6. reservedCount' = reservedCount - 1  BY <1>1, <2>2, <2>3 DEF Minus
  <2>7. /\ reservedCount' = Cardinality(WithCoupon("reserved")')
        /\ redeemedCount' = Cardinality(WithCoupon("applied")')
        /\ reservedCount' + redeemedCount' <= CouponLimit
    BY <1>1, <2>2, <2>5, <2>6
  <2>. QED  BY <2>7 DEF CouponCountsExact, WithCoupon
<1>3. CASE coupon[o] # "reserved"
  <2>1. UNCHANGED <<coupon, reservedCount, redeemedCount>>
    BY <1>t, <1>3 DEF ApplyBenefits
  <2>. QED  BY <2>1 DEF BenefitsInv, CouponCountsExact
<1>. QED  BY <1>2, <1>3

LEMMA ApplyKeepsPoints ==
    ASSUME BenefitsInv, NEW o \in Orders, ApplyBenefits(o)
    PROVE  PointsConserved'
<1>t. /\ loyalty \in [Orders -> Benefits] /\ lifetimeRedeemed \in [Customers -> Nat]
      /\ points \in [Orders -> 0..MaxPoints]
  BY DEF BenefitsInv, OrderInv, TypeOK, PriceTypeOK
<1>1. points' = points /\ balance' = balance  BY DEF ApplyBenefits
<1>2. CASE loyalty[o] = "reserved"
  <2>. DEFINE Res == WithPoints("reserved")
              App == WithPoints("applied")
  <2>1. /\ o \in Res /\ Res \in SUBSET Orders /\ o \notin App /\ App \in SUBSET Orders
        /\ Res' = Res \ {o} /\ App' = App \cup {o}
    BY <1>t, <1>2 DEF WithPoints, ApplyBenefits
  <2>2. SUFFICES ASSUME NEW c \in Customers
                 PROVE  /\ balance'[c] + Cardinality(PointsOf(c, Res)')
                              + Cardinality(PointsOf(c, App)') = InitialPoints
                        /\ lifetimeRedeemed'[c] = Cardinality(PointsOf(c, App)')
    BY DEF PointsConserved
  <2>3. /\ balance[c] + Cardinality(PointsOf(c, Res)) + Cardinality(PointsOf(c, App)) = InitialPoints
        /\ lifetimeRedeemed[c] = Cardinality(PointsOf(c, App))
        /\ balance[c] \in Nat
    BY DEF BenefitsInv, PointsConserved, OrderInv, TypeOK, PriceTypeOK
  <2>4. /\ PointsOf(c, Res)' = Units(Own(c, Res \ {o}), points, MaxPoints)
        /\ PointsOf(c, App)' = Units(Own(c, App \cup {o}), points, MaxPoints)
    BY <1>1, <2>1, PointsAfter
  <2>5. /\ PointsOf(c, Res) = Units(Own(c, Res), points, MaxPoints)
        /\ PointsOf(c, App) = Units(Own(c, App), points, MaxPoints)
    BY PointsAreUnits
  <2>6. /\ IsFiniteSet(Units(Own(c, Res), points, MaxPoints))
        /\ IsFiniteSet(Units(Own(c, App), points, MaxPoints))
        /\ Cardinality(Units(Own(c, App), points, MaxPoints)) \in Nat
        /\ MaxPoints \in Nat /\ points[o] \in 0..MaxPoints /\ points[o] \in Nat
    BY <1>t, <2>1, OrdersFinite, NumbersAssumption
  <2>7. lifetimeRedeemed' = [lifetimeRedeemed EXCEPT ![OwnerOf[o]] = @ + points[o]]
    BY <1>2 DEF ApplyBenefits
  <2>. HIDE DEF Res, App
  <2>8. CASE OwnerOf[o] = c
    <3>1. /\ Own(c, Res \ {o}) = Own(c, Res) \ {o} /\ {o} \in SUBSET Own(c, Res)
          /\ Own(c, App \cup {o}) = Own(c, App) \cup {o} /\ o \notin Own(c, App)
      BY <2>1, <2>8 DEF Own
    <3>2. /\ Cardinality(Units(Own(c, Res), points, MaxPoints)) =
                Cardinality(Units(Own(c, Res) \ {o}, points, MaxPoints))
                + Cardinality(Units({o}, points, MaxPoints))
          /\ Cardinality(Units(Own(c, Res) \ {o}, points, MaxPoints)) \in Nat
      BY <2>6, <3>1, UnitsOfParts
    <3>3. Cardinality(Units({o}, points, MaxPoints)) = points[o]  BY <2>6, UnitsOfOne
    <3>4. Cardinality(Units(Own(c, App) \cup {o}, points, MaxPoints)) =
             Cardinality(Units(Own(c, App), points, MaxPoints)) + points[o]
      BY <2>6, <3>1, UnitsOfOneMore
    <3>5. lifetimeRedeemed'[c] = lifetimeRedeemed[c] + points[o]  BY <1>t, <2>7, <2>8
    <3>6. /\ PointsOf(c, Res)' = Units(Own(c, Res) \ {o}, points, MaxPoints)
          /\ PointsOf(c, App)' = Units(Own(c, App) \cup {o}, points, MaxPoints)
      BY <2>4, <3>1
    <3>7. /\ Cardinality(PointsOf(c, Res)') \in Nat
          /\ Cardinality(PointsOf(c, App)) \in Nat
          /\ Cardinality(PointsOf(c, Res)) = Cardinality(PointsOf(c, Res)') + points[o]
          /\ Cardinality(PointsOf(c, App)') = Cardinality(PointsOf(c, App)) + points[o]
      BY <2>5, <2>6, <3>2, <3>3, <3>4, <3>6
    <3>. QED  BY <1>1, <2>3, <2>6, <3>5, <3>7
  <2>9. CASE OwnerOf[o] # c
    <3>1. Own(c, Res \ {o}) = Own(c, Res) /\ Own(c, App \cup {o}) = Own(c, App)
      BY <2>9 DEF Own
    <3>2. lifetimeRedeemed'[c] = lifetimeRedeemed[c]  BY <1>t, <2>7, <2>9
    <3>. QED  BY <1>1, <2>3, <2>4, <2>5, <3>1, <3>2
  <2>. QED  BY <2>8, <2>9
<1>3. CASE loyalty[o] # "reserved"
  <2>1. UNCHANGED <<loyalty, lifetimeRedeemed>>  BY <1>t, <1>3 DEF ApplyBenefits
  <2>. QED  BY <1>1, <2>1 DEF BenefitsInv, PointsConserved, PointsOf, WithPoints
<1>. QED  BY <1>2, <1>3

\* A checkout reserves a use of the coupon only while one is left, and points
\* only from the balance.
LEMMA CheckoutKeepsCoupons ==
    ASSUME BenefitsInv, NEW o \in Orders, NEW q \in [Items -> 0..MaxPerOrder], NEW b \in BOOLEAN,
           NEW k \in 0..MaxPoints, CreatePendingOrder(o, q, b, k)
    PROVE  CouponCountsExact'
<1>1. /\ reservedCount = Cardinality(WithCoupon("reserved"))
      /\ redeemedCount = Cardinality(WithCoupon("applied"))
      /\ reservedCount + redeemedCount <= CouponLimit
      /\ redeemedCount \in Nat /\ CouponLimit \in Nat /\ reservedCount \in Nat
  BY NumbersAssumption DEF BenefitsInv, CouponCountsExact, WithCoupon, OrderInv, TypeOK, PriceTypeOK
<1>t. coupon \in [Orders -> Benefits]  BY DEF BenefitsInv, OrderInv, TypeOK, PriceTypeOK
<1>2. coupon[o] = "none"
  BY DEF BenefitsInv, OrderInv, RowsAgree, BlankBeforeCheckout, CreatePendingOrder
<1>3. CASE b
  <2>1. /\ o \notin WithCoupon("reserved") /\ WithCoupon("reserved") \in SUBSET Orders
        /\ WithCoupon("reserved")' = WithCoupon("reserved") \cup {o}
        /\ WithCoupon("applied")' = WithCoupon("applied")
    BY <1>t, <1>2, <1>3 DEF WithCoupon, CreatePendingOrder
  <2>2. /\ reservedCount' = reservedCount + 1 /\ redeemedCount' = redeemedCount
        /\ reservedCount + redeemedCount < CouponLimit
    BY <1>3 DEF CreatePendingOrder, CouponLeftFor
  <2>3. Cardinality(WithCoupon("reserved") \cup {o}) = reservedCount + 1
    BY <1>1, <2>1, OneMoreCounted
  <2>4. /\ reservedCount' = Cardinality(WithCoupon("reserved")')
        /\ redeemedCount' = Cardinality(WithCoupon("applied")')
    BY <1>1, <2>1, <2>2, <2>3
  <2>5. reservedCount' + redeemedCount' <= CouponLimit  BY <1>1, <2>2
  <2>. QED  BY <2>4, <2>5 DEF CouponCountsExact, WithCoupon
<1>4. CASE ~b
  <2>1. UNCHANGED <<coupon, reservedCount, redeemedCount>>
    BY <1>t, <1>4 DEF CreatePendingOrder
  <2>. QED  BY <2>1 DEF BenefitsInv, CouponCountsExact
<1>. QED  BY <1>3, <1>4

LEMMA CheckoutKeepsPoints ==
    ASSUME BenefitsInv, NEW o \in Orders, NEW q \in [Items -> 0..MaxPerOrder], NEW b \in BOOLEAN,
           NEW k \in 0..MaxPoints, CreatePendingOrder(o, q, b, k)
    PROVE  PointsConserved'
<1>. DEFINE Res == WithPoints("reserved")
            App == WithPoints("applied")
<1>t. /\ loyalty \in [Orders -> Benefits] /\ balance \in [Customers -> Nat]
      /\ points \in [Orders -> 0..MaxPoints] /\ OwnerOf[o] \in Customers
  BY SetsAssumption DEF BenefitsInv, OrderInv, TypeOK, PriceTypeOK
<1>1. loyalty[o] = "none"
  BY DEF BenefitsInv, OrderInv, RowsAgree, BlankBeforeCheckout, CreatePendingOrder
<1>2. /\ o \notin Res /\ Res \in SUBSET Orders /\ o \notin App /\ App \in SUBSET Orders
      /\ Res' = IF k > 0 THEN Res \cup {o} ELSE Res
      /\ App' = App
  BY <1>t, <1>1 DEF WithPoints, CreatePendingOrder
<1>3. points'[o] = k /\ \A x \in Orders \ {o} : points'[x] = points[x]
  BY <1>t DEF CreatePendingOrder
<1>4. /\ balance' = [balance EXCEPT ![OwnerOf[o]] = @ - k] /\ k <= balance[OwnerOf[o]]
      /\ UNCHANGED lifetimeRedeemed
  BY DEF CreatePendingOrder
<1>5. SUFFICES ASSUME NEW c \in Customers
               PROVE  /\ balance'[c] + Cardinality(PointsOf(c, Res)')
                            + Cardinality(PointsOf(c, App)') = InitialPoints
                      /\ lifetimeRedeemed'[c] = Cardinality(PointsOf(c, App)')
  BY DEF PointsConserved
<1>6. /\ balance[c] + Cardinality(PointsOf(c, Res)) + Cardinality(PointsOf(c, App)) = InitialPoints
      /\ lifetimeRedeemed[c] = Cardinality(PointsOf(c, App))
      /\ balance[c] \in Nat
  BY DEF BenefitsInv, PointsConserved, OrderInv, TypeOK, PriceTypeOK
<1>7. /\ PointsOf(c, Res)' = Units(Own(c, Res'), points', MaxPoints)
      /\ PointsOf(c, App)' = Units(Own(c, App'), points', MaxPoints)
  BY PointsAfter
<1>8. /\ Units(Own(c, Res), points', MaxPoints) = PointsOf(c, Res)
      /\ Units(Own(c, App), points', MaxPoints) = PointsOf(c, App)
  <2>1. /\ \A x \in Own(c, Res) : points'[x] = points[x]
        /\ \A x \in Own(c, App) : points'[x] = points[x]
    BY <1>2, <1>3 DEF Own
  <2>. HIDE DEF Res, App
  <2>. QED  BY <2>1, SameUnits, PointsAreUnits
<1>9. /\ IsFiniteSet(PointsOf(c, Res)) /\ Cardinality(PointsOf(c, Res)) \in Nat
      /\ Cardinality(PointsOf(c, App)) \in Nat /\ MaxPoints \in Nat /\ k \in Nat
  BY <1>2, UnitsFinite, NumbersAssumption
<1>. HIDE DEF Res, App
<1>10. PointsOf(c, App)' = PointsOf(c, App)  BY <1>2, <1>7, <1>8
<1>11. CASE k > 0 /\ OwnerOf[o] = c
  <2>1. Own(c, Res') = Own(c, Res) \cup {o} /\ o \notin Own(c, Res)
    BY <1>2, <1>11 DEF Own
  <2>2. Cardinality(Units(Own(c, Res) \cup {o}, points', MaxPoints)) =
           Cardinality(PointsOf(c, Res)) + k
    BY <1>3, <1>8, <1>9, <2>1, UnitsOfOneMore
  <2>3. PointsOf(c, Res)' = Units(Own(c, Res) \cup {o}, points', MaxPoints)
    BY <1>7, <2>1
  <2>4. balance'[c] = balance[c] - k  BY <1>t, <1>4, <1>11
  <2>. QED  BY <1>4, <1>6, <1>9, <1>10, <2>2, <2>3, <2>4
<1>12. CASE ~(k > 0 /\ OwnerOf[o] = c)
  <2>1. Own(c, Res') = Own(c, Res)  BY <1>2, <1>12 DEF Own
  <2>2. PointsOf(c, Res)' = PointsOf(c, Res)  BY <1>7, <1>8, <2>1
  <2>3. balance'[c] = balance[c]  BY <1>t, <1>4, <1>9, <1>12
  <2>. QED  BY <1>4, <1>6, <1>10, <2>2, <2>3
<1>. QED  BY <1>11, <1>12

LEMMA InitBenefits == Init => BenefitsInv
<1>. SUFFICES ASSUME Init PROVE CouponCountsExact /\ PointsConserved
  BY InitAgrees DEF BenefitsInv
<1>1. /\ {o \in Orders : coupon[o] = "reserved"} = {}
      /\ {o \in Orders : coupon[o] = "applied"} = {}
      /\ WithPoints("reserved") = {} /\ WithPoints("applied") = {}
  BY DEF Init, WithPoints
<1>2. \A c : PointsOf(c, {}) = {}  BY DEF PointsOf
<1>3. CouponCountsExact
  <2>1. /\ Cardinality({o \in Orders : coupon[o] = "reserved"}) = 0
        /\ Cardinality({o \in Orders : coupon[o] = "applied"}) = 0
    BY <1>1, FS_EmptySet
  <2>2. reservedCount = 0 /\ redeemedCount = 0  BY DEF Init
  <2>. QED  BY <2>1, <2>2, NumbersAssumption DEF CouponCountsExact
<1>4. PointsConserved
  <2>1. \A c : /\ Cardinality(PointsOf(c, WithPoints("reserved"))) = 0
               /\ Cardinality(PointsOf(c, WithPoints("applied"))) = 0
    BY <1>1, <1>2, FS_EmptySet
  <2>. QED  BY <2>1, NumbersAssumption DEF Init, PointsConserved
<1>. QED  BY <1>3, <1>4

LEMMA StepBenefits == BenefitsInv /\ [Next]_vars => BenefitsInv'
<1>. DEFINE Exact == CouponCountsExact /\ PointsConserved
<1>. SUFFICES ASSUME BenefitsInv, [Next]_vars PROVE Exact'  BY StepAgrees DEF BenefitsInv
<1>0. ASSUME UNCHANGED priceVars PROVE Exact'
  BY <1>0 DEF BenefitsInv, CouponCountsExact, PointsConserved, PointsOf, WithPoints, priceVars
<1>c. ASSUME NEW S \in SUBSET Orders, ReleaseBenefits(S) PROVE Exact'
  BY <1>c, ReleaseKeepsCoupons, ReleaseKeepsPoints
<1>1. CASE \/ Tick \/ ExpirePendingPayments \/ UNCHANGED vars
           \/ \E p \in Payments : CreatePaymentIntent(p)
           \/ \E p \in Payments, t \in SentTypes : ProviderSends(p, t)
           \/ \E o \in Orders : EnsureFulfillment(o) \/ Accept(o)
           \/ \E o \in Orders, ok \in BOOLEAN : Reject(o, ok)
  BY <1>0, <1>1 DEF Tick, ExpirePendingPayments, CreatePaymentIntent, ProviderSends,
                    EnsureFulfillment, Accept, Reject, vars
<1>2. CASE ReleaseExpiredHolds
  <2>. DEFINE E == {o \in Orders : resv[o] = "active" /\ expiry[o] <= now}
  <2>1. ReleaseBenefits(Unpaid(E))  BY <1>2 DEF ReleaseExpiredHolds, CloseUnpaid
  <2>2. Unpaid(E) \in SUBSET Orders  BY DEF Unpaid
  <2>. QED  BY <1>c, <2>1, <2>2
<1>3. ASSUME NEW o \in Orders, NEW q \in [Items -> 0..MaxPerOrder], NEW b \in BOOLEAN,
             NEW k \in 0..MaxPoints, CreatePendingOrder(o, q, b, k)
      PROVE  Exact'
  BY <1>3, CheckoutKeepsCoupons, CheckoutKeepsPoints
<1>4. ASSUME NEW o \in Orders, CancelPendingOrder(o) PROVE Exact'
  BY <1>4, <1>c DEF CancelPendingOrder, CloseUnpaid
<1>5. CASE \E i \in EditableItems : \E n \in 0..Total[i] : UpdateQuantity(i, n)
  BY <1>0, <1>5 DEF UpdateQuantity
<1>6. CASE \E p \in Payments, k \in RefundKeys \ {ChefRejectKey}, ok \in BOOLEAN :
              \E n \in 1..AmountOf(p) : CreateRefund(p, k, n, ok)
  BY <1>0, <1>6 DEF CreateRefund
<1>7. ASSUME NEW p \in Payments, NEW t \in SentTypes, ProcessWebhook(p, t) PROVE Exact'
  <2>. DEFINE o == PaymentOrder[p]
  <2>0. o \in Orders  BY SetsAssumption
  <2>1. CASE UNCHANGED priceVars  BY <1>0, <2>1
  <2>2. CASE ApplyPaymentSuccess(p)
    BY <2>0, <2>2, ApplyKeepsCoupons, ApplyKeepsPoints DEF ApplyPaymentSuccess
  <2>3. CASE ApplyPaymentFailure(p, SettledBy(t))
    BY <1>c, <2>0, <2>1, <2>3 DEF ApplyPaymentFailure, CloseUnpaid
  <2>. QED  BY <1>7, <2>1, <2>2, <2>3 DEF ProcessWebhook
<1>. QED  BY <1>1, <1>2, <1>3, <1>4, <1>5, <1>6, <1>7 DEF Next, Carts

\* The coupon's counters are its rows, a campaign is never overbooked, and no point
\* is lost or spent twice, for any number of carts and customers, over reservation,
\* payment and release (pricing/service.py, loyalty/service.py, one transaction at
\* a time).
THEOREM BenefitsAreExact == Spec => []BenefitsExact
<1>1. BenefitsInv => BenefitsExact  BY DEF BenefitsInv, BenefitsExact
<1>. QED  BY InitBenefits, StepBenefits, <1>1, PTL DEF Spec

(***************************************************************************)
(* The contract with the customer.                                         *)
(***************************************************************************)

\* The rows of order x that the contract can see stay as they are.
RowsStay(x) ==
    /\ UNCHANGED <<orderStatus[x], hold[x], resv[x], qty[x], stage[x]>>
    /\ SucceededPayments(x)' = SucceededPayments(x)

\* What the contract sees of order x stays as it is.
SightStays(x) ==
    /\ StateOf(x)' = StateOf(x) /\ KeptFor(x)' = KeptFor(x)
    /\ hold'[x] = hold[x] /\ SucceededPayments(x)' = SucceededPayments(x)

LEMMA SameSight ==
    ASSUME NEW x \in Orders, RowsStay(x)
    PROVE  SightStays(x)
<1>1. StateOf(x)' = StateOf(x)  BY DEF RowsStay, StateOf, EndOf
<1>2. KeptFor(x)' = KeptFor(x)  BY DEF RowsStay, KeptFor, Holders
<1>. QED  BY <1>1, <1>2 DEF RowsStay, SightStays

\* A step that the contract does not see.
LEMMA Unseen ==
    ASSUME TypeOK, TypeOK', UNCHANGED <<now, refunded>>, \A x \in Orders : SightStays(x)
    PROVE  UNCHANGED Contract!ocVars
<1>1. hold' = hold  BY DEF SightStays, TypeOK, OrderTypeOK
<1>. QED  BY <1>1 DEF SightStays, Contract!ocVars

\* Unpaid orders that are closed end in the contract's sense too.
LEMMA CloseEnds ==
    ASSUME OrderInv, NEW S \in SUBSET Orders,
           \A x \in S : orderStatus[x] = "pending_payment",
           NEW status \in {"cancelled", "expired"}, NEW resvEnd \in {"released", "expired"},
           CloseUnpaid(S, status, S, resvEnd), now' = now,
           \A x \in Orders : SucceededPayments(x)' = SucceededPayments(x)
    PROVE  Contract!End(S, IF resvEnd = "expired" THEN "lapsed" ELSE "withdrawn")
<1>. DEFINE how == IF resvEnd = "expired" THEN "lapsed" ELSE "withdrawn"
<1>1. ASSUME NEW x \in Orders, x \notin S PROVE SightStays(x)
  BY <1>1, SameSight DEF CloseUnpaid, ResvAfter, RowsStay
<1>2. ASSUME NEW x \in Orders, x \in S
      PROVE  StateOf(x)' = how /\ hold'[x] = NoHold /\ KeptFor(x)' = [i \in Items |-> 0]
  <2>1. /\ orderStatus'[x] = status /\ resv'[x] = resvEnd /\ hold'[x] = NoHold
        /\ stage'[x] = stage[x]
    BY <1>2 DEF CloseUnpaid, ResvAfter
  <2>2. stage[x] = "none"  BY <1>2 DEF OrderInv, RowsAgree, StageFollowsOrder
  <2>3. StateOf(x)' = how  BY <2>1, <2>2 DEF StateOf, EndOf
  <2>4. KeptFor(x)' = [i \in Items |-> 0]  BY <2>1 DEF KeptFor, Holders
  <2>. QED  BY <2>1, <2>3, <2>4
<1>3. \A x \in Orders : StateOf(x)' = IF x \in S THEN how ELSE StateOf(x)
  BY <1>1, <1>2 DEF SightStays
<1>4. \A x \in Orders : KeptFor(x)' = IF x \in S THEN [i \in Items |-> 0] ELSE KeptFor(x)
  BY <1>1, <1>2 DEF SightStays
<1>5. hold' = [x \in Orders |-> IF x \in S THEN NoHold ELSE hold[x]]
  BY DEF CloseUnpaid
<1>. HIDE DEF how
<1>6. Contract!End(S, how)
  BY <1>3, <1>4, <1>5 DEF Contract!End, Contract!Nothing
<1>. QED  BY <1>6 DEF how

\* An order that is given up unpaid is withdrawn.
LEMMA GivenUp ==
    ASSUME OrderInv, NEW o \in Orders, orderStatus[o] = "pending_payment",
           NEW status \in {"cancelled", "expired"},
           CloseUnpaid({o}, status, ActiveOf(o), "released"), UNCHANGED <<now, refunded>>,
           \A p \in Payments : payStatus'[p] = "succeeded" <=> payStatus[p] = "succeeded"
    PROVE  Contract!Withdraw(o)
<1>1. ActiveOf(o) = {o}  BY DEF ActiveOf, OrderInv, RowsAgree, PendingHeld
<1>2. \A x \in Orders : SucceededPayments(x)' = SucceededPayments(x)
  BY SameSuccesses DEF PaymentsOf
<1>3. Contract!End({o}, "withdrawn")  BY <1>1, <1>2, CloseEnds
<1>4. StateOf(o) = "held"  BY DEF StateOf
<1>. QED  BY <1>3, <1>4 DEF Contract!Withdraw

\* The columns of the contract when only order o moves.
LEMMA OneOrderMoves ==
    ASSUME TypeOK, TypeOK', NEW o \in Orders,
           \A x \in Orders \ {o} : RowsStay(x)
    PROVE  /\ [x \in Orders |-> StateOf(x)]' =
                 [[x \in Orders |-> StateOf(x)] EXCEPT ![o] = StateOf(o)']
           /\ [x \in Orders |-> KeptFor(x)]' =
                 [[x \in Orders |-> KeptFor(x)] EXCEPT ![o] = KeptFor(o)']
           /\ [x \in Orders |-> SucceededPayments(x)]' =
                 [[x \in Orders |-> SucceededPayments(x)] EXCEPT ![o] = SucceededPayments(o)']
           /\ hold' = [hold EXCEPT ![o] = hold'[o]]
<1>1. \A x \in Orders \ {o} : SightStays(x)  BY SameSight
<1>. QED  BY <1>1 DEF SightStays, TypeOK, OrderTypeOK
\* The handlers that move one order are the contract's actions on it.
LEMMA CheckoutPlaces ==
    ASSUME OrderInv, OrderInv', NEW o \in Orders, NEW q \in [Items -> 0..MaxPerOrder],
           NEW c \in BOOLEAN, NEW k \in 0..MaxPoints, CreatePendingOrder(o, q, c, k)
    PROVE  Contract!Place(o)
<1>t. TypeOK /\ TypeOK'  BY DEF OrderInv
<1>1. \A x \in Orders : SucceededPayments(x)' = SucceededPayments(x)
  BY SameSuccesses DEF CreatePendingOrder, payVars
<1>2. \A x \in Orders \ {o} : RowsStay(x)
  BY <1>t, <1>1 DEF CreatePendingOrder, RowsStay, TypeOK, OrderTypeOK
<1>3. /\ orderStatus[o] = "none" /\ orderStatus'[o] = "pending_payment"
      /\ resv'[o] = "active" /\ qty'[o] = q /\ hold'[o] = now + HoldTTL
      /\ UNCHANGED <<now, refunded>>
  BY <1>t DEF CreatePendingOrder, TypeOK, OrderTypeOK, payVars
<1>4. StateOf(o) = "nothing" /\ StateOf(o)' = "held"  BY <1>3 DEF StateOf
<1>5. KeptFor(o)' = q  BY <1>3 DEF KeptFor, Holders
<1>6. q \in [Items -> 0..MaxPerOrder] \ {Contract!Nothing}
  BY DEF CreatePendingOrder, Contract!Nothing
<1>7. SucceededPayments(o)' = SucceededPayments(o)  BY <1>1
<1>8. [x \in Orders |-> SucceededPayments(x)]' = [x \in Orders |-> SucceededPayments(x)]
  BY <1>1
<1>. QED
  BY <1>t, <1>2, <1>3, <1>4, <1>5, <1>6, <1>8, OneOrderMoves DEF Contract!Place

LEMMA SuccessPays ==
    ASSUME OrderInv, OrderInv', NEW p \in Payments, ApplyPaymentSuccess(p), now' = now
    PROVE  Contract!Pay(PaymentOrder[p])
<1>. DEFINE o == PaymentOrder[p]
<1>t. TypeOK /\ TypeOK'  BY DEF OrderInv
<1>0. o \in Orders /\ p \in PaymentsOf(o)  BY SetsAssumption DEF PaymentsOf
<1>1. \A r \in Payments : payStatus'[r] = IF r = p THEN "succeeded" ELSE payStatus[r]
  BY <1>t DEF ApplyPaymentSuccess, TypeOK, PayTypeOK
<1>2. \A x \in Orders \ {o} : RowsStay(x)
  <2>1. \A x \in Orders \ {o} : SucceededPayments(x)' = SucceededPayments(x)
    BY <1>1, SameSuccesses DEF PaymentsOf
  <2>. QED  BY <1>t, <2>1 DEF ApplyPaymentSuccess, RowsStay, TypeOK, OrderTypeOK
<1>3. /\ orderStatus[o] = "pending_payment" /\ orderStatus'[o] = "confirmed"
      /\ resv[o] = "active" /\ resv'[o] = "converted"
      /\ expiry[o] > now /\ hold'[o] = NoHold
      /\ UNCHANGED <<qty, refunded>>
  BY <1>t, <1>0 DEF ApplyPaymentSuccess, HoldLive, TypeOK, OrderTypeOK
<1>4. hold[o] = expiry[o] /\ SucceededPayments(o) = {}
  BY <1>0, <1>3 DEF OrderInv, RowsAgree, PendingHeld
<1>5. SucceededPayments(o)' = {p}
  BY <1>0, <1>1, <1>4 DEF SucceededPayments, PaymentsOf
<1>6. StateOf(o) = "held" /\ StateOf(o)' = "paid"  BY <1>3 DEF StateOf
<1>7. now < hold[o]  BY <1>t, <1>0, <1>3, <1>4 DEF TypeOK, OrderTypeOK
<1>. HIDE DEF o
<1>8. \A x \in Orders : KeptFor(x)' = KeptFor(x)
  <2>1. KeptFor(o)' = KeptFor(o)  BY <1>0, <1>3 DEF KeptFor, Holders
  <2>. QED  BY <1>2, <2>1, SameSight DEF SightStays
<1>9. Contract!Pay(o)
  BY <1>t, <1>0, <1>2, <1>3, <1>5, <1>6, <1>7, <1>8, OneOrderMoves DEF Contract!Pay
<1>. QED  BY <1>9 DEF o

LEMMA RefundReturns ==
    ASSUME OrderInv, OrderInv', NEW p \in Payments, NEW k \in RefundKeys, NEW ok \in BOOLEAN,
           NEW n \in 1..AmountOf(p), CreateRefund(p, k, n, ok)
    PROVE  [Contract!Return(PaymentOrder[p])]_(Contract!ocVars)
<1>. DEFINE o == PaymentOrder[p]
<1>t. TypeOK /\ TypeOK'  BY DEF OrderInv
<1>0. o \in Orders /\ AmountOf(p) \in Nat  BY AmountType
<1>1. \A x \in Orders : RowsStay(x)
  BY SameSuccesses DEF CreateRefund, RowsStay, orderVars, stockVars
<1>2. \A x \in Orders : SightStays(x)  BY <1>1, SameSight
<1>3. now' = now /\ hold' = hold
  BY DEF CreateRefund, orderVars
<1>4. CASE ok
  <2>1. refunded' = [refunded EXCEPT ![p] = @ + n]  BY <1>4 DEF CreateRefund, RecordRefund
  <2>2. n \in 1..(OrderTotal[o] - refunded[p])
    <3>1. n <= AmountOf(p) - refunded[p]  BY DEF CreateRefund, Remaining
    <3>2. refunded[p] \in Nat  BY <1>t DEF TypeOK, PayTypeOK
    <3>. QED  BY <1>0, <3>1, <3>2 DEF AmountOf
  <2>3. StateOf(o) = "paid" /\ p \in SucceededPayments(o)
    BY DEF CreateRefund, StateOf, SucceededPayments, PaymentsOf
  <2>. HIDE DEF o
  <2>4. Contract!Return(o)
    BY <1>0, <1>2, <1>3, <2>1, <2>2, <2>3 DEF Contract!Return, SightStays
  <2>. QED  BY <2>4 DEF o
<1>5. CASE ~ok
  <2>1. refunded' = refunded  BY <1>t, <1>5 DEF CreateRefund, RecordRefund, TypeOK, PayTypeOK
  <2>. QED  BY <1>t, <1>2, <1>3, <2>1, Unseen
<1>. QED  BY <1>4, <1>5

LEMMA AnswerAccepts ==
    ASSUME OrderInv, OrderInv', NEW o \in Orders, Accept(o)
    PROVE  Contract!Accept(o)
<1>t. TypeOK /\ TypeOK'  BY DEF OrderInv
<1>1. \A x \in Orders : SucceededPayments(x)' = SucceededPayments(x)
  BY SameSuccesses DEF Accept, payVars
<1>2. \A x \in Orders \ {o} : RowsStay(x)
  BY <1>t, <1>1 DEF Accept, RowsStay, TypeOK, OrderTypeOK
<1>3. /\ orderStatus[o] = "confirmed" /\ orderStatus'[o] = "accepted_by_chef"
      /\ UNCHANGED <<now, hold, resv, qty, refunded>>
  BY <1>t DEF Accept, TypeOK, OrderTypeOK, payVars
<1>4. StateOf(o) = "paid" /\ StateOf(o)' = "accepted"  BY <1>3 DEF StateOf
<1>5. \A x \in Orders : KeptFor(x)' = KeptFor(x)  BY <1>3 DEF KeptFor, Holders
<1>. QED
  BY <1>t, <1>1, <1>2, <1>3, <1>4, <1>5, OneOrderMoves DEF Contract!Accept

LEMMA AnswerRejects ==
    ASSUME OrderInv, OrderInv', NEW o \in Orders, NEW ok \in BOOLEAN, Reject(o, ok)
    PROVE  Contract!Reject(o)
<1>t. TypeOK /\ TypeOK'  BY DEF OrderInv
<1>1. \A x \in Orders : SucceededPayments(x)' = SucceededPayments(x)
  BY SameSuccesses DEF Reject
<1>2. \A x \in Orders \ {o} : RowsStay(x)
  BY <1>t, <1>1 DEF Reject, RowsStay, TypeOK, OrderTypeOK
<1>3. orderStatus[o] = "confirmed" /\ resv[o] = "converted" /\ hold[o] = NoHold
  BY DEF Reject, OrderInv, RowsAgree, PaidOnce
<1>4. /\ orderStatus'[o] = "cancelled" /\ resv'[o] = "released" /\ stage'[o] = "rejected"
      /\ UNCHANGED <<now, hold, qty>>
  BY <1>t, <1>3 DEF Reject, TypeOK, OrderTypeOK
<1>5. StateOf(o) = "paid" /\ StateOf(o)' = "rejected"  BY <1>3, <1>4 DEF StateOf, EndOf
<1>6. KeptFor(o)' = [i \in Items |-> 0]  BY <1>4 DEF KeptFor, Holders
<1>7. \A x \in Orders \ {o} : SightStays(x)  BY <1>2, SameSight
<1>8. Contract!End({o}, "rejected")
  <2>1. \A x \in Orders : StateOf(x)' = IF x \in {o} THEN "rejected" ELSE StateOf(x)
    BY <1>5, <1>7 DEF SightStays
  <2>2. \A x \in Orders : KeptFor(x)' = IF x \in {o} THEN [i \in Items |-> 0] ELSE KeptFor(x)
    BY <1>6, <1>7 DEF SightStays
  <2>3. hold' = [x \in Orders |-> IF x \in {o} THEN NoHold ELSE hold[x]]
    BY <1>t, <1>3, <1>4 DEF TypeOK, OrderTypeOK
  <2>. QED  BY <1>1, <1>4, <2>1, <2>2, <2>3 DEF Contract!End, Contract!Nothing
<1>9. PICK p \in SucceededPayments(o) : RejectionRefund(p, ok)  BY DEF Reject
<1>10. refunded' \in {refunded, [refunded EXCEPT ![p] = OrderTotal[o]]}
  <2>1. p \in Payments /\ AmountOf(p) = OrderTotal[o]
    BY DEF SucceededPayments, PaymentsOf, AmountOf
  <2>2. refunded[p] \in Nat /\ AmountOf(p) \in Nat
    BY <1>t, <2>1, AmountType DEF TypeOK, PayTypeOK
  <2>3. refunded[p] + Remaining(p) = OrderTotal[o]  BY <2>1, <2>2 DEF Remaining
  <2>. QED
    BY <1>t, <1>9, <2>1, <2>3 DEF RejectionRefund, RecordRefund, TypeOK, PayTypeOK
<1>. QED  BY <1>5, <1>8, <1>9, <1>10 DEF Contract!Reject

\* Every step of the rows is a step of the contract or changes nothing in it.
LEMMA StepContract == OrderInv /\ [Next]_vars => [Contract!Next]_(Contract!ocVars)
<1>. SUFFICES ASSUME OrderInv, [Next]_vars PROVE [Contract!Next]_(Contract!ocVars)
  OBVIOUS
<1>i. OrderInv'  BY StepAgrees
<1>t. TypeOK /\ TypeOK'  BY <1>i DEF OrderInv
<1>u. ASSUME UNCHANGED <<now, orderVars, refunded>>,
             \A p \in Payments : payStatus'[p] = "succeeded" <=> payStatus[p] = "succeeded"
      PROVE  UNCHANGED Contract!ocVars
  <2>1. \A x \in Orders : RowsStay(x)
    BY <1>u, SameSuccesses DEF RowsStay, orderVars, PaymentsOf
  <2>. QED  BY <1>t, <1>u, <2>1, SameSight, Unseen
<1>1. CASE Tick
  <2>1. now' = now + 1 /\ UNCHANGED <<orderVars, payVars>>  BY <1>1 DEF Tick
  <2>2. \A x \in Orders : SightStays(x)
    BY <2>1, SameSuccesses, SameSight DEF RowsStay, orderVars, payVars
  <2>3. Contract!PassTime
    BY <2>1, <2>2 DEF Contract!PassTime, SightStays, orderVars, payVars
  <2>. QED  BY <2>3 DEF Contract!Next
<1>2. CASE ReleaseExpiredHolds
  <2>. DEFINE E == {o \in Orders : resv[o] = "active" /\ expiry[o] <= now}
  <2>1. /\ CloseUnpaid(Unpaid(E), "expired", E, "expired") /\ UNCHANGED <<now, payVars>>
        /\ E # {}
    BY <1>2 DEF ReleaseExpiredHolds
  <2>2. \A x \in E : orderStatus[x] = "pending_payment"  BY ActiveIsPending
  <2>3. Unpaid(E) = E  BY <2>2 DEF Unpaid
  <2>4. \A x \in Orders : SucceededPayments(x)' = SucceededPayments(x)
    BY <2>1, SameSuccesses DEF payVars
  <2>5. E \in SUBSET {o \in Orders : StateOf(o) = "held" /\ hold[o] <= now}
    BY <2>2 DEF StateOf, OrderInv, RowsAgree, PendingHeld
  <2>. HIDE DEF E
  <2>6. Contract!End(E, "lapsed")  BY <2>1, <2>2, <2>3, <2>4, <2>5, CloseEnds
  <2>7. Contract!Lapse  BY <2>1, <2>5, <2>6 DEF Contract!Lapse, payVars
  <2>. QED  BY <2>7 DEF Contract!Next
<1>3. ASSUME NEW o \in Orders, NEW q \in [Items -> 0..MaxPerOrder], NEW c \in BOOLEAN,
             NEW k \in 0..MaxPoints, CreatePendingOrder(o, q, c, k)
      PROVE  Contract!Next
  BY <1>3, <1>i, CheckoutPlaces DEF Contract!Next
<1>4. ASSUME NEW o \in Orders, CancelPendingOrder(o) PROVE Contract!Next
  BY <1>4, GivenUp DEF CancelPendingOrder, payVars, Contract!Next
<1>5. CASE \/ \E i \in EditableItems : \E n \in 0..Total[i] : UpdateQuantity(i, n)
           \/ \E p \in Payments, t \in SentTypes : ProviderSends(p, t)
           \/ UNCHANGED vars
  BY <1>5, <1>u DEF UpdateQuantity, ProviderSends, vars, payVars
<1>6. CASE ExpirePendingPayments \/ \E p \in Payments : CreatePaymentIntent(p)
  BY <1>6, <1>t, <1>u DEF ExpirePendingPayments, CreatePaymentIntent, TypeOK, PayTypeOK
<1>7. ASSUME NEW p \in Payments, NEW t \in SentTypes, ProcessWebhook(p, t)
      PROVE  [Contract!Next]_(Contract!ocVars)
  <2>. DEFINE o == PaymentOrder[p]
  <2>0. o \in Orders /\ now' = now  BY <1>7, SetsAssumption DEF ProcessWebhook
  <2>1. CASE UNCHANGED <<stockVars, orderVars, payVars, priceVars>>
    BY <1>u, <2>0, <2>1 DEF payVars
  <2>2. CASE ApplyPaymentSuccess(p)
    BY <1>i, <2>0, <2>2, SuccessPays DEF Contract!Next
  <2>3. CASE payStatus[p] \notin FailureIgnored /\ ApplyPaymentFailure(p, SettledBy(t))
    <3>1. \A r \in Payments : payStatus'[r] = "succeeded" <=> payStatus[r] = "succeeded"
      BY <2>3, <1>t DEF ApplyPaymentFailure, SettledBy, FailureIgnored, TypeOK, PayTypeOK
    <3>2. refunded' = refunded  BY <2>3 DEF ApplyPaymentFailure
    <3>3. CASE ClosesOrder(o)
      <4>1. /\ orderStatus[o] = "pending_payment"
            /\ CloseUnpaid({o}, "expired", ActiveOf(o), "released")
        BY <2>3, <3>3 DEF ApplyPaymentFailure, ClosesOrder
      <4>. HIDE DEF o
      <4>. QED  BY <2>0, <3>1, <3>2, <4>1, GivenUp DEF Contract!Next
    <3>4. CASE ~ClosesOrder(o)
      BY <1>u, <2>0, <2>3, <3>1, <3>2, <3>4 DEF ApplyPaymentFailure
    <3>. QED  BY <3>3, <3>4
  <2>. QED  BY <1>7, <2>1, <2>2, <2>3 DEF ProcessWebhook
<1>8. ASSUME NEW p \in Payments, NEW k \in RefundKeys \ {ChefRejectKey}, NEW ok \in BOOLEAN,
             NEW n \in 1..AmountOf(p), CreateRefund(p, k, n, ok)
      PROVE  [Contract!Next]_(Contract!ocVars)
  <2>1. PaymentOrder[p] \in Orders  BY SetsAssumption
  <2>. QED  BY <1>8, <1>i, <2>1, RefundReturns DEF Contract!Next
<1>9. ASSUME NEW o \in Orders, EnsureFulfillment(o) PROVE UNCHANGED Contract!ocVars
  <2>1. \A x \in Orders : SucceededPayments(x)' = SucceededPayments(x)
    BY <1>9, SameSuccesses DEF EnsureFulfillment, payVars
  <2>2. \A x \in Orders \ {o} : RowsStay(x)
    BY <1>9, <1>t, <2>1 DEF EnsureFulfillment, RowsStay, TypeOK, OrderTypeOK
  <2>3. SightStays(o)
    BY <1>9, <2>1 DEF EnsureFulfillment, SightStays, StateOf, KeptFor, Holders
  <2>4. \A x \in Orders : SightStays(x)  BY <2>2, <2>3, SameSight
  <2>. QED  BY <1>9, <1>t, <2>4, Unseen DEF EnsureFulfillment, payVars
<1>10. ASSUME NEW o \in Orders, Accept(o) PROVE Contract!Next
  BY <1>10, <1>i, AnswerAccepts DEF Contract!Next
<1>11. ASSUME NEW o \in Orders, NEW ok \in BOOLEAN, Reject(o, ok) PROVE Contract!Next
  BY <1>11, <1>i, AnswerRejects DEF Contract!Next
<1>. QED
  BY <1>1, <1>2, <1>3, <1>4, <1>5, <1>6, <1>7, <1>8, <1>9, <1>10, <1>11 DEF Next, Carts

LEMMA InitContract == Init => Contract!Init
<1>. SUFFICES ASSUME Init PROVE Contract!Init  OBVIOUS
<1>1. \A o \in Orders : /\ StateOf(o) = "nothing" /\ SucceededPayments(o) = {}
                        /\ KeptFor(o) = [i \in Items |-> 0]
  BY DEF Init, StateOf, SucceededPayments, PaymentsOf, KeptFor, Holders
<1>. QED  BY <1>1 DEF Init, Contract!Init, Contract!Nothing

\* What the handlers do to an order is what its customer was promised (KeepsContract),
\* for any number of items, carts, payments and refunds: a payment buys an order in
\* time and once, the sweep ends it only after its deadline, and a paid order ends only
\* by the chef's answer (orders, payments and fulfillment services, one transaction at
\* a time).
THEOREM ImplementsOrderContract == Spec => KeepsContract
  BY InitContract, StepContract, OrderInvariant, PTL DEF Spec, KeepsContract, Contract!Spec
=============================================================================
