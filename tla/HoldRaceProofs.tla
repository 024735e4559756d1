-------------------------- MODULE HoldRaceProofs --------------------------
(***************************************************************************)
(* What the statements of the handlers keep, for any number of orders, any *)
(* quantity and any limit.  Overlapping checkouts, intents and successful  *)
(* payments never sell a portion twice and leave paid orders alone;        *)
(* overlapping checkouts never overbook a coupon; one transaction at a     *)
(* time, every handler keeps the shared rows equal to what the orders add  *)
(* up to.  The run hold_oversell shows what other overlaps do.             *)
(***************************************************************************)
EXTENDS MCHoldLoads, FiniteSetTheorems, TLAPS

SellingOnly == Handlers \subseteq {"checkout", "intent", "succeed"}

\* A request that is not Idle has all its fields.
IsRequest(q) ==
    q \in [todo : {q.todo}, handler : {q.handler}, orders : {q.orders}, unpaid : {q.unpaid},
           held : {q.held}, used : {q.used}, item : {q.item}, coupon : {q.coupon},
           locks : {q.locks}]

\* A checkout of an order that has no reservation; once past its guarded UPDATE it
\* has the item's lock, and the committed quantity less one.
CheckoutOK(q) ==
    /\ \E o \in Orders : q.orders = {o} /\ resv[o] = "none"
    /\ \/ /\ q.todo \in {<<"couponUpdate", "itemUpdate", "commit">>, <<"itemUpdate", "commit">>}
          /\ "item" \notin q.locks
       \/ /\ q.todo = <<"commit">>
          /\ "item" \in q.locks
          /\ item.avail >= 1 /\ q.item.avail = item.avail - 1

\* A payment that succeeds is that of an order with a reservation, and takes the
\* order out of pending_payment.
SucceedOK(q) ==
    /\ q.held \subseteq Holders
    /\ q.orders \subseteq q.held /\ q.orders \subseteq q.unpaid
    /\ q.todo \in {<<"couponRead", "couponWrite", "commit">>, <<"couponWrite", "commit">>,
                   <<"commit">>}
    /\ "item" \notin q.locks

IntentOK(q) == q.todo = <<"commit">> /\ "item" \notin q.locks

RequestOK(q) ==
    /\ IsRequest(q)
    /\ \/ q.handler = "checkout" /\ CheckoutOK(q)
       \/ q.handler = "intent" /\ IntentOK(q)
       \/ q.handler = "succeed" /\ SucceedOK(q)

RequestsOK ==
    /\ req = [r \in Requests |-> req[r]]
    /\ \A r \in Requests : req[r] = Idle \/ RequestOK(req[r])

\* One transaction has the item's row lock, and one checks an order out.
OneAtATime ==
    \A r, x \in Requests : r # x =>
        /\ ~("item" \in req[r].locks /\ "item" \in req[x].locks)
        /\ req[r].handler = "checkout" /\ req[x].handler = "checkout"
             => req[r].orders \cap req[x].orders = {}

RowsOK ==
    /\ resv = [o \in Orders |-> resv[o]] /\ orderStatus = [o \in Orders |-> orderStatus[o]]
    /\ payment = [o \in Orders |-> payment[o]]
    /\ \A o \in Orders : orderStatus[o] = "none" => resv[o] = "none"

\* What is on sale and what is held make up the day's quantity.
PortionsAddUp ==
    /\ item.avail \in Nat
    /\ IsFiniteSet(Holders)
    /\ item.avail + Cardinality(Holders) = Total

SaleInv == RequestsOK /\ OneAtATime /\ RowsOK /\ PortionsAddUp /\ PaidOrderStands

-----------------------------------------------------------------------------
LEMMA Suffixes ==
    /\ Tail(<<"couponUpdate", "itemUpdate", "commit">>) = <<"itemUpdate", "commit">>
    /\ Tail(<<"itemUpdate", "commit">>) = <<"commit">>
    /\ Tail(<<"couponRead", "couponWrite", "commit">>) = <<"couponWrite", "commit">>
    /\ Tail(<<"couponWrite", "commit">>) = <<"commit">>
    /\ Head(<<"couponUpdate", "itemUpdate", "commit">>) = "couponUpdate"
    /\ Head(<<"itemUpdate", "commit">>) = "itemUpdate"
    /\ Head(<<"couponRead", "couponWrite", "commit">>) = "couponRead"
    /\ Head(<<"couponWrite", "commit">>) = "couponWrite"
    /\ Head(<<"commit">>) = "commit"
  OBVIOUS

\* The statement a request stands at says what it has still to do.
LEMMA Standing ==
    ASSUME NEW r \in Requests, RequestsOK, NEW s, At(r, s)
    PROVE  /\ RequestOK(req[r])
           /\ s = "couponUpdate" => /\ req[r].handler = "checkout"
                                    /\ req[r].todo = <<"couponUpdate", "itemUpdate", "commit">>
           /\ s = "itemUpdate" => /\ req[r].handler = "checkout"
                                  /\ req[r].todo = <<"itemUpdate", "commit">>
           /\ s = "couponRead" => /\ req[r].handler = "succeed"
                                  /\ req[r].todo = <<"couponRead", "couponWrite", "commit">>
           /\ s = "couponWrite" => /\ req[r].handler = "succeed"
                                   /\ req[r].todo = <<"couponWrite", "commit">>
           /\ s = "commit" => req[r].todo = <<"commit">>
           /\ s \notin {"itemRead", "itemWrite"}
  BY Suffixes DEF RequestsOK, RequestOK, CheckoutOK, IntentOK, SucceedOK, At

LEMMA InitSale == Init => SaleInv
<1>. SUFFICES ASSUME Init PROVE SaleInv  OBVIOUS
<1>1. Holders = {}  BY DEF Init, Holders
<1>2. PortionsAddUp  BY <1>1, FS_EmptySet, NumbersAssumption DEF Init, PortionsAddUp
<1>3. RequestsOK /\ OneAtATime  BY DEF Init, RequestsOK, OneAtATime, Idle
<1>. QED  BY <1>2, <1>3 DEF Init, SaleInv, RowsOK, PaidOrderStands

\* A step of request r that leaves the rows alone and takes no lock of the item.
LEMMA QuietStep ==
    ASSUME SaleInv, NEW r \in Requests, NEW q, req' = [req EXCEPT ![r] = q],
           UNCHANGED <<item, resv, orderStatus, payment>>,
           q = Idle \/ RequestOK(q),
           "item" \in q.locks => "item" \in req[r].locks,
           q.handler = "checkout" => req[r].handler = "checkout" /\ q.orders = req[r].orders
    PROVE  SaleInv'
<1>1. \A x \in Requests : req'[x] = IF x = r THEN q ELSE req[x]
  BY DEF SaleInv, RequestsOK
<1>2. \A x : RequestOK(x)' <=> RequestOK(x)
  BY DEF RequestOK, IsRequest, CheckoutOK, IntentOK, SucceedOK, Holders
<1>3. RequestsOK'  BY <1>1, <1>2 DEF SaleInv, RequestsOK
<1>4. OneAtATime'  BY <1>1 DEF SaleInv, OneAtATime
<1>5. RowsOK' /\ PortionsAddUp' /\ PaidOrderStands'  BY DEF SaleInv, RowsOK, PortionsAddUp, Holders,
         PaidOrderStands
<1>. QED  BY <1>3, <1>4, <1>5 DEF SaleInv

\* A statement that has run is taken off the list, and nothing else changes.
LEMMA AfterStatement ==
    ASSUME NEW q, IsRequest(q)
    PROVE  LET n == [q EXCEPT !.todo = Tail(@)]
           IN /\ IsRequest(n)
              /\ n.todo = Tail(q.todo)
              /\ n.handler = q.handler /\ n.orders = q.orders /\ n.held = q.held
              /\ n.unpaid = q.unpaid
              /\ n.item = q.item /\ n.locks = q.locks
  BY DEF IsRequest

\* A handler that starts holds no lock and has its whole program before it.
LEMMA StepStart ==
    ASSUME SaleInv, SellingOnly, NEW r \in Requests, NEW o \in Orders,
           \/ StartCheckout(r, o) \/ StartIntent(r, o) \/ StartSucceed(r, o)
           \/ StartCancel(r, o) \/ StartFail(r, o) \/ StartSweep(r)
    PROVE  SaleInv'
<1>1. CASE StartCheckout(r, o)
  <2>. DEFINE q == [todo |-> Program["checkout"], handler |-> "checkout", orders |-> {o},
                    unpaid |-> {}, held |-> {}, used |-> {}, item |-> item, coupon |-> coupon,
                    locks |-> {}]
  <2>1. req' = [req EXCEPT ![r] = q] /\ UNCHANGED rows /\ req[r] = Idle
    BY <1>1 DEF StartCheckout, Start
  <2>2. resv[o] = "none"  BY <1>1 DEF StartCheckout, SaleInv, RowsOK
  <2>3. RequestOK(q)
    BY <2>2 DEF RequestOK, IsRequest, CheckoutOK, Program
  <2>4. \A x \in Requests : req'[x] = IF x = r THEN q ELSE req[x]
    BY <2>1 DEF SaleInv, RequestsOK
  <2>5. \A x : RequestOK(x)' <=> RequestOK(x)
    BY <2>1 DEF RequestOK, IsRequest, CheckoutOK, IntentOK, SucceedOK, Holders, rows, orderRows
  <2>a. req' = [x \in Requests |-> req'[x]]  BY <2>1 DEF SaleInv, RequestsOK
  <2>6. RequestsOK'
    <3>. HIDE DEF q
    <3>. QED  BY <2>3, <2>4, <2>5, <2>a DEF SaleInv, RequestsOK
  <2>7. \A x \in Requests : req[x].handler = "checkout" => o \notin req[x].orders
    BY <1>1 DEF StartCheckout, Alone
  <2>8. OneAtATime'  BY <2>4, <2>7 DEF SaleInv, OneAtATime
  <2>9. RowsOK' /\ PortionsAddUp' /\ PaidOrderStands'
    BY <2>1 DEF SaleInv, RowsOK, PortionsAddUp, Holders,
         PaidOrderStands, rows, orderRows
  <2>. QED  BY <2>6, <2>8, <2>9 DEF SaleInv
<1>2. CASE StartIntent(r, o)
  <2>. DEFINE q == [todo |-> Program["intent"], handler |-> "intent", orders |-> {o},
                    unpaid |-> {}, held |-> {}, used |-> {}, item |-> item, coupon |-> coupon,
                    locks |-> {}]
  <2>1. req' = [req EXCEPT ![r] = q] /\ UNCHANGED <<item, resv, orderStatus, payment>>
    BY <1>2 DEF StartIntent, Start, rows, orderRows
  <2>2. RequestOK(q)  BY DEF RequestOK, IsRequest, IntentOK, Program
  <2>. QED  BY <2>1, <2>2, QuietStep
<1>3. CASE StartSucceed(r, o)
  <2>. DEFINE q == [todo |-> Program["succeed"], handler |-> "succeed", orders |-> {o},
                    unpaid |-> {o}, held |-> {o}, used |-> {}, item |-> item, coupon |-> coupon,
                    locks |-> {}]
  <2>1. req' = [req EXCEPT ![r] = q] /\ UNCHANGED <<item, resv, orderStatus, payment>>
    BY <1>3 DEF StartSucceed, Start, rows, orderRows
  <2>2. o \in Holders  BY <1>3 DEF StartSucceed, Holders
  <2>3. RequestOK(q)  BY <2>2 DEF RequestOK, IsRequest, SucceedOK, Program
  <2>. QED  BY <2>1, <2>3, QuietStep
<1>4. ~(StartCancel(r, o) \/ StartFail(r, o) \/ StartSweep(r))
  BY DEF SellingOnly, StartCancel, StartFail, StartSweep, Start
<1>. QED  BY <1>1, <1>2, <1>3, <1>4

\* The statements on the coupon, and a rollback, touch nothing the item depends on.
LEMMA StepCoupon ==
    ASSUME SaleInv, NEW r \in Requests,
           CouponUpdate(r) \/ CouponRead(r) \/ CouponWrite(r) \/ RollBack(r)
    PROVE  SaleInv'
<1>0. RequestsOK  BY DEF SaleInv
<1>1. CASE CouponUpdate(r)
  <2>. DEFINE c == [coupon EXCEPT !.reserved = @ + 1]
              L == req[r].locks \cup {"coupon"}
              q == [req[r] EXCEPT !.coupon = c, !.locks = L]
  <2>1. /\ RequestOK(req[r]) /\ req[r].handler = "checkout"
        /\ req[r].todo = <<"couponUpdate", "itemUpdate", "commit">>
    BY <1>0, <1>1, Standing DEF CouponUpdate
  <2>2. PICK n : n = [q EXCEPT !.todo = Tail(@)]  OBVIOUS
  <2>3. req' = [req EXCEPT ![r] = n] /\ UNCHANGED <<item, resv, orderStatus, payment>>
    BY <1>1, <2>2 DEF CouponUpdate, Step, rows, orderRows
  <2>4. IsRequest(req[r]) /\ CheckoutOK(req[r])  BY <2>1 DEF RequestOK
  <2>5. /\ "item" \notin req[r].locks
        /\ \E o \in Orders : req[r].orders = {o} /\ resv[o] = "none"
    BY <2>1, <2>4 DEF CheckoutOK
  <2>6. /\ IsRequest(q) /\ q.todo = req[r].todo /\ q.locks = L
        /\ q.handler = "checkout" /\ q.orders = req[r].orders
    <3>. HIDE DEF c, L
    <3>. QED  BY <2>1, <2>4 DEF IsRequest
  <2>7. /\ IsRequest(n) /\ n.todo = Tail(q.todo) /\ n.locks = q.locks
        /\ n.handler = q.handler /\ n.orders = q.orders
    <3>. HIDE DEF q
    <3>. QED  BY <2>2, <2>6, AfterStatement
  <2>. HIDE DEF q
  <2>8. n.todo = <<"itemUpdate", "commit">>  BY <2>1, <2>6, <2>7, Suffixes
  <2>9. n.orders = req[r].orders /\ n.handler = "checkout" /\ "item" \notin n.locks
    BY <2>5, <2>6, <2>7
  <2>10. CheckoutOK(n)  BY <2>5, <2>8, <2>9 DEF CheckoutOK
  <2>11. RequestOK(n)  BY <2>7, <2>9, <2>10 DEF RequestOK
  <2>. QED  BY <2>1, <2>3, <2>9, <2>11, QuietStep
<1>2. CASE CouponRead(r)
  <2>. DEFINE u == {o \in req[r].unpaid : benefit[o] = "reserved"}
              q == [req[r] EXCEPT !.coupon = coupon, !.unpaid = req[r].unpaid, !.used = u]
  <2>1. /\ RequestOK(req[r]) /\ req[r].handler = "succeed"
        /\ req[r].todo = <<"couponRead", "couponWrite", "commit">>
    BY <1>0, <1>2, Standing DEF CouponRead
  <2>2. PICK n : n = [q EXCEPT !.todo = Tail(@)]  OBVIOUS
  <2>3. req' = [req EXCEPT ![r] = n] /\ UNCHANGED <<item, resv, orderStatus, payment>>
    BY <1>2, <2>1, <2>2 DEF CouponRead, Step, rows, orderRows
  <2>4. IsRequest(req[r]) /\ SucceedOK(req[r])  BY <2>1 DEF RequestOK
  <2>5. /\ IsRequest(q) /\ q.todo = req[r].todo /\ q.locks = req[r].locks
        /\ q.handler = "succeed" /\ q.held = req[r].held
        /\ q.orders = req[r].orders /\ q.unpaid = req[r].unpaid
    <3>. HIDE DEF u
    <3>. QED  BY <2>1, <2>4 DEF IsRequest
  <2>6. /\ IsRequest(n) /\ n.todo = Tail(q.todo) /\ n.locks = q.locks
        /\ n.handler = q.handler /\ n.held = q.held
        /\ n.orders = q.orders /\ n.unpaid = q.unpaid
    <3>. HIDE DEF q
    <3>. QED  BY <2>2, <2>5, AfterStatement
  <2>. HIDE DEF q
  <2>7. n.todo = <<"couponWrite", "commit">>  BY <2>1, <2>5, <2>6, Suffixes
  <2>8. RequestOK(n)  BY <2>4, <2>5, <2>6, <2>7 DEF RequestOK, SucceedOK
  <2>9. n.handler # "checkout" /\ "item" \notin n.locks
    BY <2>4, <2>5, <2>6 DEF SucceedOK
  <2>. QED  BY <2>3, <2>8, <2>9, QuietStep
<1>3. CASE CouponWrite(r)
  <2>1. /\ RequestOK(req[r]) /\ req[r].handler = "succeed"
        /\ req[r].todo = <<"couponWrite", "commit">>
    BY <1>0, <1>3, Standing DEF CouponWrite
  <2>2. IsRequest(req[r]) /\ SucceedOK(req[r])  BY <2>1 DEF RequestOK
  <2>3. PICK q : /\ Step(r, q)
                 /\ IsRequest(q) /\ q.todo = req[r].todo /\ q.handler = "succeed"
                 /\ q.held = req[r].held /\ "item" \notin q.locks
                 /\ q.orders = req[r].orders /\ q.unpaid = req[r].unpaid
    <3>. DEFINE L == req[r].locks \cup {"coupon"}
                w(c) == [req[r] EXCEPT !.coupon = c, !.locks = L]
    <3>1. Step(r, req[r]) \/ \E c : Step(r, w(c))
      BY <1>3 DEF CouponWrite
    <3>2. CASE Step(r, req[r])  BY <2>1, <2>2, <3>2 DEF SucceedOK
    <3>3. ASSUME NEW c, Step(r, w(c))
          PROVE  \E q : /\ Step(r, q)
                        /\ IsRequest(q) /\ q.todo = req[r].todo /\ q.handler = "succeed"
                        /\ q.held = req[r].held /\ "item" \notin q.locks
                        /\ q.orders = req[r].orders /\ q.unpaid = req[r].unpaid
      <4>1. /\ IsRequest(w(c)) /\ w(c).todo = req[r].todo /\ w(c).handler = "succeed"
            /\ w(c).held = req[r].held /\ w(c).locks = L
            /\ w(c).orders = req[r].orders /\ w(c).unpaid = req[r].unpaid
        <5>. HIDE DEF L
        <5>. QED  BY <2>1, <2>2 DEF IsRequest
      <4>. HIDE DEF w
      <4>. QED  BY <2>2, <3>3, <4>1 DEF SucceedOK
    <3>. QED  BY <3>1, <3>2, <3>3
  <2>. DEFINE n == [q EXCEPT !.todo = Tail(@)]
  <2>4. req' = [req EXCEPT ![r] = n] /\ UNCHANGED <<item, resv, orderStatus, payment>>
    BY <2>3 DEF Step, rows, orderRows
  <2>5. /\ IsRequest(n) /\ n.todo = Tail(q.todo) /\ n.locks = q.locks
        /\ n.handler = q.handler /\ n.held = q.held
        /\ n.orders = q.orders /\ n.unpaid = q.unpaid
    BY <2>3, AfterStatement
  <2>. HIDE DEF n
  <2>6. n.todo = <<"commit">>  BY <2>1, <2>3, <2>5, Suffixes
  <2>7. RequestOK(n)  BY <2>2, <2>3, <2>5, <2>6 DEF RequestOK, SucceedOK
  <2>. QED  BY <2>3, <2>4, <2>5, <2>7, QuietStep
<1>4. CASE RollBack(r)
  <2>1. req' = [req EXCEPT ![r] = Idle] /\ UNCHANGED <<item, resv, orderStatus, payment>>
    BY <1>4 DEF RollBack, rows, orderRows
  <2>. QED  BY <2>1, QuietStep DEF Idle
<1>. QED  BY <1>1, <1>2, <1>3, <1>4

\* The guarded UPDATE reads the committed quantity with the row lock in hand.
LEMMA StepItem ==
    ASSUME SaleInv, NEW r \in Requests,
           ItemUpdate(r) \/ ItemRead(r) \/ ItemWrite(r)
    PROVE  SaleInv'
<1>0. RequestsOK  BY DEF SaleInv
<1>1. ItemUpdate(r)  BY <1>0, Standing DEF ItemRead, ItemWrite
<1>. DEFINE L == req[r].locks \cup {"item"}
            i == [avail |-> item.avail - 1,
                  status |-> IF req[r].item.avail = 1 THEN "sold_out" ELSE item.status]
            q == [req[r] EXCEPT !.item = i, !.locks = L]
<1>2. /\ RequestOK(req[r]) /\ req[r].handler = "checkout"
      /\ req[r].todo = <<"itemUpdate", "commit">>
  BY <1>0, <1>1, Standing DEF ItemUpdate
<1>3. IsRequest(req[r]) /\ CheckoutOK(req[r])  BY <1>2 DEF RequestOK
<1>4. PICK n : n = [q EXCEPT !.todo = Tail(@)]  OBVIOUS
<1>5. /\ req' = [req EXCEPT ![r] = n] /\ UNCHANGED <<item, resv, orderStatus, payment>>
      /\ item.avail >= 1 /\ Free("item")
  BY <1>1, <1>4 DEF ItemUpdate, Step, OnSale, rows, orderRows
<1>6. /\ IsRequest(q) /\ q.todo = req[r].todo /\ q.locks = L /\ q.item = i
      /\ q.handler = "checkout" /\ q.orders = req[r].orders
  <2>. HIDE DEF i, L
  <2>. QED  BY <1>2, <1>3 DEF IsRequest
<1>7. /\ IsRequest(n) /\ n.todo = Tail(q.todo) /\ n.locks = q.locks /\ n.item = q.item
      /\ n.handler = q.handler /\ n.orders = q.orders
  <2>. HIDE DEF q
  <2>. QED  BY <1>4, <1>6, AfterStatement
<1>. HIDE DEF q
<1>8. /\ n.todo = <<"commit">> /\ "item" \in n.locks /\ n.item.avail = item.avail - 1
      /\ n.handler = "checkout" /\ n.orders = req[r].orders
  BY <1>2, <1>6, <1>7, Suffixes
<1>9. RequestOK(n)  BY <1>3, <1>5, <1>7, <1>8 DEF RequestOK, CheckoutOK
<1>10. \A x \in Requests : req'[x] = IF x = r THEN n ELSE req[x]
  BY <1>5 DEF SaleInv, RequestsOK
<1>11. \A x : RequestOK(x)' <=> RequestOK(x)
  BY <1>5 DEF RequestOK, IsRequest, CheckoutOK, IntentOK, SucceedOK, Holders
<1>12. req' = [x \in Requests |-> req'[x]]  BY <1>5 DEF SaleInv, RequestsOK
<1>13. RequestsOK'  BY <1>9, <1>10, <1>11, <1>12 DEF SaleInv, RequestsOK
<1>14. OneAtATime'
  BY <1>2, <1>5, <1>8, <1>10 DEF SaleInv, OneAtATime, Free
<1>15. RowsOK' /\ PortionsAddUp' /\ PaidOrderStands'
  BY <1>5 DEF SaleInv, RowsOK, PortionsAddUp, Holders,
         PaidOrderStands
<1>. QED  BY <1>13, <1>14, <1>15 DEF SaleInv

\* A commit publishes the row with the lock: the portion taken is the portion held.
LEMMA StepCommit ==
    ASSUME SaleInv, NEW r \in Requests, Commit(r)
    PROVE  SaleInv'
<1>0. RequestsOK  BY DEF SaleInv
<1>1. RequestOK(req[r]) /\ req[r].todo = <<"commit">>  BY <1>0, Standing DEF Commit
<1>2. \A x \in Requests : req'[x] = IF x = r THEN Idle ELSE req[x]
  BY DEF Commit, SaleInv, RequestsOK
<1>3. req' = [x \in Requests |-> req'[x]]  BY DEF Commit, SaleInv, RequestsOK
<1>4. OneAtATime'  BY <1>2 DEF SaleInv, OneAtATime, Idle
<1>5. CASE req[r].handler = "checkout"
  <2>1. "item" \in req[r].locks /\ item.avail >= 1 /\ req[r].item.avail = item.avail - 1
    BY <1>1, <1>5 DEF RequestOK, CheckoutOK
  <2>2. PICK o \in Orders : req[r].orders = {o} /\ resv[o] = "none"
    BY <1>1, <1>5 DEF RequestOK, CheckoutOK
  <2>3. /\ item' = req[r].item
        /\ resv' = [p \in Orders |-> IF p = o THEN "active" ELSE resv[p]]
        /\ orderStatus' = [p \in Orders |-> IF p = o THEN "pending_payment" ELSE orderStatus[p]]
        /\ payment' = payment
    BY <1>5, <2>1, <2>2 DEF Commit, Put, OrderEnd, ResvEnd, PaymentEnd
  <2>4. Holders' = Holders \cup {o} /\ o \notin Holders  BY <2>2, <2>3 DEF Holders
  <2>5. PortionsAddUp'
    <3>1. /\ IsFiniteSet(Holders) /\ Cardinality(Holders) \in Nat
          /\ item.avail \in Nat /\ item.avail + Cardinality(Holders) = Total
      BY FS_CardinalityType DEF SaleInv, PortionsAddUp
    <3>2. IsFiniteSet(Holders') /\ Cardinality(Holders') = Cardinality(Holders) + 1
      BY <2>4, <3>1, FS_AddElement
    <3>3. item'.avail = item.avail - 1  BY <2>1, <2>3
    <3>. QED  BY <2>1, <3>1, <3>2, <3>3 DEF PortionsAddUp
  <2>6. ASSUME NEW x \in Requests, x # r, RequestOK(req[x])
        PROVE  RequestOK(req[x])'
    <3>1. /\ "item" \notin req[x].locks
          /\ req[x].handler = "checkout" => o \notin req[x].orders
      BY <1>5, <2>1, <2>2, <2>6 DEF SaleInv, OneAtATime
    <3>2. IsRequest(req[x])' /\ req'[x] = req[x]  BY <1>2, <2>6 DEF RequestOK, IsRequest
    <3>3. CASE req[x].handler = "checkout"
      <4>1. PICK p \in Orders : req[x].orders = {p} /\ resv[p] = "none"
        BY <2>6, <3>3 DEF RequestOK, CheckoutOK
      <4>2. resv'[p] = "none"  BY <2>3, <3>1, <3>3, <4>1
      <4>. QED  BY <2>6, <3>1, <3>2, <3>3, <4>1, <4>2 DEF RequestOK, CheckoutOK
    <3>4. CASE req[x].handler # "checkout"
      BY <2>4, <2>6, <3>2, <3>4 DEF RequestOK, IntentOK, SucceedOK
    <3>. QED  BY <3>3, <3>4
  <2>7. RequestsOK'  BY <1>2, <1>3, <2>6 DEF SaleInv, RequestsOK
  <2>8. RowsOK'  BY <2>3 DEF SaleInv, RowsOK
  <2>9. PaidOrderStands'  BY <2>2, <2>3 DEF SaleInv, PaidOrderStands
  <2>. QED  BY <1>4, <2>5, <2>7, <2>8, <2>9 DEF SaleInv
<1>6. CASE req[r].handler # "checkout"
  <2>1. "item" \notin req[r].locks /\ item' = item
    BY <1>1, <1>6 DEF Commit, RequestOK, IntentOK, SucceedOK
  <2>2. /\ \A p \in Orders : resv'[p] = resv[p] \/ (p \in Holders /\ resv'[p] = "converted")
        /\ \A p \in Orders : orderStatus'[p] \in {orderStatus[p], "confirmed"}
        /\ resv' = [p \in Orders |-> resv'[p]]
        /\ orderStatus' = [p \in Orders |-> orderStatus'[p]]
        /\ payment' = [p \in Orders |-> payment'[p]]
        /\ PaidOrderStands'
    <3>1. CASE req[r].handler = "intent"
      BY <3>1 DEF Commit, SaleInv, RowsOK, Put, PaymentEnd, PaidOrderStands
    <3>2. CASE req[r].handler = "succeed"
      <4>1. /\ req[r].held \subseteq Holders
            /\ req[r].orders \subseteq req[r].held /\ req[r].orders \subseteq req[r].unpaid
        BY <1>1, <3>2 DEF RequestOK, SucceedOK
      <4>2. /\ orderStatus' = Put(orderStatus, req[r].unpaid, "confirmed")
            /\ resv' = Put(resv, req[r].held, "converted")
            /\ payment' = Put(payment, req[r].orders, "succeeded")
        BY <3>2 DEF Commit, OrderEnd, ResvEnd, PaymentEnd
      <4>3. PaidOrderStands'  BY <4>1, <4>2 DEF SaleInv, PaidOrderStands, Put
      <4>. QED  BY <4>1, <4>2, <4>3 DEF Put
    <3>. QED  BY <1>1, <1>6, <3>1, <3>2 DEF RequestOK
  <2>3. Holders' = Holders  BY <2>2 DEF Holders
  <2>4. PortionsAddUp'  BY <2>1, <2>3 DEF SaleInv, PortionsAddUp
  <2>5. \A p \in Orders : resv[p] = "none" => resv'[p] = "none"  BY <2>2 DEF Holders
  <2>6. ASSUME NEW x \in Requests, x # r, RequestOK(req[x])
        PROVE  RequestOK(req[x])'
    <3>1. IsRequest(req[x])' /\ req'[x] = req[x]  BY <1>2, <2>6 DEF RequestOK, IsRequest
    <3>. QED
      BY <2>1, <2>3, <2>5, <2>6, <3>1 DEF RequestOK, CheckoutOK, IntentOK, SucceedOK
  <2>7. RequestsOK'  BY <1>2, <1>3, <2>6 DEF SaleInv, RequestsOK
  <2>8. RowsOK'  BY <2>2, <2>5 DEF SaleInv, RowsOK
  <2>. QED  BY <1>4, <2>2, <2>4, <2>7, <2>8 DEF SaleInv
<1>. QED  BY <1>5, <1>6

-----------------------------------------------------------------------------
LEMMA StepSale == ASSUME SellingOnly PROVE SaleInv /\ [Next]_vars => SaleInv'
<1>. SUFFICES ASSUME SaleInv, [Next]_vars PROVE SaleInv'  OBVIOUS
<1>1. CASE UNCHANGED vars
  BY <1>1 DEF vars, rows, orderRows, SaleInv, RequestsOK, RequestOK, IsRequest, CheckoutOK,
              IntentOK, SucceedOK, OneAtATime, RowsOK, PortionsAddUp, Holders,
       PaidOrderStands
<1>2. ASSUME NEW r \in Requests, NEW o \in Orders,
             StartCheckout(r, o) \/ StartIntent(r, o) \/ StartSucceed(r, o)
               \/ StartCancel(r, o) \/ StartFail(r, o)
      PROVE  SaleInv'
  BY <1>2, StepStart
<1>3. ASSUME NEW r \in Requests PROVE ~StartSweep(r)
  BY DEF SellingOnly, StartSweep, Start
<1>4. ASSUME NEW r \in Requests,
             CouponUpdate(r) \/ ItemUpdate(r) \/ ItemRead(r) \/ ItemWrite(r)
               \/ CouponRead(r) \/ CouponWrite(r) \/ Commit(r) \/ RollBack(r)
      PROVE  SaleInv'
  BY <1>4, StepCoupon, StepItem, StepCommit
<1>5. ASSUME NEW o \in Orders, HoldExpires(o) PROVE SaleInv'
  BY <1>5 DEF HoldExpires, rows, orderRows, SaleInv, RequestsOK, RequestOK, IsRequest,
              CheckoutOK, IntentOK, SucceedOK, OneAtATime, RowsOK, PortionsAddUp, Holders,
       PaidOrderStands
<1>. QED  BY <1>1, <1>2, <1>3, <1>4, <1>5 DEF Next

LEMMA SaleFits == SaleInv => NoOversell
<1>. SUFFICES ASSUME SaleInv PROVE NoOversell  OBVIOUS
<1>1. Cardinality(Holders) \in Nat  BY FS_CardinalityType DEF SaleInv, PortionsAddUp
<1>. QED  BY <1>1, NumbersAssumption DEF SaleInv, PortionsAddUp, NoOversell

\* If two customers try to buy the last portion at the same moment only one can
\* succeed (docs/ORDER_DOMAIN.md:49): the guarded UPDATE keeps that promise for
\* every quantity and every overlap, as long as nothing releases a portion.
THEOREM SellingNeverOversells == ASSUME SellingOnly PROVE Spec => []NoOversell
BY InitSale, StepSale, SaleFits, PTL DEF Spec

\* An order can be cancelled, and a hold can run out, only before payment
\* (orders/service.py:770): payments that overlap checkouts, intents and one another
\* leave every paid order confirmed with its portion.
THEOREM SellingPaidOrdersStand == ASSUME SellingOnly PROVE Spec => []PaidOrderStands
<1>1. SaleInv => PaidOrderStands  BY DEF SaleInv
<1>. QED  BY InitSale, StepSale, <1>1, PTL DEF Spec

-----------------------------------------------------------------------------
(* Overlapping checkouts and one coupon.  Payments are left out too: one   *)
(* that overlaps a checkout writes back a counter it read before.          *)

CheckoutOnly == Handlers \subseteq {"checkout", "intent"}

\* A checkout past its guarded UPDATE has the coupon's lock, and one use more than
\* is committed, which is still within the limit.
CouponCheckoutOK(q) ==
    /\ \E o \in Orders : q.orders = {o} /\ benefit[o] = "none"
    /\ \/ /\ q.todo = <<"couponUpdate", "itemUpdate", "commit">>
          /\ "coupon" \notin q.locks
       \/ /\ q.todo \in {<<"itemUpdate", "commit">>, <<"commit">>}
          /\ "coupon" \in q.locks
          /\ coupon.reserved + coupon.redeemed < CouponLimit
          /\ q.coupon = [reserved |-> coupon.reserved + 1, redeemed |-> coupon.redeemed]

CouponRequestOK(q) ==
    \/ q = Idle
    \/ IsRequest(q) /\ q.handler = "checkout" /\ CouponCheckoutOK(q)
    \/ IsRequest(q) /\ q.handler = "intent" /\ q.todo = <<"commit">> /\ "coupon" \notin q.locks

\* One transaction has the coupon's row lock.
CouponLocked ==
    \A r, x \in Requests : r # x => ~("coupon" \in req[r].locks /\ "coupon" \in req[x].locks)

UsesAddUp ==
    /\ coupon = [reserved |-> coupon.reserved, redeemed |-> coupon.redeemed]
    /\ coupon.reserved \in Nat /\ coupon.redeemed \in Nat
    /\ IsFiniteSet(Uses)
    /\ Cardinality(Uses) = coupon.reserved + coupon.redeemed
    /\ CouponNotOverbooked

CouponRowsOK ==
    /\ benefit = [o \in Orders |-> benefit[o]]
    /\ \A o \in Orders : orderStatus[o] = "none" => benefit[o] = "none"

CouponRequestsOK == \A r \in Requests : CouponRequestOK(req[r])

CouponInv == CouponRequestsOK /\ CouponLocked /\ UsesAddUp /\ CouponRowsOK

LEMMA InitCoupon == Init => CouponInv
<1>. SUFFICES ASSUME Init PROVE CouponInv  OBVIOUS
<1>1. Uses = {} /\ Cardinality({}) = 0 /\ IsFiniteSet({})
  BY FS_EmptySet DEF Init, Uses
<1>2. UsesAddUp  BY <1>1, NumbersAssumption DEF Init, UsesAddUp, CouponNotOverbooked
<1>. QED
  BY <1>2 DEF Init, CouponInv, CouponRequestsOK, CouponRequestOK, CouponLocked, CouponRowsOK, Idle

\* A step of request r that leaves the rows alone.
LEMMA QuietCoupon ==
    ASSUME SaleInv, CouponInv, NEW r \in Requests, NEW q, req' = [req EXCEPT ![r] = q],
           UNCHANGED rows, CouponRequestOK(q),
           "coupon" \in q.locks =>
             \A x \in Requests : x # r => "coupon" \notin req[x].locks
    PROVE  CouponInv'
<1>1. \A x \in Requests : req'[x] = IF x = r THEN q ELSE req[x]
  BY DEF SaleInv, RequestsOK
<1>2. \A x : CouponRequestOK(x)' <=> CouponRequestOK(x)
  BY DEF rows, orderRows, CouponRequestOK, IsRequest, CouponCheckoutOK
<1>3. CouponRequestsOK'  BY <1>1, <1>2 DEF CouponInv, CouponRequestsOK
<1>4. CouponLocked'  BY <1>1 DEF CouponInv, CouponLocked
<1>5. UsesAddUp' /\ CouponRowsOK'
  BY DEF rows, orderRows, CouponInv, UsesAddUp, CouponRowsOK, Uses, CouponNotOverbooked
<1>. QED  BY <1>3, <1>4, <1>5 DEF CouponInv

LEMMA CheckoutStanding ==
    ASSUME SaleInv, CouponInv, NEW r \in Requests, NEW s, At(r, s)
    PROVE  /\ IsRequest(req[r]) /\ CouponRequestOK(req[r])
           /\ s \in {"couponUpdate", "itemUpdate"} =>
                req[r].handler = "checkout" /\ CouponCheckoutOK(req[r])
           /\ s = "couponUpdate" => req[r].todo = <<"couponUpdate", "itemUpdate", "commit">>
           /\ s = "itemUpdate" => req[r].todo = <<"itemUpdate", "commit">>
           /\ s = "commit" => req[r].todo = <<"commit">>
           /\ s \notin {"itemRead", "itemWrite", "couponRead", "couponWrite"}
<1>1. CouponRequestOK(req[r]) /\ req[r] # Idle /\ Head(req[r].todo) = s
  BY DEF CouponInv, CouponRequestsOK, At
<1>. QED  BY <1>1, Suffixes DEF CouponRequestOK, CouponCheckoutOK

LEMMA StepCouponLimit ==
    ASSUME CheckoutOnly, SaleInv, CouponInv, [Next]_vars
    PROVE  CouponInv'
<1>. USE DEF rows, orderRows
<1>1. CASE UNCHANGED <<rows, req>>
  BY <1>1 DEF CouponInv, CouponRequestsOK, CouponRequestOK, IsRequest, CouponCheckoutOK,
              CouponLocked, UsesAddUp, CouponRowsOK, Uses, CouponNotOverbooked
<1>2. ASSUME NEW r \in Requests, NEW o \in Orders,
             StartCheckout(r, o) \/ StartIntent(r, o) \/ StartSucceed(r, o)
               \/ StartCancel(r, o) \/ StartFail(r, o)
      PROVE  CouponInv'
  <2>. DEFINE begun(h) ==
            [todo |-> Program[h], handler |-> h, orders |-> {o}, unpaid |-> {},
             held |-> {}, used |-> {}, item |-> item, coupon |-> coupon, locks |-> {}]
  <2>1. CASE StartCheckout(r, o)
    <3>1. req' = [req EXCEPT ![r] = begun("checkout")] /\ UNCHANGED rows
      BY <2>1 DEF StartCheckout, Start
    <3>2. benefit[o] = "none"  BY <2>1 DEF StartCheckout, CouponInv, CouponRowsOK
    <3>3. CouponRequestOK(begun("checkout")) /\ begun("checkout").locks = {}
      BY <3>2 DEF CouponRequestOK, IsRequest, CouponCheckoutOK, Program
    <3>. HIDE DEF begun
    <3>. QED  BY <3>1, <3>3, QuietCoupon
  <2>2. CASE StartIntent(r, o)
    <3>1. req' = [req EXCEPT ![r] = begun("intent")] /\ UNCHANGED rows
      BY <2>2 DEF StartIntent, Start
    <3>2. CouponRequestOK(begun("intent")) /\ begun("intent").locks = {}
      BY DEF CouponRequestOK, IsRequest, Program
    <3>. HIDE DEF begun
    <3>. QED  BY <3>1, <3>2, QuietCoupon
  <2>3. ~(StartSucceed(r, o) \/ StartCancel(r, o) \/ StartFail(r, o))
    BY DEF CheckoutOnly, StartSucceed, StartCancel, StartFail, Start
  <2>. QED  BY <1>2, <2>1, <2>2, <2>3
<1>3. ASSUME NEW r \in Requests PROVE ~StartSweep(r)
  BY DEF CheckoutOnly, StartSweep, Start
<1>4. ASSUME NEW r \in Requests, CouponUpdate(r) PROVE CouponInv'
  <2>1. /\ IsRequest(req[r]) /\ req[r].handler = "checkout" /\ CouponCheckoutOK(req[r])
        /\ req[r].todo = <<"couponUpdate", "itemUpdate", "commit">>
    BY <1>4, CheckoutStanding DEF CouponUpdate
  <2>. DEFINE c == [coupon EXCEPT !.reserved = @ + 1]
              L == req[r].locks \cup {"coupon"}
  <2>2. PICK n : n = [[req[r] EXCEPT !.coupon = c, !.locks = L] EXCEPT !.todo = Tail(@)]
    OBVIOUS
  <2>3. req' = [req EXCEPT ![r] = n] /\ UNCHANGED rows
    BY <1>4, <2>2 DEF CouponUpdate, Step
  <2>4. c = [reserved |-> coupon.reserved + 1, redeemed |-> coupon.redeemed] /\ "coupon" \in L
    BY DEF CouponInv, UsesAddUp
  <2>. HIDE DEF c, L
  <2>5. /\ IsRequest(n) /\ n.todo = Tail(req[r].todo) /\ n.handler = req[r].handler
        /\ n.orders = req[r].orders /\ n.coupon = c /\ n.locks = L
    BY <2>1, <2>2 DEF IsRequest
  <2>6. n.todo = <<"itemUpdate", "commit">>  BY <2>1, <2>5, Suffixes
  <2>7. /\ coupon.reserved + coupon.redeemed < CouponLimit
        /\ \A x \in Requests : "coupon" \notin req[x].locks
    BY <1>4 DEF CouponUpdate, CouponOpen, Free
  <2>8. CouponRequestOK(n)
    BY <2>1, <2>4, <2>5, <2>6, <2>7 DEF CouponRequestOK, CouponCheckoutOK
  <2>. QED  BY <2>3, <2>7, <2>8, QuietCoupon
<1>5. ASSUME NEW r \in Requests, ItemUpdate(r) PROVE CouponInv'
  <2>1. /\ IsRequest(req[r]) /\ req[r].handler = "checkout" /\ CouponCheckoutOK(req[r])
        /\ req[r].todo = <<"itemUpdate", "commit">>
    BY <1>5, CheckoutStanding DEF ItemUpdate
  <2>. DEFINE i == [avail |-> item.avail - 1,
                    status |-> IF req[r].item.avail = 1 THEN "sold_out" ELSE item.status]
              L == req[r].locks \cup {"item"}
  <2>2. PICK n : n = [[req[r] EXCEPT !.item = i, !.locks = L] EXCEPT !.todo = Tail(@)]
    OBVIOUS
  <2>3. req' = [req EXCEPT ![r] = n] /\ UNCHANGED rows
    BY <1>5, <2>2 DEF ItemUpdate, Step
  <2>4. "coupon" \in L  BY <2>1 DEF CouponCheckoutOK
  <2>5. "coupon" \in req[r].locks  BY <2>1 DEF CouponCheckoutOK
  <2>. HIDE DEF i, L
  <2>6. /\ IsRequest(n) /\ n.todo = Tail(req[r].todo) /\ n.handler = req[r].handler
        /\ n.orders = req[r].orders /\ n.coupon = req[r].coupon /\ n.locks = L
    BY <2>1, <2>2 DEF IsRequest
  <2>7. n.todo = <<"commit">>  BY <2>1, <2>6, Suffixes
  <2>8. CouponRequestOK(n)
    BY <2>1, <2>4, <2>6, <2>7 DEF CouponRequestOK, CouponCheckoutOK
  <2>9. \A x \in Requests : x # r => "coupon" \notin req[x].locks
    BY <2>5 DEF CouponInv, CouponLocked
  <2>. QED  BY <2>3, <2>8, <2>9, QuietCoupon
<1>6. ASSUME NEW r \in Requests
      PROVE  ~(ItemRead(r) \/ ItemWrite(r) \/ CouponRead(r) \/ CouponWrite(r))
  BY CheckoutStanding DEF ItemRead, ItemWrite, CouponRead, CouponWrite
<1>7. ASSUME NEW r \in Requests, RollBack(r) PROVE CouponInv'
  BY <1>7, QuietCoupon DEF RollBack, CouponRequestOK, Idle
<1>8. ASSUME NEW r \in Requests, Commit(r) PROVE CouponInv'
  <2>1. IsRequest(req[r]) /\ CouponRequestOK(req[r]) /\ req[r].todo = <<"commit">>
    BY <1>8, CheckoutStanding DEF Commit
  <2>2. \A x \in Requests : req'[x] = IF x = r THEN Idle ELSE req[x]
    BY <1>8 DEF Commit, SaleInv, RequestsOK
  <2>3. CouponLocked'  BY <2>2 DEF CouponInv, CouponLocked, Idle
  <2>4. req[r] # Idle  BY <1>8 DEF Commit, At
  <2>5. CASE req[r].handler = "checkout"
    <3>1. CouponCheckoutOK(req[r])  BY <2>1, <2>4, <2>5 DEF CouponRequestOK
    <3>2. PICK o \in Orders : req[r].orders = {o} /\ benefit[o] = "none"
      BY <3>1 DEF CouponCheckoutOK
    <3>3. /\ "coupon" \in req[r].locks /\ coupon.reserved + coupon.redeemed < CouponLimit
          /\ req[r].coupon = [reserved |-> coupon.reserved + 1, redeemed |-> coupon.redeemed]
      BY <2>1, <3>1 DEF CouponCheckoutOK
    <3>4. /\ coupon' = req[r].coupon
          /\ orderStatus' = [p \in Orders |-> IF p = o THEN "pending_payment" ELSE orderStatus[p]]
          /\ benefit' = [p \in Orders |-> IF p = o THEN "reserved" ELSE benefit[p]]
      BY <1>8, <2>5, <3>2, <3>3 DEF Commit, Put, OrderEnd, BenefitEnd
    <3>5. Uses' = Uses \cup {o} /\ o \notin Uses  BY <3>2, <3>4 DEF Uses
    <3>6. /\ IsFiniteSet(Uses) /\ Cardinality(Uses) = coupon.reserved + coupon.redeemed
          /\ coupon.reserved \in Nat /\ coupon.redeemed \in Nat
      BY DEF CouponInv, UsesAddUp
    <3>7. IsFiniteSet(Uses') /\ Cardinality(Uses') = Cardinality(Uses) + 1
      BY <3>5, <3>6, FS_AddElement
    <3>8. UsesAddUp'
      BY <3>3, <3>4, <3>6, <3>7, NumbersAssumption DEF UsesAddUp, CouponNotOverbooked
    <3>9. CouponRowsOK'  BY <3>4 DEF CouponInv, CouponRowsOK
    <3>10. ASSUME NEW x \in Requests, x # r PROVE CouponRequestOK(req[x])'
      <4>1. /\ "coupon" \notin req[x].locks /\ CouponRequestOK(req[x]) /\ req'[x] = req[x]
            /\ req[x].handler = "checkout" => o \notin req[x].orders
        BY <2>2, <2>5, <3>2, <3>3, <3>10
        DEF CouponInv, CouponLocked, CouponRequestsOK, SaleInv, OneAtATime
      <4>2. CASE req[x] = Idle  BY <4>1, <4>2 DEF CouponRequestOK
      <4>3. CASE IsRequest(req[x]) /\ req[x].handler = "checkout" /\ CouponCheckoutOK(req[x])
        <5>1. PICK p \in Orders : req[x].orders = {p} /\ benefit[p] = "none"
          BY <4>3 DEF CouponCheckoutOK
        <5>2. benefit'[p] = "none"  BY <3>4, <4>1, <4>3, <5>1
        <5>3. CouponCheckoutOK(req[x])'
          BY <4>1, <4>3, <5>1, <5>2 DEF CouponCheckoutOK
        <5>4. IsRequest(req[x])'  BY <4>1, <4>3 DEF IsRequest
        <5>. QED  BY <4>1, <4>3, <5>3, <5>4 DEF CouponRequestOK
      <4>4. CASE /\ IsRequest(req[x]) /\ req[x].handler = "intent"
                 /\ req[x].todo = <<"commit">>
        <5>1. IsRequest(req[x])'  BY <4>1, <4>4 DEF IsRequest
        <5>. QED  BY <4>1, <4>4, <5>1 DEF CouponRequestOK
      <4>. QED  BY <4>1, <4>2, <4>3, <4>4 DEF CouponRequestOK
    <3>11. CouponRequestsOK'  BY <2>2, <3>10 DEF CouponRequestsOK, CouponRequestOK
    <3>. QED  BY <2>3, <3>8, <3>9, <3>11 DEF CouponInv
  <2>6. CASE req[r].handler # "checkout"
    <3>1. req[r].handler = "intent" /\ "coupon" \notin req[r].locks
      BY <2>1, <2>4, <2>6 DEF CouponRequestOK
    <3>2. UNCHANGED <<coupon, benefit, orderStatus>>  BY <1>8, <3>1 DEF Commit
    <3>3. UsesAddUp' /\ CouponRowsOK'
      BY <3>2 DEF CouponInv, UsesAddUp, CouponNotOverbooked, Uses, CouponRowsOK
    <3>4. \A x : CouponRequestOK(x)' <=> CouponRequestOK(x)
      BY <3>2 DEF CouponRequestOK, IsRequest, CouponCheckoutOK
    <3>5. CouponRequestsOK'
      BY <2>2, <3>4 DEF CouponInv, CouponRequestsOK, CouponRequestOK
    <3>. QED  BY <2>3, <3>3, <3>5 DEF CouponInv
  <2>. QED  BY <2>5, <2>6
<1>9. ASSUME NEW o \in Orders, HoldExpires(o) PROVE CouponInv'  BY <1>1, <1>9 DEF HoldExpires
<1>10. CASE UNCHANGED vars  BY <1>1, <1>10 DEF vars
<1>. QED  BY <1>2, <1>3, <1>4, <1>5, <1>6, <1>7, <1>8, <1>9, <1>10 DEF Next

\* Pending checkouts cannot overbook the campaign cap (docs/PRICING_DOMAIN.md:33):
\* the guarded UPDATE of reserve_for_order keeps it for every limit and every overlap
\* of checkouts.
THEOREM CheckoutsKeepLimit == ASSUME CheckoutOnly PROVE Spec => []CouponNotOverbooked
<1>1. SellingOnly  BY DEF CheckoutOnly, SellingOnly
<1>2. CouponInv => CouponNotOverbooked  BY DEF CouponInv, UsesAddUp
<1>. QED  BY <1>1, <1>2, InitSale, StepSale, InitCoupon, StepCouponLimit, PTL DEF Spec

-----------------------------------------------------------------------------
(* One transaction at a time, every handler: the rows stay exact.          *)

OneRequest == \A r, x \in Requests : r = x

PendingOrders == UnpaidOf(Orders)
ConfirmedOrders == {o \in Orders : orderStatus[o] = "confirmed"}

\* The rows of one order tell the same story.
OrderAgrees(o) ==
    /\ \/ orderStatus[o] = "none" /\ resv[o] = "none" /\ benefit[o] = "none"
       \/ orderStatus[o] = "pending_payment" /\ resv[o] = "active" /\ benefit[o] = "reserved"
       \/ orderStatus[o] = "confirmed" /\ resv[o] = "converted" /\ benefit[o] = "applied"
       \/ /\ orderStatus[o] \in {"cancelled", "expired"}
          /\ resv[o] \in {"released", "expired"} /\ benefit[o] = "released"
    /\ payment[o] = "succeeded" => orderStatus[o] = "confirmed"

OrdersAgree ==
    /\ orderStatus = [o \in Orders |-> orderStatus[o]]
    /\ resv = [o \in Orders |-> resv[o]]
    /\ benefit = [o \in Orders |-> benefit[o]]
    /\ payment = [o \in Orders |-> payment[o]]
    /\ \A o \in Orders : OrderAgrees(o)

\* The shared rows add up to the orders.
SharedRowsExact ==
    /\ IsFiniteSet(PendingOrders) /\ IsFiniteSet(ConfirmedOrders)
    /\ item.avail \in Nat
    /\ item = [avail |-> item.avail,
               status |-> IF item.avail = 0 THEN "sold_out" ELSE "available"]
    /\ item.avail + Cardinality(PendingOrders) + Cardinality(ConfirmedOrders) = Total
    /\ coupon = [reserved |-> Cardinality(PendingOrders),
                 redeemed |-> Cardinality(ConfirmedOrders)]

\* What request q has read is what is committed, and what it will write is
\* computed from that: nobody else wrote in between.
FreshCheckout(q) ==
    /\ q.handler = "checkout"
    /\ \E o \in Orders : q.orders = {o} /\ orderStatus[o] = "none"
    /\ \/ /\ q.todo = <<"couponUpdate", "itemUpdate", "commit">>
          /\ q.locks = {} /\ q.item = item
       \/ /\ q.todo = <<"itemUpdate", "commit">>
          /\ q.locks = {"coupon"} /\ q.item = item
          /\ q.coupon = [reserved |-> coupon.reserved + 1, redeemed |-> coupon.redeemed]
       \/ /\ q.todo = <<"commit">>
          /\ q.locks = {"coupon", "item"} /\ item.avail >= 1
          /\ q.item = [avail |-> item.avail - 1,
                       status |-> IF item.avail = 1 THEN "sold_out" ELSE "available"]
          /\ q.coupon = [reserved |-> coupon.reserved + 1, redeemed |-> coupon.redeemed]

FreshIntent(q) ==
    /\ q.handler = "intent" /\ q.todo = <<"commit">> /\ q.locks = {}
    /\ \A o \in q.orders : payment[o] = "none"

FreshSucceed(q) ==
    /\ q.handler = "succeed"
    /\ \E o \in PendingOrders : q.orders = {o} /\ q.unpaid = {o} /\ q.held = {o}
    /\ \/ q.todo = <<"couponRead", "couponWrite", "commit">> /\ q.locks = {}
       \/ /\ q.todo = <<"couponWrite", "commit">>
          /\ q.locks = {} /\ q.coupon = coupon /\ q.used = q.held
       \/ /\ q.todo = <<"commit">>
          /\ q.locks = {"coupon"} /\ q.used = q.held
          /\ q.coupon = [reserved |-> coupon.reserved - 1, redeemed |-> coupon.redeemed + 1]

\* The portions go back to the item, the uses to the coupon.
PortionsBack(q) ==
    \/ q.held = {} /\ "item" \notin q.locks
    \/ /\ q.held # {} /\ "item" \in q.locks
       /\ q.item = [avail |-> item.avail + Cardinality(q.held), status |-> "available"]

UsesBack(q) ==
    \/ q.held = {} /\ "coupon" \notin q.locks
    \/ /\ q.held # {} /\ "coupon" \in q.locks
       /\ q.coupon = [reserved |-> coupon.reserved - Cardinality(q.held),
                      redeemed |-> coupon.redeemed]

FreshRelease(q) ==
    /\ q.held \subseteq PendingOrders
    /\ \/ q.handler = "cancel" /\ q.unpaid = q.held
       \/ /\ q.handler = "fail" /\ q.unpaid = q.held
          /\ \A o \in q.orders : payment[o] # "succeeded"
       \/ q.handler = "sweep" /\ q.orders = q.held
    /\ \/ /\ q.todo = <<"itemRead", "itemWrite", "couponRead", "couponWrite", "commit">>
          /\ q.locks = {}
       \/ /\ q.todo = <<"itemWrite", "couponRead", "couponWrite", "commit">>
          /\ q.locks = {} /\ q.item = item
       \/ /\ q.todo = <<"couponRead", "couponWrite", "commit">>
          /\ PortionsBack(q) /\ "coupon" \notin q.locks
       \/ /\ q.todo = <<"couponWrite", "commit">>
          /\ PortionsBack(q) /\ "coupon" \notin q.locks
          /\ q.coupon = coupon /\ q.unpaid = q.held /\ q.used = q.held
       \/ /\ q.todo = <<"commit">>
          /\ PortionsBack(q) /\ UsesBack(q) /\ q.unpaid = q.held /\ q.used = q.held

RequestFresh(q) ==
    IsRequest(q) /\ (FreshCheckout(q) \/ FreshIntent(q) \/ FreshSucceed(q) \/ FreshRelease(q))

RequestsFresh ==
    /\ req = [r \in Requests |-> req[r]]
    /\ \A r \in Requests : req[r] = Idle \/ RequestFresh(req[r])

SerialInv == RequestsFresh /\ OrdersAgree /\ SharedRowsExact

-----------------------------------------------------------------------------
LEMMA ReleaseSuffixes ==
    /\ Tail(<<"itemRead", "itemWrite", "couponRead", "couponWrite", "commit">>)
         = <<"itemWrite", "couponRead", "couponWrite", "commit">>
    /\ Tail(<<"itemWrite", "couponRead", "couponWrite", "commit">>)
         = <<"couponRead", "couponWrite", "commit">>
    /\ Head(<<"itemRead", "itemWrite", "couponRead", "couponWrite", "commit">>) = "itemRead"
    /\ Head(<<"itemWrite", "couponRead", "couponWrite", "commit">>) = "itemWrite"
  OBVIOUS

\* The statement a request stands at says what it has still to do.
LEMMA FreshStanding ==
    ASSUME NEW r \in Requests, RequestsFresh, NEW s, At(r, s)
    PROVE  /\ RequestFresh(req[r])
           /\ s = "couponUpdate" =>
                /\ FreshCheckout(req[r])
                /\ req[r].todo = <<"couponUpdate", "itemUpdate", "commit">>
           /\ s = "itemUpdate" =>
                /\ FreshCheckout(req[r])
                /\ req[r].todo = <<"itemUpdate", "commit">>
           /\ s = "itemRead" =>
                /\ FreshRelease(req[r])
                /\ req[r].todo = <<"itemRead", "itemWrite", "couponRead", "couponWrite", "commit">>
           /\ s = "itemWrite" =>
                /\ FreshRelease(req[r])
                /\ req[r].todo = <<"itemWrite", "couponRead", "couponWrite", "commit">>
           /\ s = "couponRead" =>
                /\ FreshSucceed(req[r]) \/ FreshRelease(req[r])
                /\ req[r].todo = <<"couponRead", "couponWrite", "commit">>
           /\ s = "couponWrite" =>
                /\ FreshSucceed(req[r]) \/ FreshRelease(req[r])
                /\ req[r].todo = <<"couponWrite", "commit">>
           /\ s = "commit" => req[r].todo = <<"commit">>
  BY Suffixes, ReleaseSuffixes
  DEF RequestsFresh, RequestFresh, FreshCheckout, FreshIntent, FreshSucceed, FreshRelease, At

\* The counts are numbers, and those of the pending orders are among them.
LEMMA Counts ==
    ASSUME SerialInv
    PROVE  /\ Cardinality(PendingOrders) \in Nat /\ Cardinality(ConfirmedOrders) \in Nat
           /\ \A S : S \subseteq PendingOrders =>
                /\ IsFiniteSet(S) /\ Cardinality(S) \in Nat
                /\ Cardinality(S) <= Cardinality(PendingOrders)
                /\ Cardinality(S) = 0 <=> S = {}
  BY FS_CardinalityType, FS_Subset, FS_EmptySet DEF SerialInv, SharedRowsExact

LEMMA InitSerial == Init => SerialInv
<1>. SUFFICES ASSUME Init PROVE SerialInv  OBVIOUS
<1>1. PendingOrders = {} /\ ConfirmedOrders = {}
  BY DEF Init, PendingOrders, UnpaidOf, ConfirmedOrders
<1>2. SharedRowsExact
  BY <1>1, FS_EmptySet, NumbersAssumption DEF Init, SharedRowsExact
<1>3. OrdersAgree  BY DEF Init, OrdersAgree, OrderAgrees
<1>4. RequestsFresh  BY DEF Init, RequestsFresh
<1>. QED  BY <1>2, <1>3, <1>4 DEF SerialInv

\* What a request leaves behind is fresh as long as the rows stay.
LEMMA QuietFresh ==
    ASSUME SerialInv, OneRequest, NEW r \in Requests, NEW q,
           req' = [req EXCEPT ![r] = q], UNCHANGED rows, q = Idle \/ RequestFresh(q)
    PROVE  SerialInv'
<1>1. \A x \in Requests : req'[x] = q  BY DEF SerialInv, RequestsFresh, OneRequest
<1>2. req' = [x \in Requests |-> req'[x]]  BY DEF SerialInv, RequestsFresh
<1>3. \A x : RequestFresh(x) => RequestFresh(x)'
  BY DEF rows, orderRows, RequestFresh, IsRequest, FreshCheckout, FreshIntent, FreshSucceed,
         FreshRelease, PortionsBack, UsesBack, PendingOrders, UnpaidOf
<1>4. RequestsFresh'  BY <1>1, <1>2, <1>3 DEF RequestsFresh
<1>5. OrdersAgree' /\ SharedRowsExact'
  BY DEF rows, orderRows, SerialInv, OrdersAgree, OrderAgrees, SharedRowsExact,
         PendingOrders, UnpaidOf, ConfirmedOrders
<1>. QED  BY <1>4, <1>5 DEF SerialInv

\* A handler that starts is fresh: it holds no lock and has its whole program
\* before it.
LEMMA StartFresh ==
    ASSUME SerialInv, OneRequest, NEW r \in Requests,
           \/ \E o \in Orders : \/ StartCheckout(r, o) \/ StartIntent(r, o) \/ StartSucceed(r, o)
                                \/ StartCancel(r, o) \/ StartFail(r, o)
           \/ StartSweep(r)
    PROVE  SerialInv'
<1>. DEFINE begun(h, S, unpaid, held) ==
          [todo |-> Program[h], handler |-> h, orders |-> S, unpaid |-> unpaid,
           held |-> held, used |-> {}, item |-> item, coupon |-> coupon, locks |-> {}]
<1>1. ASSUME NEW h, NEW S, NEW unpaid, NEW held, Start(r, h, S, unpaid, held),
             RequestFresh(begun(h, S, unpaid, held))
      PROVE  SerialInv'
  <2>1. req' = [req EXCEPT ![r] = begun(h, S, unpaid, held)] /\ UNCHANGED rows
    BY <1>1 DEF Start
  <2>. HIDE DEF begun
  <2>. QED  BY <1>1, <2>1, QuietFresh
<1>2. \A o \in Orders : orderStatus[o] = "pending_payment" => resv[o] = "active"
  BY DEF SerialInv, OrdersAgree, OrderAgrees
<1>3. \A o \in Orders : resv[o] = "active" => orderStatus[o] = "pending_payment"
  BY DEF SerialInv, OrdersAgree, OrderAgrees
<1>4. ASSUME NEW o \in Orders, StartCheckout(r, o) PROVE SerialInv'
  <2>1. RequestFresh(begun("checkout", {o}, {}, {}))
    BY <1>4 DEF StartCheckout, RequestFresh, IsRequest, FreshCheckout, Program
  <2>. QED  BY <1>1, <1>4, <2>1 DEF StartCheckout
<1>5. ASSUME NEW o \in Orders, StartIntent(r, o) PROVE SerialInv'
  <2>1. RequestFresh(begun("intent", {o}, {}, {}))
    BY <1>5 DEF StartIntent, RequestFresh, IsRequest, FreshIntent, Program
  <2>. QED  BY <1>1, <1>5, <2>1 DEF StartIntent
<1>6. ASSUME NEW o \in Orders, StartSucceed(r, o) PROVE SerialInv'
  <2>1. RequestFresh(begun("succeed", {o}, {o}, {o}))
    BY <1>6 DEF StartSucceed, RequestFresh, IsRequest, FreshSucceed, Program, PendingOrders,
                UnpaidOf
  <2>. QED  BY <1>1, <1>6, <2>1 DEF StartSucceed
<1>7. ASSUME NEW o \in Orders, StartCancel(r, o) PROVE SerialInv'
  <2>1. o \in PendingOrders /\ ActiveOf({o}) = {o}
    BY <1>2, <1>7 DEF StartCancel, Cancellable, PendingOrders, UnpaidOf, ActiveOf
  <2>2. RequestFresh(begun("cancel", {o}, {o}, {o}))
    BY <2>1 DEF RequestFresh, IsRequest, FreshRelease, Program
  <2>. QED  BY <1>1, <1>7, <2>1, <2>2 DEF StartCancel
<1>8. ASSUME NEW o \in Orders, StartFail(r, o) PROVE SerialInv'
  <2>1. UnpaidOf({o}) \subseteq PendingOrders /\ ActiveOf(UnpaidOf({o})) = UnpaidOf({o})
    BY <1>2 DEF PendingOrders, UnpaidOf, ActiveOf
  <2>2. payment[o] # "succeeded"  BY <1>8 DEF StartFail, FailureIgnored
  <2>3. RequestFresh(begun("fail", {o}, UnpaidOf({o}), UnpaidOf({o})))
    BY <2>1, <2>2 DEF RequestFresh, IsRequest, FreshRelease, Program
  <2>. QED  BY <1>1, <1>8, <2>1, <2>3 DEF StartFail
<1>9. ASSUME StartSweep(r) PROVE SerialInv'
  <2>. DEFINE expired == {o \in Orders : resv[o] = "active" /\ late[o]}
  <2>1. expired \subseteq PendingOrders  BY <1>3 DEF PendingOrders, UnpaidOf
  <2>. HIDE DEF expired
  <2>2. RequestFresh(begun("sweep", expired, {}, expired))
    BY <2>1 DEF RequestFresh, IsRequest, FreshRelease, Program
  <2>3. Start(r, "sweep", expired, {}, expired)  BY <1>9 DEF StartSweep, expired
  <2>. QED  BY <1>1, <2>2, <2>3
<1>. QED  BY <1>4, <1>5, <1>6, <1>7, <1>8, <1>9

LEMMA SerialCouponUpdate ==
    ASSUME SerialInv, OneRequest, NEW r \in Requests, CouponUpdate(r)
    PROVE  SerialInv'
<1>1. /\ RequestFresh(req[r]) /\ FreshCheckout(req[r])
      /\ req[r].todo = <<"couponUpdate", "itemUpdate", "commit">>
  BY FreshStanding DEF CouponUpdate, SerialInv
<1>. DEFINE c == [coupon EXCEPT !.reserved = @ + 1]
            L == req[r].locks \cup {"coupon"}
<1>2. PICK n : n = [[req[r] EXCEPT !.coupon = c, !.locks = L] EXCEPT !.todo = Tail(@)]
  OBVIOUS
<1>3. req' = [req EXCEPT ![r] = n] /\ UNCHANGED rows
  BY <1>2 DEF CouponUpdate, Step
<1>4. c = [reserved |-> coupon.reserved + 1, redeemed |-> coupon.redeemed]
  BY DEF SerialInv, SharedRowsExact
<1>5. L = {"coupon"} /\ req[r].item = item  BY <1>1 DEF FreshCheckout
<1>. HIDE DEF c, L
<1>6. /\ IsRequest(n) /\ n.todo = Tail(req[r].todo)
      /\ n.handler = req[r].handler /\ n.orders = req[r].orders
      /\ n.item = req[r].item /\ n.coupon = c /\ n.locks = L
  BY <1>1, <1>2 DEF RequestFresh, IsRequest
<1>7. n.todo = <<"itemUpdate", "commit">>  BY <1>1, <1>6, Suffixes
<1>8. RequestFresh(n)
  BY <1>1, <1>4, <1>5, <1>6, <1>7 DEF RequestFresh, FreshCheckout
<1>. QED  BY <1>3, <1>8, QuietFresh

\* The guarded UPDATE and the item in memory agree on what is left.
LEMMA SerialItemUpdate ==
    ASSUME SerialInv, OneRequest, NEW r \in Requests, ItemUpdate(r)
    PROVE  SerialInv'
<1>1. /\ RequestFresh(req[r]) /\ FreshCheckout(req[r])
      /\ req[r].todo = <<"itemUpdate", "commit">>
  BY FreshStanding DEF ItemUpdate, SerialInv
<1>2. /\ req[r].locks = {"coupon"} /\ req[r].item = item
      /\ req[r].coupon = [reserved |-> coupon.reserved + 1, redeemed |-> coupon.redeemed]
  BY <1>1 DEF FreshCheckout
<1>. DEFINE i == [avail |-> item.avail - 1,
                  status |-> IF req[r].item.avail = 1 THEN "sold_out" ELSE item.status]
            L == req[r].locks \cup {"item"}
<1>3. PICK n : n = [[req[r] EXCEPT !.item = i, !.locks = L] EXCEPT !.todo = Tail(@)]
  OBVIOUS
<1>4. req' = [req EXCEPT ![r] = n] /\ UNCHANGED rows
  BY <1>3 DEF ItemUpdate, Step
<1>5. item.avail >= 1 /\ item.status = "available"  BY DEF ItemUpdate, OnSale
<1>6. i = [avail |-> item.avail - 1,
           status |-> IF item.avail = 1 THEN "sold_out" ELSE "available"]
  BY <1>2, <1>5
<1>7. L = {"coupon", "item"}  BY <1>2
<1>. HIDE DEF i, L
<1>8. /\ IsRequest(n) /\ n.todo = Tail(req[r].todo)
      /\ n.handler = req[r].handler /\ n.orders = req[r].orders
      /\ n.item = i /\ n.coupon = req[r].coupon /\ n.locks = L
  BY <1>1, <1>3 DEF RequestFresh, IsRequest
<1>9. n.todo = <<"commit">>  BY <1>1, <1>8, Suffixes
<1>10. RequestFresh(n)
  BY <1>1, <1>2, <1>5, <1>6, <1>7, <1>8, <1>9 DEF RequestFresh, FreshCheckout
<1>. QED  BY <1>4, <1>10, QuietFresh

LEMMA SerialItemRead ==
    ASSUME SerialInv, OneRequest, NEW r \in Requests, ItemRead(r)
    PROVE  SerialInv'
<1>1. /\ RequestFresh(req[r]) /\ FreshRelease(req[r])
      /\ req[r].todo = <<"itemRead", "itemWrite", "couponRead", "couponWrite", "commit">>
  BY FreshStanding DEF ItemRead, SerialInv
<1>2. PICK n : n = [[req[r] EXCEPT !.item = item] EXCEPT !.todo = Tail(@)]
  OBVIOUS
<1>3. req' = [req EXCEPT ![r] = n] /\ UNCHANGED rows
  BY <1>2 DEF ItemRead, Step
<1>4. /\ IsRequest(n) /\ n.todo = Tail(req[r].todo)
      /\ n.handler = req[r].handler /\ n.orders = req[r].orders /\ n.unpaid = req[r].unpaid
      /\ n.held = req[r].held /\ n.item = item /\ n.locks = req[r].locks
  BY <1>1, <1>2 DEF RequestFresh, IsRequest
<1>5. n.todo = <<"itemWrite", "couponRead", "couponWrite", "commit">>
  BY <1>1, <1>4, ReleaseSuffixes
<1>6. req[r].locks = {}  BY <1>1 DEF FreshRelease
<1>7. RequestFresh(n)  BY <1>1, <1>4, <1>5, <1>6 DEF RequestFresh, FreshRelease
<1>. QED  BY <1>3, <1>7, QuietFresh

\* The quantity that was read plus the portions held is within the day's quantity,
\* so min(..., quantity_total) cuts nothing off, and the item is on sale again.
LEMMA SerialItemWrite ==
    ASSUME SerialInv, OneRequest, NEW r \in Requests, ItemWrite(r)
    PROVE  SerialInv'
<1>1. /\ RequestFresh(req[r]) /\ FreshRelease(req[r])
      /\ req[r].todo = <<"itemWrite", "couponRead", "couponWrite", "commit">>
  BY FreshStanding DEF ItemWrite, SerialInv
<1>2. req[r].locks = {} /\ req[r].item = item /\ req[r].held \subseteq PendingOrders
  BY <1>1 DEF FreshRelease
<1>3. /\ Cardinality(req[r].held) \in Nat
      /\ Cardinality(req[r].held) = 0 <=> req[r].held = {}
      /\ Cardinality(req[r].held) <= Cardinality(PendingOrders)
      /\ Cardinality(PendingOrders) \in Nat /\ Cardinality(ConfirmedOrders) \in Nat
  BY <1>2, Counts
<1>4. /\ item.avail \in Nat /\ item.status \in {"available", "sold_out"}
      /\ item.avail + Cardinality(PendingOrders) + Cardinality(ConfirmedOrders) = Total
      /\ Total \in Nat
  BY NumbersAssumption DEF SerialInv, SharedRowsExact
<1>. DEFINE sum == item.avail + Cardinality(req[r].held)
            avail == IF sum > Total THEN Total ELSE sum
            resumes == req[r].held # {} /\ item.status = "sold_out" /\ avail > 0
            i == [avail |-> IF avail # item.avail THEN avail ELSE item.avail,
                  status |-> IF resumes THEN "available" ELSE item.status]
            L == req[r].locks \cup {"item"}
<1>5. avail = sum  BY <1>3, <1>4
<1>6. \E n : /\ req' = [req EXCEPT ![r] = n] /\ UNCHANGED rows
             /\ IsRequest(n) /\ n.todo = Tail(req[r].todo)
             /\ n.handler = req[r].handler /\ n.orders = req[r].orders
             /\ n.unpaid = req[r].unpaid /\ n.held = req[r].held
             /\ "coupon" \notin n.locks
             /\ PortionsBack(n)
  <2>1. CASE req[r].held = {}
    <3>1. avail = item.avail /\ ~resumes  BY <1>3, <1>4, <1>5, <2>1
    <3>2. Step(r, req[r])  BY <1>2, <3>1 DEF ItemWrite
    <3>3. PICK n : n = [req[r] EXCEPT !.todo = Tail(@)]  OBVIOUS
    <3>4. /\ IsRequest(n) /\ n.todo = Tail(req[r].todo)
          /\ n.handler = req[r].handler /\ n.orders = req[r].orders
          /\ n.unpaid = req[r].unpaid /\ n.held = req[r].held /\ n.locks = req[r].locks
      BY <1>1, <3>3 DEF RequestFresh, IsRequest
    <3>5. PortionsBack(n) /\ "coupon" \notin n.locks
      BY <1>2, <2>1, <3>4 DEF PortionsBack
    <3>6. req' = [req EXCEPT ![r] = n] /\ UNCHANGED rows  BY <3>2, <3>3 DEF Step
    <3>. QED  BY <3>4, <3>5, <3>6
  <2>2. CASE req[r].held # {}
    <3>1. avail = sum /\ avail # item.avail /\ avail > 0  BY <1>3, <1>4, <1>5, <2>2
    <3>2. Step(r, [req[r] EXCEPT !.item = i, !.locks = L])
      BY <1>2, <3>1 DEF ItemWrite
    <3>3. i = [avail |-> item.avail + Cardinality(req[r].held), status |-> "available"]
      BY <1>4, <2>2, <3>1
    <3>4. L = {"item"}  BY <1>2
    <3>. HIDE DEF i, L
    <3>5. PICK n : n = [[req[r] EXCEPT !.item = i, !.locks = L] EXCEPT !.todo = Tail(@)]
      OBVIOUS
    <3>6. /\ IsRequest(n) /\ n.todo = Tail(req[r].todo)
          /\ n.handler = req[r].handler /\ n.orders = req[r].orders
          /\ n.unpaid = req[r].unpaid /\ n.held = req[r].held /\ n.item = i /\ n.locks = L
      BY <1>1, <3>5 DEF RequestFresh, IsRequest
    <3>7. PortionsBack(n) /\ "coupon" \notin n.locks
      BY <2>2, <3>3, <3>4, <3>6 DEF PortionsBack
    <3>8. req' = [req EXCEPT ![r] = n] /\ UNCHANGED rows  BY <3>2, <3>5 DEF Step
    <3>. QED  BY <3>6, <3>7, <3>8
  <2>. QED  BY <2>1, <2>2
<1>7. PICK n : /\ req' = [req EXCEPT ![r] = n] /\ UNCHANGED rows
               /\ IsRequest(n) /\ n.todo = Tail(req[r].todo)
               /\ n.handler = req[r].handler /\ n.orders = req[r].orders
               /\ n.unpaid = req[r].unpaid /\ n.held = req[r].held
               /\ "coupon" \notin n.locks
               /\ PortionsBack(n)
  BY <1>6
<1>8. n.todo = <<"couponRead", "couponWrite", "commit">>  BY <1>1, <1>7, ReleaseSuffixes
<1>9. RequestFresh(n)  BY <1>1, <1>7, <1>8 DEF RequestFresh, FreshRelease
<1>. QED  BY <1>7, <1>9, QuietFresh

\* The orders whose rows a request releases are unpaid and use the coupon.
LEMMA SerialCouponRead ==
    ASSUME SerialInv, OneRequest, NEW r \in Requests, CouponRead(r)
    PROVE  SerialInv'
<1>1. /\ RequestFresh(req[r]) /\ (FreshSucceed(req[r]) \/ FreshRelease(req[r]))
      /\ req[r].todo = <<"couponRead", "couponWrite", "commit">>
  BY FreshStanding DEF CouponRead, SerialInv
<1>. DEFINE U == IF req[r].handler = "sweep" THEN UnpaidOf(req[r].orders) ELSE req[r].unpaid
            S == {o \in U : benefit[o] = "reserved"}
<1>2. req[r].held \subseteq PendingOrders
  BY <1>1 DEF FreshSucceed, FreshRelease
<1>3. U = req[r].held
  BY <1>1, <1>2 DEF FreshSucceed, FreshRelease, UnpaidOf, PendingOrders
<1>4. S = req[r].held
  BY <1>2, <1>3 DEF SerialInv, OrdersAgree, OrderAgrees, PendingOrders, UnpaidOf
<1>5. Step(r, [req[r] EXCEPT !.coupon = coupon, !.unpaid = U, !.used = S])
  BY DEF CouponRead
<1>. HIDE DEF U, S
<1>6. PICK n : n = [[req[r] EXCEPT !.coupon = coupon, !.unpaid = U, !.used = S]
                      EXCEPT !.todo = Tail(@)]
  OBVIOUS
<1>7. req' = [req EXCEPT ![r] = n] /\ UNCHANGED rows  BY <1>5, <1>6 DEF Step
<1>8. /\ IsRequest(n) /\ n.todo = Tail(req[r].todo)
      /\ n.handler = req[r].handler /\ n.orders = req[r].orders /\ n.unpaid = U
      /\ n.held = req[r].held /\ n.used = S
      /\ n.item = req[r].item /\ n.coupon = coupon /\ n.locks = req[r].locks
  BY <1>1, <1>6 DEF RequestFresh, IsRequest
<1>9. n.todo = <<"couponWrite", "commit">>  BY <1>1, <1>8, Suffixes
<1>10. CASE FreshSucceed(req[r])
  <2>1. FreshSucceed(n)  BY <1>1, <1>3, <1>4, <1>8, <1>9, <1>10 DEF FreshSucceed
  <2>. QED  BY <1>7, <1>8, <2>1, QuietFresh DEF RequestFresh
<1>11. CASE FreshRelease(req[r])
  <2>1. PortionsBack(n) /\ "coupon" \notin n.locks
    BY <1>1, <1>8, <1>11 DEF FreshRelease, PortionsBack
  <2>2. FreshRelease(n)  BY <1>3, <1>4, <1>8, <1>9, <1>11, <2>1 DEF FreshRelease
  <2>. QED  BY <1>7, <1>8, <2>2, QuietFresh DEF RequestFresh
<1>. QED  BY <1>1, <1>10, <1>11

\* The counters that were read cover the uses that end, so max(0, ...) adds nothing.
LEMMA SerialCouponWrite ==
    ASSUME SerialInv, OneRequest, NEW r \in Requests, CouponWrite(r)
    PROVE  SerialInv'
<1>1. /\ RequestFresh(req[r]) /\ (FreshSucceed(req[r]) \/ FreshRelease(req[r]))
      /\ req[r].todo = <<"couponWrite", "commit">>
  BY FreshStanding DEF CouponWrite, SerialInv
<1>2. /\ req[r].held \subseteq PendingOrders /\ req[r].used = req[r].held
      /\ req[r].coupon = coupon /\ "coupon" \notin req[r].locks
  BY <1>1 DEF FreshSucceed, FreshRelease
<1>3. /\ Cardinality(req[r].held) \in Nat
      /\ Cardinality(req[r].held) = 0 <=> req[r].held = {}
      /\ Cardinality(req[r].held) <= Cardinality(PendingOrders)
      /\ Cardinality(PendingOrders) \in Nat
  BY <1>2, Counts
<1>4. coupon.reserved = Cardinality(PendingOrders)
  BY DEF SerialInv, SharedRowsExact
<1>. DEFINE m == Ended(req[r])
            reserved == IF coupon.reserved > m THEN coupon.reserved - m ELSE 0
            changed == reserved # coupon.reserved
            paid == req[r].handler = "succeed"
            c == [reserved |-> IF changed THEN reserved ELSE coupon.reserved,
                  redeemed |-> IF paid THEN coupon.redeemed + 1 ELSE coupon.redeemed]
            L == req[r].locks \cup {"coupon"}
<1>5. m = Cardinality(req[r].held)  BY <1>2 DEF Ended
<1>6. reserved = coupon.reserved - m  BY <1>3, <1>4, <1>5
<1>7. CASE req[r].held = {}
  <2>1. m = 0  BY <1>3, <1>5, <1>7
  <2>2. Step(r, req[r])  BY <1>2, <2>1 DEF CouponWrite
  <2>3. PICK n : n = [req[r] EXCEPT !.todo = Tail(@)]  OBVIOUS
  <2>4. /\ IsRequest(n) /\ n.todo = Tail(req[r].todo)
        /\ n.handler = req[r].handler /\ n.orders = req[r].orders
        /\ n.unpaid = req[r].unpaid /\ n.held = req[r].held /\ n.used = req[r].used
        /\ n.item = req[r].item /\ n.locks = req[r].locks
    BY <1>1, <2>3 DEF RequestFresh, IsRequest
  <2>5. req' = [req EXCEPT ![r] = n] /\ UNCHANGED rows  BY <2>2, <2>3 DEF Step
  <2>6. n.todo = <<"commit">>  BY <1>1, <2>4, Suffixes
  <2>7. FreshRelease(req[r])  BY <1>1, <1>7 DEF FreshSucceed
  <2>8. PortionsBack(n) /\ UsesBack(n)
    BY <1>1, <1>2, <1>7, <2>4, <2>7 DEF FreshRelease, PortionsBack, UsesBack
  <2>9. FreshRelease(n)  BY <1>1, <2>4, <2>6, <2>7, <2>8 DEF FreshRelease
  <2>. QED  BY <2>4, <2>5, <2>9, QuietFresh DEF RequestFresh
<1>8. CASE req[r].held # {}
  <2>1. m # 0 /\ changed  BY <1>3, <1>4, <1>5, <1>6, <1>8
  <2>2. Step(r, [req[r] EXCEPT !.coupon = c, !.locks = L])
    BY <1>2, <2>1 DEF CouponWrite
  <2>3. c = [reserved |-> coupon.reserved - Cardinality(req[r].held),
             redeemed |-> IF paid THEN coupon.redeemed + 1 ELSE coupon.redeemed]
    BY <1>5, <1>6, <2>1
  <2>. HIDE DEF c, L
  <2>4. PICK n : n = [[req[r] EXCEPT !.coupon = c, !.locks = L] EXCEPT !.todo = Tail(@)]
    OBVIOUS
  <2>5. /\ IsRequest(n) /\ n.todo = Tail(req[r].todo)
        /\ n.handler = req[r].handler /\ n.orders = req[r].orders
        /\ n.unpaid = req[r].unpaid /\ n.held = req[r].held /\ n.used = req[r].used
        /\ n.item = req[r].item /\ n.coupon = c /\ n.locks = L
    BY <1>1, <2>4 DEF RequestFresh, IsRequest
  <2>6. req' = [req EXCEPT ![r] = n] /\ UNCHANGED rows  BY <2>2, <2>4 DEF Step
  <2>7. n.todo = <<"commit">>  BY <1>1, <2>5, Suffixes
  <2>8. CASE FreshSucceed(req[r])
    <3>1. \E o \in PendingOrders : req[r].held = {o}  BY <2>8 DEF FreshSucceed
    <3>2. PICK o \in PendingOrders : req[r].held = {o}  BY <3>1
    <3>3. Cardinality({o}) = 1  BY FS_Singleton
    <3>4. Cardinality(req[r].held) = 1  BY <3>2, <3>3
    <3>5. paid /\ req[r].locks = {}  BY <1>1, <2>8 DEF FreshSucceed
    <3>6. c = [reserved |-> coupon.reserved - 1, redeemed |-> coupon.redeemed + 1]
      BY <2>3, <3>4, <3>5
    <3>7. L = {"coupon"}  BY <3>5 DEF L
    <3>8. FreshSucceed(n)
      BY <1>2, <2>5, <2>7, <2>8, <3>6, <3>7 DEF FreshSucceed
    <3>. QED  BY <2>5, <2>6, <3>8, QuietFresh DEF RequestFresh
  <2>9. CASE FreshRelease(req[r])
    <3>1. ~paid  BY <2>9 DEF FreshRelease
    <3>2. UsesBack(n)
      BY <1>8, <2>3, <2>5, <3>1 DEF UsesBack, L
    <3>3. PortionsBack(n)  BY <1>1, <1>8, <2>5, <2>9 DEF FreshRelease, PortionsBack, L
    <3>4. FreshRelease(n)
      BY <1>1, <1>2, <2>5, <2>7, <2>9, <3>2, <3>3 DEF FreshRelease
    <3>. QED  BY <2>5, <2>6, <3>4, QuietFresh DEF RequestFresh
  <2>. QED  BY <1>1, <2>8, <2>9
<1>. QED  BY <1>7, <1>8

\* The commit publishes the rows of the orders and the shared rows together.
LEMMA SerialCommit ==
    ASSUME SerialInv, OneRequest, NEW r \in Requests, Commit(r)
    PROVE  SerialInv'
<1>1. RequestFresh(req[r]) /\ req[r].todo = <<"commit">>
  BY FreshStanding DEF Commit, SerialInv
<1>2. req' = [x \in Requests |-> Idle]
  BY DEF Commit, SerialInv, RequestsFresh, OneRequest
<1>3. RequestsFresh'  BY <1>2 DEF RequestsFresh
<1>4. /\ orderStatus' = [o \in Orders |-> orderStatus'[o]]
      /\ resv' = [o \in Orders |-> resv'[o]] /\ benefit' = [o \in Orders |-> benefit'[o]]
      /\ payment' = [o \in Orders |-> payment'[o]]
  BY DEF Commit, Put, SerialInv, OrdersAgree
<1>5. /\ IsFiniteSet(PendingOrders) /\ Cardinality(PendingOrders) \in Nat
      /\ IsFiniteSet(ConfirmedOrders) /\ Cardinality(ConfirmedOrders) \in Nat
      /\ item.avail \in Nat /\ item.status = IF item.avail = 0 THEN "sold_out" ELSE "available"
      /\ item.avail + Cardinality(PendingOrders) + Cardinality(ConfirmedOrders) = Total
      /\ coupon.reserved = Cardinality(PendingOrders)
      /\ coupon.redeemed = Cardinality(ConfirmedOrders)
  BY Counts DEF SerialInv, SharedRowsExact
<1>6. \A o \in Orders : OrderAgrees(o)  BY DEF SerialInv, OrdersAgree
<1>7. CASE FreshCheckout(req[r])
  <2>1. PICK o \in Orders : req[r].orders = {o} /\ orderStatus[o] = "none"
    BY <1>7 DEF FreshCheckout
  <2>2. /\ orderStatus' = [p \in Orders |-> IF p = o THEN "pending_payment" ELSE orderStatus[p]]
        /\ resv' = [p \in Orders |-> IF p = o THEN "active" ELSE resv[p]]
        /\ benefit' = [p \in Orders |-> IF p = o THEN "reserved" ELSE benefit[p]]
        /\ payment' = payment
    BY <1>7, <2>1 DEF FreshCheckout, Commit, Put, OrderEnd, ResvEnd, BenefitEnd, PaymentEnd
  <2>3. /\ req[r].locks = {"coupon", "item"} /\ item.avail >= 1
        /\ req[r].item = [avail |-> item.avail - 1,
                          status |-> IF item.avail = 1 THEN "sold_out" ELSE "available"]
        /\ req[r].coupon = [reserved |-> coupon.reserved + 1, redeemed |-> coupon.redeemed]
    BY <1>1, <1>7 DEF FreshCheckout
  <2>4. item' = req[r].item /\ coupon' = req[r].coupon  BY <2>3 DEF Commit
  <2>5. PendingOrders' = PendingOrders \cup {o} /\ o \notin PendingOrders
    BY <2>1, <2>2 DEF PendingOrders, UnpaidOf
  <2>6. ConfirmedOrders' = ConfirmedOrders  BY <2>1, <2>2 DEF ConfirmedOrders
  <2>7. /\ IsFiniteSet(PendingOrders')
        /\ Cardinality(PendingOrders') = Cardinality(PendingOrders) + 1
    BY <1>5, <2>5, FS_AddElement
  <2>8. SharedRowsExact'  BY <1>5, <2>3, <2>4, <2>6, <2>7 DEF SharedRowsExact
  <2>9. \A p \in Orders : OrderAgrees(p)'
    BY <1>6, <2>1, <2>2 DEF OrderAgrees
  <2>. QED  BY <1>3, <1>4, <2>8, <2>9 DEF SerialInv, OrdersAgree
<1>8. CASE FreshIntent(req[r])
  <2>1. /\ UNCHANGED <<item, coupon, orderStatus, resv, benefit>>
        /\ payment' = [p \in Orders |-> IF p \in req[r].orders THEN "pending" ELSE payment[p]]
    BY <1>8 DEF FreshIntent, Commit, Put, PaymentEnd
  <2>2. SharedRowsExact'
    BY <2>1 DEF SerialInv, SharedRowsExact, PendingOrders, UnpaidOf, ConfirmedOrders
  <2>3. \A p \in Orders : OrderAgrees(p)'  BY <1>6, <2>1 DEF OrderAgrees
  <2>. QED  BY <1>3, <1>4, <2>2, <2>3 DEF SerialInv, OrdersAgree
<1>9. CASE FreshSucceed(req[r])
  <2>1. PICK o \in PendingOrders : req[r].orders = {o} /\ req[r].unpaid = {o} /\ req[r].held = {o}
    BY <1>9 DEF FreshSucceed
  <2>2. /\ req[r].handler = "succeed" /\ req[r].locks = {"coupon"} /\ req[r].used = {o}
        /\ req[r].coupon = [reserved |-> coupon.reserved - 1, redeemed |-> coupon.redeemed + 1]
    BY <1>1, <1>9, <2>1 DEF FreshSucceed
  <2>3. /\ orderStatus' = [p \in Orders |-> IF p = o THEN "confirmed" ELSE orderStatus[p]]
        /\ resv' = [p \in Orders |-> IF p = o THEN "converted" ELSE resv[p]]
        /\ benefit' = [p \in Orders |-> IF p = o THEN "applied" ELSE benefit[p]]
        /\ payment' = [p \in Orders |-> IF p = o THEN "succeeded" ELSE payment[p]]
    BY <2>1, <2>2 DEF Commit, Put, OrderEnd, ResvEnd, BenefitEnd, PaymentEnd
  <2>4. item' = item /\ coupon' = req[r].coupon  BY <2>2 DEF Commit
  <2>5. /\ PendingOrders' = PendingOrders \ {o} /\ o \in PendingOrders
        /\ ConfirmedOrders' = ConfirmedOrders \cup {o} /\ o \notin ConfirmedOrders
    BY <2>1, <2>3 DEF PendingOrders, UnpaidOf, ConfirmedOrders
  <2>6. /\ IsFiniteSet(PendingOrders')
        /\ Cardinality(PendingOrders') = Cardinality(PendingOrders) - 1
    BY <1>5, <2>5, FS_RemoveElement
  <2>7. /\ IsFiniteSet(ConfirmedOrders')
        /\ Cardinality(ConfirmedOrders') = Cardinality(ConfirmedOrders) + 1
    BY <1>5, <2>5, FS_AddElement
  <2>8. item = [avail |-> item.avail,
                status |-> IF item.avail = 0 THEN "sold_out" ELSE "available"]
    BY DEF SerialInv, SharedRowsExact
  <2>9. SharedRowsExact'  BY <1>5, <2>2, <2>4, <2>6, <2>7, <2>8 DEF SharedRowsExact
  <2>10. \A p \in Orders : OrderAgrees(p)'
    BY <1>6, <2>1, <2>3 DEF OrderAgrees, PendingOrders, UnpaidOf
  <2>. QED  BY <1>3, <1>4, <2>9, <2>10 DEF SerialInv, OrdersAgree
<1>10. CASE FreshRelease(req[r])
  <2>. DEFINE H == req[r].held
  <2>1. /\ req[r].handler \in {"cancel", "fail", "sweep"}
        /\ H \subseteq PendingOrders /\ req[r].unpaid = H /\ req[r].used = H
        /\ PortionsBack(req[r]) /\ UsesBack(req[r])
    BY <1>1, <1>10 DEF FreshRelease
  <2>2. /\ orderStatus' = Put(orderStatus, H, OrderEnd[req[r].handler])
        /\ resv' = Put(resv, H, ResvEnd[req[r].handler])
        /\ benefit' = Put(benefit, H, BenefitEnd[req[r].handler])
    BY <2>1 DEF Commit
  <2>3. /\ OrderEnd[req[r].handler] \in {"cancelled", "expired"}
        /\ ResvEnd[req[r].handler] \in {"released", "expired"}
        /\ BenefitEnd[req[r].handler] = "released"
    BY <2>1 DEF OrderEnd, ResvEnd, BenefitEnd
  <2>4. \A p \in Orders : payment'[p] = "succeeded" => payment[p] = "succeeded" /\ p \notin H
    <3>1. \A p \in H : payment[p] # "succeeded"
      BY <1>6, <2>1 DEF OrderAgrees, PendingOrders, UnpaidOf
    <3>2. CASE req[r].handler = "fail"
      BY <3>1, <3>2 DEF Commit, Put, PaymentEnd
    <3>3. CASE req[r].handler \in {"cancel", "sweep"}
      BY <3>1, <3>3 DEF Commit, PaymentEnd
    <3>. QED  BY <2>1, <3>2, <3>3
  <2>5. \A p \in Orders : OrderAgrees(p)'
    BY <1>6, <2>2, <2>3, <2>4 DEF OrderAgrees, Put
  <2>6. /\ PendingOrders' = PendingOrders \ H /\ ConfirmedOrders' = ConfirmedOrders
    BY <2>1, <2>2, <2>3 DEF PendingOrders, UnpaidOf, ConfirmedOrders, Put
  <2>7. /\ IsFiniteSet(H) /\ Cardinality(H) \in Nat
        /\ IsFiniteSet(PendingOrders')
        /\ Cardinality(PendingOrders') = Cardinality(PendingOrders) - Cardinality(H)
        /\ Cardinality(PendingOrders') \in Nat
    <3>1. IsFiniteSet(H) /\ IsFiniteSet(PendingOrders \ H)
      BY <1>5, <2>1, FS_Subset
    <3>2. /\ Cardinality(PendingOrders \ H) = Cardinality(PendingOrders) - Cardinality(PendingOrders \cap H)
          /\ PendingOrders \cap H = H
      BY <1>5, <2>1, <3>1, FS_Difference
    <3>. QED  BY <2>6, <3>1, <3>2, FS_CardinalityType
  <2>8. item' = [avail |-> item.avail + Cardinality(H),
                 status |-> IF item.avail + Cardinality(H) = 0 THEN "sold_out" ELSE "available"]
    <3>1. CASE H = {}
      <4>1. Cardinality(H) = 0  BY <3>1, FS_EmptySet
      <4>2. item' = item  BY <2>1, <3>1 DEF PortionsBack, Commit
      <4>. QED  BY <1>5, <4>1, <4>2 DEF SerialInv, SharedRowsExact
    <3>2. CASE H # {}
      <4>1. Cardinality(H) # 0  BY <2>7, <3>2, FS_EmptySet
      <4>2. item' = [avail |-> item.avail + Cardinality(H), status |-> "available"]
        BY <2>1, <3>2 DEF PortionsBack, Commit
      <4>. QED  BY <1>5, <2>7, <4>1, <4>2
    <3>. QED  BY <3>1, <3>2
  <2>9. coupon' = [reserved |-> coupon.reserved - Cardinality(H), redeemed |-> coupon.redeemed]
    <3>1. CASE H = {}
      <4>1. Cardinality(H) = 0  BY <3>1, FS_EmptySet
      <4>2. coupon' = coupon  BY <2>1, <3>1 DEF UsesBack, Commit
      <4>. QED  BY <1>5, <4>1, <4>2 DEF SerialInv, SharedRowsExact
    <3>2. CASE H # {}  BY <2>1, <3>2 DEF UsesBack, Commit
    <3>. QED  BY <3>1, <3>2
  <2>. HIDE DEF H
  <2>10. item.avail + Cardinality(H) \in Nat  BY <1>5, <2>7
  <2>11. item'.avail = item.avail + Cardinality(H)  BY <2>8
  <2>12. item' = [avail |-> item'.avail,
                  status |-> IF item'.avail = 0 THEN "sold_out" ELSE "available"]
    BY <2>8, <2>11
  <2>13. coupon' = [reserved |-> Cardinality(PendingOrders'),
                    redeemed |-> Cardinality(ConfirmedOrders')]
    BY <1>5, <2>6, <2>7, <2>9
  <2>14. item'.avail + Cardinality(PendingOrders') + Cardinality(ConfirmedOrders') = Total
    BY <1>5, <2>6, <2>7, <2>10, <2>11
  <2>15. IsFiniteSet(ConfirmedOrders')  BY <1>5, <2>6
  <2>16. SharedRowsExact'
    BY <2>7, <2>10, <2>11, <2>12, <2>13, <2>14, <2>15 DEF SharedRowsExact
  <2>. QED  BY <1>3, <1>4, <2>5, <2>16 DEF SerialInv, OrdersAgree
<1>. QED  BY <1>1, <1>7, <1>8, <1>9, <1>10 DEF RequestFresh

LEMMA StepSerial ==
    ASSUME SerialInv, OneRequest, [Next]_vars
    PROVE  SerialInv'
<1>1. CASE UNCHANGED <<rows, req>>
  <2>1. \A x : RequestFresh(x)' <=> RequestFresh(x)
    BY <1>1 DEF rows, orderRows, RequestFresh, IsRequest, FreshCheckout, FreshIntent,
                FreshSucceed, FreshRelease, PortionsBack, UsesBack, PendingOrders, UnpaidOf
  <2>2. RequestsFresh'  BY <1>1, <2>1 DEF SerialInv, RequestsFresh
  <2>3. OrdersAgree' /\ SharedRowsExact'
    BY <1>1 DEF rows, orderRows, SerialInv, OrdersAgree, OrderAgrees, SharedRowsExact,
                PendingOrders, UnpaidOf, ConfirmedOrders
  <2>. QED  BY <2>2, <2>3 DEF SerialInv
<1>2. ASSUME NEW r \in Requests, NEW o \in Orders,
             StartCheckout(r, o) \/ StartIntent(r, o) \/ StartSucceed(r, o)
               \/ StartCancel(r, o) \/ StartFail(r, o)
      PROVE  SerialInv'
  BY <1>2, StartFresh
<1>3. ASSUME NEW r \in Requests, StartSweep(r) PROVE SerialInv'  BY <1>3, StartFresh
<1>4. ASSUME NEW r \in Requests,
             CouponUpdate(r) \/ ItemUpdate(r) \/ ItemRead(r) \/ ItemWrite(r)
               \/ CouponRead(r) \/ CouponWrite(r) \/ Commit(r)
      PROVE  SerialInv'
  BY <1>4, SerialCouponUpdate, SerialItemUpdate, SerialItemRead, SerialItemWrite,
     SerialCouponRead, SerialCouponWrite, SerialCommit
<1>5. ASSUME NEW r \in Requests, RollBack(r) PROVE SerialInv'
  BY <1>5, QuietFresh DEF RollBack
<1>6. ASSUME NEW o \in Orders, HoldExpires(o) PROVE SerialInv'  BY <1>1, <1>6 DEF HoldExpires
<1>7. CASE UNCHANGED vars  BY <1>1, <1>7 DEF vars
<1>. QED  BY <1>2, <1>3, <1>4, <1>5, <1>6, <1>7 DEF Next

LEMMA DisjointUnion ==
    ASSUME NEW S, IsFiniteSet(S), NEW T, IsFiniteSet(T), S \cap T = {}
    PROVE  Cardinality(S \cup T) = Cardinality(S) + Cardinality(T)
<1>1. Cardinality(S \cup T) = Cardinality(S) + Cardinality(T) - Cardinality(S \cap T)
  BY FS_Union
<1>2. Cardinality(S) \in Nat /\ Cardinality(T) \in Nat /\ Cardinality(S \cap T) = 0
  BY FS_CardinalityType, FS_EmptySet
<1>. QED  BY <1>1, <1>2

LEMMA SerialExact == SerialInv => CountersExact
<1>. SUFFICES ASSUME SerialInv PROVE CountersExact  OBVIOUS
<1>1. /\ {o \in Orders : benefit[o] = "reserved"} = PendingOrders
      /\ {o \in Orders : benefit[o] = "applied"} = ConfirmedOrders
      /\ Holders = PendingOrders \cup ConfirmedOrders
      /\ PendingOrders \cap ConfirmedOrders = {}
  BY DEF SerialInv, OrdersAgree, OrderAgrees, PendingOrders, UnpaidOf, ConfirmedOrders, Holders
<1>2. /\ IsFiniteSet(PendingOrders) /\ Cardinality(PendingOrders) \in Nat
      /\ IsFiniteSet(ConfirmedOrders) /\ Cardinality(ConfirmedOrders) \in Nat
  BY Counts DEF SerialInv, SharedRowsExact
<1>3. Cardinality({}) = 0  BY FS_EmptySet
<1>4. Cardinality(PendingOrders \cup ConfirmedOrders)
        = Cardinality(PendingOrders) + Cardinality(ConfirmedOrders)
  BY <1>1, <1>2, DisjointUnion
<1>. QED  BY <1>1, <1>2, <1>3, <1>4 DEF SerialInv, SharedRowsExact, CountersExact

\* Transactions that run one after the other, any of them cut off between two
\* statements, keep daily_menu_items and coupons equal to what the rows of the
\* orders add up to, whatever the orders, the quantity and the limit: every
\* difference between them comes from an overlap.
THEOREM SerialCountersStayExact ==
    ASSUME OneRequest PROVE LoadsSpec => []SerialCountersExact
<1>. DEFINE Inv == load = "serial" => SerialInv
<1>1. LoadsInit => Inv  BY InitSerial DEF LoadsInit
<1>2. Inv /\ [LoadsNext]_<<vars, load>> => Inv'
  <2>1. CASE UNCHANGED <<vars, load>>  BY <2>1, StepSerial
  <2>2. CASE LoadsNext  BY <2>2, StepSerial DEF LoadsNext
  <2>. QED  BY <2>1, <2>2
<1>3. Inv => SerialCountersExact  BY SerialExact DEF SerialCountersExact
<1>. QED  BY <1>1, <1>2, <1>3, PTL DEF LoadsSpec

\* An order can be cancelled, and a hold can run out, only before payment
\* (orders/service.py:770): with one transaction at a time no handler takes a paid
\* order back.
THEOREM SerialPaidOrdersStand == ASSUME OneRequest PROVE Spec => []PaidOrderStands
<1>1. SerialInv => PaidOrderStands
  BY DEF SerialInv, OrdersAgree, OrderAgrees, PaidOrderStands
<1>. QED  BY <1>1, InitSerial, StepSerial, PTL DEF Spec
=============================================================================
