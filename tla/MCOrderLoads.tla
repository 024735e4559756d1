--------------------------- MODULE MCOrderLoads ---------------------------
(***************************************************************************)
(* Three loads of OrderPayment: two carts that compete for the portions of *)
(* two items the chef may edit; one order with two payments, whose events  *)
(* come in any order, and with refunds; two carts of one customer that     *)
(* compete for the coupon and for the points.  `load' is chosen first and  *)
(* never changes; each load keeps to the part of the state it is about.    *)
(***************************************************************************)
EXTENDS OrderPayment, TLC

CONSTANTS i1, i2, o1, o2, p1, p2, p3, alice, k1, kChef

VARIABLE load

\* Two keys of the same order are interchangeable.
SameOrderKeys == Permutations({p1, p3})

Owners    == (o1 :> alice) @@ (o2 :> alice)
Keys      == (p1 :> o1) @@ (p2 :> o2) @@ (p3 :> o1)
Portions1 == (i1 :> 1) @@ (i2 :> 2)
Prices    == (o1 :> 2) @@ (o2 :> 1)

NoPartialRefund == \A p \in Payments : refund[p][k1] = NoRefund
OnePayment == "none" \in {payStatus[p1], payStatus[p3]} /\ event[<<p2, "payment.failed">>] = "unsent"
NotCancelled == \A p \in Payments : event[<<p, "payment.cancelled">>] = "unsent"
NotDeclined == \A p \in Payments : refund[p][kChef].status # "failed"
NotExpired == \A p \in Payments : payStatus[p] # "expired"
NotQueued == \A o \in Orders : stage[o] # "new"
OnePortion == \A o \in Orders : qty[o][i1] = 0 /\ qty[o][i2] <= 1
Unedited == ~edited[i1] /\ avail[i1] = Total[i1]
NoBenefits == \A o \in Orders : coupon[o] = "none" /\ points[o] = 0

\* Where the question is portions or benefits, o2's payment does not fail, the
\* provider neither cancels nor declines, there are no partial refunds, and the chef
\* answers without a look at the queue.  Where it is portions, the job that expires payments
\* does not run.
Plain == NoPartialRefund /\ OnePayment /\ NotCancelled /\ NotDeclined /\ NotQueued

Stock == load = "stock" => Plain /\ NoBenefits /\ NotExpired
Benefit == load = "benefits" => Plain /\ OnePortion /\ Unedited
Money == load = "money" => /\ orderStatus[o2] = "none"
                           /\ OnePortion /\ Unedited
                           /\ \A o \in Orders : points[o] <= 1

Within == Stock /\ Benefit /\ Money

LoadsInit == Init /\ load \in {"stock", "money", "benefits"}
LoadsNext == Next /\ UNCHANGED load /\ Within'
LoadsSpec == LoadsInit /\ [][LoadsNext]_<<vars, load>>
============================================================================
