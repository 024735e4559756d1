-------------------------- MODULE HoldLoadsProofs --------------------------
(***************************************************************************)
(* The three loads of MCHoldLoads together, for any requests that overlap  *)
(* and any quantity they compete for.  The invariants of HoldRaceProofs are*)
(* taken at the constants of a load; an instance of the proofs and the     *)
(* instance in MCHoldLoads define the same actions, and the lemmas below   *)
(* say so by expanding both.                                               *)
(***************************************************************************)
EXTENDS HoldRaceProofs

Selling == INSTANCE HoldRaceProofs WITH
    Requests <- Rivals, Handlers <- {"checkout", "intent", "succeed"},
    Total <- Scarce, CouponLimit <- Plenty

Reserving == INSTANCE HoldRaceProofs WITH
    Requests <- Rivals, Handlers <- {"checkout", "intent"},
    Total <- Plenty, CouponLimit <- Scarce

LEMMA PortionsIsSelling ==
    /\ Portions!Init => Selling!Init
    /\ [Portions!Next]_vars => [Selling!Next]_Selling!vars
<1>1. Portions!Init => Selling!Init  BY DEF Portions!Init, Portions!Idle, Selling!Init, Selling!Idle
<1>2. Portions!Next => Selling!Next
  BY DEF
      Portions!Program, Portions!Idle, Portions!UnpaidOf, Portions!Start, Portions!ActiveOf,
      Portions!Alone, Portions!StartCheckout, Portions!StartIntent, Portions!StartSucceed,
      Portions!Cancellable, Portions!StartCancel, Portions!FailureIgnored, Portions!StartFail,
      Portions!StartSweep, Portions!At, Portions!Free, Portions!Step, Portions!CouponOpen,
      Portions!CouponUpdate, Portions!OnSale, Portions!ItemUpdate, Portions!ItemRead,
      Portions!ItemWrite, Portions!CouponRead, Portions!Ended, Portions!CouponWrite,
      Portions!Put, Portions!OrderEnd, Portions!ResvEnd, Portions!BenefitEnd,
      Portions!PaymentEnd, Portions!Commit, Portions!RollBack, Portions!HoldExpires,
      Portions!Next, Portions!vars, Portions!rows, Portions!orderRows, Portions!Cardinality,
      Portions!IsFiniteSet,
      Selling!Program, Selling!Idle, Selling!UnpaidOf, Selling!Start, Selling!ActiveOf,
      Selling!Alone, Selling!StartCheckout, Selling!StartIntent, Selling!StartSucceed,
      Selling!Cancellable, Selling!StartCancel, Selling!FailureIgnored, Selling!StartFail,
      Selling!StartSweep, Selling!At, Selling!Free, Selling!Step, Selling!CouponOpen,
      Selling!CouponUpdate, Selling!OnSale, Selling!ItemUpdate, Selling!ItemRead,
      Selling!ItemWrite, Selling!CouponRead, Selling!Ended, Selling!CouponWrite, Selling!Put,
      Selling!OrderEnd, Selling!ResvEnd, Selling!BenefitEnd, Selling!PaymentEnd,
      Selling!Commit, Selling!RollBack, Selling!HoldExpires, Selling!Next, Selling!vars,
      Selling!rows, Selling!orderRows, Selling!Cardinality, Selling!IsFiniteSet
<1>3. [Portions!Next]_vars => [Selling!Next]_Selling!vars
  BY <1>2 DEF vars, rows, orderRows, Selling!vars, Selling!rows, Selling!orderRows
<1>. QED  BY <1>1, <1>3

LEMMA CouponsIsReserving ==
    /\ Coupons!Init => Reserving!Init
    /\ [Coupons!Next]_vars => [Reserving!Next]_Reserving!vars
<1>1. Coupons!Init => Reserving!Init
  BY DEF Coupons!Init, Coupons!Idle, Reserving!Init, Reserving!Idle
<1>2. Coupons!Next => Reserving!Next
  BY DEF
      Coupons!Program, Coupons!Idle, Coupons!UnpaidOf, Coupons!Start, Coupons!ActiveOf,
      Coupons!Alone, Coupons!StartCheckout, Coupons!StartIntent, Coupons!StartSucceed,
      Coupons!Cancellable, Coupons!StartCancel, Coupons!FailureIgnored, Coupons!StartFail,
      Coupons!StartSweep, Coupons!At, Coupons!Free, Coupons!Step, Coupons!CouponOpen,
      Coupons!CouponUpdate, Coupons!OnSale, Coupons!ItemUpdate, Coupons!ItemRead,
      Coupons!ItemWrite, Coupons!CouponRead, Coupons!Ended, Coupons!CouponWrite, Coupons!Put,
      Coupons!OrderEnd, Coupons!ResvEnd, Coupons!BenefitEnd, Coupons!PaymentEnd,
      Coupons!Commit, Coupons!RollBack, Coupons!HoldExpires, Coupons!Next, Coupons!vars,
      Coupons!rows, Coupons!orderRows, Coupons!Cardinality, Coupons!IsFiniteSet,
      Reserving!Program, Reserving!Idle, Reserving!UnpaidOf, Reserving!Start,
      Reserving!ActiveOf, Reserving!Alone, Reserving!StartCheckout, Reserving!StartIntent,
      Reserving!StartSucceed, Reserving!Cancellable, Reserving!StartCancel,
      Reserving!FailureIgnored, Reserving!StartFail, Reserving!StartSweep, Reserving!At,
      Reserving!Free, Reserving!Step, Reserving!CouponOpen, Reserving!CouponUpdate,
      Reserving!OnSale, Reserving!ItemUpdate, Reserving!ItemRead, Reserving!ItemWrite,
      Reserving!CouponRead, Reserving!Ended, Reserving!CouponWrite, Reserving!Put,
      Reserving!OrderEnd, Reserving!ResvEnd, Reserving!BenefitEnd, Reserving!PaymentEnd,
      Reserving!Commit, Reserving!RollBack, Reserving!HoldExpires, Reserving!Next,
      Reserving!vars, Reserving!rows, Reserving!orderRows, Reserving!Cardinality,
      Reserving!IsFiniteSet
<1>3. [Coupons!Next]_vars => [Reserving!Next]_Reserving!vars
  BY <1>2 DEF vars, rows, orderRows, Reserving!vars, Reserving!rows, Reserving!orderRows
<1>. QED  BY <1>1, <1>3

LEMMA SellingKeeps ==
    /\ Selling!Init => Selling!SaleInv
    /\ Selling!SaleInv /\ [Selling!Next]_Selling!vars => Selling!SaleInv'
    /\ Selling!SaleInv => Portions!NoOversell /\ PaidOrderStands
<1>1. {"checkout", "intent", "succeed"} \subseteq DOMAIN Selling!Program  BY DEF Selling!Program
<1>2. Scarce \in Nat /\ Plenty \in Nat  BY AmountsAssumption
<1>3. Selling!SellingOnly  BY DEF Selling!SellingOnly
<1>4. Selling!Init => Selling!SaleInv  BY <1>1, <1>2, Selling!InitSale
<1>5. Selling!SaleInv /\ [Selling!Next]_Selling!vars => Selling!SaleInv'
  BY <1>1, <1>2, <1>3, Selling!StepSale, Zenon
<1>6. Selling!SaleInv => Selling!NoOversell  BY <1>1, <1>2, Selling!SaleFits
<1>7. Selling!NoOversell => Portions!NoOversell
  BY DEF Selling!NoOversell, Selling!Holders, Selling!Cardinality, Selling!IsFiniteSet,
         Portions!NoOversell, Portions!Holders, Portions!Cardinality, Portions!IsFiniteSet
<1>8. Selling!SaleInv => PaidOrderStands
  BY DEF Selling!SaleInv, Selling!PaidOrderStands, PaidOrderStands
<1>. QED  BY <1>4, <1>5, <1>6, <1>7, <1>8

ReservingInv == Reserving!SaleInv /\ Reserving!CouponInv

LEMMA ReservingKeeps ==
    /\ Reserving!Init => ReservingInv
    /\ ReservingInv /\ [Reserving!Next]_Reserving!vars => ReservingInv'
    /\ ReservingInv => Coupons!CouponNotOverbooked /\ PaidOrderStands
<1>1. {"checkout", "intent"} \subseteq DOMAIN Reserving!Program  BY DEF Reserving!Program
<1>2. Scarce \in Nat /\ Plenty \in Nat  BY AmountsAssumption
<1>3. Reserving!SellingOnly /\ Reserving!CheckoutOnly
  BY DEF Reserving!SellingOnly, Reserving!CheckoutOnly
<1>4. Reserving!Init => ReservingInv
  BY <1>1, <1>2, Reserving!InitSale, Reserving!InitCoupon DEF ReservingInv
<1>5. Reserving!SaleInv /\ [Reserving!Next]_Reserving!vars => Reserving!SaleInv'
  BY <1>1, <1>2, <1>3, Reserving!StepSale, Zenon
<1>6. ReservingInv /\ [Reserving!Next]_Reserving!vars => Reserving!CouponInv'
  BY <1>1, <1>2, <1>3, Reserving!StepCouponLimit, Zenon DEF ReservingInv
<1>7. ReservingInv => Reserving!CouponNotOverbooked
  BY DEF ReservingInv, Reserving!CouponInv, Reserving!UsesAddUp
<1>8. Reserving!CouponNotOverbooked => Coupons!CouponNotOverbooked
  BY DEF Reserving!CouponNotOverbooked, Reserving!Uses, Reserving!Cardinality,
         Reserving!IsFiniteSet, Coupons!CouponNotOverbooked, Coupons!Uses, Coupons!Cardinality,
         Coupons!IsFiniteSet
<1>9. ReservingInv => PaidOrderStands
  BY DEF ReservingInv, Reserving!SaleInv, Reserving!PaidOrderStands, PaidOrderStands
<1>. QED  BY <1>4, <1>5, <1>6, <1>7, <1>8, <1>9 DEF ReservingInv

OverlapInv ==
    /\ load = "portions" => Selling!SaleInv
    /\ load = "coupons" => ReservingInv

LEMMA OverlapInvariant == LoadsSpec => []OverlapInv
<1>1. LoadsInit => OverlapInv
  BY PortionsIsSelling, CouponsIsReserving, SellingKeeps, ReservingKeeps DEF LoadsInit, OverlapInv
<1>2. ASSUME OverlapInv, [LoadsNext]_<<vars, load>> PROVE OverlapInv'
  <2>1. load' = load  BY <1>2 DEF LoadsNext
  <2>2. CASE load = "portions"
    <3>1. [Portions!Next]_vars  BY <1>2, <2>2 DEF LoadsNext
    <3>2. Selling!SaleInv'  BY <1>2, <2>2, <3>1, PortionsIsSelling, SellingKeeps DEF OverlapInv
    <3>. QED  BY <2>1, <2>2, <3>2 DEF OverlapInv
  <2>3. CASE load = "coupons"
    <3>1. [Coupons!Next]_vars  BY <1>2, <2>3 DEF LoadsNext
    <3>2. ReservingInv'  BY <1>2, <2>3, <3>1, CouponsIsReserving, ReservingKeeps DEF OverlapInv
    <3>. QED  BY <2>1, <2>3, <3>2 DEF OverlapInv
  <2>. QED  BY <2>1, <2>2, <2>3 DEF OverlapInv
<1>. QED  BY <1>1, <1>2, PTL DEF LoadsSpec

\* If two customers try to buy the last portion at the same moment only one can
\* succeed (docs/ORDER_DOMAIN.md:49), and pending checkouts cannot overbook a coupon
\* (docs/PRICING_DOMAIN.md:33): any number of requests that overlap, for any number of
\* portions and uses they compete for.
THEOREM LoadsNeverOversell == LoadsSpec => []CheckoutsNeverOversell
<1>1. OverlapInv => CheckoutsNeverOversell
  BY SellingKeeps, ReservingKeeps DEF OverlapInv, CheckoutsNeverOversell
<1>. QED  BY <1>1, OverlapInvariant, PTL

\* An order can be cancelled, and a hold can run out, only before payment
\* (orders/service.py:770): a paid order stays confirmed with its portion under every
\* load, one transaction at a time or checkouts and payments that overlap.
THEOREM LoadsKeepPaidOrders ==
    ASSUME OneRequest PROVE LoadsSpec => []PaidOrderStands
<1>. DEFINE Inv == load = "serial" => SerialInv
            Known == load \in {"serial", "portions", "coupons"}
<1>1. LoadsInit => Inv /\ Known  BY InitSerial DEF LoadsInit
<1>2. Inv /\ Known /\ [LoadsNext]_<<vars, load>> => Inv' /\ Known'
  <2>. SUFFICES ASSUME Inv, Known, [LoadsNext]_<<vars, load>> PROVE Inv' /\ Known'  OBVIOUS
  <2>1. load' = load  BY DEF LoadsNext
  <2>2. load = "serial" => [Next]_vars  BY DEF LoadsNext
  <2>. QED  BY <2>1, <2>2, StepSerial
<1>3. SerialInv => PaidOrderStands
  BY DEF SerialInv, OrdersAgree, OrderAgrees, PaidOrderStands
<1>4. Inv /\ Known /\ OverlapInv => PaidOrderStands
  BY <1>3, SellingKeeps, ReservingKeeps DEF OverlapInv
<1>. QED  BY <1>1, <1>2, <1>4, OverlapInvariant, PTL DEF LoadsSpec
=============================================================================
