---------------------------- MODULE MCHoldLoads ----------------------------
(***************************************************************************)
(* The loads under which HoldRace keeps what the documents promise: every  *)
(* handler, one transaction at a time (the constants of the .cfg);         *)
(* overlapping checkouts, intents and payments that compete for portions;  *)
(* overlapping checkouts and intents that compete for the uses of a        *)
(* coupon.  `load' is chosen first and never changes.                      *)
(***************************************************************************)
EXTENDS HoldRace

CONSTANTS
    o1, o2, o3, r1, r2, r3,
    Rivals,             \* the requests that overlap
    Scarce, Plenty      \* what they compete for, and what there is enough of

ASSUME AmountsAssumption == Scarce \in Nat /\ Plenty \in Nat

VARIABLE load

Portions == INSTANCE HoldRace WITH
    Requests <- Rivals, Handlers <- {"checkout", "intent", "succeed"},
    Total <- Scarce, CouponLimit <- Plenty

Coupons == INSTANCE HoldRace WITH
    Requests <- Rivals, Handlers <- {"checkout", "intent"},
    Total <- Plenty, CouponLimit <- Scarce

LoadsInit ==
    \/ load = "serial" /\ Init
    \/ load = "portions" /\ Portions!Init
    \/ load = "coupons" /\ Coupons!Init

LoadsNext ==
    \/ load = "serial" /\ Next /\ UNCHANGED load
    \/ load = "portions" /\ Portions!Next /\ UNCHANGED load
    \/ load = "coupons" /\ Coupons!Next /\ UNCHANGED load

LoadsSpec == LoadsInit /\ [][LoadsNext]_<<vars, load>>

\* Transactions that run one after the other, any of them cut off between two
\* statements, keep the item row and the coupon row equal to what the rows of the
\* orders add up to, and sold_out equal to an empty quantity.
SerialCountersExact == load = "serial" => CountersExact

\* Overlapping checkouts and payments never sell a portion twice, and overlapping
\* checkouts never overbook a coupon: the guarded UPDATEs of reserve_inventory and
\* reserve_for_order are enough among them (docs/ORDER_DOMAIN.md:45-49,
\* docs/PRICING_DOMAIN.md:33).
CheckoutsNeverOversell ==
    /\ load = "portions" => Portions!NoOversell
    /\ load = "coupons" => Coupons!CouponNotOverbooked
============================================================================
