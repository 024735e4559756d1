---------------------------- MODULE MCHoldRace ----------------------------
(***************************************************************************)
(* Instances of HoldRace: carts that compete for the last portions and the *)
(* last uses of a coupon.  Orders and requests are interchangeable.        *)
(***************************************************************************)
EXTENDS HoldRace, TLC

CONSTANTS o1, o2, o3, r1, r2, r3

Symmetry == Permutations(Orders) \cup Permutations(Requests)
============================================================================
