---------------------------- MODULE MCDelivery ----------------------------
(***************************************************************************)
(* Instances of Delivery: handlers one at a time over two orders and two   *)
(* drivers, and two requests at a time over the rows they share.           *)
(***************************************************************************)
EXTENDS Delivery, TLC

CONSTANTS o1, o2, d1, d2, r1, r2

Symmetry == Permutations(Orders) \cup Permutations(Drivers) \cup Permutations(Requests)
============================================================================
