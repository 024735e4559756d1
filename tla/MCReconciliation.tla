-------------------------- MODULE MCReconciliation --------------------------
(***************************************************************************)
(* One payment of one order and the provider's transaction for it, whose   *)
(* success may be called back after the order's hold has ended.            *)
(***************************************************************************)
EXTENDS Reconciliation, TLC

CONSTANTS o1, p1, t1, k1

OneOrder == (p1 :> o1)
TwoPounds == (p1 :> 2)
APayment == (t1 :> "payment")
OfP1 == (t1 :> p1)
AllOfIt == (t1 :> 2)

Spec == Init /\ [][Next]_prVars /\ PrFairness
=============================================================================
