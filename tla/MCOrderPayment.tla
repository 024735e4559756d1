-------------------------- MODULE MCOrderPayment --------------------------
(***************************************************************************)
(* One paid order of one portion, and a provider that may decline refunds. *)
(***************************************************************************)
EXTENDS OrderPayment, TLC

CONSTANTS i1, o1, p1, alice, k1, kChef

OneOwner   == (o1 :> alice)
OneItem    == (i1 :> 2)
OneForO1   == (p1 :> o1)
MoneyTotal == (o1 :> 2)
============================================================================
