--------------------------- MODULE OrderContract ---------------------------
(***************************************************************************)
(* What a customer is promised of an order, without the rows behind it:    *)
(* checkout keeps the portions ordered until a moment that is named then;  *)
(* nobody else ends the order before that moment, unless the customer      *)
(* gives it up or a payment fails; one payment buys it; and from then on   *)
(* only the chef's answer ends it, the money going back in parts or as a   *)
(* whole.  OrderPayment implements this contract.                          *)
(***************************************************************************)
EXTENDS Integers

CONSTANTS
    Items, Orders, Payments,
    Price,          \* of each order
    MostPortions,   \* of one item in an order
    HoldTTL,        \* how long an order is kept unpaid
    Never           \* no moment

VARIABLES
    now,
    state,      \* "nothing", "held", "paid", "accepted", or how the order ended
    until,      \* the moment until which a held order is kept
    portions,   \* what is kept for the order, of each item
    charges,    \* the payments that were taken for it
    returned    \* the money returned of each payment

ocVars == <<now, state, until, portions, charges, returned>>

Nothing == [i \in Items |-> 0]

Init ==
    /\ now = 0
    /\ state = [o \in Orders |-> "nothing"]
    /\ until = [o \in Orders |-> Never]
    /\ portions = [o \in Orders |-> Nothing]
    /\ charges = [o \in Orders |-> {}]
    /\ returned = [p \in Payments |-> 0]

PassTime ==
    /\ now' = now + 1
    /\ UNCHANGED <<state, until, portions, charges, returned>>

Place(o) ==
    /\ state[o] = "nothing"
    /\ state' = [state EXCEPT ![o] = "held"]
    /\ until' = [until EXCEPT ![o] = now + HoldTTL]
    /\ \E q \in [Items -> 0..MostPortions] \ {Nothing} : portions' = [portions EXCEPT ![o] = q]
    /\ UNCHANGED <<now, charges, returned>>

\* In time, and once.
Pay(o) ==
    /\ state[o] = "held" /\ now < until[o]
    /\ state' = [state EXCEPT ![o] = "paid"]
    /\ until' = [until EXCEPT ![o] = Never]
    /\ \E p \in Payments : charges' = [charges EXCEPT ![o] = {p}]
    /\ UNCHANGED <<now, portions, returned>>

\* The orders of S end, and what was kept for them is free again.
End(S, how) ==
    /\ state' = [o \in Orders |-> IF o \in S THEN how ELSE state[o]]
    /\ until' = [o \in Orders |-> IF o \in S THEN Never ELSE until[o]]
    /\ portions' = [o \in Orders |-> IF o \in S THEN Nothing ELSE portions[o]]
    /\ UNCHANGED <<now, charges>>

\* The customer gives the order up, or a payment fails.
Withdraw(o) ==
    /\ state[o] = "held"
    /\ End({o}, "withdrawn") /\ UNCHANGED returned

\* Nobody paid in time.
Lapse ==
    \E S \in SUBSET {o \in Orders : state[o] = "held" /\ until[o] <= now} :
        S # {} /\ End(S, "lapsed") /\ UNCHANGED returned

\* Money of a paid order goes back.
Return(o) ==
    /\ state[o] = "paid"
    /\ \E p \in charges[o] : \E n \in 1..(Price[o] - returned[p]) :
          returned' = [returned EXCEPT ![p] = @ + n]
    /\ UNCHANGED <<now, state, until, portions, charges>>

Accept(o) ==
    /\ state[o] = "paid"
    /\ state' = [state EXCEPT ![o] = "accepted"]
    /\ UNCHANGED <<now, until, portions, charges, returned>>

\* All that was not returned goes back, or nothing if the provider declines.
Reject(o) ==
    /\ state[o] = "paid"
    /\ End({o}, "rejected")
    /\ \E p \in charges[o] : returned' \in {returned, [returned EXCEPT ![p] = Price[o]]}

Next ==
    \/ PassTime \/ Lapse
    \/ \E o \in Orders :
          Place(o) \/ Pay(o) \/ Withdraw(o) \/ Return(o) \/ Accept(o) \/ Reject(o)

Spec == Init /\ [][Next]_ocVars
=============================================================================
