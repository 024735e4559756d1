----------------------------- MODULE ZoneBudget -----------------------------
(***************************************************************************)
(* The budget of an expansion zone in one category: allocated, committed   *)
(* and spent money, moved by administrators whose requests read the row,   *)
(* compute the new amounts and commit the columns that changed.            *)
(***************************************************************************)
EXTENDS Integers

CONSTANTS
    Requests,   \* requests that may be open at once
    MaxAmount   \* the largest allocation the run looks at

VARIABLES
    budget,     \* expansion_zone_budgets: allocated, committed, spent
    bought,     \* history: the purchases that were accepted, added up
    movement    \* what each request has read and will write

zbVars == <<budget, bought, movement>>

Idle == [on |-> FALSE]
Amounts == 1..MaxAmount

Init ==
    /\ budget = [allocated |-> 0, committed |-> 0, spent |-> 0]
    /\ bought = 0
    /\ movement = [q \in Requests |-> Idle]

Moves(q, new, amount) ==
    /\ movement[q] = Idle
    /\ movement' = [movement EXCEPT ![q] = [on |-> TRUE, old |-> budget, new |-> new, bought |-> amount]]
    /\ UNCHANGED <<budget, bought>>

UpsertBudget(q, amount) ==
    /\ amount >= budget.committed + budget.spent
    /\ Moves(q, [budget EXCEPT !.allocated = amount], 0)

CommitMoney(q, amount) ==
    /\ budget.committed + budget.spent + amount <= budget.allocated
    /\ Moves(q, [budget EXCEPT !.committed = @ + amount], 0)

ReleaseMoney(q, amount) ==
    /\ amount <= budget.committed
    /\ Moves(q, [budget EXCEPT !.committed = @ - amount], 0)

\* What a purchase takes from the commitment comes off it.
FromCommitment(amount) == IF budget.committed < amount THEN budget.committed ELSE amount
OnlyUncommitted(amount) == amount - FromCommitment(amount)      \* seeded fault
Bought(amount) == amount

SpendMoney(q, amount) ==
    /\ budget.spent + amount <= budget.allocated
    /\ Moves(q, [budget EXCEPT !.committed = @ - FromCommitment(amount), !.spent = @ + Bought(amount)], amount)

Written(m) == [f \in DOMAIN budget |-> IF m.new[f] = m.old[f] THEN budget[f] ELSE m.new[f]]
CheckConstraint(b) == b.committed + b.spent <= b.allocated

\* A row that breaks the constraint rolls the request back.
Commit(q) ==
    LET m == movement[q]
        fits == CheckConstraint(Written(m))
    IN /\ m.on
       /\ budget' = IF fits THEN Written(m) ELSE budget
       /\ bought' = IF fits THEN bought + m.bought ELSE bought
       /\ movement' = [movement EXCEPT ![q] = Idle]

Next ==
    \E q \in Requests :
        \/ Commit(q)
        \/ \E amount \in Amounts :
              UpsertBudget(q, amount) \/ CommitMoney(q, amount) \/ ReleaseMoney(q, amount) \/ SpendMoney(q, amount)

-----------------------------------------------------------------------------
\* The budget knows of every purchase, between two requests (docs/EXPANSION_BUDGETS.md:33-37).
EveryPurchaseCounted == (\A q \in Requests : ~movement[q].on) => budget.spent = bought
=============================================================================
