--------------------------- MODULE Reconciliation ---------------------------
(***************************************************************************)
(* The provider's transactions and Baytna's payments: the transaction      *)
(* callback, refunds asked of the provider, the reconciliation job and the *)
(* issues that administrators resolve.                                     *)
(*                                                                         *)
(* The provider holds the truth about every transaction and calls back     *)
(* about it as often, as late and in whatever order it likes.  Requests    *)
(* here are one transaction each.  The webhook ledger is written and never *)
(* read by this path, and is left out.                                     *)
(***************************************************************************)
EXTENDS Integers, FiniteSets

CONSTANTS
    Payments,
    OrderOf,            \* order of each payment
    Price,              \* amount_minor of each payment
    Txs,                \* transactions of the provider
    Kind,               \* "payment", "refund" or "void"
    PaymentOf,          \* the payment a transaction is about, Nobody when it is not ours
    Amount,             \* amount_minor of each transaction
    OtherCurrency,      \* transactions in another currency
    OrderRefAtIntent,   \* did the intent's answer carry the provider's order?
    Keys,               \* refund idempotency keys
    Answers,            \* how the provider may answer a refund request
    Nobody

ASSUME TxsAssumption ==
    /\ IsFiniteSet(Txs) /\ Nobody \notin Txs
    /\ PaymentOf \in [Txs -> Payments \cup {Nobody}]
ASSUME AnswersAssumption == Answers \subseteq {"succeeded", "submitted", "accepted", "declined", "lost"}
ASSUME MoneyAssumption == Amount \in [Txs -> Nat] /\ Price \in [Payments -> Nat]

VARIABLES
    order,      \* status of each order; overdue is pending_payment past its hold
    payment,    \* payments.status
    refunded,   \* payments.refunded_minor
    txRef,      \* payments.provider_transaction_reference
    refund,     \* refunds rows by idempotency key
    ledger,     \* payment_provider_transactions: the state last seen, the payment
    issue,      \* payment_reconciliation_issues by transaction and type
    provider,   \* what the provider did with each transaction
    delivered   \* history: transactions whose success was called back

prVars == <<order, payment, refunded, txRef, refund, ledger, issue, provider, delivered>>

Orders == {OrderOf[p] : p \in Payments}
Types == {"unmatched", "amount_mismatch", "currency_mismatch", "status_mismatch", "refund_mismatch"}
Unseen == [state |-> "none", pay |-> Nobody]
NoRefund == [status |-> "none", pay |-> Nobody, amount |-> 0, ref |-> Nobody]

Init ==
    /\ order = [o \in Orders |-> "pending_payment"]
    /\ payment = [p \in Payments |-> "pending"]
    /\ refunded = [p \in Payments |-> 0]
    /\ txRef = [p \in Payments |-> Nobody]
    /\ refund = [k \in Keys |-> NoRefund]
    /\ ledger = [t \in Txs |-> Unseen]
    /\ issue = [t \in Txs |-> [y \in Types |-> "none"]]
    /\ provider = [t \in Txs |-> "none"]
    /\ delivered = {}

-----------------------------------------------------------------------------
(* The provider.                                                           *)

TxsOf(p, kind) == {t \in Txs : PaymentOf[t] = p /\ Kind[t] = kind}
\* Money is added up piastre by piastre.
Piastres(S) == UNION {{t} \X (1..Amount[t]) : t \in S}
Total(S) == Cardinality(Piastres(S))
MoneyBack(p) == {t \in TxsOf(p, "refund") : provider[t] \in {"pending", "succeeded"}}

\* It returns no more than it captured.
Returnable(t) ==
    LET p == PaymentOf[t]
    IN /\ \E c \in TxsOf(p, "payment") : provider[c] = "succeeded"
       /\ Total(MoneyBack(p) \cup {t}) <= Price[p]

\* A customer pays, an operator refunds or voids in the provider's dashboard.
ProviderStarts(t, s) ==
    /\ provider[t] = "none"
    /\ Kind[t] = "refund" => Returnable(t)
    /\ provider' = [provider EXCEPT ![t] = s]
    /\ UNCHANGED <<order, payment, refunded, txRef, refund, ledger, issue, delivered>>

ProviderSettles(t, s) ==
    /\ provider[t] = "pending"
    /\ provider' = [provider EXCEPT ![t] = s]
    /\ UNCHANGED <<order, payment, refunded, txRef, refund, ledger, issue, delivered>>

\* A callback says what the transaction is, or what it was before.
Called(t, s) == provider[t] # "none" /\ s \in {"pending", provider[t]}

-----------------------------------------------------------------------------
(* ingest_paymob_transaction.                                              *)

\* _resolve_payment: a payment echoes its id; a reversal is found by its parent
\* or its order, which the payment has from its intent or its first callback.
Resolved(t) ==
    LET p == PaymentOf[t]
    IN IF ledger[t].pay # Nobody THEN ledger[t].pay
       ELSE IF p = Nobody \/ Kind[t] = "payment" \/ OrderRefAtIntent THEN p
       ELSE IF txRef[p] # Nobody THEN p ELSE Nobody

\* _detect_transaction_issues.
Issues(t, s, status, back) ==
    {y \in Types :
        \/ y = "amount_mismatch" /\ Kind[t] = "payment" /\ Amount[t] # Price[PaymentOf[t]]
        \/ y = "currency_mismatch" /\ t \in OtherCurrency
        \/ y = "status_mismatch" /\ Kind[t] = "payment" /\ status = "succeeded" /\ s # "succeeded"
        \/ y = "refund_mismatch" /\ Kind[t] = "refund" /\ s = "succeeded" /\ back < Amount[t]}

\* _upsert_issue opens an issue and reopens a resolved one.
KeptResolved(i, found) ==     \* seeded fault
    [y \in Types |-> IF y \in found /\ i[y] = "none" THEN "open" ELSE i[y]]
Upserted(i, found) == [y \in Types |-> IF y \in found THEN "open" ELSE i[y]]

Record(t, s, p) == ledger' = [ledger EXCEPT ![t] = [state |-> s, pay |-> p]]
Raise(t, found) == issue' = [issue EXCEPT ![t] = Upserted(@, found)]
Deliver(t, s) == delivered' = IF s = "succeeded" THEN delivered \cup {t} ELSE delivered

IngestUnmatched(t, s) ==
    /\ Called(t, s)
    /\ Resolved(t) = Nobody
    /\ Record(t, s, Nobody)
    /\ Raise(t, {"unmatched"})
    /\ Deliver(t, s)
    /\ UNCHANGED <<order, payment, refunded, txRef, refund, provider>>

\* _apply_payment_success, refused unless the order waits with its hold running.
Confirm(p) ==
    /\ payment' = [payment EXCEPT ![p] = "succeeded"]
    /\ order' = [order EXCEPT ![OrderOf[p]] = "confirmed"]
CannotConfirm(p) == payment[p] # "succeeded" /\ order[OrderOf[p]] # "pending_payment"

\* _apply_payment_failure: a settled payment changes no more.
Waiting == {"pending_payment", "overdue"}
Fail(p, status) ==
    IF payment[p] = "pending"
    THEN /\ payment' = [payment EXCEPT ![p] = status]
         /\ order' = [order EXCEPT ![OrderOf[p]] = IF @ \in Waiting THEN "expired" ELSE @]
    ELSE UNCHANGED <<payment, order>>

\* A payment with an issue is recorded and not applied.
IngestPayment(t, s) ==
    LET p == Resolved(t)
        found == Issues(t, s, payment[p], refunded[p])
    IN /\ Called(t, s)
       /\ Kind[t] = "payment" /\ p # Nobody
       /\ ~(found = {} /\ s = "succeeded" /\ CannotConfirm(p))
       /\ Record(t, s, p)
       /\ txRef' = [txRef EXCEPT ![p] = t]
       /\ Raise(t, found)
       /\ CASE found # {} \/ s = "pending" -> UNCHANGED <<payment, order>>
            [] found = {} /\ s = "failed" -> Fail(p, "failed")
            [] found = {} /\ s = "succeeded" ->
                  IF payment[p] = "succeeded" THEN UNCHANGED <<payment, order>> ELSE Confirm(p)
       /\ Deliver(t, s)
       /\ UNCHANGED <<refunded, refund, provider>>

\* The success of an order that is no longer pending: 409, and the transaction
\* row and the issue are rolled back with the rest.
RefuseLateSuccess(t) ==
    LET p == Resolved(t)
    IN /\ Called(t, "succeeded") /\ provider[t] = "succeeded"
       /\ Kind[t] = "payment" /\ p # Nobody
       /\ Issues(t, "succeeded", payment[p], refunded[p]) = {}
       /\ CannotConfirm(p)
       /\ delivered' = delivered \cup {t}
       /\ UNCHANGED <<order, payment, refunded, txRef, refund, ledger, issue, provider>>

\* _apply_refund_snapshot: the refund of the transaction.  Its other branch looks
\* for a pending refund, and create_refund commits none.  What a callback says of
\* refunded money is the transaction's own amount (tests/test_paymob_payments.py:774)
\* or nothing, so that it never exceeds the new sum.
RefundsOf(p, t) == {k \in Keys : refund[k].pay = p /\ refund[k].ref = t}
ConfirmsAgain(k, s) == s = "succeeded"     \* seeded fault
Confirms(k, s) == s = "succeeded" /\ refund[k].status # "succeeded"
AtMost(n, p) == IF n > Price[p] THEN Price[p] ELSE n

IngestRefund(t, s) ==
    LET p == Resolved(t)
        known == RefundsOf(p, t) # {}
        row == CHOOSE k \in Keys : k \in RefundsOf(p, t)
        back == IF known /\ Confirms(row, s) THEN AtMost(refunded[p] + refund[row].amount, p)
                ELSE refunded[p]
    IN /\ Called(t, s)
       /\ Kind[t] = "refund" /\ p # Nobody
       /\ Record(t, s, p)
       /\ refund' = IF known /\ s # "pending" THEN [refund EXCEPT ![row].status = s] ELSE refund
       /\ refunded' = [refunded EXCEPT ![p] = back]
       /\ Raise(t, Issues(t, s, payment[p], back))
       /\ Deliver(t, s)
       /\ UNCHANGED <<order, payment, txRef, provider>>

\* A void ends a payment that did not succeed, and changes nothing else.
IngestVoid(t, s) ==
    LET p == Resolved(t)
    IN /\ Called(t, s)
       /\ Kind[t] = "void" /\ p # Nobody
       /\ Record(t, s, p)
       /\ Raise(t, Issues(t, s, payment[p], refunded[p]))
       /\ IF s = "succeeded" THEN Fail(p, "cancelled") ELSE UNCHANGED <<payment, order>>
       /\ Deliver(t, s)
       /\ UNCHANGED <<refunded, txRef, refund, provider>>

-----------------------------------------------------------------------------
(* create_refund asks the provider within its own transaction.             *)

\* What the provider made of the request, and what Baytna writes down.
StateOf == [succeeded |-> "succeeded", submitted |-> "pending", accepted |-> "pending",
            lost |-> "succeeded", declined |-> "none"]
StatusOf == [succeeded |-> "succeeded", submitted |-> "failed", accepted |-> "succeeded",
             declined |-> "failed"]

CreateRefund(p, k, t, answer) ==
    /\ order[OrderOf[p]] = "confirmed"
    /\ payment[p] = "succeeded"
    /\ refund[k].status = "none"
    /\ Amount[t] <= Price[p] - refunded[p]
    /\ t \in TxsOf(p, "refund") /\ provider[t] = "none"
    /\ answer # "declined" => provider[txRef[p]] = "succeeded" /\ Returnable(t)
    /\ provider' = [provider EXCEPT ![t] = StateOf[answer]]
    /\ IF answer = "lost"     \* a transport error: everything is rolled back
       THEN UNCHANGED <<refund, refunded>>
       ELSE /\ refund' = [refund EXCEPT ![k] =
                  [status |-> StatusOf[answer], pay |-> p, amount |-> Amount[t],
                   ref |-> IF answer = "declined" THEN Nobody ELSE t]]
            /\ refunded' = [refunded EXCEPT ![p] =
                  IF StatusOf[answer] = "succeeded" THEN @ + Amount[t] ELSE @]
    /\ UNCHANGED <<order, payment, txRef, ledger, issue, delivered>>

-----------------------------------------------------------------------------
\* run: every recorded transaction is compared again, and with it the one a
\* succeeded payment refers to.  The batch (200) holds all transactions here.
Again(t) ==
    LET p == ledger[t].pay
    IN IF p = Nobody THEN {} ELSE Issues(t, ledger[t].state, payment[p], refunded[p])
Reconcile ==
    /\ issue' = [t \in Txs |-> Upserted(issue[t], Again(t))]
    /\ UNCHANGED <<order, payment, refunded, txRef, refund, ledger, provider, delivered>>

ResolveIssue(t, y) ==
    /\ issue[t][y] = "open"
    /\ issue' = [issue EXCEPT ![t][y] = "resolved"]
    /\ UNCHANGED <<order, payment, refunded, txRef, refund, ledger, provider, delivered>>

\* The hold of an order ends, the sweep finds it, a pending payment expires.
EndHold(o) ==
    /\ order[o] = "pending_payment"
    /\ order' = [order EXCEPT ![o] = "overdue"]
    /\ UNCHANGED <<payment, refunded, txRef, refund, ledger, issue, provider, delivered>>
ExpireOrder(o) ==
    /\ order[o] = "overdue"
    /\ order' = [order EXCEPT ![o] = "expired"]
    /\ UNCHANGED <<payment, refunded, txRef, refund, ledger, issue, provider, delivered>>
ExpirePayment(p) ==
    /\ payment[p] = "pending"
    /\ Fail(p, "failed")
    /\ UNCHANGED <<refunded, txRef, refund, ledger, issue, provider, delivered>>

States == {"pending", "succeeded", "failed"}

Next ==
    \/ \E t \in Txs, s \in States : ProviderStarts(t, s) \/ ProviderSettles(t, s)
    \/ \E t \in Txs, s \in States : IngestUnmatched(t, s) \/ IngestPayment(t, s)
                                    \/ IngestRefund(t, s) \/ IngestVoid(t, s)
    \/ \E t \in Txs : RefuseLateSuccess(t)
    \/ \E p \in Payments, k \in Keys, t \in Txs, a \in Answers : CreateRefund(p, k, t, a)
    \/ Reconcile
    \/ \E t \in Txs, y \in Types : ResolveIssue(t, y)
    \/ \E o \in Orders : EndHold(o) \/ ExpireOrder(o)
    \/ \E p \in Payments : ExpirePayment(p)

\* The worker runs the job payments.reconcile every minute.
PrFairness == WF_prVars(Reconcile)

-----------------------------------------------------------------------------
\* However the answers of refund requests and the callbacks about them are
\* repeated, lost or reordered, Baytna never counts more money as returned than
\* the provider returned.
RefundedWasReturned ==
    \A p \in Payments :
        refunded[p] <= Total({t \in TxsOf(p, "refund") : provider[t] = "succeeded"})

\* A discrepancy that lasts is open again and again, however often
\* administrators resolve it (docs/PAYMENT_RECONCILIATION.md:52).
DiscrepancyReopens ==
    \A t \in Txs, y \in Types : <>[](y \in Again(t)) => []<>(issue[t][y] = "open")

\* What the provider told of captured money is recorded, whatever became of the
\* order (docs/PAYMENT_RECONCILIATION.md:4).
CapturedMoneyKnown == \A t \in delivered : ledger[t] # Unseen

\* When every refund was called back, more money returned than Baytna counts
\* shows up as an issue.
ReturnedMoneyKnown ==
    \A p \in Payments :
        LET back == {t \in TxsOf(p, "refund") : provider[t] = "succeeded"}
        IN back \subseteq delivered /\ Total(back) > refunded[p] =>
              \E t \in back, y \in Types : issue[t][y] # "none"

\* Refunds are asked of the transaction that captured the money.
RefundsTheCapture ==
    \A p \in Payments : payment[p] = "succeeded" /\ txRef[p] # Nobody => provider[txRef[p]] = "succeeded"
=============================================================================
