--------------------------- MODULE SettlementBooks ---------------------------
(***************************************************************************)
(* The finance books: settlement files of the payment provider compared    *)
(* with the transaction ledger, cost files imported under maker-checker,   *)
(* and the cost entries both of them create.                               *)
(*                                                                         *)
(* reconcile_settlement and apply_cost_import read the books and write     *)
(* them in one transaction without a lock; the cost table has no unique    *)
(* key.  All costs here are payment_processing ones, of one order per      *)
(* transaction.                                                            *)
(***************************************************************************)
EXTENDS Integers, FiniteSets

CONSTANTS
    Txs,            \* provider transactions, each of one order
    Batches,        \* settlement files
    Lines,          \* the transactions of each file
    BadLines,       \* pairs <<b, t>> whose figures are wrong
    Age,            \* created_at of each file
    JobLimit,       \* files a run of the job takes, oldest first
    Imports,        \* cost files, one line each
    ImportTx,       \* the transaction whose order the line is about
    Admins,
    DualControl,    \* vendor_accounting_require_dual_control
    Interleaved     \* do transactions overlap?

VARIABLES
    ledger,     \* payment_provider_transactions, as the callbacks left them
    issue,      \* transactions whose payment has an open reconciliation issue
    batch,      \* provider_settlement_batches
    import,     \* provider_cost_import_batches
    fee,        \* fee cost entries of each line of each settlement
    cost,       \* cost entries of each import
    task        \* the transactions that read and did not commit yet

sbVars == <<ledger, issue, batch, import, fee, cost, task>>

Actors == Admins \cup {"job"}
Done == [kind |-> "none"]

Init ==
    /\ ledger = [t \in Txs |-> "none"]
    /\ issue = {}
    /\ batch = [b \in Batches |-> [status |-> "none", ops |-> "open", matched |-> {}, creator |-> "job"]]
    /\ import = [i \in Imports |->
          [status |-> "none", review |-> "pending", reviewer |-> "job", creator |-> "job"]]
    /\ fee = [b \in Batches |-> [t \in Lines[b] |-> 0]]
    /\ cost = [i \in Imports |-> 0]
    /\ task = [a \in Actors |-> Done]

MayCome == Interleaved \/ \A a \in Actors : task[a] = Done
books == <<fee, cost, task>>

-----------------------------------------------------------------------------
\* Callbacks and refunds, and the issues of payment reconciliation.
Observe(t, s) ==
    /\ ledger[t] # s /\ ledger[t] # "refunded" /\ s # "none"
    /\ ledger' = [ledger EXCEPT ![t] = s]
    /\ UNCHANGED <<issue, batch, import, books>>
SetIssue(t) ==
    /\ issue' = IF t \in issue THEN issue \ {t} ELSE issue \cup {t}
    /\ UNCHANGED <<ledger, batch, import, books>>

-----------------------------------------------------------------------------
(* Settlements.                                                            *)

CreateSettlement(b, a) ==
    /\ batch[b].status = "none"
    /\ batch' = [batch EXCEPT ![b].status = "draft", ![b].creator = a]
    /\ UNCHANGED <<ledger, issue, import, books>>

\* A payment_processing cost of the order from another source.
CountedElsewhere(b, t) ==
    \/ \E c \in Batches \ {b} : t \in Lines[c] /\ fee[c][t] > 0
    \/ \E i \in Imports : ImportTx[i] = t /\ cost[i] > 0

\* The lines that match nothing, or not quite.
Mismatched(b) ==
    {t \in Lines[b] : ledger[t] # "paid" \/ <<b, t>> \in BadLines \/ CountedElsewhere(b, t)}

\* reconcile_pending_settlements takes the oldest pending files.
OnlyDraft(b) == batch[b].status = "draft"     \* seeded fault
Pending(b) == batch[b].status \in {"draft", "blocked"}
AmongOldest(b) == Cardinality({c \in Batches : Pending(c) /\ Age[c] < Age[b]}) < JobLimit

\* What reconcile_settlement reads: the mismatches, and the fees booked before.
ReadSettlement(a, b) ==
    /\ task[a] = Done /\ MayCome
    /\ Pending(b)
    /\ a = "job" => AmongOldest(b)
    /\ task' = [task EXCEPT ![a] =
          [kind |-> "reconcile", batch |-> b, bad |-> Mismatched(b),
           booked |-> {t \in Lines[b] : fee[b][t] > 0}]]
    /\ UNCHANGED <<ledger, issue, batch, import, fee, cost>>

\* No fee is booked unless every line is clean.
BooksMatchedLines(r) == Lines[r.batch] \ (r.bad \cup r.booked)     \* seeded fault
Bookable(r) == IF r.bad = {} THEN Lines[r.batch] \ r.booked ELSE {}

CommitSettlement(a) ==
    LET r == task[a]
    IN /\ r.kind = "reconcile"
       /\ batch' = [batch EXCEPT
             ![r.batch].status = IF r.bad = {} THEN "reconciled" ELSE "blocked",
             ![r.batch].ops = IF r.bad = {} THEN "review" ELSE "open",
             ![r.batch].matched = Lines[r.batch] \ r.bad]
       /\ fee' = [fee EXCEPT ![r.batch] = [t \in Lines[r.batch] |->
             IF t \in Bookable(r) THEN @[t] + 1 ELSE @[t]]]
       /\ task' = [task EXCEPT ![a] = Done]
       /\ UNCHANGED <<ledger, issue, import, cost>>

Independent(creator, a) == DualControl => creator # a

CloseSettlement(b, a) ==
    /\ MayCome
    /\ batch[b].status = "reconciled" /\ batch[b].matched = Lines[b]
    /\ issue \cap Lines[b] = {}
    /\ Independent(batch[b].creator, a)
    /\ batch' = [batch EXCEPT ![b].ops = "closed"]
    /\ UNCHANGED <<ledger, issue, import, books>>

ReopenSettlement(b) ==
    /\ MayCome
    /\ batch[b].ops = "closed"
    /\ batch' = [batch EXCEPT ![b].ops = "reopened"]
    /\ UNCHANGED <<ledger, issue, import, books>>

-----------------------------------------------------------------------------
(* Imports.                                                                *)

CreateImport(i, a) ==
    /\ import[i].status = "none"
    /\ import' = [import EXCEPT ![i].status = "draft", ![i].creator = a]
    /\ UNCHANGED <<ledger, issue, batch, books>>

\* sync_twilio_usage makes a draft of what Twilio bills, like any other.
SyncTwilioUsage(i, a) == CreateImport(i, a)

\* validate_cost_import, again and again until the file is applied; it leaves
\* the review alone.
ValidateImport(i, valid) ==
    /\ MayCome
    /\ import[i].status \in {"draft", "validated", "failed"}
    /\ import' = [import EXCEPT ![i].status = IF valid THEN "validated" ELSE "failed"]
    /\ UNCHANGED <<ledger, issue, batch, books>>

\* assign_import takes an approval or a rejection back.
AssignImport(i, review) ==
    /\ MayCome
    /\ import[i].status \notin {"none", "applied"}
    /\ import' = [import EXCEPT ![i].review = review]
    /\ UNCHANGED <<ledger, issue, batch, books>>

ApproveImport(i, a) ==
    /\ MayCome
    /\ import[i].status = "validated"
    /\ Independent(import[i].creator, a)
    /\ import' = [import EXCEPT ![i].review = "approved", ![i].reviewer = a]
    /\ UNCHANGED <<ledger, issue, batch, books>>

RejectImport(i, a) ==
    /\ MayCome
    /\ import[i].status \notin {"none", "applied"}
    /\ import' = [import EXCEPT ![i].review = "rejected", ![i].reviewer = a]
    /\ UNCHANGED <<ledger, issue, batch, books>>

\* apply_cost_import asks for the approval of an independent reviewer.
NotRejected(i) == import[i].review # "rejected"     \* seeded fault
Approved(i) ==
    DualControl => import[i].review = "approved" /\ import[i].reviewer # import[i].creator

ReadImport(a, i) ==
    /\ task[a] = Done /\ MayCome
    /\ import[i].status = "validated"
    /\ Approved(i)
    /\ task' = [task EXCEPT ![a] = [kind |-> "apply", import |-> i, booked |-> cost[i] > 0]]
    /\ UNCHANGED <<ledger, issue, batch, import, fee, cost>>

CommitImport(a) ==
    LET r == task[a]
    IN /\ r.kind = "apply"
       /\ import' = [import EXCEPT ![r.import].status = "applied"]
       /\ cost' = [cost EXCEPT ![r.import] = IF r.booked THEN @ ELSE @ + 1]
       /\ task' = [task EXCEPT ![a] = Done]
       /\ UNCHANGED <<ledger, issue, batch, fee>>

Next ==
    \/ \E t \in Txs : SetIssue(t) \/ \E s \in {"pending", "paid", "refunded"} : Observe(t, s)
    \/ \E b \in Batches, a \in Admins : CreateSettlement(b, a) \/ CloseSettlement(b, a)
    \/ \E b \in Batches : ReopenSettlement(b)
    \/ \E a \in Actors, b \in Batches : ReadSettlement(a, b)
    \/ \E a \in Actors : CommitSettlement(a) \/ CommitImport(a)
    \/ \E i \in Imports, a \in Admins :
          CreateImport(i, a) \/ SyncTwilioUsage(i, a) \/ ApproveImport(i, a) \/ RejectImport(i, a) \/ ReadImport(a, i)
    \/ \E i \in Imports : \/ \E valid \in BOOLEAN : ValidateImport(i, valid)
                          \/ \E review \in {"pending", "assigned"} : AssignImport(i, review)

\* finance.settlements.reconcile runs every minute and goes through the files it
\* takes one after the other.
SbFairness ==
    /\ \A b \in Batches : SF_sbVars(ReadSettlement("job", b))
    /\ WF_sbVars(CommitSettlement("job"))

-----------------------------------------------------------------------------
\* A settlement has booked the fee of each of its lines once, or none at all,
\* however often the job and administrators reconcile it and whatever other
\* files name the same transactions (docs/SETTLEMENT_RECONCILIATION.md:53).
FeesAllOrNothing ==
    \A b \in Batches : \A t \in Lines[b] :
        fee[b][t] = IF batch[b].status = "reconciled" THEN 1 ELSE 0

\* Costs of a file were approved by someone other than its maker, also when the
\* file was validated, assigned or rejected again in between
\* (docs/VENDOR_ACCOUNTING_OPERATIONS.md:14).
ImportedCostsApproved ==
    \A i \in Imports :
        cost[i] > 0 /\ DualControl => import[i].review = "approved" /\ import[i].reviewer # import[i].creator

\* A settlement whose transactions all reach the ledger is reconciled in the end,
\* whichever came first (docs/SETTLEMENT_RECONCILIATION.md:67).
LateLedgerReconciles ==
    \A b \in Batches :
        <>[](batch[b].status # "none" /\ (Mismatched(b) = {} \/ batch[b].status = "reconciled"))
            => <>(batch[b].status = "reconciled")

\* No order's processing fee is counted twice (docs/SETTLEMENT_RECONCILIATION.md:57).
FeeCountedOnce ==
    \A b \in Batches : \A t \in Lines[b] : fee[b][t] > 0 => ~CountedElsewhere(b, t)
=============================================================================
