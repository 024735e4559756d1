-------------------------- MODULE ProvidersProofs --------------------------
(***************************************************************************)
(* What Baytna keeps about money and messages that others hold, for any    *)
(* files, any number of administrators, workers, messages, payments and    *)
(* refunds: settled fees are booked once, purchases and refunds are        *)
(* counted, and what arrived is not sent again.                            *)
(***************************************************************************)
EXTENDS MCProviders, FiniteSetTheorems, TLAPS

-----------------------------------------------------------------------------
(* Settlements and imports.                                                *)

FileTxs == UNION {Lines[b] : b \in Batches}
BatchRow == [status : {"none", "draft", "blocked", "reconciled"},
             ops : {"open", "review", "closed", "reopened"},
             matched : SUBSET FileTxs, creator : Settlements!Actors]
ImportRow == [status : {"none", "draft", "validated", "failed", "applied"},
              review : {"pending", "assigned", "approved", "rejected"},
              reviewer : Settlements!Actors, creator : Settlements!Actors]

\* A transaction that has read the books is the only one, and what it read stands.
Reconciles(r, b) ==
    /\ r = [kind |-> "reconcile", batch |-> b, bad |-> r.bad, booked |-> {}]
    /\ Settlements!Pending(b)
Applies(r, i) ==
    /\ r = [kind |-> "apply", import |-> i, booked |-> FALSE]
    /\ import[i].status = "validated" /\ Settlements!Approved(i)

TasksFit ==
    /\ task = [a \in Settlements!Actors |-> task[a]]
    /\ \A a \in Settlements!Actors :
          \/ task[a] = Settlements!Done
          \/ \E b \in Batches : Reconciles(task[a], b)
          \/ \E i \in Imports : Applies(task[a], i)
    /\ \A a, c \in Settlements!Actors :
          task[a] # Settlements!Done /\ task[c] # Settlements!Done => a = c

Booked(b) == [t \in Lines[b] |-> IF batch[b].status = "reconciled" THEN 1 ELSE 0]

BooksInv ==
    /\ batch \in [Batches -> BatchRow] /\ import \in [Imports -> ImportRow]
    /\ fee \in [Batches -> UNION {[Lines[b] -> {0, 1}] : b \in Batches}]
    /\ \A b \in Batches : fee[b] = Booked(b)
    /\ cost \in [Imports -> {0, 1}]
    /\ TasksFit
    /\ \A i \in Imports : cost[i] = 1 => import[i].status = "applied" /\ Settlements!Approved(i)

LEMMA InitBooks == Settlements!Init => BooksInv
<1>. SUFFICES ASSUME Settlements!Init PROVE BooksInv  OBVIOUS
<1>1. \A b \in Batches : batch[b] = [status |-> "none", ops |-> "open", matched |-> {}, creator |-> "job"]
  BY DEF Settlements!Init
<1>2. batch \in [Batches -> BatchRow] /\ import \in [Imports -> ImportRow]
  BY DEF Settlements!Init, BatchRow, ImportRow, Settlements!Actors
<1>3. \A b \in Batches : fee[b] = Booked(b) /\ Booked(b) \in [Lines[b] -> {0, 1}]
  BY <1>1 DEF Settlements!Init, Booked
<1>4. fee \in [Batches -> UNION {[Lines[b] -> {0, 1}] : b \in Batches}]
  BY <1>3 DEF Settlements!Init
<1>5. TasksFit  BY DEF Settlements!Init, TasksFit, Settlements!Done
<1>. QED  BY <1>2, <1>3, <1>4, <1>5 DEF Settlements!Init, BooksInv

LEMMA BooksAlone ==
    ASSUME BooksInv, Settlements!MayCome, NEW a \in Settlements!Actors
    PROVE  task[a] = Settlements!Done
BY DEF Settlements!MayCome

\* One batch is edited: it is made, or its status stays.
LEMMA BatchEdited ==
    ASSUME BooksInv, UNCHANGED <<import, fee, cost, task>>, NEW b \in Batches,
           batch' \in [Batches -> BatchRow], \A c \in Batches : c # b => batch'[c] = batch[c],
           \/ batch'[b].status = batch[b].status
           \/ batch[b].status = "none" /\ batch'[b].status = "draft"
    PROVE  BooksInv'
<1>1. \A a \in Settlements!Actors : \A c \in Batches :
         Reconciles(task[a], c) => Reconciles(task[a], c)'
  BY DEF Reconciles, Settlements!Pending
<1>2. \A a \in Settlements!Actors : \A i \in Imports :
         Applies(task[a], i) => Applies(task[a], i)'
  BY DEF Applies, Settlements!Approved
<1>3. TasksFit'  BY <1>1, <1>2 DEF BooksInv, TasksFit
<1>4. \A c \in Batches : (batch'[c].status = "reconciled") = (batch[c].status = "reconciled")
  OBVIOUS
<1>5. \A c \in Batches : fee'[c] = Booked(c)'
  BY <1>4 DEF BooksInv, Booked
<1>. QED  BY <1>3, <1>5 DEF BooksInv, Settlements!Approved

\* One import that is not applied is edited, when nobody is about to apply it.
LEMMA ImportEdited ==
    ASSUME BooksInv, UNCHANGED <<batch, fee, cost, task>>, NEW i \in Imports,
           import' \in [Imports -> ImportRow], \A j \in Imports : j # i => import'[j] = import[j],
           import[i].status # "applied", Settlements!MayCome \/ import[i].status = "none"
    PROVE  BooksInv'
<1>1. \A a \in Settlements!Actors : \A c \in Batches :
         Reconciles(task[a], c) => Reconciles(task[a], c)'
  BY DEF Reconciles, Settlements!Pending
<1>2. \A a \in Settlements!Actors : \A j \in Imports :
         task[a] # Settlements!Done /\ Applies(task[a], j) => Applies(task[a], j)'
  BY BooksAlone DEF Applies, Settlements!Approved
<1>3. TasksFit'  BY <1>1, <1>2 DEF BooksInv, TasksFit
<1>4. \A c \in Batches : fee'[c] = Booked(c)'  BY DEF BooksInv, Booked
<1>5. \A j \in Imports : cost[j] = 1 => j # i  BY DEF BooksInv
<1>. QED  BY <1>3, <1>4, <1>5 DEF BooksInv, Settlements!Approved

LEMMA StepBooks == BooksInv /\ [Settlements!Next]_settlementVars => BooksInv'
<1>. SUFFICES ASSUME BooksInv, [Settlements!Next]_settlementVars PROVE BooksInv'  OBVIOUS
<1>1. CASE UNCHANGED <<batch, import, fee, cost, task>>
  BY <1>1 DEF BooksInv, TasksFit, Reconciles, Applies, Booked,
              Settlements!Pending, Settlements!Approved
<1>2. ASSUME NEW b \in Batches,
             \/ \E a \in FinanceAdmins : Settlements!CreateSettlement(b, a) \/ Settlements!CloseSettlement(b, a)
             \/ Settlements!ReopenSettlement(b)
      PROVE  BooksInv'
  <2>1. UNCHANGED <<import, fee, cost, task>>
    BY <1>2 DEF Settlements!CreateSettlement, Settlements!CloseSettlement, Settlements!ReopenSettlement,
                Settlements!books
  <2>2. ASSUME NEW a \in FinanceAdmins, Settlements!CreateSettlement(b, a) PROVE BooksInv'
    <3>1. /\ batch' \in [Batches -> BatchRow] /\ \A c \in Batches : c # b => batch'[c] = batch[c]
          /\ batch[b].status = "none" /\ batch'[b].status = "draft"
      BY <2>2 DEF Settlements!CreateSettlement, BooksInv, BatchRow, Settlements!Actors
    <3>. QED  BY <2>1, <3>1, BatchEdited
  <2>3. CASE Settlements!ReopenSettlement(b) \/ \E a \in FinanceAdmins : Settlements!CloseSettlement(b, a)
    <3>1. PICK o \in {"closed", "reopened"} : batch' = [batch EXCEPT ![b].ops = o]
      BY <2>3 DEF Settlements!CloseSettlement, Settlements!ReopenSettlement
    <3>2. /\ batch' \in [Batches -> BatchRow] /\ \A c \in Batches : c # b => batch'[c] = batch[c]
          /\ batch'[b].status = batch[b].status
      BY <3>1 DEF BooksInv, BatchRow
    <3>. QED  BY <2>1, <3>2, BatchEdited
  <2>. QED  BY <1>2, <2>2, <2>3
<1>4. ASSUME NEW a \in Settlements!Actors, NEW b \in Batches, Settlements!ReadSettlement(a, b)
      PROVE  BooksInv'
  <2>1. PICK bad : bad = Settlements!Mismatched(b)  OBVIOUS
  <2>. DEFINE r == [kind |-> "reconcile", batch |-> b, bad |-> bad, booked |-> {}]
  <2>2. \A t \in Lines[b] : ~(fee[b][t] > 0)
    <3>1. batch[b].status # "reconciled"
      BY <1>4 DEF Settlements!ReadSettlement, Settlements!Pending
    <3>2. \A t \in Lines[b] : fee[b][t] = 0  BY <3>1 DEF BooksInv, Booked
    <3>. QED  BY <3>2
  <2>3. {t \in Lines[b] : fee[b][t] > 0} = {}  BY <2>2
  <2>4. /\ task' = [task EXCEPT ![a] = r] /\ Settlements!Pending(b)
        /\ UNCHANGED <<batch, import, fee, cost>>
        /\ \A c \in Settlements!Actors : task[c] = Settlements!Done
    BY <1>4, <2>1, <2>3 DEF Settlements!ReadSettlement, Settlements!MayCome
  <2>5. Reconciles(r, b)'  BY <2>4 DEF Reconciles, Settlements!Pending
  <2>6. task'[a] = r /\ \A c \in Settlements!Actors : c # a => task'[c] = Settlements!Done
    BY <2>4 DEF BooksInv, TasksFit
  <2>. HIDE DEF r
  <2>7. Reconciles(task[a], b)'  BY <2>5, <2>6
  <2>8. task' = [c \in Settlements!Actors |-> task'[c]]  BY <2>4 DEF BooksInv, TasksFit
  <2>9. TasksFit'  BY <2>6, <2>7, <2>8 DEF TasksFit
  <2>. QED  BY <2>4, <2>9 DEF BooksInv, Booked, Settlements!Approved
<1>5. ASSUME NEW a \in Settlements!Actors, Settlements!CommitSettlement(a) PROVE BooksInv'
  <2>1. PICK r : r = task[a]  OBVIOUS
  <2>2. r.kind = "reconcile"  BY <1>5, <2>1 DEF Settlements!CommitSettlement
  <2>3. r # Settlements!Done /\ \A i \in Imports : ~Applies(r, i)
    BY <2>2 DEF Settlements!Done, Applies
  <2>4. PICK b \in Batches : Reconciles(r, b)
    BY <2>1, <2>3 DEF BooksInv, TasksFit
  <2>. DEFINE clean == r.bad = {}
              s == IF clean THEN "reconciled" ELSE "blocked"
              o == IF clean THEN "review" ELSE "open"
              fees == [t \in Lines[b] |-> IF clean THEN fee[b][t] + 1 ELSE fee[b][t]]
  <2>5. r.batch = b /\ r.booked = {}  BY <2>4 DEF Reconciles
  <2>6. Settlements!Bookable(r) = IF clean THEN Lines[b] ELSE {}
    BY <2>5 DEF Settlements!Bookable
  <2>7. /\ batch' = [batch EXCEPT ![b].status = s, ![b].ops = o, ![b].matched = Lines[b] \ r.bad]
        /\ fee' = [fee EXCEPT ![b] = [t \in Lines[b] |->
              IF t \in Settlements!Bookable(r) THEN fee[b][t] + 1 ELSE fee[b][t]]]
        /\ task' = [task EXCEPT ![a] = Settlements!Done] /\ UNCHANGED <<import, cost>>
    BY <1>5, <2>1, <2>5 DEF Settlements!CommitSettlement, BooksInv
  <2>8. fee' = [fee EXCEPT ![b] = fees]
    <3>1. [t \in Lines[b] |-> IF t \in Settlements!Bookable(r) THEN fee[b][t] + 1 ELSE fee[b][t]] = fees
      BY <2>6
    <3>. QED  BY <2>7, <3>1
  <2>9. PICK kept : kept = Lines[b] \ r.bad  OBVIOUS
  <2>10. kept \in SUBSET FileTxs  BY <2>9 DEF FileTxs
  <2>11. s \in {"reconciled", "blocked"} /\ o \in {"review", "open"} /\ (s = "reconciled" <=> clean)
    OBVIOUS
  <2>12. \A t \in Lines[b] : fee[b][t] = 0
    BY <2>4 DEF Reconciles, Settlements!Pending, BooksInv, Booked
  <2>13. fees = [t \in Lines[b] |-> IF s = "reconciled" THEN 1 ELSE 0]
    BY <2>11, <2>12
  <2>. HIDE DEF fees, clean, s, o
  <2>14. /\ batch' \in [Batches -> BatchRow] /\ batch'[b].status = s
         /\ \A c \in Batches : c # b => batch'[c] = batch[c]
    <3>1. batch' = [batch EXCEPT ![b].status = s, ![b].ops = o, ![b].matched = kept]
      BY <2>7, <2>9
    <3>2. s \in {"none", "draft", "blocked", "reconciled"} /\ o \in {"open", "review", "closed", "reopened"}
      BY <2>11
    <3>3. PICK row \in BatchRow : row = batch[b]  BY DEF BooksInv
    <3>. DEFINE new == [row EXCEPT !.status = s, !.ops = o, !.matched = kept]
    <3>4. new \in BatchRow  BY <2>10, <3>2 DEF BatchRow
    <3>5. new.status = s  BY DEF BatchRow
    <3>6. batch' = [batch EXCEPT ![b] = new]  BY <3>1, <3>3
    <3>. HIDE DEF new
    <3>. QED  BY <3>4, <3>5, <3>6 DEF BooksInv
  <2>15. DOMAIN fee' = Batches /\ fee'[b] = fees /\ \A c \in Batches : c # b => fee'[c] = fee[c]
    BY <2>8 DEF BooksInv
  <2>16. \A c \in Batches : fee'[c] = Booked(c)'
    <3>1. Booked(b)' = fees  BY <2>13, <2>14 DEF Booked
    <3>2. \A c \in Batches : c # b => Booked(c)' = Booked(c)  BY <2>14 DEF Booked
    <3>. QED  BY <2>15, <3>1, <3>2 DEF BooksInv
  <2>17. fees \in [Lines[b] -> {0, 1}]  BY <2>13
  <2>18. fee' \in [Batches -> UNION {[Lines[c] -> {0, 1}] : c \in Batches}]
    BY <2>8, <2>17 DEF BooksInv
  <2>19. TasksFit'
    <3>1. \A c \in Settlements!Actors : c # a => task[c] = Settlements!Done
      BY <2>1, <2>3 DEF BooksInv, TasksFit
    <3>2. \A c \in Settlements!Actors : task'[c] = Settlements!Done
      BY <2>7, <3>1 DEF BooksInv, TasksFit
    <3>3. task' = [c \in Settlements!Actors |-> task'[c]]  BY <2>7 DEF BooksInv, TasksFit
    <3>. QED  BY <3>2, <3>3 DEF TasksFit
  <2>. QED  BY <2>7, <2>14, <2>16, <2>18, <2>19 DEF BooksInv, Settlements!Approved
<1>6. ASSUME NEW i \in Imports, NEW a \in FinanceAdmins,
             \/ Settlements!CreateImport(i, a) \/ Settlements!SyncTwilioUsage(i, a)
             \/ Settlements!ApproveImport(i, a) \/ Settlements!RejectImport(i, a)
      PROVE  BooksInv'
  <2>1. /\ UNCHANGED <<batch, fee, cost, task>> /\ import[i].status # "applied"
        /\ Settlements!MayCome \/ import[i].status = "none"
    BY <1>6 DEF Settlements!CreateImport, Settlements!SyncTwilioUsage, Settlements!ApproveImport,
                Settlements!RejectImport, Settlements!books
  <2>2. import' \in [Imports -> ImportRow] /\ \A j \in Imports : j # i => import'[j] = import[j]
    <3>1. a \in Settlements!Actors  BY DEF Settlements!Actors
    <3>2. CASE Settlements!CreateImport(i, a) \/ Settlements!SyncTwilioUsage(i, a)
      <4>1. import' = [import EXCEPT ![i].status = "draft", ![i].creator = a]
        BY <3>2 DEF Settlements!CreateImport, Settlements!SyncTwilioUsage
      <4>. QED  BY <3>1, <4>1 DEF BooksInv, ImportRow
    <3>3. CASE Settlements!ApproveImport(i, a) \/ Settlements!RejectImport(i, a)
      <4>1. PICK v \in {"approved", "rejected"} :
               import' = [import EXCEPT ![i].review = v, ![i].reviewer = a]
        BY <3>3 DEF Settlements!ApproveImport, Settlements!RejectImport
      <4>. QED  BY <3>1, <4>1 DEF BooksInv, ImportRow
    <3>. QED  BY <1>6, <3>2, <3>3
  <2>. QED  BY <2>1, <2>2, ImportEdited
<1>7. ASSUME NEW i \in Imports,
             \/ \E valid \in BOOLEAN : Settlements!ValidateImport(i, valid)
             \/ \E v \in {"pending", "assigned"} : Settlements!AssignImport(i, v)
      PROVE  BooksInv'
  <2>1. /\ UNCHANGED <<batch, fee, cost, task>> /\ import[i].status # "applied"
        /\ Settlements!MayCome
    BY <1>7 DEF Settlements!ValidateImport, Settlements!AssignImport, Settlements!books
  <2>2. import' \in [Imports -> ImportRow] /\ \A j \in Imports : j # i => import'[j] = import[j]
    <3>1. CASE \E valid \in BOOLEAN : Settlements!ValidateImport(i, valid)
      <4>1. PICK s \in {"validated", "failed"} : import' = [import EXCEPT ![i].status = s]
        BY <3>1 DEF Settlements!ValidateImport
      <4>. QED  BY <4>1 DEF BooksInv, ImportRow
    <3>2. CASE \E v \in {"pending", "assigned"} : Settlements!AssignImport(i, v)
      <4>1. PICK v \in {"pending", "assigned"} : import' = [import EXCEPT ![i].review = v]
        BY <3>2 DEF Settlements!AssignImport
      <4>. QED  BY <4>1 DEF BooksInv, ImportRow
    <3>. QED  BY <1>7, <3>1, <3>2
  <2>. QED  BY <2>1, <2>2, ImportEdited
<1>8. ASSUME NEW a \in Settlements!Actors, NEW i \in Imports, Settlements!ReadImport(a, i)
      PROVE  BooksInv'
  <2>. DEFINE r == [kind |-> "apply", import |-> i, booked |-> FALSE]
  <2>1. (cost[i] > 0) = FALSE
    <3>1. import[i].status # "applied"  BY <1>8 DEF Settlements!ReadImport
    <3>2. cost[i] = 0  BY <3>1 DEF BooksInv
    <3>. QED  BY <3>2
  <2>2. /\ task' = [task EXCEPT ![a] = r] /\ import[i].status = "validated" /\ Settlements!Approved(i)
        /\ UNCHANGED <<batch, import, fee, cost>>
        /\ \A c \in Settlements!Actors : task[c] = Settlements!Done
    BY <1>8, <2>1 DEF Settlements!ReadImport, Settlements!MayCome
  <2>3. Applies(r, i)'  BY <2>2 DEF Applies, Settlements!Approved
  <2>4. task'[a] = r /\ \A c \in Settlements!Actors : c # a => task'[c] = Settlements!Done
    BY <2>2 DEF BooksInv, TasksFit
  <2>. HIDE DEF r
  <2>5. Applies(task[a], i)'  BY <2>3, <2>4
  <2>6. task' = [c \in Settlements!Actors |-> task'[c]]  BY <2>2 DEF BooksInv, TasksFit
  <2>7. TasksFit'  BY <2>4, <2>5, <2>6 DEF TasksFit
  <2>. QED  BY <2>2, <2>7 DEF BooksInv, Booked, Settlements!Approved
<1>9. ASSUME NEW a \in Settlements!Actors, Settlements!CommitImport(a) PROVE BooksInv'
  <2>1. PICK r : r = task[a]  OBVIOUS
  <2>2. r.kind = "apply"  BY <1>9, <2>1 DEF Settlements!CommitImport
  <2>3. r # Settlements!Done /\ \A b \in Batches : ~Reconciles(r, b)
    BY <2>2 DEF Settlements!Done, Reconciles
  <2>4. PICK i \in Imports : Applies(r, i)
    BY <2>1, <2>3 DEF BooksInv, TasksFit
  <2>5. r.import = i /\ r.booked = FALSE  BY <2>4 DEF Applies
  <2>6. cost[i] = 0 /\ Settlements!Approved(i)  BY <2>4 DEF BooksInv, Applies
  <2>7. cost' = [cost EXCEPT ![i] = IF r.booked THEN @ ELSE @ + 1]
    BY <1>9, <2>1, <2>5 DEF Settlements!CommitImport
  <2>8. cost' \in [Imports -> {0, 1}] /\ \A j \in Imports : j # i => cost'[j] = cost[j]
    BY <2>5, <2>6, <2>7 DEF BooksInv
  <2>9. /\ import' = [import EXCEPT ![i].status = "applied"]
         /\ task' = [task EXCEPT ![a] = Settlements!Done] /\ UNCHANGED <<batch, fee>>
    BY <1>9, <2>1, <2>5 DEF Settlements!CommitImport
  <2>10. /\ import' \in [Imports -> ImportRow] /\ import'[i].status = "applied"
         /\ import'[i].review = import[i].review /\ import'[i].reviewer = import[i].reviewer
         /\ import'[i].creator = import[i].creator
         /\ \A j \in Imports : j # i => import'[j] = import[j]
    BY <2>9 DEF BooksInv, ImportRow
  <2>11. Settlements!Approved(i)'  BY <2>6, <2>10 DEF Settlements!Approved
  <2>12. \A j \in Imports : cost'[j] = 1 => import'[j].status = "applied" /\ Settlements!Approved(j)'
    BY <2>8, <2>10, <2>11 DEF BooksInv, Settlements!Approved
  <2>13. TasksFit'
    <3>1. \A c \in Settlements!Actors : c # a => task[c] = Settlements!Done
      BY <2>1, <2>3 DEF BooksInv, TasksFit
    <3>2. \A c \in Settlements!Actors : task'[c] = Settlements!Done
      BY <2>9, <3>1 DEF BooksInv, TasksFit
    <3>3. task' = [c \in Settlements!Actors |-> task'[c]]  BY <2>9 DEF BooksInv, TasksFit
    <3>. QED  BY <3>2, <3>3 DEF TasksFit
  <2>. QED  BY <2>8, <2>9, <2>10, <2>12, <2>13 DEF BooksInv, Booked
<1>10. CASE \E t \in Paid : Settlements!SetIssue(t)
                \/ \E s \in {"pending", "paid", "refunded"} : Settlements!Observe(t, s)
  BY <1>1, <1>10 DEF Settlements!SetIssue, Settlements!Observe, Settlements!books
<1>11. CASE UNCHANGED settlementVars  BY <1>1, <1>11 DEF settlementVars
<1>. QED
  BY <1>2, <1>4, <1>5, <1>6, <1>7, <1>8, <1>9, <1>10, <1>11
     DEF Settlements!Next, Settlements!Actors

-----------------------------------------------------------------------------
(* The budget of a zone.                                                   *)

Money == [allocated : Int, committed : Int, spent : Int]

\* A request that has read the budget is the only one: what it will write is the
\* budget as it is, moved by its own amount.
BudgetInv ==
    /\ budget \in Money /\ bought = budget.spent
    /\ movement = [q \in {"q1"} |-> movement[q]]
    /\ \/ movement["q1"] = Budget!Idle
       \/ \E new \in Money, n \in Int :
             /\ movement["q1"] = [on |-> TRUE, old |-> budget, new |-> new, bought |-> n]
             /\ new.spent = budget.spent + n

LEMMA InitBudget == Budget!Init => BudgetInv
BY DEF Budget!Init, BudgetInv, Money, Budget!Idle

LEMMA BudgetMoves ==
    ASSUME BudgetInv, NEW new \in Money, NEW n \in Int, Budget!Moves("q1", new, n),
           new.spent = budget.spent + n
    PROVE  BudgetInv'
<1>1. /\ movement' = [movement EXCEPT !["q1"] = [on |-> TRUE, old |-> budget, new |-> new, bought |-> n]]
      /\ UNCHANGED <<budget, bought>>
  BY DEF Budget!Moves
<1>2. movement'["q1"] = [on |-> TRUE, old |-> budget, new |-> new, bought |-> n]
  BY <1>1 DEF BudgetInv
<1>3. movement' = [q \in {"q1"} |-> movement'[q]]  BY <1>1 DEF BudgetInv
<1>. QED  BY <1>1, <1>2, <1>3 DEF BudgetInv

LEMMA StepBudget == BudgetInv /\ [Budget!Next]_budgetVars => BudgetInv'
<1>. SUFFICES ASSUME BudgetInv, [Budget!Next]_budgetVars PROVE BudgetInv'  OBVIOUS
<1>1. CASE Budget!Commit("q1")
  <2>1. PICK new \in Money, n \in Int :
           /\ movement["q1"] = [on |-> TRUE, old |-> budget, new |-> new, bought |-> n]
           /\ new.spent = budget.spent + n
    BY <1>1 DEF BudgetInv, Budget!Commit, Budget!Idle
  <2>2. Budget!Written(movement["q1"]) = new
    <3>1. budget = [f \in {"allocated", "committed", "spent"} |-> budget[f]]  BY DEF BudgetInv, Money
    <3>2. new = [f \in {"allocated", "committed", "spent"} |-> new[f]]  BY DEF Money
    <3>3. Budget!Written(movement["q1"])
            = [f \in DOMAIN budget |-> IF new[f] = budget[f] THEN budget[f] ELSE new[f]]
      BY <2>1 DEF Budget!Written
    <3>. QED  BY <3>1, <3>2, <3>3
  <2>3. /\ \/ budget' = new /\ bought' = bought + n
           \/ budget' = budget /\ bought' = bought
        /\ movement' = [movement EXCEPT !["q1"] = Budget!Idle]
    BY <1>1, <2>1, <2>2 DEF Budget!Commit
  <2>4. movement'["q1"] = Budget!Idle /\ movement' = [q \in {"q1"} |-> movement'[q]]
    BY <2>3 DEF BudgetInv
  <2>. QED  BY <2>1, <2>3, <2>4 DEF BudgetInv
<1>2. ASSUME NEW amount \in Budget!Amounts,
             \/ Budget!UpsertBudget("q1", amount) \/ Budget!CommitMoney("q1", amount)
             \/ Budget!ReleaseMoney("q1", amount)
      PROVE  BudgetInv'
  <2>1. amount \in Int /\ budget.committed \in Int /\ budget.spent \in Int
    BY DEF Budget!Amounts, BudgetInv, Money
  <2>2. PICK new \in Money : Budget!Moves("q1", new, 0) /\ new.spent = budget.spent
    <3>. DEFINE upsert == [budget EXCEPT !.allocated = amount]
                commit == [budget EXCEPT !.committed = @ + amount]
                release == [budget EXCEPT !.committed = @ - amount]
    <3>1. /\ upsert \in Money /\ upsert.spent = budget.spent
          /\ commit \in Money /\ commit.spent = budget.spent
          /\ release \in Money /\ release.spent = budget.spent
      BY <2>1 DEF BudgetInv, Money
    <3>2. \/ Budget!Moves("q1", upsert, 0) \/ Budget!Moves("q1", commit, 0)
          \/ Budget!Moves("q1", release, 0)
      BY <1>2 DEF Budget!UpsertBudget, Budget!CommitMoney, Budget!ReleaseMoney
    <3>. HIDE DEF upsert, commit, release
    <3>. QED  BY <3>1, <3>2
  <2>. QED  BY <2>1, <2>2, BudgetMoves
<1>3. ASSUME NEW amount \in Budget!Amounts, Budget!SpendMoney("q1", amount) PROVE BudgetInv'
  <2>1. amount \in Int /\ budget.committed \in Int /\ budget.spent \in Int
        /\ Budget!FromCommitment(amount) \in Int
    BY DEF Budget!Amounts, BudgetInv, Money, Budget!FromCommitment
  <2>2. PICK c \in Int, s \in Int :
           c = budget.committed - Budget!FromCommitment(amount) /\ s = budget.spent + amount
    BY <2>1
  <2>. DEFINE new == [budget EXCEPT !.committed = c, !.spent = s]
  <2>3. new \in Money /\ new.spent = budget.spent + amount
    <3>1. new \in Money  BY <2>2 DEF BudgetInv, Money
    <3>2. new.spent = s  BY DEF BudgetInv, Money
    <3>. QED  BY <2>2, <3>1, <3>2
  <2>4. Budget!Moves("q1", new, amount)
    BY <1>3, <2>2 DEF Budget!SpendMoney, Budget!Bought
  <2>. HIDE DEF new
  <2>. QED  BY <2>1, <2>3, <2>4, BudgetMoves
<1>4. CASE UNCHANGED budgetVars  BY <1>4 DEF budgetVars, BudgetInv
<1>. QED  BY <1>1, <1>2, <1>3, <1>4 DEF Budget!Next

-----------------------------------------------------------------------------
(* Sends and receipts.                                                     *)

Row == [status : {"none", "pending", "processing", "retry", "succeeded", "dead_letter", "skipped"},
        attempts : Nat, msg : Messages \cup {Nothing}, delivered : BOOLEAN]
Claimed == [step : {"claimed"}, delivery : Deliveries]
Sent == [step : {"sent"}, delivery : Deliveries, msg : Messages]
Sheet == [of : Deliveries \cup {Nothing}, fate : {"none", "accepted", "delivered", "failed"}]

SendsType ==
    /\ delivery \in [Deliveries -> Row]
    /\ worker \in [Workers -> {Sends!Idle} \cup Claimed \cup Sent]
    /\ message \in [Messages -> Sheet]
    /\ receipt \in [Messages -> [Sends!Receipts -> {"none", "unmatched", "processed"}]]

Busy(d) == \E w \in Workers : Sends!At(w, d)

\* A row is worked on again only when its message failed, and Baytna was told.
RowFits(d, m) ==
    delivery[d].msg = m =>
        /\ message[m].of = d
        /\ delivery[d].delivered => message[m].fate = "delivered"
        /\ delivery[d].status # "succeeded" \/ Busy(d) =>
              message[m].fate = "failed" /\ receipt[m]["failed"] = "processed"

\* A delivery has one worker, and what it has sent no row and no receipt knows.
WorkerFits(w, d) ==
    Sends!At(w, d) =>
        /\ delivery[d].status \in {"processing", "succeeded"}
        /\ \A v \in Workers : Sends!At(v, d) => v = w
        /\ \A m \in Messages : worker[w].step = "sent" /\ worker[w].msg = m =>
              /\ message[m].of = d
              /\ \A c \in Deliveries : delivery[c].msg # m
              /\ \A r \in Sends!Receipts : receipt[m][r] # "processed"

\* Receipts say what the provider knows.
MessageFits(m) ==
    /\ message[m].of = Nothing =>
          message[m].fate = "none" /\ \A r \in Sends!Receipts : receipt[m][r] = "none"
    /\ receipt[m]["bounced"] = "none"
    /\ receipt[m]["delivered"] # "none" => message[m].fate = "delivered"
    /\ receipt[m]["failed"] # "none" => message[m].fate = "failed"

SendsInv ==
    /\ SendsType
    /\ \A d \in Deliveries : delivery[d].delivered => delivery[d].msg # Nothing
    /\ \A d \in Deliveries, m \in Messages : RowFits(d, m)
    /\ \A w \in Workers, d \in Deliveries : WorkerFits(w, d)
    /\ \A m \in Messages : MessageFits(m)

LEMMA InitSends == Sends!Init => SendsInv
<1>. SUFFICES ASSUME Sends!Init PROVE SendsInv  OBVIOUS
<1>1. SendsType
  BY DEF Sends!Init, SendsType, Row, Sheet, Sends!Unplanned, Sends!Idle, Sends!Receipts
<1>2. \A d \in Deliveries : delivery[d].msg = Nothing /\ ~delivery[d].delivered
  BY DEF Sends!Init, Sends!Unplanned
<1>3. \A w \in Workers : worker[w] = Sends!Idle  BY DEF Sends!Init
<1>4. \A m \in Messages : MessageFits(m)
  BY DEF Sends!Init, MessageFits, Sends!Receipts
<1>5. \A d \in Deliveries, m \in Messages : RowFits(d, m)
  BY <1>2, SendsAssumption DEF RowFits
<1>6. \A w \in Workers, d \in Deliveries : WorkerFits(w, d)
  BY <1>3 DEF WorkerFits, Sends!At
<1>. QED  BY <1>1, <1>2, <1>4, <1>5, <1>6 DEF SendsInv

\* One row gets another status while nobody works on it, or as its worker leaves it.
LEMMA RowSet ==
    ASSUME SendsInv, NEW d \in Deliveries, delivery' \in [Deliveries -> Row],
           UNCHANGED <<message, receipt>>, SendsType',
           \A c \in Deliveries : c # d => delivery'[c] = delivery[c],
           delivery'[d].msg = delivery[d].msg, delivery'[d].delivered = delivery[d].delivered,
           \A c \in Deliveries, w \in Workers : Sends!At(w, c)' <=> c # d /\ Sends!At(w, c),
           \A w \in Workers : worker'[w] # Sends!Idle => worker'[w] = worker[w],
           delivery[d].status # "succeeded" \/ Busy(d)
    PROVE  SendsInv'
<1>1. \A c \in Deliveries, m \in Messages : RowFits(c, m)'
  BY DEF SendsInv, RowFits, Busy
<1>2. \A w \in Workers, c \in Deliveries : WorkerFits(w, c)'
  BY DEF SendsInv, WorkerFits, Sends!At
<1>3. \A m \in Messages : MessageFits(m)'  BY DEF SendsInv, MessageFits
<1>. QED  BY <1>1, <1>2, <1>3 DEF SendsInv

\* A receipt is stored, and applied to the row that has its message.
LEMMA ReceiptKept ==
    ASSUME SendsInv, NEW m \in Messages, NEW r \in Sends!Receipts, NEW s \in {"unmatched", "processed"},
           receipt' = [receipt EXCEPT ![m][r] = s],
           receipt[m][r] # "processed", s = "unmatched" <=> Sends!Matches(m) = {},
           delivery' = [d \in Deliveries |->
              IF d \in Sends!Matches(m) THEN Sends!Applied(delivery[d], r) ELSE delivery[d]],
           UNCHANGED <<worker, message>>,
           message[m].of # Nothing, r \in {"accepted", message[m].fate}
    PROVE  SendsInv'
<1>1. /\ \A d \in Deliveries : d \in Sends!Matches(m) <=> delivery[d].msg = m
      /\ \A d \in Deliveries : delivery[d].msg = m =>
            /\ delivery'[d].msg = m
            /\ r = "delivered" => delivery'[d].delivered /\ delivery'[d].status = "succeeded"
            /\ r # "delivered" => delivery'[d].delivered = delivery[d].delivered
            /\ r = "accepted" => delivery'[d].status = "succeeded"
            /\ delivery'[d] \in Row
      /\ \A d \in Deliveries : delivery[d].msg # m => delivery'[d] = delivery[d]
  BY DEF Sends!Matches, Sends!Applied, SendsInv, SendsType, Row
<1>2. /\ receipt' \in [Messages -> [Sends!Receipts -> {"none", "unmatched", "processed"}]]
      /\ receipt'[m][r] = s
      /\ \A n \in Messages, q \in Sends!Receipts : n # m \/ q # r => receipt'[n][q] = receipt[n][q]
  BY DEF SendsInv, SendsType
<1>3. delivery' \in [Deliveries -> Row]  BY <1>1 DEF SendsInv, SendsType
<1>4. SendsType'  BY <1>2, <1>3 DEF SendsInv, SendsType
<1>5. r \in {"accepted", "delivered", "failed"}
  BY DEF Sends!Receipts, SendsInv, SendsType, Sheet
<1>6. \A d \in Deliveries : Busy(d)' <=> Busy(d)  BY DEF Busy, Sends!At
<1>7. \A d \in Deliveries, n \in Messages : RowFits(d, n)'
  <2>. SUFFICES ASSUME NEW d \in Deliveries, NEW n \in Messages PROVE RowFits(d, n)'  OBVIOUS
  <2>0. RowFits(d, n) /\ RowFits(d, m)  BY DEF SendsInv
  <2>1. CASE n # m
    <3>1. delivery'[d].msg = n => delivery'[d] = delivery[d]  BY <1>1, <2>1
    <3>2. receipt'[n]["failed"] = receipt[n]["failed"]  BY <1>2, <2>1 DEF Sends!Receipts
    <3>. QED  BY <1>6, <2>0, <3>1, <3>2 DEF RowFits
  <2>2. CASE n = m /\ r = "failed"
    <3>1. delivery'[d].msg = m => delivery[d].msg = m  BY <1>1
    <3>2. delivery'[d].msg = m => receipt'[m]["failed"] = "processed"
      BY <1>1, <1>2, <2>2, <3>1
    <3>3. message[m].fate = "failed"  BY <2>2
    <3>4. delivery'[d].msg = m => delivery'[d].delivered = delivery[d].delivered
      BY <1>1, <2>2, <3>1
    <3>. QED  BY <2>0, <2>2, <3>1, <3>2, <3>3, <3>4 DEF RowFits
  <2>3. CASE n = m /\ r = "delivered"
    <3>1. delivery'[d].msg = m => delivery[d].msg = m  BY <1>1
    <3>2. delivery'[d].msg = m => delivery'[d].status = "succeeded"  BY <1>1, <2>3, <3>1
    <3>3. message[m].fate = "delivered"  BY <2>3
    <3>. QED  BY <1>6, <2>0, <2>3, <3>1, <3>2, <3>3 DEF RowFits
  <2>4. CASE n = m /\ r = "accepted"
    <3>1. delivery'[d].msg = m => delivery[d].msg = m  BY <1>1
    <3>2. delivery'[d].msg = m =>
             delivery'[d].status = "succeeded" /\ delivery'[d].delivered = delivery[d].delivered
      BY <1>1, <2>4, <3>1
    <3>3. receipt'[m]["failed"] = receipt[m]["failed"]  BY <1>2, <2>4 DEF Sends!Receipts
    <3>. QED  BY <1>6, <2>0, <2>4, <3>1, <3>2, <3>3 DEF RowFits
  <2>. QED  BY <1>5, <2>1, <2>2, <2>3, <2>4
<1>8. \A w \in Workers, d \in Deliveries : WorkerFits(w, d)'
  <2>. SUFFICES ASSUME NEW w \in Workers, NEW d \in Deliveries, Sends!At(w, d) PROVE WorkerFits(w, d)'
    BY DEF WorkerFits, Sends!At
  <2>1. WorkerFits(w, d) /\ RowFits(d, m)  BY DEF SendsInv
  <2>2. delivery'[d].status \in {"processing", "succeeded"}
    <3>1. CASE delivery[d].msg # m  BY <1>1, <2>1, <3>1 DEF WorkerFits
    <3>2. CASE delivery[d].msg = m
      <4>1. message[m].fate = "failed" /\ receipt[m]["failed"] = "processed"
        BY <2>1, <3>2 DEF RowFits, Busy
      <4>2. r = "accepted"  BY <1>5, <4>1
      <4>. QED  BY <1>1, <3>2, <4>2
    <3>. QED  BY <3>1, <3>2
  <2>3. \A v \in Workers : Sends!At(v, d)' => v = w  BY <2>1 DEF WorkerFits, Sends!At
  <2>4. ASSUME NEW n \in Messages, worker'[w].step = "sent", worker'[w].msg = n
        PROVE  /\ message'[n].of = d
               /\ \A c \in Deliveries : delivery'[c].msg # n
               /\ \A q \in Sends!Receipts : receipt'[n][q] # "processed"
    <3>1. /\ message[n].of = d
          /\ \A c \in Deliveries : delivery[c].msg # n
          /\ \A q \in Sends!Receipts : receipt[n][q] # "processed"
      BY <2>1, <2>4 DEF WorkerFits
    <3>2. \A c \in Deliveries : delivery'[c].msg # n  BY <1>1, <3>1
    <3>3. n = m => s = "unmatched"  BY <1>1, <3>1 DEF Sends!Matches
    <3>. QED  BY <1>2, <3>1, <3>2, <3>3
  <2>. QED  BY <2>2, <2>3, <2>4 DEF WorkerFits
<1>9. \A n \in Messages : MessageFits(n)'
  <2>. SUFFICES ASSUME NEW n \in Messages PROVE MessageFits(n)'  OBVIOUS
  <2>1. MessageFits(n)  BY DEF SendsInv
  <2>2. CASE n # m
    BY <1>2, <2>1, <2>2 DEF MessageFits, Sends!Receipts
  <2>3. CASE n = m
    <3>1. \A q \in {"delivered", "failed", "bounced"} : q # r => receipt'[m][q] = receipt[m][q]
      BY <1>2 DEF Sends!Receipts
    <3>. QED  BY <1>5, <2>1, <2>3, <3>1 DEF MessageFits
  <2>. QED  BY <2>2, <2>3
<1>10. \A d \in Deliveries : delivery'[d].delivered => delivery'[d].msg # Nothing
  BY <1>1, SendsAssumption DEF SendsInv
<1>. QED  BY <1>4, <1>7, <1>8, <1>9, <1>10 DEF SendsInv

LEMMA StepSends == SendsInv /\ [Sends!Next]_sendVars => SendsInv'
<1>. SUFFICES ASSUME SendsInv, [Sends!Next]_sendVars PROVE SendsInv'  OBVIOUS
<1>1. CASE UNCHANGED <<delivery, worker, message, receipt>>
  BY <1>1 DEF SendsInv, SendsType, RowFits, WorkerFits, MessageFits, Busy, Sends!At
<1>2. ASSUME NEW d \in Deliveries, Sends!Plan(d) \/ Sends!RecoverStale(d) \/ Sends!Retry(d)
      PROVE  SendsInv'
  <2>1. /\ UNCHANGED <<worker, message, receipt>>
        /\ delivery' \in [Deliveries -> Row]
        /\ \A c \in Deliveries : c # d => delivery'[c] = delivery[c]
        /\ delivery'[d].msg = delivery[d].msg /\ delivery'[d].delivered = delivery[d].delivered
        /\ delivery[d].status # "succeeded"
    <3>1. CASE Sends!Plan(d)  BY <3>1 DEF Sends!Plan, SendsInv, SendsType, Row
    <3>2. CASE Sends!RecoverStale(d)  BY <3>2 DEF Sends!RecoverStale, SendsInv, SendsType, Row
    <3>3. CASE Sends!Retry(d)
      <4>1. delivery' = [delivery EXCEPT ![d].status = "retry", ![d].attempts = 0]
            /\ delivery[d].status \in {"dead_letter", "retry"} /\ UNCHANGED <<worker, message, receipt>>
        BY <3>3 DEF Sends!Retry
      <4>. QED  BY <4>1 DEF SendsInv, SendsType, Row
    <3>. QED  BY <1>2, <3>1, <3>2, <3>3
  <2>2. ~Busy(d)
    <3>1. CASE Sends!RecoverStale(d)  BY <3>1 DEF Sends!RecoverStale, Busy
    <3>2. CASE Sends!Plan(d) \/ Sends!Retry(d)
      BY <3>2 DEF Sends!Plan, Sends!Retry, SendsInv, WorkerFits, Busy
    <3>. QED  BY <1>2, <3>1, <3>2
  <2>3. SendsType'  BY <2>1 DEF SendsInv, SendsType
  <2>4. \A c \in Deliveries, w \in Workers : Sends!At(w, c)' <=> c # d /\ Sends!At(w, c)
    BY <2>1, <2>2 DEF Busy, Sends!At
  <2>. QED  BY <2>1, <2>3, <2>4, RowSet
<1>3. ASSUME NEW w \in Workers, NEW d \in Deliveries, Sends!Claim(w, d) PROVE SendsInv'
  <2>1. /\ UNCHANGED <<message, receipt>> /\ worker[w] = Sends!Idle
        /\ delivery[d].status \in {"pending", "retry"}
        /\ delivery' = [delivery EXCEPT ![d].status = "processing", ![d].attempts = @ + 1]
        /\ worker' = [worker EXCEPT ![w] = [step |-> "claimed", delivery |-> d]]
    BY <1>3 DEF Sends!Claim
  <2>2. /\ delivery' \in [Deliveries -> Row]
        /\ \A c \in Deliveries : c # d => delivery'[c] = delivery[c]
        /\ delivery'[d].msg = delivery[d].msg /\ delivery'[d].delivered = delivery[d].delivered
        /\ delivery'[d].status = "processing"
    BY <2>1 DEF SendsInv, SendsType, Row
  <2>3. /\ worker'[w] = [step |-> "claimed", delivery |-> d]
        /\ \A v \in Workers : v # w => worker'[v] = worker[v]
        /\ worker' \in [Workers -> {Sends!Idle} \cup Claimed \cup Sent]
    BY <2>1 DEF SendsInv, SendsType, Claimed
  <2>4. \A v \in Workers : ~Sends!At(v, d)  BY <2>1 DEF SendsInv, WorkerFits
  <2>5. \A v \in Workers, c \in Deliveries :
           Sends!At(v, c)' <=> Sends!At(v, c) \/ (v = w /\ c = d)
    BY <2>1, <2>3 DEF Sends!At, Sends!Idle
  <2>6. \A c \in Deliveries, m \in Messages : RowFits(c, m)'
    BY <2>1, <2>2, <2>5 DEF SendsInv, RowFits, Busy
  <2>7. \A v \in Workers, c \in Deliveries : WorkerFits(v, c)'
    <3>. SUFFICES ASSUME NEW v \in Workers, NEW c \in Deliveries, Sends!At(v, c)' PROVE WorkerFits(v, c)'
      BY DEF WorkerFits
    <3>1. CASE v = w
      BY <2>1, <2>2, <2>3, <2>4, <2>5, <3>1 DEF WorkerFits, Sends!At
    <3>2. CASE v # w
      BY <2>1, <2>2, <2>3, <2>4, <2>5, <3>2 DEF SendsInv, WorkerFits
    <3>. QED  BY <3>1, <3>2
  <2>8. \A m \in Messages : MessageFits(m)'  BY <2>1 DEF SendsInv, MessageFits
  <2>9. \A c \in Deliveries : delivery'[c].delivered => delivery'[c].msg # Nothing
    BY <2>2 DEF SendsInv
  <2>. QED  BY <2>1, <2>2, <2>3, <2>6, <2>7, <2>8, <2>9 DEF SendsInv, SendsType
<1>4. ASSUME NEW w \in Workers,
             Sends!Skip(w) \/ \E refusal \in Sends!PushRefusals \cup Sends!SmsRefusals : Sends!MarkFailed(w, refusal)
      PROVE  SendsInv'
  <2>. DEFINE d == worker[w].delivery
  <2>1. worker[w].step = "claimed"  BY <1>4 DEF Sends!Skip, Sends!MarkFailed
  <2>2. d \in Deliveries /\ Sends!At(w, d)
    BY <2>1 DEF SendsInv, SendsType, Sends!At, Sends!Idle, Claimed, Sent
  <2>3. PICK s \in {"skipped", "dead_letter", "retry"} :
           /\ delivery' = [delivery EXCEPT ![d].status = s]
           /\ worker' = [worker EXCEPT ![w] = Sends!Idle] /\ UNCHANGED <<message, receipt>>
    BY <1>4 DEF Sends!Skip, Sends!MarkFailed
  <2>. HIDE DEF d
  <2>4. /\ delivery' \in [Deliveries -> Row]
        /\ \A c \in Deliveries : c # d => delivery'[c] = delivery[c]
        /\ delivery'[d].msg = delivery[d].msg /\ delivery'[d].delivered = delivery[d].delivered
    BY <2>2, <2>3 DEF SendsInv, SendsType, Row
  <2>5. /\ worker'[w] = Sends!Idle /\ \A v \in Workers : v # w => worker'[v] = worker[v]
        /\ worker' \in [Workers -> {Sends!Idle} \cup Claimed \cup Sent]
    BY <2>3 DEF SendsInv, SendsType
  <2>6. SendsType'  BY <2>3, <2>4, <2>5 DEF SendsInv, SendsType
  <2>7. \A v \in Workers : Sends!At(v, d) => v = w  BY <2>2 DEF SendsInv, WorkerFits
  <2>8. \A c \in Deliveries, v \in Workers : Sends!At(v, c)' <=> c # d /\ Sends!At(v, c)
    BY <2>2, <2>5, <2>7 DEF Sends!At
  <2>9. Busy(d)  BY <2>2 DEF Busy
  <2>. QED  BY <2>2, <2>3, <2>4, <2>5, <2>6, <2>8, <2>9, RowSet
<1>5. ASSUME NEW w \in Workers, NEW m \in Messages, Sends!Send(w, m) PROVE SendsInv'
  <2>. DEFINE d == worker[w].delivery
  <2>1. worker[w].step = "claimed"  BY <1>5 DEF Sends!Send
  <2>2. d \in Deliveries /\ Sends!At(w, d)
    BY <2>1 DEF SendsInv, SendsType, Sends!At, Sends!Idle, Claimed, Sent
  <2>3. /\ message[m].of = Nothing
        /\ message' = [message EXCEPT ![m] = [of |-> d, fate |-> "accepted"]]
        /\ worker' = [worker EXCEPT ![w] = [step |-> "sent", delivery |-> d, msg |-> m]]
        /\ UNCHANGED <<delivery, receipt>>
    BY <1>5 DEF Sends!Send
  <2>. HIDE DEF d
  <2>4. /\ worker'[w] = [step |-> "sent", delivery |-> d, msg |-> m]
        /\ \A v \in Workers : v # w => worker'[v] = worker[v]
        /\ worker' \in [Workers -> {Sends!Idle} \cup Claimed \cup Sent]
    BY <2>2, <2>3 DEF SendsInv, SendsType, Sent
  <2>5. /\ message'[m] = [of |-> d, fate |-> "accepted"]
        /\ \A n \in Messages : n # m => message'[n] = message[n]
        /\ message' \in [Messages -> Sheet]
    BY <2>2, <2>3 DEF SendsInv, SendsType, Sheet
  <2>6. \A v \in Workers, c \in Deliveries : Sends!At(v, c)' <=> Sends!At(v, c)
    <3>1. \A c : Sends!At(w, c)' <=> c = d
      BY <2>4 DEF Sends!At, Sends!Idle
    <3>2. \A c : Sends!At(w, c) <=> c = d
      BY <2>2 DEF Sends!At, d
    <3>. QED  BY <2>4, <3>1, <3>2 DEF Sends!At
  <2>7. \A c \in Deliveries : delivery[c].msg # m
    BY <2>3, SendsAssumption DEF SendsInv, RowFits
  <2>8. \A c \in Deliveries, n \in Messages : RowFits(c, n)'
    BY <2>3, <2>5, <2>6, <2>7 DEF SendsInv, RowFits, Busy
  <2>9. \A r \in Sends!Receipts : receipt[m][r] = "none"  BY <2>3 DEF SendsInv, MessageFits
  <2>10. \A v \in Workers, c \in Deliveries : WorkerFits(v, c)'
    <3>. SUFFICES ASSUME NEW v \in Workers, NEW c \in Deliveries, Sends!At(v, c) PROVE WorkerFits(v, c)'
      BY <2>6 DEF WorkerFits
    <3>0. WorkerFits(v, c)  BY DEF SendsInv
    <3>1. CASE v = w
      <4>1. c = d  BY <3>1 DEF Sends!At, d
      <4>. QED  BY <2>3, <2>4, <2>5, <2>6, <2>7, <2>9, <3>0, <3>1, <4>1 DEF WorkerFits
    <3>2. CASE v # w
      <4>1. ASSUME NEW n \in Messages, worker[v].step = "sent", worker[v].msg = n PROVE n # m
        BY <2>3, <3>0, <4>1, SendsAssumption DEF WorkerFits
      <4>. QED  BY <2>3, <2>4, <2>5, <2>6, <3>0, <3>2, <4>1 DEF WorkerFits
    <3>. QED  BY <3>1, <3>2
  <2>11. \A n \in Messages : MessageFits(n)'
    <3>1. d # Nothing  BY <2>2, SendsAssumption
    <3>. QED  BY <2>3, <2>5, <2>9, <3>1 DEF SendsInv, MessageFits, Sends!Receipts
  <2>. QED  BY <2>3, <2>4, <2>5, <2>8, <2>10, <2>11 DEF SendsInv, SendsType
<1>6. ASSUME NEW w \in Workers, Sends!MarkSucceeded(w) PROVE SendsInv'
  <2>1. PICK d \in Deliveries, m \in Messages : worker[w] = [step |-> "sent", delivery |-> d, msg |-> m]
    BY <1>6 DEF Sends!MarkSucceeded, SendsInv, SendsType, Sends!Idle, Claimed, Sent
  <2>2. /\ delivery' = [delivery EXCEPT ![d].status = "succeeded", ![d].msg = m]
        /\ worker' = [worker EXCEPT ![w] = Sends!Idle] /\ UNCHANGED <<message, receipt>>
    BY <1>6, <2>1 DEF Sends!MarkSucceeded
  <2>3. /\ delivery' \in [Deliveries -> Row]
        /\ \A c \in Deliveries : c # d => delivery'[c] = delivery[c]
        /\ delivery'[d].msg = m /\ delivery'[d].delivered = delivery[d].delivered
        /\ delivery'[d].status = "succeeded"
    BY <2>2 DEF SendsInv, SendsType, Row
  <2>4. /\ worker'[w] = Sends!Idle /\ \A v \in Workers : v # w => worker'[v] = worker[v]
        /\ worker' \in [Workers -> {Sends!Idle} \cup Claimed \cup Sent]
    BY <2>2 DEF SendsInv, SendsType
  <2>5. Sends!At(w, d) /\ worker[w].step = "sent" /\ worker[w].msg = m
    BY <2>1 DEF Sends!At, Sends!Idle
  <2>6. /\ \A v \in Workers : Sends!At(v, d) => v = w
        /\ message[m].of = d
        /\ \A c \in Deliveries : delivery[c].msg # m
    BY <2>5 DEF SendsInv, WorkerFits
  <2>7. \A v \in Workers, c \in Deliveries : Sends!At(v, c)' <=> c # d /\ Sends!At(v, c)
    <3>1. \A c : Sends!At(w, c) => c = d  BY <2>1 DEF Sends!At
    <3>. QED  BY <2>4, <2>6, <3>1 DEF Sends!At
  <2>8. ~delivery[d].delivered
    <3>. SUFFICES ASSUME delivery[d].delivered PROVE FALSE  OBVIOUS
    <3>1. PICK n \in Messages : delivery[d].msg = n  BY DEF SendsInv, SendsType, Row
    <3>2. message[n].fate = "delivered" /\ message[n].fate = "failed"
      BY <2>5, <3>1 DEF SendsInv, RowFits, Busy
    <3>. QED  BY <3>2
  <2>9. \A c \in Deliveries, n \in Messages : RowFits(c, n)'
    <3>. SUFFICES ASSUME NEW c \in Deliveries, NEW n \in Messages PROVE RowFits(c, n)'  OBVIOUS
    <3>1. CASE c = d
      BY <2>2, <2>3, <2>6, <2>7, <2>8, <3>1 DEF RowFits, Busy
    <3>2. CASE c # d
      BY <2>2, <2>3, <2>7, <3>2 DEF SendsInv, RowFits, Busy
    <3>. QED  BY <3>1, <3>2
  <2>10. \A v \in Workers, c \in Deliveries : WorkerFits(v, c)'
    <3>. SUFFICES ASSUME NEW v \in Workers, NEW c \in Deliveries, Sends!At(v, c)' PROVE WorkerFits(v, c)'
      BY DEF WorkerFits
    <3>1. c # d /\ Sends!At(v, c) /\ v # w  BY <2>4, <2>7 DEF Sends!At
    <3>2. WorkerFits(v, c)  BY DEF SendsInv
    <3>3. ASSUME NEW n \in Messages, worker[v].step = "sent", worker[v].msg = n
          PROVE  \A b \in Deliveries : delivery'[b].msg # n
      <4>1. message[n].of = c /\ \A b \in Deliveries : delivery[b].msg # n
        BY <3>1, <3>2, <3>3 DEF WorkerFits
      <4>2. n # m  BY <2>6, <3>1, <4>1
      <4>. QED  BY <2>3, <4>1, <4>2
    <3>. QED  BY <2>2, <2>3, <2>4, <2>7, <3>1, <3>2, <3>3 DEF WorkerFits
  <2>11. \A n \in Messages : MessageFits(n)'  BY <2>2 DEF SendsInv, MessageFits
  <2>12. \A c \in Deliveries : delivery'[c].delivered => delivery'[c].msg # Nothing
    BY <2>3, SendsAssumption DEF SendsInv
  <2>. QED  BY <2>2, <2>3, <2>4, <2>9, <2>10, <2>11, <2>12 DEF SendsInv, SendsType
<1>7. ASSUME NEW w \in Workers, Sends!Crash(w) PROVE SendsInv'
  <2>1. worker' = [worker EXCEPT ![w] = Sends!Idle] /\ UNCHANGED <<delivery, message, receipt>>
    BY <1>7 DEF Sends!Crash
  <2>2. /\ worker'[w] = Sends!Idle /\ \A v \in Workers : v # w => worker'[v] = worker[v]
        /\ worker' \in [Workers -> {Sends!Idle} \cup Claimed \cup Sent]
    BY <2>1 DEF SendsInv, SendsType
  <2>3. \A v \in Workers, c \in Deliveries : Sends!At(v, c)' <=> v # w /\ Sends!At(v, c)
    BY <2>2 DEF Sends!At
  <2>4. \A c \in Deliveries, n \in Messages : RowFits(c, n)'
    BY <2>1, <2>3 DEF SendsInv, RowFits, Busy
  <2>5. \A v \in Workers, c \in Deliveries : WorkerFits(v, c)'
    BY <2>1, <2>2, <2>3 DEF SendsInv, WorkerFits
  <2>6. \A n \in Messages : MessageFits(n)'  BY <2>1 DEF SendsInv, MessageFits
  <2>. QED  BY <2>1, <2>2, <2>4, <2>5, <2>6 DEF SendsInv, SendsType
<1>8. ASSUME NEW m \in Messages, NEW fate \in {"delivered", "failed"}, Sends!ProviderLearns(m, fate)
      PROVE  SendsInv'
  <2>1. /\ message[m].fate = "accepted" /\ UNCHANGED <<delivery, worker, receipt>>
        /\ message' = [message EXCEPT ![m].fate = fate]
    BY <1>8 DEF Sends!ProviderLearns
  <2>2. /\ message' \in [Messages -> Sheet] /\ message'[m].fate = fate
        /\ \A n \in Messages : message'[n].of = message[n].of
        /\ \A n \in Messages : n # m => message'[n] = message[n]
    BY <2>1 DEF SendsInv, SendsType, Sheet
  <2>3. \A c \in Deliveries, n \in Messages : RowFits(c, n)'
    BY <2>1, <2>2 DEF SendsInv, RowFits, Busy, Sends!At
  <2>4. \A v \in Workers, c \in Deliveries : WorkerFits(v, c)'
    BY <2>1, <2>2 DEF SendsInv, WorkerFits, Sends!At
  <2>5. \A n \in Messages : MessageFits(n)'
    BY <2>1, <2>2 DEF SendsInv, MessageFits
  <2>. QED  BY <2>1, <2>2, <2>3, <2>4, <2>5 DEF SendsInv, SendsType
<1>9. ASSUME NEW m \in Messages, NEW r \in Sends!Receipts, Sends!Ingest(m, r) PROVE SendsInv'
  <2>. DEFINE s == IF Sends!Matches(m) = {} THEN "unmatched" ELSE "processed"
  <2>1. /\ message[m].of # Nothing /\ r \in {"accepted", message[m].fate}
        /\ receipt[m][r] # "processed" /\ UNCHANGED <<worker, message>>
        /\ receipt' = [receipt EXCEPT ![m][r] = s]
        /\ delivery' = [d \in Deliveries |->
              IF d \in Sends!Matches(m) THEN Sends!Applied(delivery[d], r) ELSE delivery[d]]
    BY <1>9 DEF Sends!Ingest, Sends!Signed
  <2>2. s \in {"unmatched", "processed"} /\ (s = "unmatched" <=> Sends!Matches(m) = {})  OBVIOUS
  <2>. HIDE DEF s
  <2>. QED  BY <2>1, <2>2, ReceiptKept
<1>10. ASSUME NEW m \in Messages, NEW r \in Sends!Receipts, Sends!Replay(m, r) PROVE SendsInv'
  <2>1. /\ receipt[m][r] = "unmatched" /\ Sends!Matches(m) # {} /\ UNCHANGED <<worker, message>>
        /\ receipt' = [receipt EXCEPT ![m][r] = "processed"]
        /\ delivery' = [d \in Deliveries |->
              IF d \in Sends!Matches(m) THEN Sends!Applied(delivery[d], r) ELSE delivery[d]]
    BY <1>10 DEF Sends!Replay, Sends!Replayable
  <2>2. message[m].of # Nothing /\ r \in {"accepted", message[m].fate}
    BY <2>1 DEF SendsInv, MessageFits, Sends!Receipts
  <2>. QED  BY <2>1, <2>2, ReceiptKept
<1>11. CASE \E d \in Deliveries, b \in BOOLEAN : Sends!SetTarget(d, b)
  BY <1>1, <1>11 DEF Sends!SetTarget
<1>12. CASE UNCHANGED sendVars  BY <1>1, <1>12 DEF sendVars
<1>. QED
  BY <1>2, <1>3, <1>4, <1>5, <1>6, <1>7, <1>8, <1>9, <1>10, <1>11, <1>12
     DEF Sends!Next, Sends!WorkerStep

LEMMA NoSecondSend ==
    ASSUME SendsInv, [Sends!Next]_sendVars, NEW d \in Deliveries, NEW m \in Messages,
           delivery[d].delivered, message[m].of = Nothing
    PROVE  message'[m].of # d
<1>1. d # Nothing  BY SendsAssumption
<1>2. CASE UNCHANGED message  BY <1>1, <1>2
<1>3. ASSUME NEW n \in Messages, NEW fate \in {"delivered", "failed"}, Sends!ProviderLearns(n, fate)
      PROVE  message'[m].of # d
  BY <1>1, <1>3 DEF Sends!ProviderLearns, SendsInv, SendsType, Sheet
<1>4. ASSUME NEW w \in Workers, NEW n \in Messages, Sends!Send(w, n) PROVE message'[m].of # d
  <2>1. worker[w].delivery # d
    <3>. SUFFICES ASSUME worker[w].delivery = d PROVE FALSE  OBVIOUS
    <3>1. Busy(d)  BY <1>4 DEF Sends!Send, Busy, Sends!At, Sends!Idle
    <3>2. PICK k \in Messages : delivery[d].msg = k  BY DEF SendsInv, SendsType, Row
    <3>. QED  BY <3>1, <3>2 DEF SendsInv, RowFits
  <2>. QED  BY <1>1, <1>4, <2>1 DEF Sends!Send, SendsInv, SendsType
<1>. QED
  BY <1>2, <1>3, <1>4 DEF Sends!Next, Sends!WorkerStep, Sends!Plan, Sends!RecoverStale, Sends!Retry,
     Sends!SetTarget, Sends!Claim, Sends!Skip, Sends!MarkSucceeded, Sends!MarkFailed, Sends!Crash,
     Sends!Ingest, Sends!Replay, sendVars

\* However many workers crash and retry, and however receipts are delayed, lost or
\* reordered: what a receipt reported delivered is not sent again.
THEOREM DeliveredStaysSent == LoadsSpec => DeliveredNotResent
<1>1. LoadsInit => SendsInv  BY InitSends DEF LoadsInit
<1>2. [LoadsNext]_<<load, prVars, settlementVars, budgetVars, sendVars>> => [Sends!Next]_sendVars
  BY DEF LoadsNext
<1>3. SendsInv /\ [LoadsNext]_<<load, prVars, settlementVars, budgetVars, sendVars>> => SendsInv'
  BY <1>2, StepSends
<1>4. SendsInv /\ [LoadsNext]_<<load, prVars, settlementVars, budgetVars, sendVars>>
        => [\A d \in Deliveries, m \in Messages :
              delivery[d].delivered /\ message[m].of = Nothing => message'[m].of # d]_Sends!ndVars
  BY <1>2, NoSecondSend
<1>. QED  BY <1>1, <1>3, <1>4, PTL DEF LoadsSpec, DeliveredNotResent, Sends!DeliveredNotResent

-----------------------------------------------------------------------------
(* Refunds.                                                                *)

RefundRow == [status : {"none", "succeeded", "failed"}, pay : Payments \cup {Nobody},
              amount : Nat, ref : Txs \cup {Nobody}]

\* A row that names a transaction is the only one that does, and tells its story.
NamesRefund(k, t) ==
    refund[k].ref = t =>
        /\ provider[t] # "none" /\ Kind[t] = "refund"
        /\ refund[k].amount = Amount[t] /\ refund[k].pay = PaymentOf[t]
        /\ refund[k].status = "succeeded" => provider[t] = "succeeded"
        /\ \A j \in Keys : refund[j].ref = t => j = k

\* The refunds that Baytna has counted, each once.
Counted(p) ==
    {t \in TxsOf(p, "refund") : \E k \in Keys : refund[k].ref = t /\ refund[k].status = "succeeded"}

RefundsInv ==
    /\ refund \in [Keys -> RefundRow] /\ refunded \in [Payments -> Nat]
    /\ DOMAIN ledger = Txs /\ DOMAIN provider = Txs
    /\ \A t \in Txs : ledger[t].pay \in {Nobody, PaymentOf[t]}
    /\ \A k \in Keys, t \in Txs : NamesRefund(k, t)
    /\ \A k \in Keys : refund[k].status = "succeeded" => refund[k].ref # Nobody
    /\ \A p \in Payments : refunded[p] <= Total(Counted(p))

\* Money of finitely many transactions adds up.
LEMMA MoneyFinite ==
    ASSUME NEW S \in SUBSET Txs
    PROVE  IsFiniteSet(Piastres(S)) /\ Total(S) \in Nat
<1>1. IsFiniteSet(S)  BY TxsAssumption, FS_Subset
<1>. DEFINE coins == [t \in S |-> {t} \X (1..Amount[t])]
            Piles == {{t} \X (1..Amount[t]) : t \in S}
<1>2. coins \in Surjection(S, Piles)  BY DEF Surjection
<1>3. IsFiniteSet(Piles)
  <2>. HIDE DEF Piles, coins
  <2>. QED  BY <1>1, <1>2, FS_Surjection
<1>4. \A P \in Piles : IsFiniteSet(P)
  <2>. SUFFICES ASSUME NEW t \in S PROVE IsFiniteSet({t} \X (1..Amount[t]))  OBVIOUS
  <2>1. IsFiniteSet({t})  BY FS_Singleton
  <2>2. Amount[t] \in Int  BY MoneyAssumption
  <2>3. IsFiniteSet(1..Amount[t])  BY <2>2, FS_Interval
  <2>. QED  BY <2>1, <2>3, FS_Product
<1>5. IsFiniteSet(UNION Piles)
  <2>. HIDE DEF Piles
  <2>. QED  BY <1>3, <1>4, FS_UNION
<1>6. IsFiniteSet(Piastres(S))  BY <1>5 DEF Piastres
<1>7. Cardinality(Piastres(S)) \in Nat  BY <1>6, FS_CardinalityType
<1>. QED  BY <1>6, <1>7 DEF Total

LEMMA MoneyMonotone ==
    ASSUME NEW S \in SUBSET Txs, NEW T \in SUBSET S
    PROVE  Total(T) <= Total(S)
<1>1. Piastres(T) \in SUBSET Piastres(S)  BY DEF Piastres
<1>2. IsFiniteSet(Piastres(S))  BY MoneyFinite
<1>3. Cardinality(Piastres(T)) <= Cardinality(Piastres(S))  BY <1>1, <1>2, FS_Subset
<1>. QED  BY <1>3 DEF Total

LEMMA MoneyOfOneMore ==
    ASSUME NEW S \in SUBSET Txs, NEW t \in Txs, t \notin S
    PROVE  Total(S \cup {t}) = Total(S) + Amount[t]
<1>. DEFINE Coins == {t} \X (1..Amount[t])
<1>1. Amount[t] \in Nat /\ 1 \in Int /\ Amount[t] \in Int  BY MoneyAssumption
<1>2. IsFiniteSet({t}) /\ Cardinality({t}) = 1  BY FS_Singleton
<1>3. IsFiniteSet(1..Amount[t]) /\ Cardinality(1..Amount[t]) = Amount[t]
  <2>1. /\ IsFiniteSet(1..Amount[t])
        /\ Cardinality(1..Amount[t]) = IF 1 > Amount[t] THEN 0 ELSE Amount[t] - 1 + 1
    BY <1>1, FS_Interval
  <2>. QED  BY <1>1, <2>1
<1>4. IsFiniteSet(Coins) /\ Cardinality(Coins) = Cardinality({t}) * Cardinality(1..Amount[t])
  BY <1>2, <1>3, FS_Product
<1>5. Cardinality(Coins) = Amount[t]  BY <1>1, <1>2, <1>3, <1>4
<1>6. Piastres(S \cup {t}) = Piastres(S) \cup Coins  BY DEF Piastres
<1>7. Piastres(S) \cap Coins = {}  BY DEF Piastres
<1>8. IsFiniteSet(Piastres(S))  BY MoneyFinite
<1>. HIDE DEF Coins
<1>9. Cardinality(Piastres(S) \cup Coins)
        = Cardinality(Piastres(S)) + Cardinality(Coins) - Cardinality(Piastres(S) \cap Coins)
  BY <1>4, <1>8, FS_Union
<1>10. Cardinality(Piastres(S) \cap Coins) = 0  BY <1>7, FS_EmptySet
<1>11. Cardinality(Piastres(S)) \in Nat  BY <1>8, FS_CardinalityType
<1>12. Total(S \cup {t}) = Cardinality(Piastres(S) \cup Coins) /\ Total(S) = Cardinality(Piastres(S))
  BY <1>6 DEF Total
<1>13. Cardinality(Piastres(S) \cup Coins) = Cardinality(Piastres(S)) + Amount[t]
  BY <1>1, <1>5, <1>9, <1>10, <1>11
<1>. QED  BY <1>12, <1>13

LEMMA InitRefunds == Init => RefundsInv
<1>. SUFFICES ASSUME Init PROVE RefundsInv  OBVIOUS
<1>1. \A k \in Keys : refund[k] = NoRefund  BY DEF Init
<1>2. refund \in [Keys -> RefundRow] /\ refunded \in [Payments -> Nat]
  BY DEF Init, RefundRow, NoRefund
<1>3. \A p \in Payments : Total(Counted(p)) \in Nat
  BY MoneyFinite DEF Counted, TxsOf
<1>4. \A k \in Keys, t \in Txs : NamesRefund(k, t)
  BY <1>1, TxsAssumption DEF NamesRefund, NoRefund
<1>5. \A p \in Payments : refunded[p] <= Total(Counted(p))  BY <1>3 DEF Init
<1>. QED  BY <1>1, <1>2, <1>4, <1>5 DEF RefundsInv, Init, Unseen, NoRefund

LEMMA ResolvedIsOurs ==
    ASSUME RefundsInv, NEW t \in Txs, Resolved(t) # Nobody
    PROVE  Resolved(t) = PaymentOf[t] /\ PaymentOf[t] \in Payments
BY TxsAssumption DEF RefundsInv, Resolved

\* A step that leaves the refunds alone: the ledger learns a payment's transactions,
\* and the provider goes on.
LEMMA RefundsStand ==
    ASSUME RefundsInv, UNCHANGED <<refund, refunded>>,
           DOMAIN ledger' = Txs, DOMAIN provider' = Txs,
           \A t \in Txs : ledger'[t].pay \in {Nobody, PaymentOf[t]},
           \A t \in Txs : provider[t] # "none" => provider'[t] # "none",
           \A t \in Txs : provider[t] = "succeeded" => provider'[t] = "succeeded"
    PROVE  RefundsInv'
<1>1. \A k \in Keys, t \in Txs : NamesRefund(k, t)'  BY DEF RefundsInv, NamesRefund
<1>2. \A p \in Payments : Counted(p)' = Counted(p)  BY DEF Counted, TxsOf
<1>3. \A p \in Payments : Total(Counted(p))' = Total(Counted(p))  BY <1>2 DEF Total, Piastres
<1>. QED  BY <1>1, <1>3 DEF RefundsInv

\* One row gets to name t, or tells more of it, and its money is counted with it.
LEMMA RefundTold ==
    ASSUME RefundsInv, NEW p \in Payments, NEW t \in TxsOf(p, "refund"), NEW k \in Keys, NEW row \in RefundRow,
           refund' = [refund EXCEPT ![k] = row],
           refunded' = [refunded EXCEPT ![p] = refunded'[p]], refunded'[p] \in Nat,
           DOMAIN ledger' = Txs, DOMAIN provider' = Txs,
           \A u \in Txs : ledger'[u].pay \in {Nobody, PaymentOf[u]},
           \A u \in Txs : u # t => provider'[u] = provider[u],
           \A j \in Keys : refund[j].ref = t => j = k,
           refund[k].status = "succeeded" => refund[k].ref = t /\ row.status = "succeeded",
           row.ref = Nobody => row.status # "succeeded",
           row.ref \in {Nobody, t},
           row.ref = t => /\ provider'[t] # "none" /\ row.amount = Amount[t] /\ row.pay = PaymentOf[t]
                          /\ row.status = "succeeded" => provider'[t] = "succeeded",
           \/ row.status = refund[k].status /\ refunded'[p] = refunded[p]
           \/ row.status # "succeeded" /\ refunded'[p] = refunded[p]
           \/ /\ row.status = "succeeded" /\ refund[k].status # "succeeded"
              /\ refunded'[p] <= refunded[p] + Amount[t]
    PROVE  RefundsInv'
<1>1. t \in Txs /\ PaymentOf[t] = p /\ Kind[t] = "refund"  BY DEF TxsOf
<1>2. refund' \in [Keys -> RefundRow] /\ refund'[k] = row /\ \A j \in Keys : j # k => refund'[j] = refund[j]
  BY DEF RefundsInv
<1>3. refunded' \in [Payments -> Nat] /\ \A q \in Payments : q # p => refunded'[q] = refunded[q]
  BY DEF RefundsInv
<1>4. \A j \in Keys, u \in Txs : NamesRefund(j, u)'
  <2>. SUFFICES ASSUME NEW j \in Keys, NEW u \in Txs, refund'[j].ref = u PROVE NamesRefund(j, u)'
    BY DEF NamesRefund
  <2>1. CASE j = k
    <3>1. u = t /\ row.ref = t  BY <1>2, <2>1, TxsAssumption
    <3>2. \A i \in Keys : refund'[i].ref = t => i = k  BY <1>2
    <3>. QED  BY <1>1, <1>2, <2>1, <3>1, <3>2 DEF NamesRefund
  <2>2. CASE j # k
    <3>1. refund'[j] = refund[j] /\ u # t  BY <1>2, <2>2
    <3>2. NamesRefund(j, u)  BY DEF RefundsInv
    <3>3. \A i \in Keys : refund'[i].ref = u => i = j
      BY <1>2, <3>1, <3>2, TxsAssumption DEF NamesRefund
    <3>. QED  BY <3>1, <3>2, <3>3 DEF NamesRefund
  <2>. QED  BY <2>1, <2>2
<1>5. \A j \in Keys : refund'[j].status = "succeeded" => refund'[j].ref # Nobody
  BY <1>2 DEF RefundsInv
<1>6. \A q \in Payments : refunded'[q] <= Total(Counted(q))'
  <2>. SUFFICES ASSUME NEW q \in Payments PROVE refunded'[q] <= Total(Counted(q))'  OBVIOUS
  <2>. DEFINE then == Counted(q)'
  <2>1. Total(Counted(q))' = Total(then)  BY DEF Total, Piastres
  <2>2. /\ refunded[q] <= Total(Counted(q)) /\ refunded[q] \in Nat
        /\ Counted(q) \in SUBSET Txs
    BY DEF RefundsInv, Counted, TxsOf
  <2>3. \A u \in TxsOf(q, "refund") : u # t => (u \in Counted(q)' <=> u \in Counted(q))
    BY <1>2, TxsAssumption DEF Counted, TxsOf
  <2>4. CASE q # p
    <3>1. Counted(q)' = Counted(q)  BY <1>1, <2>3, <2>4 DEF Counted, TxsOf
    <3>. QED  BY <1>3, <2>1, <2>2, <2>4, <3>1
  <2>5. CASE q = p /\ t \in Counted(p)
    <3>1. refund[k].status = "succeeded" /\ row.status = "succeeded" /\ row.ref = t
      BY <2>5 DEF Counted
    <3>2. t \in Counted(p)'  BY <1>2, <3>1 DEF Counted, TxsOf
    <3>3. Counted(p)' = Counted(p)  BY <2>3, <2>5, <3>2 DEF Counted, TxsOf
    <3>. QED  BY <2>1, <2>2, <2>5, <3>1, <3>3
  <2>6. CASE q = p /\ t \notin Counted(p) /\ t \notin Counted(p)'
    <3>1. Counted(p)' = Counted(p)  BY <2>3, <2>6 DEF Counted, TxsOf
    <3>2. refunded'[p] = refunded[p]
      BY <1>1, <1>2, <2>6, TxsAssumption DEF Counted, TxsOf
    <3>. QED  BY <2>1, <2>2, <2>6, <3>1, <3>2
  <2>7. CASE q = p /\ t \notin Counted(p) /\ t \in Counted(p)'
    <3>1. Counted(p)' = Counted(p) \cup {t}  BY <2>3, <2>7 DEF Counted, TxsOf
    <3>2. Total(Counted(p) \cup {t}) = Total(Counted(p)) + Amount[t]
      BY <1>1, <2>2, <2>7, MoneyOfOneMore
    <3>3. Total(Counted(p)) \in Nat /\ Amount[t] \in Nat
      BY <1>1, <2>2, <2>7, MoneyFinite, MoneyAssumption
    <3>. QED  BY <2>1, <2>2, <2>7, <3>1, <3>2, <3>3
  <2>. QED  BY <2>4, <2>5, <2>6, <2>7
<1>. QED  BY <1>2, <1>3, <1>4, <1>5, <1>6 DEF RefundsInv

LEMMA LedgerLearns ==
    ASSUME RefundsInv, NEW t \in Txs, NEW s, NEW p \in {Nobody, PaymentOf[t]}, Record(t, s, p)
    PROVE  DOMAIN ledger' = Txs /\ \A u \in Txs : ledger'[u].pay \in {Nobody, PaymentOf[u]}
<1>. DEFINE row == [state |-> s, pay |-> p]
<1>1. row.pay = p  OBVIOUS
<1>2. ledger' = [ledger EXCEPT ![t] = row]  BY DEF Record
<1>. HIDE DEF row
<1>. QED  BY <1>1, <1>2 DEF RefundsInv

LEMMA StepProvider ==
    ASSUME RefundsInv, NEW t \in Txs, NEW s \in States, ProviderStarts(t, s) \/ ProviderSettles(t, s)
    PROVE  RefundsInv'
<1>1. /\ UNCHANGED <<refund, refunded, ledger>> /\ provider[t] \in {"none", "pending"}
      /\ provider' = [provider EXCEPT ![t] = s]
  BY DEF ProviderStarts, ProviderSettles
<1>2. /\ DOMAIN provider' = Txs /\ provider'[t] # "none"
      /\ \A u \in Txs : u # t => provider'[u] = provider[u]
  BY <1>1 DEF RefundsInv, States
<1>3. \A u \in Txs : provider[u] # "none" => provider'[u] # "none"  BY <1>2
<1>4. \A u \in Txs : provider[u] = "succeeded" => provider'[u] = "succeeded"  BY <1>1, <1>2
<1>5. DOMAIN ledger' = Txs /\ \A u \in Txs : ledger'[u].pay \in {Nobody, PaymentOf[u]}
  BY <1>1 DEF RefundsInv
<1>. QED  BY <1>1, <1>2, <1>3, <1>4, <1>5, RefundsStand

LEMMA StepIngestRefund ==
    ASSUME RefundsInv, NEW t \in Txs, NEW s \in States, IngestRefund(t, s)
    PROVE  RefundsInv'
<1>. DEFINE p == PaymentOf[t]
            known == RefundsOf(p, t) # {}
            k == CHOOSE j \in Keys : j \in RefundsOf(p, t)
            back == IF known /\ Confirms(k, s) THEN AtMost(refunded[p] + refund[k].amount, p)
                    ELSE refunded[p]
<1>1. Resolved(t) = p /\ p \in Payments
  BY ResolvedIsOurs DEF IngestRefund
<1>2. /\ Called(t, s) /\ Kind[t] = "refund" /\ Record(t, s, p) /\ UNCHANGED provider
      /\ refund' = IF known /\ s # "pending" THEN [refund EXCEPT ![k].status = s] ELSE refund
      /\ refunded' = [refunded EXCEPT ![p] = back]
  BY <1>1 DEF IngestRefund
<1>3. DOMAIN ledger' = Txs /\ \A u \in Txs : ledger'[u].pay \in {Nobody, PaymentOf[u]}
  BY <1>2, LedgerLearns
<1>4. t \in TxsOf(p, "refund")  BY <1>2 DEF TxsOf
<1>5. CASE ~known \/ s = "pending"
  <2>1. back = refunded[p]  BY <1>5 DEF Confirms
  <2>2. refund' = refund /\ refunded' = refunded  BY <1>2, <1>5, <2>1 DEF RefundsInv
  <2>3. DOMAIN provider' = Txs  BY <1>2 DEF RefundsInv
  <2>. QED  BY <1>2, <1>3, <2>2, <2>3, RefundsStand
<1>6. CASE known /\ s # "pending"
  <2>1. k \in Keys /\ refund[k].ref = t  BY <1>6 DEF RefundsOf
  <2>2. /\ refund[k] \in RefundRow /\ NamesRefund(k, t) /\ refund' = [refund EXCEPT ![k].status = s]
        /\ provider[t] = s
    BY <1>2, <1>6, <2>1 DEF RefundsInv, Called
  <2>3. PICK row \in RefundRow : row = [refund[k] EXCEPT !.status = s]
    BY <1>6, <2>2 DEF RefundRow, States
  <2>4. row.status = s /\ row.ref = t /\ row.amount = refund[k].amount /\ row.pay = refund[k].pay
    BY <2>1, <2>2, <2>3 DEF RefundRow
  <2>5. refund' = [refund EXCEPT ![k] = row]  BY <2>2, <2>3
  <2>6. back \in Nat /\ back <= refunded[p] + Amount[t]
        /\ (s # "succeeded" \/ refund[k].status = "succeeded" => back = refunded[p])
    <3>1. refund[k].amount = Amount[t]  BY <2>1, <2>2 DEF NamesRefund
    <3>2. refunded[p] \in Nat /\ Amount[t] \in Nat /\ Price[p] \in Nat
      BY <1>1, MoneyAssumption DEF RefundsInv
    <3>3. /\ AtMost(refunded[p] + Amount[t], p) \in Nat
          /\ AtMost(refunded[p] + Amount[t], p) <= refunded[p] + Amount[t]
      BY <3>2 DEF AtMost
    <3>. QED  BY <3>1, <3>2, <3>3 DEF Confirms
  <2>7. refund[k].status = "succeeded" => s = "succeeded"
    BY <2>1, <2>2 DEF NamesRefund
  <2>. HIDE DEF k, back
  <2>8. refunded'[p] = back /\ refunded' = [refunded EXCEPT ![p] = refunded'[p]]
    BY <1>1, <1>2 DEF RefundsInv
  <2>9. \A j \in Keys : refund[j].ref = t => j = k  BY <2>1, <2>2 DEF NamesRefund
  <2>10. row.amount = Amount[t] /\ row.pay = PaymentOf[t] /\ provider'[t] # "none"
         /\ (row.status = "succeeded" => provider'[t] = "succeeded")
    BY <1>2, <2>1, <2>2, <2>4 DEF NamesRefund
  <2>11. t # Nobody  BY TxsAssumption
  <2>12. \/ row.status = refund[k].status /\ refunded'[p] = refunded[p]
         \/ row.status # "succeeded" /\ refunded'[p] = refunded[p]
         \/ /\ row.status = "succeeded" /\ refund[k].status # "succeeded"
            /\ refunded'[p] <= refunded[p] + Amount[t]
    BY <2>4, <2>6, <2>8
  <2>13. DOMAIN provider' = Txs /\ \A u \in Txs : u # t => provider'[u] = provider[u]
    BY <1>2 DEF RefundsInv
  <2>14. /\ refund[k].status = "succeeded" => row.status = "succeeded"
         /\ row.ref = Nobody => row.status # "succeeded"
         /\ row.ref \in {Nobody, t} /\ refund[k].ref = t /\ refunded'[p] \in Nat
    BY <2>1, <2>4, <2>6, <2>7, <2>8, <2>11
  <2>15. row \in RefundRow  BY <2>3
  <2>. HIDE DEF p
  <2>. QED  BY <1>1, <1>3, <1>4, <2>1, <2>5, <2>8, <2>9, <2>10, <2>12, <2>13, <2>14, <2>15, RefundTold
<1>. QED  BY <1>5, <1>6

LEMMA StepCreateRefund ==
    ASSUME RefundsInv, "accepted" \notin Answers, NEW p \in Payments, NEW k \in Keys, NEW t \in Txs,
           NEW answer \in Answers, CreateRefund(p, k, t, answer)
    PROVE  RefundsInv'
<1>1. /\ refund[k].status = "none" /\ t \in TxsOf(p, "refund") /\ provider[t] = "none"
      /\ provider' = [provider EXCEPT ![t] = StateOf[answer]] /\ UNCHANGED ledger
  BY DEF CreateRefund
<1>2. PICK state \in {"none", "pending", "succeeded"} : state = StateOf[answer]
  BY AnswersAssumption DEF StateOf
<1>3. /\ DOMAIN provider' = Txs /\ provider'[t] = state
      /\ \A u \in Txs : u # t => provider'[u] = provider[u]
  BY <1>1, <1>2 DEF RefundsInv
<1>4. DOMAIN ledger' = Txs /\ \A u \in Txs : ledger'[u].pay \in {Nobody, PaymentOf[u]}
  BY <1>1 DEF RefundsInv
<1>5. \A j \in Keys : refund[j].ref # t  BY <1>1 DEF RefundsInv, NamesRefund
<1>6. CASE answer = "lost"
  <2>1. UNCHANGED <<refund, refunded>>  BY <1>6 DEF CreateRefund
  <2>2. \A u \in Txs : provider[u] # "none" => provider'[u] # "none"  BY <1>1, <1>3
  <2>3. \A u \in Txs : provider[u] = "succeeded" => provider'[u] = "succeeded"  BY <1>1, <1>3
  <2>. QED  BY <1>3, <1>4, <2>1, <2>2, <2>3, RefundsStand
<1>7. CASE answer # "lost"
  <2>1. answer \in {"succeeded", "submitted", "declined"}
    BY <1>7, AnswersAssumption
  <2>2. PICK status \in {"succeeded", "failed"}, ref \in {Nobody, t} :
           /\ status = StatusOf[answer] /\ ref = IF answer = "declined" THEN Nobody ELSE t
           /\ status = "succeeded" <=> answer = "succeeded"
    BY <2>1 DEF StatusOf
  <2>3. /\ ref = Nobody => status # "succeeded"
        /\ ref = t => state # "none"
        /\ status = "succeeded" => state = "succeeded"
    <3>1. t # Nobody  BY TxsAssumption
    <3>. QED  BY <1>2, <2>1, <2>2, <3>1 DEF StateOf
  <2>4. Amount[t] \in Nat /\ PaymentOf[t] = p /\ refunded[p] \in Nat
    BY <1>1, MoneyAssumption DEF TxsOf, RefundsInv
  <2>5. PICK row : row = [status |-> status, pay |-> p, amount |-> Amount[t], ref |-> ref]
    OBVIOUS
  <2>. DEFINE more == IF status = "succeeded" THEN refunded[p] + Amount[t] ELSE refunded[p]
  <2>6. row \in RefundRow /\ row.status = status /\ row.ref = ref /\ row.pay = p /\ row.amount = Amount[t]
    BY <2>2, <2>4, <2>5 DEF RefundRow
  <2>7. more \in Nat /\ more <= refunded[p] + Amount[t] /\ (status # "succeeded" => more = refunded[p])
    BY <2>4
  <2>8. refund' = [refund EXCEPT ![k] = row] /\ refunded' = [refunded EXCEPT ![p] = more]
    BY <1>7, <2>2, <2>5 DEF CreateRefund
  <2>. HIDE DEF more
  <2>9. refunded'[p] = more /\ refunded' = [refunded EXCEPT ![p] = refunded'[p]]
    BY <2>8 DEF RefundsInv
  <2>10. \/ row.status # "succeeded" /\ refunded'[p] = refunded[p]
        \/ /\ row.status = "succeeded" /\ refund[k].status # "succeeded"
           /\ refunded'[p] <= refunded[p] + Amount[t]
    BY <1>1, <2>6, <2>7, <2>9
  <2>11. row.ref = t => /\ provider'[t] # "none" /\ row.amount = Amount[t] /\ row.pay = PaymentOf[t]
                        /\ row.status = "succeeded" => provider'[t] = "succeeded"
    BY <1>3, <2>3, <2>4, <2>6
  <2>12. /\ row.ref = Nobody => row.status # "succeeded"
         /\ row.ref \in {Nobody, t} /\ refunded'[p] \in Nat 
    BY <1>1, <2>2, <2>3, <2>6, <2>7, <2>9
  <2>13. /\ \A j \in Keys : refund[j].ref = t => j = k
         /\ refund[k].status = "succeeded" => refund[k].ref = t /\ row.status = "succeeded"
         /\ DOMAIN provider' = Txs /\ \A u \in Txs : u # t => provider'[u] = provider[u]
    BY <1>1, <1>3, <1>5
  <2>14. \/ row.status = refund[k].status /\ refunded'[p] = refunded[p]
         \/ row.status # "succeeded" /\ refunded'[p] = refunded[p]
         \/ /\ row.status = "succeeded" /\ refund[k].status # "succeeded"
            /\ refunded'[p] <= refunded[p] + Amount[t]
    BY <2>10
  <2>15. row \in RefundRow /\ refund' = [refund EXCEPT ![k] = row] /\ t \in TxsOf(p, "refund")
    BY <1>1, <2>6, <2>8
  <2>. QED
    BY <1>4, <2>9, <2>11, <2>12, <2>13, <2>14, <2>15, RefundTold
<1>. QED  BY <1>6, <1>7

LEMMA StepRefunds ==
    ASSUME "accepted" \notin Answers, RefundsInv, [Next]_prVars
    PROVE  RefundsInv'
<1>1. CASE UNCHANGED <<refund, refunded, provider, ledger>>
  BY <1>1, RefundsStand DEF RefundsInv
<1>2. ASSUME NEW t \in Txs, NEW s \in States, IngestUnmatched(t, s) \/ IngestPayment(t, s) \/ IngestVoid(t, s)
      PROVE  RefundsInv'
  <2>1. PICK p \in {Nobody, PaymentOf[t]} : Record(t, s, p) /\ UNCHANGED <<refund, refunded, provider>>
    BY <1>2, ResolvedIsOurs DEF IngestUnmatched, IngestPayment, IngestVoid
  <2>2. DOMAIN ledger' = Txs /\ \A u \in Txs : ledger'[u].pay \in {Nobody, PaymentOf[u]}
    BY <2>1, LedgerLearns
  <2>. QED  BY <2>1, <2>2, RefundsStand DEF RefundsInv
<1>3. CASE \/ \E t \in Txs : RefuseLateSuccess(t)
           \/ Reconcile
           \/ \E t \in Txs, y \in Types : ResolveIssue(t, y)
           \/ \E o \in Orders : EndHold(o) \/ ExpireOrder(o)
           \/ \E p \in Payments : ExpirePayment(p)
  BY <1>1, <1>3 DEF RefuseLateSuccess, Reconcile, ResolveIssue, EndHold, ExpireOrder, ExpirePayment
<1>4. CASE UNCHANGED prVars  BY <1>1, <1>4 DEF prVars
<1>. QED
  BY <1>2, <1>3, <1>4, StepProvider, StepIngestRefund, StepCreateRefund DEF Next

LEMMA CountedWasReturned == RefundsInv => RefundedWasReturned
<1>. SUFFICES ASSUME RefundsInv, NEW p \in Payments
              PROVE  refunded[p] <= Total({t \in TxsOf(p, "refund") : provider[t] = "succeeded"})
  BY DEF RefundedWasReturned
<1>. DEFINE Back == {t \in TxsOf(p, "refund") : provider[t] = "succeeded"}
<1>1. Counted(p) \in SUBSET Back /\ Back \in SUBSET Txs
  BY DEF Counted, TxsOf, RefundsInv, NamesRefund
<1>2. Total(Counted(p)) <= Total(Back) /\ Total(Counted(p)) \in Nat /\ Total(Back) \in Nat
  <2>. HIDE DEF Back
  <2>. QED  BY <1>1, MoneyMonotone, MoneyFinite
<1>3. refunded[p] <= Total(Counted(p)) /\ refunded[p] \in Nat  BY DEF RefundsInv
<1>. QED  BY <1>2, <1>3

\* However the answers of refund requests and the callbacks about them are repeated,
\* lost or reordered, for any payments and amounts: Baytna never counts more money as
\* returned than the provider returned, as long as the provider reports no refund
\* done that is still pending.
THEOREM RefundsWereReturned ==
    ASSUME "accepted" \notin Answers
    PROVE  LoadsSpec => []RefundedWasReturned
<1>1. LoadsInit => RefundsInv  BY InitRefunds DEF LoadsInit
<1>2. [LoadsNext]_<<load, prVars, settlementVars, budgetVars, sendVars>> => [Next]_prVars
  BY DEF LoadsNext
<1>3. RefundsInv /\ [LoadsNext]_<<load, prVars, settlementVars, budgetVars, sendVars>> => RefundsInv'
  BY <1>2, StepRefunds
<1>. QED  BY <1>1, <1>3, CountedWasReturned, PTL DEF LoadsSpec

-----------------------------------------------------------------------------
(* The books of the whole.                                                 *)

BooksSafe == BooksInv /\ BudgetInv

LEMMA BooksSafeIsHonest == BooksSafe => BooksHonest
<1>. SUFFICES ASSUME BooksSafe PROVE BooksHonest  OBVIOUS
<1>1. Settlements!FeesAllOrNothing
  BY DEF BooksSafe, BooksInv, Booked, Settlements!FeesAllOrNothing
<1>2. Settlements!ImportedCostsApproved
  <2>. SUFFICES ASSUME NEW i \in Imports, cost[i] > 0, DualControl
                PROVE  import[i].review = "approved" /\ import[i].reviewer # import[i].creator
    BY DEF Settlements!ImportedCostsApproved
  <2>1. cost[i] = 1  BY DEF BooksSafe, BooksInv
  <2>. QED  BY <2>1 DEF BooksSafe, BooksInv, Settlements!Approved
<1>3. Budget!EveryPurchaseCounted
  BY DEF BooksSafe, BudgetInv, Budget!EveryPurchaseCounted
<1>. QED  BY <1>1, <1>2, <1>3 DEF BooksHonest

LEMMA StepBooksSafe ==
    BooksSafe /\ [LoadsNext]_<<load, prVars, settlementVars, budgetVars, sendVars>> => BooksSafe'
<1>1. [LoadsNext]_<<load, prVars, settlementVars, budgetVars, sendVars>>
        => [Settlements!Next]_settlementVars /\ [Budget!Next]_budgetVars
  BY DEF LoadsNext
<1>. QED  BY <1>1, StepBooks, StepBudget DEF BooksSafe

\* Whatever files are made, reconciled and imported, by how many administrators
\* soever, and however money of a zone is moved: the books are honest.
THEOREM BooksAreHonest == LoadsSpec => []BooksHonest
<1>1. LoadsInit => BooksSafe
  BY InitBooks, InitBudget DEF LoadsInit, BooksSafe
<1>. QED  BY <1>1, StepBooksSafe, BooksSafeIsHonest, PTL DEF LoadsSpec
=============================================================================
