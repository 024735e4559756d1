------------------------ MODULE CustomerRowsProofs ------------------------
(***************************************************************************)
(* What customers keep.  Special orders, for any number of requests,       *)
(* dates, orders and payments, one handler at a time: the request, its     *)
(* order and its payments agree, and no handler overfills a date.  Then    *)
(* the carts, with any number of overlapping requests, and the address     *)
(* book, the ticket, the reviews, the points and the media, one request at *)
(* a time.                                                                 *)
(***************************************************************************)
EXTENDS MCCustomerRows, FiniteSetTheorems, WellFoundedInduction, TLAPS

OneHandler == Clients \subseteq {"worker"}

Statuses == ActiveStatuses \cup Closed \cup {"none"}
OrderStatuses == {"none", "pending_payment", "accepted_by_chef", "cancelled", "expired"}

RequestRow == [status : Statuses, requested : Dates \cup {None}, proposed : Dates \cup {None},
               final : Dates \cup {None}, offer : Int, order : OrderIds \cup {None}]
PaymentRow == [status : {"none", "pending", "failed", "succeeded"}, order : OrderIds \cup {None}]

(* The rows are parameters: an invariant is about those in the database and *)
(* about those that the open handler will commit.                           *)

RowTypes(q, o, p) ==
    q \in [Rows -> RequestRow] /\ o \in [OrderIds -> OrderStatuses] /\ p \in [Keys -> PaymentRow]

\* What a request of each status has decided.
Decided(q) ==
    \A s \in Rows :
        /\ q[s].status \in {"none", "chef_review", "counter_offer"} =>
             q[s].final = None /\ q[s].order = None
        /\ q[s].status \in {"none", "chef_review"} => q[s].proposed = None
        /\ q[s].status = "chef_review" => q[s].requested # None
        /\ q[s].status = "counter_offer" => q[s].proposed # None
        /\ q[s].status \in {"awaiting_payment", "scheduled"} => q[s].final # None
        /\ q[s].status = "rejected" => q[s].order = None

\* An order waits, is with the kitchen or is over as its request is.
OrderFollows(q, o) ==
    \A s \in Rows : q[s].order # None =>
        /\ q[s].status = "awaiting_payment" <=> o[q[s].order] = "pending_payment"
        /\ q[s].status = "scheduled" <=> o[q[s].order] = "accepted_by_chef"
        /\ o[q[s].order] # "none"

OneRequestPerOrder(q) ==
    \A s, t \in Rows : q[s].order # None /\ q[s].order = q[t].order => s = t

\* A payment is that of an order that was placed; the one that succeeded put it in
\* the kitchen.
PaymentFollows(o, p) ==
    /\ \A k \in Keys : p[k].status # "none" => p[k].order # None /\ o[p[k].order] # "none"
    /\ \A k \in Keys : p[k].status = "succeeded" => o[p[k].order] = "accepted_by_chef"
    /\ \A k, l \in Keys : p[k].status = "succeeded" /\ p[l].status = "succeeded"
                            /\ p[k].order = p[l].order => k = l

KitchenIsPaid(q, p) ==
    \A s \in Rows : q[s].status = "scheduled" /\ q[s].order # None =>
        \E k \in Keys : p[k].status = "succeeded" /\ p[k].order = q[s].order

RowsFit(q, o, p) ==
    /\ RowTypes(q, o, p) /\ Decided(q) /\ OrderFollows(q, o) /\ OneRequestPerOrder(q)
    /\ PaymentFollows(o, p) /\ KitchenIsPaid(q, p)

\* The requests of a date, when the rows are q.
DateOf(entry) ==
    CASE entry.final # None -> entry.final
      [] entry.final = None /\ entry.proposed # None -> entry.proposed
      [] OTHER -> entry.requested
PlacesIn(q, d) == {s \in Rows : q[s].status \in ActiveStatuses /\ DateOf(q[s]) = d}

CalendarTypes(w, v) ==
    /\ w \in [{WeekdayOf[d] : d \in Dates} -> Int]
    /\ v \in [Dates -> [open : BOOLEAN, cap : Int \cup {None}, set : BOOLEAN]]

\* A write set w, computed from the rows as they are, fits: the rows it leaves agree,
\* and it puts a request on a date only while the capacity that was read has room.
WritesFit(w) ==
    /\ RowsFit(Written(req, w.req), Over(w.ord, ord), Written(pay, w.pay))
    /\ CalendarTypes(Over(w.weekly, weekly), Over(w.override, override))
    /\ \A d \in Dates :
          \/ PlacesIn(Written(req, w.req), d) \subseteq PlacesIn(req, d)
          \/ /\ Cardinality(PlacesIn(Written(req, w.req), d)) <= Capacity(d)
             /\ w.weekly = <<>> /\ w.override = <<>>

TypesOK ==
    /\ txn = [r \in Slots |-> txn[r]]
    /\ clock \in Int
    /\ CalendarTypes(weekly, override)

RowsOK == RowsFit(req, ord, pay)

SpecialInv == TypesOK /\ RowsOK /\ (txn["worker"] # Idle => WritesFit(txn["worker"]))

-----------------------------------------------------------------------------
LEMMA OneSlot == ASSUME OneHandler PROVE Slots = {"worker"}
  BY DEF OneHandler, Slots

LEMMA NothingWritten ==
    ASSUME NEW table, table = [k \in DOMAIN table |-> table[k]]
    PROVE  Written(table, <<>>) = table /\ Over(<<>>, table) = table
  BY DEF Written, Over

Columns == {"status", "requested", "proposed", "final", "offer", "order"}

\* The new columns of a request over those it had.
LEMMA OverColumns ==
    ASSUME NEW entry \in RequestRow, NEW new, DOMAIN new \subseteq Columns
    PROVE  /\ entry = [k \in Columns |-> entry[k]]
           /\ Over(new, entry) = [k \in Columns |-> IF k \in DOMAIN new THEN new[k] ELSE entry[k]]
<1>1. entry = [k \in Columns |-> entry[k]]  BY DEF RequestRow, Columns
<1>2. DOMAIN entry = Columns  BY <1>1
<1>3. DOMAIN new \cup DOMAIN entry = Columns  BY <1>2
<1>. QED  BY <1>1, <1>3 DEF Over

LEMMA StatusOver ==
    ASSUME NEW entry \in RequestRow, NEW c
    PROVE  Over([status |-> c], entry) = [entry EXCEPT !.status = c]
  BY DEF Over, RequestRow

LEMMA OrderOver ==
    ASSUME NEW entry \in RequestRow, NEW o
    PROVE  Over([order |-> o], entry) = [entry EXCEPT !.order = o]
  BY DEF Over, RequestRow

LEMMA PaymentOver ==
    ASSUME NEW entry \in PaymentRow, NEW c, NEW o
    PROVE  /\ Over([status |-> c], entry) = [entry EXCEPT !.status = c]
           /\ Over([status |-> c, order |-> o], entry) = [status |-> c, order |-> o]
  BY DEF Over, PaymentRow

LEMMA InitSpecial == Init => SpecialInv
<1>. SUFFICES ASSUME Init PROVE SpecialInv  OBVIOUS
<1>1. RowsFit(req, ord, pay)
  BY DEF Init, RowsFit, RowTypes, RequestRow, PaymentRow, NoRequest, NoPayment, Statuses,
         OrderStatuses, Decided, OrderFollows, OneRequestPerOrder, PaymentFollows, KitchenIsPaid
<1>2. TypesOK  BY DEF Init, TypesOK, CalendarTypes, NoOverride
<1>. QED  BY <1>1, <1>2 DEF SpecialInv, RowsOK, Init, Slots

\* A handler that reads the rows and fits them keeps what it will commit.
LEMMA BeginFits ==
    ASSUME OneHandler, SpecialInv, NEW r \in Slots, NEW w, Begin(r, w), WritesFit(w)
    PROVE  SpecialInv'
<1>1. UNCHANGED <<clock, weekly, override, req, ord, pay>>  BY DEF Begin
<1>2. txn' = [x \in Slots |-> txn'[x]] /\ txn'["worker"] = w
  BY OneSlot DEF Begin, SpecialInv, TypesOK
<1>3. TypesOK'  BY <1>1, <1>2 DEF SpecialInv, TypesOK
<1>4. RowsOK'  BY <1>1 DEF SpecialInv, RowsOK
<1>5. \A d : Capacity(d)' = Capacity(d)  BY <1>1 DEF Capacity
<1>6. WritesFit(txn["worker"])'  BY <1>1, <1>2, <1>5 DEF WritesFit
<1>. QED  BY <1>3, <1>4, <1>6 DEF SpecialInv

LEMMA CommitFits ==
    ASSUME OneHandler, SpecialInv, NEW r \in Slots, Commit(r)
    PROVE  /\ SpecialInv'
           /\ \/ UNCHANGED <<weekly, override, req>>
              \/ LET w == txn["worker"]
                 IN /\ WritesFit(w) /\ req' = Written(req, w.req)
                    /\ weekly' = Over(w.weekly, weekly)
                    /\ override' = Over(w.override, override)
<1>1. r = "worker" /\ WritesFit(txn[r])  BY OneSlot DEF Commit, SpecialInv
<1>2. txn' = [x \in Slots |-> Idle]  BY <1>1, OneSlot DEF Commit, SpecialInv, TypesOK
<1>3. CASE DuplicateKey(txn[r])
  <2>1. UNCHANGED <<clock, weekly, override, req, ord, pay>>  BY <1>3 DEF Commit
  <2>2. TypesOK' /\ RowsOK'  BY <1>2, <2>1 DEF SpecialInv, TypesOK, RowsOK
  <2>. QED  BY <1>2, <2>1, <2>2, OneSlot DEF SpecialInv
<1>4. CASE ~DuplicateKey(txn[r])
  <2>1. /\ req' = Written(req, txn[r].req) /\ ord' = Over(txn[r].ord, ord)
        /\ pay' = Written(pay, txn[r].pay) /\ clock' = clock
        /\ weekly' = Over(txn[r].weekly, weekly) /\ override' = Over(txn[r].override, override)
    BY <1>4 DEF Commit
  <2>2. RowsOK'  BY <1>1, <2>1 DEF WritesFit, RowsOK
  <2>3. TypesOK'  BY <1>1, <1>2, <2>1 DEF SpecialInv, TypesOK, WritesFit
  <2>. QED  BY <1>1, <1>2, <2>1, <2>2, <2>3, OneSlot DEF SpecialInv
<1>. QED  BY <1>3, <1>4

-----------------------------------------------------------------------------
\* The rows of requests after a write to those of S.
LEMMA StatusWritten ==
    ASSUME RowsOK, NEW S \in SUBSET Rows, NEW c, NEW W,
           DOMAIN W = S, \A s \in S : W[s] = [status |-> c]
    PROVE  /\ Written(req, W) = [s \in Rows |-> Written(req, W)[s]]
           /\ \A s \in Rows : Written(req, W)[s]
                                = IF s \in S THEN [req[s] EXCEPT !.status = c] ELSE req[s]
<1>1. \A s \in Rows : req[s] \in RequestRow  BY DEF RowsOK, RowsFit, RowTypes
<1>2. \A s \in Rows : Over([status |-> c], req[s]) = [req[s] EXCEPT !.status = c]
  BY <1>1, StatusOver
<1>. QED  BY <1>2 DEF Written, RowsOK, RowsFit, RowTypes

LEMMA NoneWritten ==
    ASSUME RowsOK, TypesOK
    PROVE  /\ Written(req, <<>>) = req /\ Over(<<>>, ord) = ord /\ Written(pay, <<>>) = pay
           /\ Over(<<>>, weekly) = weekly /\ Over(<<>>, override) = override
  BY NothingWritten DEF RowsOK, RowsFit, RowTypes, TypesOK, CalendarTypes

LEMMA CapacityIsNumber == ASSUME TypesOK, NEW d \in Dates PROVE Capacity(d) \in Int
<1>1. weekly[WeekdayOf[d]] \in Int  BY DEF TypesOK, CalendarTypes
<1>2. override[d].cap \in Int \cup {None} /\ override[d].set \in BOOLEAN
      /\ override[d].open \in BOOLEAN
  BY DEF TypesOK, CalendarTypes
<1>. QED  BY <1>1, <1>2 DEF Capacity

LEMMA PlacesAreUsed ==
    /\ \A d, s : UsedBy({s}, d) = PlacesIn(req, d) \ {s}
    /\ \A d : UsedBy({}, d) = PlacesIn(req, d)
  BY DEF UsedBy, PlacesIn, EffectiveDate, DateOf

\* The chef's edits of the calendar write no request.
LEMMA UpsertFits ==
    ASSUME SpecialInv, NEW w, w.req = <<>>, w.ord = <<>>, w.pay = <<>>,
           CalendarTypes(Over(w.weekly, weekly), Over(w.override, override))
    PROVE  WritesFit(w)
  BY NoneWritten DEF SpecialInv, RowsOK, WritesFit

\* A request that moves on in the negotiation, to a date that has room.
LEMMA MoveFits ==
    ASSUME SpecialInv, NEW s \in Rows, NEW cols, NEW entry \in RequestRow, NEW d \in Dates, NEW w,
           w.req = Only(s, cols), w.ord = <<>>, w.pay = <<>>,
           w.weekly = <<>>, w.override = <<>>,
           Over(cols, req[s]) = entry, Schedulable(d, s),
           req[s].order = None, entry.order = None,
           entry.status \in {"chef_review", "counter_offer", "awaiting_payment"},
           entry.status \in {"chef_review", "counter_offer"} => entry.final = None,
           entry.status = "chef_review" => entry.proposed = None /\ entry.requested = d,
           entry.status = "counter_offer" => entry.proposed = d,
           entry.status = "awaiting_payment" => entry.final = d
    PROVE  WritesFit(w)
<1>. DEFINE q == Written(req, w.req)
<1>1. q = [t \in Rows |-> IF t = s THEN entry ELSE req[t]]
  BY DEF Written, Only, SpecialInv, RowsOK, RowsFit, RowTypes
<1>2. /\ Over(w.ord, ord) = ord /\ Written(pay, w.pay) = pay
      /\ CalendarTypes(Over(w.weekly, weekly), Over(w.override, override))
  BY NoneWritten DEF SpecialInv, TypesOK
<1>3. RowsFit(req, ord, pay)  BY DEF SpecialInv, RowsOK
<1>4. RowTypes(q, ord, pay)  BY <1>1, <1>3 DEF RowsFit, RowTypes
<1>5. d # None  BY NullAssumption
<1>. HIDE DEF q
<1>6. Decided(q)  BY <1>1, <1>3, <1>5 DEF RowsFit, Decided
<1>7. OrderFollows(q, ord)  BY <1>1, <1>3 DEF RowsFit, OrderFollows
<1>8. OneRequestPerOrder(q)  BY <1>1, <1>3 DEF RowsFit, OneRequestPerOrder
<1>9. KitchenIsPaid(q, pay)  BY <1>1, <1>3 DEF RowsFit, KitchenIsPaid
<1>10. RowsFit(q, ord, pay)  BY <1>3, <1>4, <1>6, <1>7, <1>8, <1>9 DEF RowsFit
<1>11. ASSUME NEW e \in Dates, e # d PROVE PlacesIn(q, e) \subseteq PlacesIn(req, e)
  <2>1. DateOf(entry) = d  BY <1>5 DEF DateOf
  <2>. QED  BY <1>1, <1>11, <2>1 DEF PlacesIn
<1>12. Cardinality(PlacesIn(q, d)) <= Capacity(d)
  <2>1. IsFiniteSet(UsedBy({s}, d)) /\ Cardinality(UsedBy({s}, d)) \in Nat
    BY RowsAssumption, FS_Subset, FS_CardinalityType DEF UsedBy
  <2>2. PlacesIn(q, d) \subseteq UsedBy({s}, d) \cup {s}
    BY <1>1 DEF PlacesIn, DateOf, UsedBy, EffectiveDate
  <2>3. /\ IsFiniteSet(UsedBy({s}, d) \cup {s})
        /\ Cardinality(UsedBy({s}, d) \cup {s}) = Cardinality(UsedBy({s}, d)) + 1
    <3>1. s \notin UsedBy({s}, d)  BY DEF UsedBy
    <3>. QED  BY <2>1, <3>1, FS_AddElement
  <2>4. /\ Cardinality(PlacesIn(q, d)) \in Nat
        /\ Cardinality(PlacesIn(q, d)) <= Cardinality(UsedBy({s}, d)) + 1
    BY <2>2, <2>3, FS_Subset, FS_CardinalityType
  <2>5. Cardinality(UsedBy({s}, d)) < Capacity(d)  BY DEF Schedulable
  <2>6. Capacity(d) \in Int  BY CapacityIsNumber DEF SpecialInv
  <2>. QED  BY <2>1, <2>4, <2>5, <2>6
<1>. QED  BY <1>2, <1>10, <1>11, <1>12 DEF WritesFit, q

\* The write set w gives the requests of S the status c and nothing else.
Ends(w, S, c) ==
    /\ w.pay = <<>> /\ w.weekly = <<>> /\ w.override = <<>>
    /\ DOMAIN w.req = S /\ \A s \in S : w.req[s] = [status |-> c]
    /\ \A s \in S : req[s].status \in {"chef_review", "counter_offer", "awaiting_payment"}

\* It gives the orders of X, which wait for the payment of the requests of S, the
\* status e.
OrdersEnd(w, S, X, e) ==
    /\ Over(w.ord, ord) = [o \in OrderIds |-> IF o \in X THEN e ELSE ord[o]]
    /\ \A o \in X : ord[o] = "pending_payment"
    /\ \A s \in Rows : req[s].order # None => (s \in S <=> req[s].order \in X)

\* Requests that end, and the orders that waited for their payment with them.
LEMMA CloseFits ==
    ASSUME SpecialInv, NEW S \in SUBSET Rows, NEW X \in SUBSET OrderIds, NEW c \in Closed,
           NEW e \in {"cancelled", "expired"}, NEW w, Ends(w, S, c), OrdersEnd(w, S, X, e),
           c = "rejected" => \A s \in S : req[s].order = None
    PROVE  WritesFit(w)
<1>. DEFINE q == Written(req, w.req)
            x == Over(w.ord, ord)
<1>1. /\ q = [s \in Rows |-> q[s]]
      /\ \A s \in Rows : q[s] = IF s \in S THEN [req[s] EXCEPT !.status = c] ELSE req[s]
  BY StatusWritten DEF SpecialInv, Ends
<1>2. /\ Written(pay, w.pay) = pay
      /\ CalendarTypes(Over(w.weekly, weekly), Over(w.override, override))
  BY NoneWritten DEF SpecialInv, TypesOK, Ends
<1>3. RowsFit(req, ord, pay)  BY DEF SpecialInv, RowsOK
<1>4. x = [o \in OrderIds |-> IF o \in X THEN e ELSE ord[o]]  BY DEF OrdersEnd
<1>5. c \in {"rejected", "cancelled", "expired"}  BY DEF Closed
<1>. HIDE DEF q, x
<1>6. \A s \in Rows : req[s] \in RequestRow  BY <1>3 DEF RowsFit, RowTypes
<1>7. \A s \in Rows : /\ q[s] \in RequestRow
                      /\ q[s].status = IF s \in S THEN c ELSE req[s].status
                      /\ q[s].order = req[s].order /\ q[s].final = req[s].final
                      /\ q[s].proposed = req[s].proposed /\ q[s].requested = req[s].requested
  BY <1>1, <1>5, <1>6 DEF RequestRow, Statuses, Closed
<1>8. RowTypes(q, x, pay)
  BY <1>1, <1>3, <1>4, <1>7 DEF RowsFit, RowTypes, OrderStatuses
<1>9. Decided(q)  BY <1>3, <1>5, <1>7 DEF RowsFit, Decided, Ends
<1>10. \A s \in Rows : req[s].order # None => req[s].order \in OrderIds
  BY <1>6 DEF RequestRow
<1>11. OrderFollows(q, x)
  BY <1>3, <1>4, <1>5, <1>7, <1>10 DEF RowsFit, OrderFollows, OrdersEnd, Ends
<1>12. OneRequestPerOrder(q)  BY <1>3, <1>7 DEF RowsFit, OneRequestPerOrder
<1>13. PaymentFollows(x, pay)
  <2>1. \A k \in Keys : pay[k].order # None => pay[k].order \in OrderIds
    BY <1>3 DEF RowsFit, RowTypes, PaymentRow
  <2>. QED  BY <1>3, <1>4, <2>1 DEF RowsFit, PaymentFollows, OrdersEnd
<1>14. KitchenIsPaid(q, pay)  BY <1>3, <1>5, <1>7 DEF RowsFit, KitchenIsPaid, Ends, OrdersEnd
<1>15. \A d : PlacesIn(q, d) \subseteq PlacesIn(req, d)
  BY <1>5, <1>7 DEF PlacesIn, DateOf, ActiveStatuses, Closed, Ends
<1>. QED
  BY <1>2, <1>8, <1>9, <1>11, <1>12, <1>13, <1>14, <1>15 DEF WritesFit, RowsFit, q, x

\* checkout gives a request its order.
LEMMA CheckoutFits ==
    ASSUME SpecialInv, NEW s \in Rows, NEW o \in OrderIds, NEW w,
           req[s].status = "awaiting_payment", req[s].order = None, ord[o] = "none",
           w = [Change(s, [order |-> o]) EXCEPT !.ord = Only(o, "pending_payment")]
    PROVE  WritesFit(w)
<1>0. /\ w.req = Only(s, [order |-> o]) /\ w.ord = Only(o, "pending_payment")
      /\ w.pay = <<>> /\ w.weekly = <<>> /\ w.override = <<>>
  BY DEF Change, Idle
<1>. DEFINE q == Written(req, w.req)
            x == Over(w.ord, ord)
<1>1. RowsFit(req, ord, pay)  BY DEF SpecialInv, RowsOK
<1>2. \A t \in Rows : req[t] \in RequestRow  BY <1>1 DEF RowsFit, RowTypes
<1>3. Over([order |-> o], req[s]) = [req[s] EXCEPT !.order = o]  BY <1>2, OrderOver
<1>4. q = [t \in Rows |-> IF t = s THEN [req[s] EXCEPT !.order = o] ELSE req[t]]
  BY <1>0, <1>1, <1>3 DEF Written, Only, RowsFit, RowTypes
<1>5. x = [k \in OrderIds |-> IF k = o THEN "pending_payment" ELSE ord[k]]
  BY <1>0, <1>1 DEF Over, Only, RowsFit, RowTypes
<1>6. /\ Written(pay, w.pay) = pay
      /\ CalendarTypes(Over(w.weekly, weekly), Over(w.override, override))
  BY <1>0, NoneWritten DEF SpecialInv, TypesOK
<1>. HIDE DEF q, x
<1>7. \A t \in Rows : /\ q[t] \in RequestRow
                      /\ q[t].order = IF t = s THEN o ELSE req[t].order
                      /\ q[t].status = req[t].status /\ q[t].final = req[t].final
                      /\ q[t].proposed = req[t].proposed /\ q[t].requested = req[t].requested
  BY <1>2, <1>4 DEF RequestRow
<1>8. o # None  BY NullAssumption
<1>9. RowTypes(q, x, pay)
  BY <1>1, <1>4, <1>5, <1>7 DEF RowsFit, RowTypes, OrderStatuses
<1>10. Decided(q)  BY <1>1, <1>7 DEF RowsFit, Decided
<1>11. \A t \in Rows : req[t].order # o  BY <1>1, <1>8 DEF RowsFit, OrderFollows
<1>12. \A t \in Rows : req[t].order # None => req[t].order \in OrderIds
  BY <1>2 DEF RequestRow
<1>13. OrderFollows(q, x)
  BY <1>1, <1>5, <1>7, <1>11, <1>12 DEF RowsFit, OrderFollows
<1>14. OneRequestPerOrder(q)  BY <1>1, <1>7, <1>11 DEF RowsFit, OneRequestPerOrder
<1>15. PaymentFollows(x, pay)
  <2>1. \A k \in Keys : pay[k].order # None => pay[k].order \in OrderIds
    BY <1>1 DEF RowsFit, RowTypes, PaymentRow
  <2>. QED  BY <1>1, <1>5, <2>1 DEF RowsFit, PaymentFollows
<1>16. KitchenIsPaid(q, pay)  BY <1>1, <1>7 DEF RowsFit, KitchenIsPaid
<1>17. \A d : PlacesIn(q, d) \subseteq PlacesIn(req, d)  BY <1>7 DEF PlacesIn, DateOf
<1>. QED
  BY <1>6, <1>9, <1>10, <1>13, <1>14, <1>15, <1>16, <1>17 DEF WritesFit, RowsFit, q, x

\* A payment of an order that was placed, which did not succeed.
LEMMA UnpaidFits ==
    ASSUME SpecialInv, NEW k \in Keys, NEW entry \in PaymentRow, NEW w,
           w.req = <<>>, w.ord = <<>>, w.weekly = <<>>, w.override = <<>>,
           Written(pay, w.pay) = [pay EXCEPT ![k] = entry],
           entry.status \in {"pending", "failed"}, pay[k].status # "succeeded",
           entry.order # None, ord[entry.order] # "none"
    PROVE  WritesFit(w)
<1>1. RowsFit(req, ord, pay)  BY DEF SpecialInv, RowsOK
<1>2. /\ Written(req, w.req) = req /\ Over(w.ord, ord) = ord
      /\ CalendarTypes(Over(w.weekly, weekly), Over(w.override, override))
  BY NoneWritten DEF SpecialInv, TypesOK
<1>. DEFINE p == Written(pay, w.pay)
<1>3. p = [l \in Keys |-> IF l = k THEN entry ELSE pay[l]]
  BY <1>1 DEF RowsFit, RowTypes
<1>. HIDE DEF p
<1>4. RowTypes(req, ord, p)  BY <1>1, <1>3 DEF RowsFit, RowTypes
<1>5. PaymentFollows(ord, p)  BY <1>1, <1>3 DEF RowsFit, PaymentFollows
<1>6. KitchenIsPaid(req, p)  BY <1>1, <1>3 DEF RowsFit, KitchenIsPaid
<1>7. RowsFit(req, ord, p)  BY <1>1, <1>4, <1>5, <1>6 DEF RowsFit
<1>. QED  BY <1>2, <1>7 DEF WritesFit, p

\* A payment that succeeds schedules the one request of its order and sends the order
\* to the kitchen.
LEMMA SuccessFits ==
    ASSUME SpecialInv, NEW k \in Keys, pay[k].status \notin {"none", "succeeded"},
           Payable(pay[k].order), NEW w,
           w = [Idle EXCEPT !.req = [s \in RequestsOf(pay[k].order) |-> [status |-> "scheduled"]],
                            !.ord = Only(pay[k].order, "accepted_by_chef"),
                            !.pay = Only(k, [status |-> "succeeded"])]
    PROVE  WritesFit(w)
<1>. DEFINE o == pay[k].order
            q == Written(req, w.req)
            x == Over(w.ord, ord)
            p == Written(pay, w.pay)
<1>0. /\ w.req = [s \in RequestsOf(o) |-> [status |-> "scheduled"]]
      /\ w.ord = Only(o, "accepted_by_chef") /\ w.pay = Only(k, [status |-> "succeeded"])
      /\ w.weekly = <<>> /\ w.override = <<>>
  BY DEF Idle
<1>1. RowsFit(req, ord, pay)  BY DEF SpecialInv, RowsOK
<1>2. \A s \in Rows : req[s] \in RequestRow  BY <1>1 DEF RowsFit, RowTypes
<1>3. /\ o # None /\ ord[o] = "pending_payment"
      /\ \E s \in Rows : req[s].order = o /\ req[s].status = "awaiting_payment"
  BY <1>1 DEF Payable, RequestsOf, RowsFit, PaymentFollows
<1>4. \A l \in Keys : pay[l] \in PaymentRow  BY <1>1 DEF RowsFit, RowTypes
<1>5. o \in OrderIds  BY <1>3, <1>4 DEF PaymentRow
<1>6. PICK s \in Rows : req[s].order = o /\ req[s].status = "awaiting_payment"  BY <1>3
<1>7. RequestsOf(o) = {s}
  BY <1>1, <1>3, <1>6 DEF RequestsOf, RowsFit, OneRequestPerOrder
<1>8. /\ q = [t \in Rows |-> q[t]]
      /\ \A t \in Rows : q[t] = IF t = s THEN [req[t] EXCEPT !.status = "scheduled"] ELSE req[t]
  <2>1. DOMAIN w.req = {s} /\ \A t \in {s} : w.req[t] = [status |-> "scheduled"]
    BY <1>0, <1>7
  <2>2. Over([status |-> "scheduled"], req[s]) = [req[s] EXCEPT !.status = "scheduled"]
    BY <1>2, StatusOver
  <2>. QED  BY <1>1, <2>1, <2>2 DEF Written, RowsFit, RowTypes
<1>9. x = [l \in OrderIds |-> IF l = o THEN "accepted_by_chef" ELSE ord[l]]
  BY <1>0, <1>1, <1>5 DEF Over, Only, RowsFit, RowTypes
<1>10. p = [l \in Keys |-> IF l = k THEN [pay[k] EXCEPT !.status = "succeeded"] ELSE pay[l]]
  <2>1. Over([status |-> "succeeded"], pay[k]) = [pay[k] EXCEPT !.status = "succeeded"]
    BY <1>4, PaymentOver
  <2>. QED  BY <1>0, <1>1, <2>1 DEF Written, Only, RowsFit, RowTypes
<1>11. CalendarTypes(Over(w.weekly, weekly), Over(w.override, override))
  BY <1>0, NoneWritten DEF SpecialInv, TypesOK
<1>. HIDE DEF q, x, p
<1>12. \A t \in Rows : /\ q[t] \in RequestRow
                       /\ q[t].status = IF t = s THEN "scheduled" ELSE req[t].status
                       /\ q[t].order = req[t].order /\ q[t].final = req[t].final
                       /\ q[t].proposed = req[t].proposed /\ q[t].requested = req[t].requested
  BY <1>2, <1>8 DEF RequestRow, Statuses, ActiveStatuses
<1>13. \A l \in Keys : /\ p[l] \in PaymentRow /\ p[l].order = pay[l].order
                       /\ p[l].status = IF l = k THEN "succeeded" ELSE pay[l].status
  BY <1>4, <1>10 DEF PaymentRow
<1>. HIDE DEF o
<1>14. RowTypes(q, x, p)
  BY <1>1, <1>8, <1>9, <1>10, <1>12, <1>13 DEF RowsFit, RowTypes, OrderStatuses
<1>15. Decided(q)  BY <1>1, <1>6, <1>12 DEF RowsFit, Decided
<1>16. \A t \in Rows : req[t].order # None => req[t].order \in OrderIds
  BY <1>2 DEF RequestRow
<1>17. \A t \in Rows : req[t].order = o => t = s  BY <1>7 DEF RequestsOf
<1>18. OrderFollows(q, x)
  BY <1>1, <1>6, <1>9, <1>12, <1>16, <1>17 DEF RowsFit, OrderFollows
<1>19. OneRequestPerOrder(q)  BY <1>1, <1>12 DEF RowsFit, OneRequestPerOrder
<1>20. PaymentFollows(x, p)
  <2>1. \A l \in Keys : pay[l].order # None => pay[l].order \in OrderIds
    BY <1>4 DEF PaymentRow
  <2>2. \A l \in Keys : pay[l].status = "succeeded" => pay[l].order # o
    BY <1>1, <1>3 DEF RowsFit, PaymentFollows
  <2>3. pay[k].order = o  BY DEF o
  <2>. QED  BY <1>1, <1>3, <1>9, <1>13, <2>1, <2>2, <2>3 DEF RowsFit, PaymentFollows
<1>21. KitchenIsPaid(q, p)
  <2>1. pay[k].order = o  BY DEF o
  <2>. QED  BY <1>1, <1>6, <1>12, <1>13, <2>1 DEF RowsFit, KitchenIsPaid
<1>22. \A d : PlacesIn(q, d) \subseteq PlacesIn(req, d)
  BY <1>6, <1>12 DEF PlacesIn, DateOf, ActiveStatuses
<1>. QED
  BY <1>0, <1>11, <1>14, <1>15, <1>18, <1>19, <1>20, <1>21, <1>22 DEF WritesFit, RowsFit, q, x, p

-----------------------------------------------------------------------------
(* The handlers.                                                           *)

LEMMA CalendarStep ==
    ASSUME OneHandler, SpecialInv, NEW r \in Clients,
           \/ \E w \in DOMAIN weekly, n \in 0..MaxCapacity : UpsertWeeklySchedule(r, w, n)
           \/ \E d \in OverrideDates, b \in BOOLEAN, n \in (0..MaxCapacity) \cup {None} :
                UpsertOverride(r, d, b, n)
    PROVE  SpecialInv'
<1>. DEFINE W == {WeekdayOf[d] : d \in Dates}
<1>1. CalendarTypes(weekly, override) /\ r \in Slots
  BY DEF SpecialInv, TypesOK, Slots
<1>2. Over(<<>>, weekly) = weekly /\ Over(<<>>, override) = override
  BY NoneWritten DEF SpecialInv
<1>3. ASSUME NEW w \in DOMAIN weekly, NEW n \in 0..MaxCapacity, UpsertWeeklySchedule(r, w, n)
      PROVE  SpecialInv'
  <2>1. PICK x : x = [Idle EXCEPT !.weekly = Only(w, n)]  OBVIOUS
  <2>2. /\ x.req = <<>> /\ x.ord = <<>> /\ x.pay = <<>> /\ x.override = <<>>
        /\ x.weekly = Only(w, n)
    BY <2>1 DEF Idle
  <2>3. Over(x.weekly, weekly) = [v \in W |-> IF v = w THEN n ELSE weekly[v]]
    BY <1>1, <2>2 DEF Over, Only, CalendarTypes
  <2>4. CalendarTypes(Over(x.weekly, weekly), Over(x.override, override))
    BY <1>1, <1>2, <2>2, <2>3 DEF CalendarTypes
  <2>5. WritesFit(x)  BY <2>2, <2>4, UpsertFits
  <2>. QED  BY <1>1, <1>3, <2>1, <2>5, BeginFits DEF UpsertWeeklySchedule
<1>4. ASSUME NEW d \in OverrideDates, NEW b \in BOOLEAN, NEW n \in (0..MaxCapacity) \cup {None},
             UpsertOverride(r, d, b, n)
      PROVE  SpecialInv'
  <2>. DEFINE v == [open |-> b, cap |-> n, set |-> TRUE]
  <2>1. PICK x : x = [Idle EXCEPT !.override = Only(d, v)]  OBVIOUS
  <2>2. /\ x.req = <<>> /\ x.ord = <<>> /\ x.pay = <<>> /\ x.weekly = <<>>
        /\ x.override = Only(d, v)
    BY <2>1 DEF Idle
  <2>3. d \in Dates  BY DatesAssumption
  <2>4. Over(x.override, override) = [e \in Dates |-> IF e = d THEN v ELSE override[e]]
    BY <1>1, <2>2, <2>3 DEF Over, Only, CalendarTypes
  <2>5. v \in [open : BOOLEAN, cap : Int \cup {None}, set : BOOLEAN]  OBVIOUS
  <2>. HIDE DEF v
  <2>6. CalendarTypes(Over(x.weekly, weekly), Over(x.override, override))
    BY <1>1, <1>2, <2>2, <2>4, <2>5 DEF CalendarTypes
  <2>7. WritesFit(x)  BY <2>2, <2>6, UpsertFits
  <2>. QED  BY <1>1, <1>4, <2>1, <2>7, BeginFits DEF UpsertOverride, v
<1>. QED  BY <1>3, <1>4

LEMMA NegotiationStep ==
    ASSUME OneHandler, SpecialInv, NEW r \in Clients, NEW s \in Rows,
           \/ \E d \in Dates : CreateRequest(r, s, d) \/ ChefCounterOffer(r, s, d)
           \/ ChefAccept(r, s) \/ AcceptCounterOffer(r, s)
    PROVE  SpecialInv'
<1>0. r \in Slots  BY DEF Slots
<1>1. /\ req[s] \in RequestRow /\ clock \in Int /\ None \notin Dates
      /\ req[s].status \in {"none", "chef_review", "counter_offer"} =>
           req[s].final = None /\ req[s].order = None
      /\ req[s].status \in {"none", "chef_review"} => req[s].proposed = None
      /\ req[s].status = "chef_review" => req[s].requested \in Dates
      /\ req[s].status = "counter_offer" => req[s].proposed \in Dates
  BY NullAssumption DEF SpecialInv, TypesOK, RowsOK, RowsFit, RowTypes, Decided, RequestRow
<1>. DEFINE fields(x, cols) ==
          /\ x.req = Only(s, cols) /\ x.ord = <<>> /\ x.pay = <<>>
          /\ x.weekly = <<>> /\ x.override = <<>>
<1>2. \A cols : fields(Change(s, cols), cols)  BY DEF Change, Idle
<1>. HIDE DEF fields
<1>3. ASSUME NEW d \in Dates, CreateRequest(r, s, d) PROVE SpecialInv'
  <2>. DEFINE cols == [status |-> "chef_review", requested |-> d]
  <2>1. DOMAIN cols = {"status", "requested"} /\ DOMAIN cols \subseteq Columns  BY DEF Columns
  <2>2. PICK entry : entry = Over(cols, req[s])  OBVIOUS
  <2>3. entry = [k \in Columns |-> IF k \in DOMAIN cols THEN cols[k] ELSE req[s][k]]
    BY <1>1, <2>1, <2>2, OverColumns
  <2>4. entry = [status |-> entry.status, requested |-> entry.requested, proposed |-> entry.proposed,
               final |-> entry.final, offer |-> entry.offer, order |-> entry.order]
    BY <2>3 DEF Columns
  <2>5. /\ entry.status = "chef_review" /\ entry.requested = d
        /\ entry.final = req[s].final /\ entry.order = req[s].order
        /\ entry.proposed = req[s].proposed /\ entry.offer = req[s].offer
    BY <2>1, <2>3 DEF Columns
  <2>6. /\ entry \in RequestRow /\ entry.status = "chef_review" /\ entry.requested = d
        /\ entry.final = None /\ entry.order = None /\ entry.proposed = None /\ req[s].order = None
    BY <1>1, <1>3, <2>4, <2>5 DEF CreateRequest, RequestRow, Statuses, ActiveStatuses
  <2>7. Schedulable(d, s) /\ Begin(r, Change(s, cols))  BY <1>3 DEF CreateRequest
  <2>. HIDE DEF cols
  <2>8. WritesFit(Change(s, cols))  BY <1>2, <2>2, <2>6, <2>7, MoveFits DEF fields
  <2>. QED  BY <1>0, <2>7, <2>8, BeginFits
<1>4. ASSUME NEW d \in Dates, ChefCounterOffer(r, s, d) PROVE SpecialInv'
  <2>. DEFINE cols == [status |-> "counter_offer", proposed |-> d]
  <2>1. DOMAIN cols = {"status", "proposed"} /\ DOMAIN cols \subseteq Columns  BY DEF Columns
  <2>2. PICK entry : entry = Over(cols, req[s])  OBVIOUS
  <2>3. entry = [k \in Columns |-> IF k \in DOMAIN cols THEN cols[k] ELSE req[s][k]]
    BY <1>1, <2>1, <2>2, OverColumns
  <2>4. entry = [status |-> entry.status, requested |-> entry.requested, proposed |-> entry.proposed,
               final |-> entry.final, offer |-> entry.offer, order |-> entry.order]
    BY <2>3 DEF Columns
  <2>5. /\ entry.status = "counter_offer" /\ entry.proposed = d
        /\ entry.final = req[s].final /\ entry.order = req[s].order
        /\ entry.requested = req[s].requested /\ entry.offer = req[s].offer
    BY <2>1, <2>3 DEF Columns
  <2>6. /\ entry \in RequestRow /\ entry.status = "counter_offer" /\ entry.proposed = d
        /\ entry.final = None /\ entry.order = None /\ req[s].order = None
    BY <1>1, <1>4, <2>4, <2>5 DEF ChefCounterOffer, RequestRow, Statuses, ActiveStatuses
  <2>7. Schedulable(d, s) /\ Begin(r, Change(s, cols))  BY <1>4 DEF ChefCounterOffer
  <2>. HIDE DEF cols
  <2>8. WritesFit(Change(s, cols))  BY <1>2, <2>2, <2>6, <2>7, MoveFits DEF fields
  <2>. QED  BY <1>0, <2>7, <2>8, BeginFits
<1>5. ASSUME NEW d \in Dates, Schedulable(d, s), req[s].order = None,
             Begin(r, Change(s, [status |-> "awaiting_payment", final |-> d,
                                 offer |-> clock + OfferWindow]))
      PROVE  SpecialInv'
  <2>. DEFINE n == clock + OfferWindow
              cols == [status |-> "awaiting_payment", final |-> d, offer |-> n]
  <2>1. DOMAIN cols = {"status", "final", "offer"} /\ DOMAIN cols \subseteq Columns  BY DEF Columns
  <2>2. PICK entry : entry = Over(cols, req[s])  OBVIOUS
  <2>3. entry = [k \in Columns |-> IF k \in DOMAIN cols THEN cols[k] ELSE req[s][k]]
    BY <1>1, <2>1, <2>2, OverColumns
  <2>4. entry = [status |-> entry.status, requested |-> entry.requested, proposed |-> entry.proposed,
               final |-> entry.final, offer |-> entry.offer, order |-> entry.order]
    BY <2>3 DEF Columns
  <2>5. /\ entry.status = "awaiting_payment" /\ entry.final = d /\ entry.offer = n
        /\ entry.requested = req[s].requested /\ entry.order = req[s].order
        /\ entry.proposed = req[s].proposed
    BY <2>1, <2>3 DEF Columns
  <2>6. n \in Int  BY <1>1, WindowAssumption
  <2>. HIDE DEF n
  <2>7. /\ entry \in RequestRow /\ entry.status = "awaiting_payment" /\ entry.final = d
        /\ entry.order = None
    BY <1>1, <1>5, <2>6, <2>4, <2>5 DEF RequestRow, Statuses, ActiveStatuses
  <2>8. Begin(r, Change(s, cols))  BY <1>5 DEF n
  <2>. HIDE DEF cols
  <2>9. WritesFit(Change(s, cols))  BY <1>2, <1>5, <2>2, <2>7, MoveFits DEF fields
  <2>. QED  BY <1>0, <2>8, <2>9, BeginFits
<1>6. CASE ChefAccept(r, s)  BY <1>1, <1>5, <1>6 DEF ChefAccept
<1>7. CASE AcceptCounterOffer(r, s)  BY <1>1, <1>5, <1>7 DEF AcceptCounterOffer
<1>. QED  BY <1>3, <1>4, <1>6, <1>7

\* The orders of requests that end are those that waited for their payment.
LEMMA OrdersClosed ==
    ASSUME SpecialInv, NEW S \in SUBSET Rows, NEW c, NEW e, NEW w,
           Ends(w, S, c), w.ord = OrderClosed(S, e)
    PROVE  \E X \in SUBSET OrderIds : OrdersEnd(w, S, X, e)
<1>. DEFINE X == {req[s].order : s \in S} \ {None}
<1>1. RowsFit(req, ord, pay)  BY DEF SpecialInv, RowsOK
<1>2. \A s \in Rows : req[s] \in RequestRow  BY <1>1 DEF RowsFit, RowTypes
<1>3. X \in SUBSET OrderIds  BY <1>2 DEF RequestRow
<1>4. \A o \in X : ord[o] = "pending_payment"
  BY <1>1 DEF RowsFit, OrderFollows, Decided, Ends
<1>5. \A s \in Rows : req[s].order # None => (s \in S <=> req[s].order \in X)
  BY <1>1 DEF RowsFit, OneRequestPerOrder
<1>6. OrderClosed(S, e) = [o \in X |-> e]  BY <1>4 DEF OrderClosed
<1>. HIDE DEF X
<1>7. Over(w.ord, ord) = [o \in OrderIds |-> IF o \in X THEN e ELSE ord[o]]
  BY <1>1, <1>3, <1>6 DEF Over, RowsFit, RowTypes
<1>8. OrdersEnd(w, S, X, e)  BY <1>4, <1>5, <1>7 DEF OrdersEnd
<1>. QED  BY <1>3, <1>8

LEMMA CloseStep ==
    ASSUME OneHandler, SpecialInv, NEW r \in Slots,
           \/ \E s \in Rows : ChefReject(r, s) \/ Cancel(r, s)
           \/ \E o \in OrderIds : CancelPendingOrder(r, o)
           \/ ExpireDueRequests(r)
    PROVE  SpecialInv'
<1>1. RowsFit(req, ord, pay)  BY DEF SpecialInv, RowsOK
<1>3. /\ "rejected" \in Closed /\ "cancelled" \in Closed /\ "expired" \in Closed
  BY DEF Closed
<1>4. ASSUME NEW s \in Rows, ChefReject(r, s) PROVE SpecialInv'
  <2>1. PICK w : w = Change(s, [status |-> "rejected"])  OBVIOUS
  <2>2. PICK S \in SUBSET Rows : S = {s}  OBVIOUS
  <2>3. PICK X \in SUBSET OrderIds : X = {}  OBVIOUS
  <2>4. Ends(w, S, "rejected") /\ w.ord = <<>>
    BY <1>4, <2>1, <2>2 DEF ChefReject, Change, Idle, Only, Ends
  <2>5. \A t \in S : req[t].order = None
    BY <1>1, <1>4, <2>2 DEF ChefReject, RowsFit, Decided
  <2>6. Over(w.ord, ord) = [o \in OrderIds |-> IF o \in X THEN "expired" ELSE ord[o]]
    BY <1>1, <2>3, <2>4, NoneWritten DEF SpecialInv, RowsFit, RowTypes
  <2>7. OrdersEnd(w, S, X, "expired")  BY <2>3, <2>5, <2>6 DEF OrdersEnd
  <2>8. WritesFit(w)  BY <1>3, <2>4, <2>5, <2>7, CloseFits
  <2>. QED  BY <1>4, <2>1, <2>8, BeginFits DEF ChefReject
<1>5. ASSUME NEW S \in SUBSET Rows, NEW c \in {"cancelled", "expired"}, NEW w,
             Ends(w, S, c), w.ord = OrderClosed(S, c)
      PROVE  WritesFit(w)
  <2>1. PICK X \in SUBSET OrderIds : OrdersEnd(w, S, X, c)  BY <1>5, OrdersClosed
  <2>2. c \in Closed /\ c # "rejected"  BY DEF Closed
  <2>. QED  BY <1>5, <2>1, <2>2, CloseFits
<1>6. ASSUME NEW s \in Rows, Cancel(r, s) PROVE SpecialInv'
  <2>1. PICK w : w = [Change(s, [status |-> "cancelled"]) EXCEPT !.ord = OrderClosed({s}, "cancelled")]
    OBVIOUS
  <2>2. PICK S \in SUBSET Rows : S = {s}  OBVIOUS
  <2>3. Ends(w, S, "cancelled") /\ w.ord = OrderClosed(S, "cancelled")
    BY <1>6, <2>1, <2>2 DEF Cancel, Change, Idle, Only, Ends
  <2>4. WritesFit(w)  BY <1>5, <2>3
  <2>. QED  BY <1>6, <2>1, <2>4, BeginFits DEF Cancel
<1>7. CASE ExpireDueRequests(r)
  <2>1. PICK w : w = [Idle EXCEPT !.req = [s \in Due |-> [status |-> "expired"]],
                                  !.ord = OrderClosed(Due, "expired")]
    OBVIOUS
  <2>2. Ends(w, Due, "expired") /\ w.ord = OrderClosed(Due, "expired") /\ Due \in SUBSET Rows
    BY <2>1 DEF Idle, Ends, Due
  <2>3. WritesFit(w)  BY <1>5, <2>2
  <2>. QED  BY <1>7, <2>1, <2>3, BeginFits DEF ExpireDueRequests
<1>8. ASSUME NEW o \in OrderIds, CancelPendingOrder(r, o) PROVE SpecialInv'
  <2>. DEFINE S == {s \in RequestsOf(o) : req[s].status \in {"awaiting_payment", "counter_offer"}}
  <2>1. PICK w : w = [Idle EXCEPT !.req = [s \in S |-> [status |-> "cancelled"]],
                                  !.ord = Only(o, "cancelled")]
    OBVIOUS
  <2>2. PICK X \in SUBSET OrderIds : X = {o}  OBVIOUS
  <2>3. ord[o] = "pending_payment" /\ Begin(r, w)  BY <1>8, <2>1 DEF CancelPendingOrder
  <2>4. S \in SUBSET Rows /\ o # None  BY NullAssumption DEF RequestsOf
  <2>5. \A s \in Rows : req[s].order = o => req[s].status = "awaiting_payment"
    BY <1>1, <2>3, <2>4 DEF RowsFit, OrderFollows
  <2>6. \A s \in Rows : req[s].order # None => (s \in S <=> req[s].order \in X)
    BY <2>2, <2>5 DEF RequestsOf
  <2>7. w.ord = Only(o, "cancelled") /\ Ends(w, S, "cancelled")  BY <2>1 DEF Idle, Ends
  <2>8. Over(w.ord, ord) = [k \in OrderIds |-> IF k \in X THEN "cancelled" ELSE ord[k]]
    BY <1>1, <2>2, <2>7 DEF Over, Only, RowsFit, RowTypes
  <2>. HIDE DEF S
  <2>9. OrdersEnd(w, S, X, "cancelled")  BY <2>2, <2>3, <2>6, <2>8 DEF OrdersEnd
  <2>10. WritesFit(w)  BY <1>3, <2>4, <2>7, <2>9, CloseFits
  <2>. QED  BY <2>3, <2>10, BeginFits
<1>. QED  BY <1>4, <1>6, <1>7, <1>8

LEMMA PaymentStep ==
    ASSUME OneHandler, SpecialInv, NEW r \in Clients,
           \/ \E s \in Rows, o \in OrderIds : Checkout(r, s, o)
           \/ \E o \in OrderIds, k \in Keys : CreatePaymentIntent(r, o, k)
           \/ \E k \in Keys : ApplyPaymentSuccess(r, k) \/ ApplyPaymentFailure(r, k)
    PROVE  SpecialInv'
<1>0. r \in Slots  BY DEF Slots
<1>1. RowsFit(req, ord, pay)  BY DEF SpecialInv, RowsOK
<1>2. \A k \in Keys : pay[k] \in PaymentRow  BY <1>1 DEF RowsFit, RowTypes
<1>3. ASSUME NEW s \in Rows, NEW o \in OrderIds, Checkout(r, s, o) PROVE SpecialInv'
  <2>1. PICK w : w = [Change(s, [order |-> o]) EXCEPT !.ord = Only(o, "pending_payment")]
    OBVIOUS
  <2>2. WritesFit(w)  BY <1>3, <2>1, CheckoutFits DEF Checkout
  <2>. QED  BY <1>0, <1>3, <2>1, <2>2, BeginFits DEF Checkout
<1>4. ASSUME NEW o \in OrderIds, NEW k \in Keys, CreatePaymentIntent(r, o, k) PROVE SpecialInv'
  <2>. DEFINE entry == [status |-> "pending", order |-> o]
  <2>1. PICK w : w = [Idle EXCEPT !.pay = Only(k, entry)]  OBVIOUS
  <2>2. /\ w.req = <<>> /\ w.ord = <<>> /\ w.weekly = <<>> /\ w.override = <<>>
        /\ w.pay = Only(k, entry)
    BY <2>1 DEF Idle
  <2>3. Over(entry, pay[k]) = entry  BY <1>2, PaymentOver
  <2>4. Written(pay, w.pay) = [pay EXCEPT ![k] = entry]
    BY <1>1, <2>2, <2>3 DEF Written, Only, RowsFit, RowTypes
  <2>5. entry \in PaymentRow /\ entry.status = "pending" /\ entry.order = o /\ o # None
    BY NullAssumption DEF PaymentRow
  <2>6. pay[k].status = "none" /\ ord[o] = "pending_payment"
    BY <1>4 DEF CreatePaymentIntent, Payable
  <2>7. Begin(r, w)  BY <1>4, <2>1 DEF CreatePaymentIntent
  <2>. HIDE DEF entry
  <2>8. WritesFit(w)  BY <2>2, <2>4, <2>5, <2>6, UnpaidFits
  <2>. QED  BY <1>0, <2>7, <2>8, BeginFits
<1>5. ASSUME NEW k \in Keys, ApplyPaymentSuccess(r, k) PROVE SpecialInv'
  <2>1. PICK w :
          w = [Idle EXCEPT !.req = [s \in RequestsOf(pay[k].order) |-> [status |-> "scheduled"]],
                           !.ord = Only(pay[k].order, "accepted_by_chef"),
                           !.pay = Only(k, [status |-> "succeeded"])]
    OBVIOUS
  <2>2. /\ pay[k].status \notin {"none", "succeeded"} /\ Payable(pay[k].order) /\ Begin(r, w)
    BY <1>5, <2>1 DEF ApplyPaymentSuccess
  <2>3. WritesFit(w)  BY <2>1, <2>2, SuccessFits
  <2>. QED  BY <1>0, <2>2, <2>3, BeginFits
<1>6. ASSUME NEW k \in Keys, ApplyPaymentFailure(r, k) PROVE SpecialInv'
  <2>. DEFINE entry == [pay[k] EXCEPT !.status = "failed"]
  <2>1. PICK w : w = [Idle EXCEPT !.ord = OrderKept(pay[k].order),
                                  !.pay = Only(k, [status |-> "failed"])]
    OBVIOUS
  <2>2. /\ w.req = <<>> /\ w.ord = <<>> /\ w.weekly = <<>> /\ w.override = <<>>
        /\ w.pay = Only(k, [status |-> "failed"])
    BY <2>1 DEF Idle, OrderKept
  <2>3. Over([status |-> "failed"], pay[k]) = entry  BY <1>2, PaymentOver
  <2>4. Written(pay, w.pay) = [pay EXCEPT ![k] = entry]
    BY <1>1, <2>2, <2>3 DEF Written, Only, RowsFit, RowTypes
  <2>5. pay[k].status = "pending" /\ Begin(r, w)  BY <1>6, <2>1 DEF ApplyPaymentFailure
  <2>6. /\ entry \in PaymentRow /\ entry.status = "failed" /\ entry.order = pay[k].order
        /\ pay[k].order # None /\ ord[pay[k].order] # "none"
    BY <1>1, <1>2, <2>5 DEF PaymentRow, RowsFit, PaymentFollows
  <2>. HIDE DEF entry
  <2>7. WritesFit(w)  BY <2>2, <2>4, <2>5, <2>6, UnpaidFits
  <2>. QED  BY <1>0, <2>5, <2>7, BeginFits
<1>. QED  BY <1>3, <1>4, <1>5, <1>6

LEMMA TickStep == ASSUME OneHandler, SpecialInv, Tick PROVE SpecialInv'
<1>1. UNCHANGED <<weekly, override, req, ord, pay, txn>> /\ clock' \in Int
  BY DEF Tick, SpecialInv, TypesOK
<1>2. TypesOK' /\ RowsOK'  BY <1>1 DEF SpecialInv, TypesOK, RowsOK
<1>3. \A d : Capacity(d)' = Capacity(d)  BY <1>1 DEF Capacity
<1>4. txn["worker"] # Idle => WritesFit(txn["worker"])'  BY <1>1, <1>3 DEF SpecialInv, WritesFit
<1>. QED  BY <1>1, <1>2, <1>4 DEF SpecialInv

LEMMA IdleStep == ASSUME SpecialInv, UNCHANGED spVars PROVE SpecialInv'
<1>1. UNCHANGED <<clock, weekly, override, req, ord, pay, txn>>  BY DEF spVars
<1>2. TypesOK' /\ RowsOK'  BY <1>1 DEF SpecialInv, TypesOK, RowsOK
<1>3. \A d : Capacity(d)' = Capacity(d)  BY <1>1 DEF Capacity
<1>4. txn["worker"] # Idle => WritesFit(txn["worker"])'  BY <1>1, <1>3 DEF SpecialInv, WritesFit
<1>. QED  BY <1>1, <1>2, <1>4 DEF SpecialInv

LEMMA NextSpecial == ASSUME OneHandler, SpecialInv, Next PROVE SpecialInv'
<1>1. Clients \subseteq Slots  BY DEF Slots
<1>2. CASE Tick  BY <1>2, TickStep
<1>3. CASE \E r \in Clients, w \in DOMAIN weekly, n \in 0..MaxCapacity : UpsertWeeklySchedule(r, w, n)
  BY <1>3, CalendarStep
<1>4. CASE \E r \in Clients, d \in OverrideDates :
             \/ UpsertOverride(r, d, FALSE, None)
             \/ \E n \in (0..MaxCapacity) \cup {None} : UpsertOverride(r, d, TRUE, n)
  <2>1. PICK r \in Clients, d \in OverrideDates, b \in BOOLEAN, n \in (0..MaxCapacity) \cup {None} :
           UpsertOverride(r, d, b, n)
    BY <1>4
  <2>. QED  BY <2>1, CalendarStep
<1>5. CASE \E r \in Clients, s \in Rows :
             \/ \E d \in Dates : CreateRequest(r, s, d) \/ ChefCounterOffer(r, s, d)
             \/ ChefAccept(r, s) \/ AcceptCounterOffer(r, s)
  BY <1>5, NegotiationStep
<1>6. CASE \/ \E r \in Clients, s \in Rows : ChefReject(r, s) \/ Cancel(r, s)
           \/ \E r \in Clients, o \in OrderIds : CancelPendingOrder(r, o)
           \/ \E r \in Slots : ExpireDueRequests(r)
  BY <1>1, <1>6, CloseStep
<1>7. CASE \E r \in Clients :
             \/ \E s \in Rows, o \in OrderIds : Checkout(r, s, o)
             \/ \E o \in OrderIds, k \in Keys : CreatePaymentIntent(r, o, k)
             \/ \E k \in Keys : ApplyPaymentSuccess(r, k) \/ ApplyPaymentFailure(r, k)
  BY <1>7, PaymentStep
<1>8. CASE \E r \in Slots : Commit(r)  BY <1>8, CommitFits
<1>. QED  BY <1>2, <1>3, <1>4, <1>5, <1>6, <1>7, <1>8 DEF Next

LEMMA SpecialInvariant == ASSUME OneHandler PROVE LoadsSpec => []SpecialInv
<1>1. LoadsInit => SpecialInv  BY InitSpecial DEF LoadsInit
<1>2. SpecialInv /\ [LoadsNext]_<<load, spVars, customerVars>> => SpecialInv'
  BY NextSpecial, IdleStep DEF LoadsNext
<1>. QED  BY <1>1, <1>2, PTL DEF LoadsSpec

\* When one handler runs at a time, whatever mix of expiry, cancellation from either
\* side, failed attempts and retries, and for any number of requests, orders and
\* payments: a request is scheduled exactly when its order is with the kitchen and
\* paid once, nobody is charged for a request that ended, and an order waits for its
\* payment only while the quote stands.
THEOREM SerialPaidRequestScheduled ==
    ASSUME OneHandler PROVE LoadsSpec => []PaidRequestScheduled
<1>1. SpecialInv => PaidRequestScheduled
  <2>. SUFFICES ASSUME SpecialInv, NEW s \in Rows, req[s].order # None
                PROVE  LET o == req[s].order
                       IN /\ req[s].status = "scheduled" <=> ord[o] = "accepted_by_chef"
                          /\ req[s].status = "awaiting_payment" <=> ord[o] = "pending_payment"
                          /\ req[s].status = "scheduled" => \E p \in Keys : PaidFor(s) = {p}
                          /\ req[s].status \in Closed => PaidFor(s) = {}
    BY DEF PaidRequestScheduled
  <2>1. RowsFit(req, ord, pay)  BY DEF SpecialInv, RowsOK
  <2>2. /\ req[s].status = "scheduled" <=> ord[req[s].order] = "accepted_by_chef"
        /\ req[s].status = "awaiting_payment" <=> ord[req[s].order] = "pending_payment"
    BY <2>1 DEF RowsFit, OrderFollows
  <2>3. ASSUME req[s].status = "scheduled" PROVE \E p \in Keys : PaidFor(s) = {p}
    <3>1. PICK p \in Keys : pay[p].status = "succeeded" /\ pay[p].order = req[s].order
      BY <2>1, <2>3 DEF RowsFit, KitchenIsPaid
    <3>2. \A k \in Keys : pay[k].status = "succeeded" /\ pay[k].order = req[s].order => k = p
      BY <2>1, <3>1 DEF RowsFit, PaymentFollows
    <3>. QED  BY <3>1, <3>2 DEF PaidFor
  <2>4. ASSUME req[s].status \in Closed PROVE PaidFor(s) = {}
    <3>1. req[s].status # "scheduled"  BY <2>4 DEF Closed
    <3>2. \A k \in Keys : pay[k].status = "succeeded" => pay[k].order # req[s].order
      BY <2>1, <2>2, <3>1 DEF RowsFit, PaymentFollows
    <3>. QED  BY <3>2 DEF PaidFor
  <2>. QED  BY <2>2, <2>3, <2>4
<1>. QED  BY <1>1, SpecialInvariant, PTL

\* When one handler runs at a time, no handler of a request puts more requests on a
\* date than the chef's capacity: only an edit of the calendar leaves a date above it.
THEOREM SerialCapacityKept == ASSUME OneHandler PROVE LoadsSpec => CapacityKept
<1>. DEFINE Kept == \A d \in Dates :
                 Cardinality(UsedBy({}, d)') > Cardinality(UsedBy({}, d)) =>
                 Cardinality(UsedBy({}, d)') <= Capacity(d)'
<1>1. ASSUME SpecialInv, UNCHANGED req PROVE Kept
  <2>1. ASSUME NEW d \in Dates PROVE UsedBy({}, d)' = UsedBy({}, d)
    BY <1>1 DEF UsedBy, EffectiveDate
  <2>2. ASSUME NEW d \in Dates
        PROVE  ~(Cardinality(UsedBy({}, d)') > Cardinality(UsedBy({}, d)))
    <3>1. IsFiniteSet(UsedBy({}, d))  BY RowsAssumption, FS_Subset DEF UsedBy
    <3>2. Cardinality(UsedBy({}, d)) \in Nat  BY <3>1, FS_CardinalityType
    <3>. QED  BY <2>1, <3>2
  <2>. QED  BY <2>2
<1>2. ASSUME OneHandler, SpecialInv, NEW r \in Slots, Commit(r) PROVE Kept
  <2>1. CASE UNCHANGED req  BY <1>1, <1>2, <2>1
  <2>2. ASSUME NEW w, WritesFit(w), req' = Written(req, w.req), weekly' = Over(w.weekly, weekly),
               override' = Over(w.override, override), NEW d \in Dates
        PROVE  Cardinality(UsedBy({}, d)') > Cardinality(UsedBy({}, d)) =>
               Cardinality(UsedBy({}, d)') <= Capacity(d)'
    <3>1. UsedBy({}, d) = PlacesIn(req, d) /\ UsedBy({}, d)' = PlacesIn(Written(req, w.req), d)
      BY <2>2 DEF UsedBy, EffectiveDate, PlacesIn, DateOf
    <3>2. CASE PlacesIn(Written(req, w.req), d) \subseteq PlacesIn(req, d)
      <4>1. IsFiniteSet(PlacesIn(req, d))  BY RowsAssumption, FS_Subset DEF PlacesIn
      <4>2. /\ IsFiniteSet(PlacesIn(Written(req, w.req), d))
            /\ Cardinality(PlacesIn(Written(req, w.req), d)) <= Cardinality(PlacesIn(req, d))
        BY <3>2, <4>1, FS_Subset
      <4>3. /\ Cardinality(PlacesIn(req, d)) \in Nat
            /\ Cardinality(PlacesIn(Written(req, w.req), d)) \in Nat
        BY <4>1, <4>2, FS_CardinalityType
      <4>. QED  BY <3>1, <4>2, <4>3
    <3>3. CASE /\ Cardinality(PlacesIn(Written(req, w.req), d)) <= Capacity(d)
               /\ w.weekly = <<>> /\ w.override = <<>>
      <4>1. weekly' = weekly /\ override' = override
        BY <1>2, <2>2, <3>3, NoneWritten DEF SpecialInv
      <4>2. Capacity(d)' = Capacity(d)  BY <4>1 DEF Capacity
      <4>. QED  BY <3>1, <3>3, <4>2
    <3>. QED  BY <2>2, <3>2, <3>3 DEF WritesFit
  <2>. QED  BY <1>2, <2>1, <2>2, CommitFits
<1>3. ASSUME OneHandler, SpecialInv, Next PROVE Kept
  <2>1. CASE \E r \in Slots : Commit(r)  BY <1>2, <1>3, <2>1
  <2>2. CASE ~ \E r \in Slots : Commit(r)
    <3>1. UNCHANGED req
      BY <1>3, <2>2 DEF Next, Tick, UpsertWeeklySchedule, UpsertOverride, CreateRequest, ChefAccept,
         ChefCounterOffer, ChefReject, AcceptCounterOffer, Cancel, Checkout, CreatePaymentIntent,
         ApplyPaymentSuccess, ApplyPaymentFailure, CancelPendingOrder, ExpireDueRequests, Begin
    <3>. QED  BY <1>1, <1>3, <3>1
  <2>. QED  BY <2>1, <2>2
<1>4. ASSUME OneHandler, SpecialInv, [LoadsNext]_<<load, spVars, customerVars>>
      PROVE  [Kept]_spVars
  BY <1>3, <1>4 DEF LoadsNext
<1>. QED  BY <1>4, SpecialInvariant, PTL DEF LoadsSpec, CapacityKept

-----------------------------------------------------------------------------
(* The carts, any number of requests at once.  What a checkout has read it *)
(* checked, and an order is made of nothing else.                          *)

\* What a checkout takes with it: some line, every line of the one kitchen.
LinesFit(lines, k) ==
    /\ \E i \in Items : lines[i] > 0
    /\ \A i \in Items : lines[i] > 0 => KitchenOf[i] = k /\ lines[i] <= MaxPerOrder

CartInv ==
    /\ cartRequest = [q \in CartRequests |-> cartRequest[q]]
    /\ \A q \in CartRequests :
          cartRequest[q].kind = "checkout" => LinesFit(cartRequest[q].lines, cartRequest[q].kitchen)
    /\ Carts!OrderFromOneKitchen

LEMMA InitCart == Carts!Init => CartInv
  BY DEF Carts!Init, CartInv, Carts!OrderFromOneKitchen, Carts!Idle

LEMMA CartReads ==
    ASSUME CartInv, NEW q \in CartRequests, NEW r, Carts!Reads(q, r),
           r.kind = "checkout" => LinesFit(r.lines, r.kitchen)
    PROVE  CartInv'
  BY DEF CartInv, Carts!Reads, Carts!OrderFromOneKitchen, LinesFit

LEMMA CartEnds ==
    ASSUME CartInv, NEW q \in CartRequests, Carts!Ends(q), UNCHANGED orders
    PROVE  CartInv'
  BY DEF CartInv, Carts!Ends, Carts!Idle, Carts!OrderFromOneKitchen, LinesFit

LEMMA CartStep == ASSUME CartInv, Carts!Next PROVE CartInv'
<1>1. ASSUME NEW q \in CartRequests,
             Carts!WriteLine(q) \/ Carts!WriteRemoval(q) \/ Carts!WriteClear(q) \/ Carts!RollBack(q)
      PROVE  CartInv'
  BY <1>1, CartEnds DEF Carts!WriteLine, Carts!WriteRemoval, Carts!WriteClear, Carts!RollBack
<1>2. ASSUME NEW q \in CartRequests, Carts!WriteOrder(q) PROVE CartInv'
  <2>. DEFINE r == cartRequest[q]
              o == [id |-> Carts!Cardinality(orders) + 1, cart |-> r.cart, kitchen |-> r.kitchen, line |-> r.lines]
  <2>1. LinesFit(r.lines, r.kitchen)  BY <1>2 DEF Carts!WriteOrder, CartInv
  <2>2. orders' = orders \cup {o} /\ Carts!Ends(q)  BY <1>2 DEF Carts!WriteOrder
  <2>3. LinesFit(o.line, o.kitchen)  BY <2>1
  <2>. HIDE DEF o
  <2>4. Carts!OrderFromOneKitchen'
    BY <2>2, <2>3 DEF CartInv, Carts!OrderFromOneKitchen, LinesFit
  <2>. QED  BY <2>2, <2>4 DEF CartInv, Carts!Ends, Carts!Idle, LinesFit
<1>3. ASSUME NEW q \in CartRequests, NEW c \in CartIds, Carts!ClearCart(q, c) PROVE CartInv'
  BY <1>3, CartReads DEF Carts!ClearCart
<1>4. ASSUME NEW q \in CartRequests, NEW c \in CartIds, Carts!Checkout(q, c) PROVE CartInv'
  <2>1. LinesFit(line[c], cart[c].kitchen)
    BY <1>4 DEF Carts!Checkout, LinesFit, Carts!EveryLineOfItsKitchen, Carts!ValidRequestedQuantity
  <2>. QED  BY <1>4, <2>1, CartReads DEF Carts!Checkout
<1>5. ASSUME NEW q \in CartRequests, NEW c \in CartIds, NEW i \in Items,
             Carts!AddCartItem(q, c, i) \/ Carts!RemoveCartItem(q, c, i)
               \/ \E n \in 1..MaxPerOrder : Carts!UpdateCartItem(q, c, i, n)
      PROVE  CartInv'
  BY <1>5, CartReads DEF Carts!AddCartItem, Carts!RemoveCartItem, Carts!UpdateCartItem
<1>6. ASSUME NEW k, NEW i, NEW entry, Carts!ReplaceTodayMenu(k, i, entry) PROVE CartInv'
  BY <1>6 DEF Carts!ReplaceTodayMenu, CartInv, Carts!Idle, Carts!OrderFromOneKitchen, LinesFit
<1>7. ASSUME UNCHANGED <<orders, cartRequest>> PROVE CartInv'
  BY <1>7 DEF CartInv, Carts!OrderFromOneKitchen, LinesFit
<1>8. ASSUME NEW k, Carts!OpenKitchen(k) \/ Carts!CloseKitchen(k) PROVE CartInv'
  BY <1>7, <1>8 DEF Carts!OpenKitchen, Carts!CloseKitchen
<1>9. ASSUME NEW i, NEW v, Carts!UpdateDish(i, v) \/ Carts!UpdateQuantity(i, v) PROVE CartInv'
  BY <1>7, <1>9 DEF Carts!UpdateDish, Carts!UpdateQuantity
<1>. QED  BY <1>1, <1>2, <1>3, <1>4, <1>5, <1>6, <1>8, <1>9 DEF Carts!Next

-----------------------------------------------------------------------------
(* The address book.                                                       *)

\* The other loads are one request at a time.
OneCaller == \A p, q \in Callers : p = q

\* b is a function, whatever its domain.
IsBook(b) == b = [x \in DOMAIN b |-> b[x]]

LEMMA EmptyFunction ==
    ASSUME NEW b, IsBook(b)
    PROVE  b = <<>> <=> DOMAIN b = {}
<1>1. ASSUME DOMAIN b = {} PROVE b = <<>>
  BY <1>1 DEF IsBook
<1>2. ASSUME b = <<>> PROVE DOMAIN b = {}
  BY <1>2
<1>. QED BY <1>1, <1>2

LEMMA LeastNumber ==
    ASSUME NEW S, S \subseteq Nat, S # {}
    PROVE  \E x \in S : \A y \in S : x <= y
<1>. DEFINE R == OpToRel(<, Nat)
<1>1. IsWellFoundedOn(R, Nat)  BY NatLessThanWellFounded
<1>2. PICK x \in S : \A y \in S : <<y, x>> \notin R
  <2>. HIDE DEF R
  <2>. QED  BY <1>1, WFMin
<1>3. R = {ss \in Nat \X Nat : ss[1] < ss[2]}  BY DEF OpToRel
<1>4. \A y \in S : y < x => <<y, x>> \in R  BY <1>3
<1>. HIDE DEF R
<1>5. ASSUME NEW y \in S PROVE x <= y
  <2>1. ~(y < x)  BY <1>2, <1>4
  <2>2. y \in Nat /\ x \in Nat  BY <1>2
  <2>. QED  BY <2>1, <2>2
<1>. QED  BY <1>2, <1>5

LEMMA LeastIsIn ==
    ASSUME NEW S, S \subseteq Nat, S # {}
    PROVE  Book!Min(S) \in S
  BY LeastNumber DEF Book!Min
LEMMA OneIsOne == ASSUME NEW S, NEW a, S = {a} PROVE Book!Cardinality(S) = 1
<1>1. Book!Cardinality(S) = Cardinality(S)  BY DEF Book!Cardinality, Cardinality, Book!IsFiniteSet, IsFiniteSet
<1>. QED  BY <1>1, FS_Singleton

Chosen(b, a) == a \in DOMAIN b /\ b[a] /\ \A c \in DOMAIN b : b[c] => c = a

\* Between two requests: a customer with addresses has one default.
BookFits(b) ==
    /\ IsBook(b) /\ DOMAIN b \subseteq Addresses
    /\ \A a \in DOMAIN b : b[a] \in BOOLEAN
    /\ DOMAIN b = {} \/ \E a \in Addresses : Chosen(b, a)

\* What a request has read stands, and what it cleared is locked.
BookFresh(r, b) ==
    /\ DOMAIN r = {"step", "kind", "address", "default", "was", "cleared"}
    /\ r.step \in {"read", "cleared"} /\ r.kind \in {"create", "update", "set_default", "delete"}
    /\ r.address \in Addresses /\ r.default \in BOOLEAN
    /\ r.kind = "create" <=> r.address \notin DOMAIN b
    /\ r.was <=> (r.address \in DOMAIN b /\ b[r.address])
    /\ r.kind = "create" /\ DOMAIN b = {} => r.default
    /\ r.kind = "set_default" => r.default
    /\ r.kind = "delete" => ~r.default
    /\ r.cleared = IF r.step = "cleared" /\ r.kind = "update" THEN DOMAIN b \ {r.address}
                   ELSE IF r.step = "cleared" THEN DOMAIN b ELSE {}

BookInv ==
    /\ BookFits(book)
    /\ bookRequest = [q \in Callers |-> bookRequest[q]]
    /\ \A q \in Callers : bookRequest[q].step # "none" => BookFresh(bookRequest[q], book)

LEMMA InitBook == Book!Init => BookInv
  BY DEF Book!Init, BookInv, BookFits, IsBook, Book!Idle

LEMMA BookBegins ==
    ASSUME BookInv, NEW q \in Callers, NEW kind \in {"create", "update", "set_default", "delete"},
           NEW a \in Addresses, NEW default \in BOOLEAN, Book!Begin(q, kind, a, default),
           kind = "create" <=> a \notin DOMAIN book,
           kind = "create" /\ DOMAIN book = {} => default,
           kind = "set_default" => default, kind = "delete" => ~default
    PROVE  BookInv'
<1>. DEFINE r == [step |-> "read", kind |-> kind, address |-> a, default |-> default,
                  was |-> a \in DOMAIN book /\ book[a], cleared |-> {}]
<1>1. bookRequest' = [bookRequest EXCEPT ![q] = r] /\ book' = book  BY DEF Book!Begin
<1>2. BookFresh(r, book)  BY DEF BookFresh
<1>. HIDE DEF r
<1>. QED  BY <1>1, <1>2 DEF BookInv

LEMMA BookCleared == ASSUME BookInv, NEW q \in Callers, Book!ClearDefaults(q) PROVE BookInv'
<1>. DEFINE r == bookRequest[q]
            to == [r EXCEPT !.step = "cleared", !.cleared = Book!Clears(r)]
<1>1. /\ r.step = "read" /\ r.default /\ book' = book /\ BookFresh(r, book)
      /\ bookRequest' = [bookRequest EXCEPT ![q] = to]
  BY DEF Book!ClearDefaults, BookInv
<1>2. BookFresh(to, book)  BY <1>1 DEF BookFresh, Book!Clears
<1>. HIDE DEF to
<1>. QED  BY <1>1, <1>2 DEF BookInv

LEMMA EditFits ==
    ASSUME NEW r, BookFits(book), BookFresh(r, book), r.kind # "delete",
           r.step = (IF r.default THEN "cleared" ELSE "read")
    PROVE  BookFits(Book!AfterEdit(r))
<1>. DEFINE b == Book!AfterEdit(r)
            a == r.address
<1>1. DOMAIN b = DOMAIN book \cup {a} /\ IsBook(b)
  BY DEF Book!AfterEdit, IsBook
<1>2. a \in Addresses /\ DOMAIN b \subseteq Addresses
  BY <1>1 DEF BookFits, BookFresh
<1>3. \A x \in DOMAIN b :
         b[x] = IF x = a /\ (Book!Sets(r) \/ x \notin DOMAIN book) THEN Book!Sets(r)
                ELSE x \notin r.cleared /\ book[x]
  BY <1>1 DEF Book!AfterEdit
<1>4. Book!Sets(r) = (r.default /\ (r.kind = "update" => ~r.was)) /\ Book!Sets(r) \in BOOLEAN
  BY DEF Book!Sets
<1>. HIDE DEF b
<1>5. \A x \in DOMAIN b : b[x] \in BOOLEAN  BY <1>1, <1>3, <1>4 DEF BookFits
<1>6. ASSUME r.default PROVE BookFits(b)
  <2>1. \A x \in DOMAIN book : x # a => x \in r.cleared
    BY <1>6 DEF BookFresh
  <2>2. \A x \in DOMAIN b : x # a => ~b[x]  BY <1>1, <1>3, <2>1
  <2>3. b[a]
    <3>1. CASE r.kind = "update" /\ r.was
      <4>1. a \in DOMAIN book /\ book[a] /\ a \notin r.cleared  BY <1>6, <3>1 DEF BookFresh
      <4>. QED  BY <1>1, <1>3, <1>4, <3>1, <4>1
    <3>2. CASE ~(r.kind = "update" /\ r.was)
      <4>1. Book!Sets(r)  BY <1>4, <1>6, <3>2
      <4>. QED  BY <1>1, <1>3, <4>1
    <3>. QED  BY <3>1, <3>2
  <2>4. Chosen(b, a)  BY <1>1, <2>2, <2>3 DEF Chosen
  <2>. QED  BY <1>1, <1>2, <1>5, <2>4 DEF BookFits
<1>7. ASSUME ~r.default PROVE BookFits(b)
  <2>1. ~Book!Sets(r)  BY <1>4, <1>7
  <2>2. DOMAIN book # {} /\ r.cleared = {}  BY <1>7 DEF BookFresh
  <2>3. \A x \in DOMAIN b : b[x] <=> (x \in DOMAIN book /\ book[x])
    BY <1>1, <1>3, <2>1, <2>2
  <2>4. PICK d \in Addresses : Chosen(book, d)  BY <2>2 DEF BookFits
  <2>5. Chosen(b, d)  BY <1>1, <2>3, <2>4 DEF Chosen
  <2>. QED  BY <1>1, <1>2, <1>5, <2>5 DEF BookFits
<1>. QED  BY <1>6, <1>7 DEF b

LEMMA DeleteFits ==
    ASSUME NEW r, BookFits(book), BookFresh(r, book), r.kind = "delete"
    PROVE  BookFits(Book!AfterDelete(r))
<1>. DEFINE b == Book!AfterDelete(r)
            a == r.address
            rest == Book!Without(a)
<1>1. /\ DOMAIN rest = DOMAIN book \ {a} /\ \A x \in DOMAIN rest : rest[x] = book[x]
      /\ IsBook(rest)
  BY DEF Book!Without, IsBook
<1>. HIDE DEF rest
<1>2. /\ DOMAIN b = DOMAIN rest /\ IsBook(b)
      /\ \A x \in DOMAIN b : b[x] = (rest[x] \/ (r.was /\ x \in Book!Replacement(rest)))
  BY DEF Book!AfterDelete, IsBook, rest
<1>. HIDE DEF b
<1>3. \A x \in DOMAIN b : b[x] \in BOOLEAN  BY <1>2
<1>4. DOMAIN b \subseteq Addresses  BY <1>1, <1>2 DEF BookFits
<1>5. PICK d \in Addresses : Chosen(book, d)  BY DEF BookFits, BookFresh
<1>6. r.was <=> a = d  BY <1>5 DEF BookFresh, Chosen
<1>7. ASSUME DOMAIN b = {} PROVE BookFits(b)  BY <1>2, <1>3, <1>4, <1>7 DEF BookFits
<1>8. ASSUME DOMAIN b # {}, r.was PROVE BookFits(b)
  <2>1. rest # <<>>  BY <1>1, <1>2, <1>8, EmptyFunction
  <2>2. DOMAIN rest \subseteq Nat  BY <1>2, <1>4, CustomersAssumption
  <2>3. Book!Min(DOMAIN rest) \in DOMAIN rest  BY <1>2, <1>8, <2>2, LeastIsIn
  <2>. DEFINE m == Book!Min(DOMAIN rest)
  <2>4. Book!Replacement(rest) = {m}  BY <2>1 DEF Book!Replacement
  <2>. HIDE DEF m
  <2>5. \A x \in DOMAIN b : ~rest[x]  BY <1>1, <1>2, <1>5, <1>6, <1>8 DEF Chosen
  <2>6. m \in DOMAIN b  BY <1>2, <2>3 DEF m
  <2>7. Chosen(b, m)  BY <1>2, <1>8, <2>4, <2>5, <2>6 DEF Chosen
  <2>. QED  BY <1>2, <1>3, <1>4, <2>6, <2>7 DEF BookFits
<1>9. ASSUME ~r.was PROVE BookFits(b)
  <2>1. \A x \in DOMAIN b : b[x] <=> book[x]  BY <1>1, <1>2, <1>9
  <2>2. d \in DOMAIN b  BY <1>1, <1>2, <1>5, <1>6, <1>9 DEF Chosen
  <2>3. Chosen(b, d)  BY <1>1, <1>2, <1>5, <2>1, <2>2 DEF Chosen
  <2>. QED  BY <1>2, <1>3, <1>4, <2>3 DEF BookFits
<1>. QED  BY <1>7, <1>8, <1>9 DEF b

LEMMA BookCommits == ASSUME OneCaller, BookInv, NEW q \in Callers, Book!Commit(q) PROVE BookInv'
<1>. DEFINE r == bookRequest[q]
<1>1. /\ r.step = (IF r.step # "none" /\ r.default THEN "cleared" ELSE "read")
      /\ book' = Book!AfterRequest(r)
      /\ bookRequest' = [bookRequest EXCEPT ![q] = Book!Idle]
  BY DEF Book!Commit
<1>2. r.step # "none" /\ BookFresh(r, book)  BY <1>1 DEF BookInv
<1>3. r.step = (IF r.default THEN "cleared" ELSE "read")  BY <1>1, <1>2
<1>4. r.kind = "create" \/ r.address \in DOMAIN book  BY <1>2 DEF BookFresh
<1>5. BookFits(book')
  <2>1. CASE r.kind = "delete"
    BY <1>1, <1>2, <1>4, <2>1, DeleteFits DEF BookInv, Book!AfterRequest
  <2>2. CASE r.kind # "delete"
    BY <1>1, <1>2, <1>3, <1>4, <2>2, EditFits DEF BookInv, Book!AfterRequest
  <2>. QED  BY <2>1, <2>2
<1>6. bookRequest' = [p \in Callers |-> Book!Idle]  BY <1>1 DEF OneCaller, BookInv
<1>. QED  BY <1>5, <1>6 DEF BookInv, Book!Idle

LEMMA BookStep == ASSUME OneCaller, BookInv, Book!Next PROVE BookInv'
<1>1. ASSUME NEW q \in Callers, Book!ClearDefaults(q) PROVE BookInv'  BY <1>1, BookCleared
<1>2. ASSUME NEW q \in Callers, Book!Commit(q) PROVE BookInv'  BY <1>2, BookCommits
<1>3. ASSUME NEW q \in Callers, NEW a \in Addresses, Book!SetDefault(q, a) \/ Book!DeleteAddress(q, a)
      PROVE  BookInv'
  BY <1>3, BookBegins DEF Book!SetDefault, Book!DeleteAddress
<1>4. ASSUME NEW q \in Callers, NEW a \in Addresses, NEW default \in BOOLEAN, Book!UpdateAddress(q, a, default)
      PROVE  BookInv'
  BY <1>4, BookBegins DEF Book!UpdateAddress
<1>5. ASSUME NEW q \in Callers, NEW a \in Addresses, NEW default \in BOOLEAN, Book!CreateAddress(q, a, default)
      PROVE  BookInv'
  <2>1. Book!Begin(q, "create", a, default \/ book = <<>>) /\ \A b \in DOMAIN book : b < a
    BY <1>5 DEF Book!CreateAddress, Book!Created
  <2>2. a \notin DOMAIN book
    <3>1. a \in Nat  BY CustomersAssumption
    <3>. QED  BY <2>1, <3>1
  <2>3. DOMAIN book = {} => book = <<>>  BY EmptyFunction DEF BookInv, BookFits
  <2>. DEFINE first == default \/ book = <<>>
  <2>4. first \in BOOLEAN /\ (DOMAIN book = {} => first)  BY <2>3
  <2>. HIDE DEF first
  <2>5. Book!Begin(q, "create", a, first)  BY <2>1 DEF first
  <2>. QED  BY <2>2, <2>4, <2>5, BookBegins
<1>. QED  BY <1>1, <1>2, <1>3, <1>4, <1>5 DEF Book!Next

LEMMA BookHolds == ASSUME BookInv PROVE Book!OneDefault
<1>1. CASE book = <<>>  BY <1>1 DEF Book!OneDefault
<1>2. CASE book # <<>>
  <2>1. DOMAIN book # {}  BY <1>2, EmptyFunction DEF BookInv, BookFits
  <2>2. PICK a \in Addresses : Chosen(book, a)  BY <2>1 DEF BookInv, BookFits
  <2>3. {c \in DOMAIN book : book[c]} = {a}  BY <2>2 DEF Chosen
  <2>. QED  BY <2>3, OneIsOne DEF Book!OneDefault
<1>. QED  BY <1>1, <1>2

-----------------------------------------------------------------------------
(* The support ticket.                                                     *)

DeskStatuses == DOMAIN Desk!Allowed \cup {"absent"}
DeskTicket == [status : DeskStatuses, admin : Admins \cup {Desk!Nobody}]

\* What an open request will write is computed from the ticket as it is; only the
\* customer's own message counts as an answer, and it ends the waiting.
TicketFresh(p, now) ==
    /\ p.old = now /\ now.status # "absent" /\ p.new \in DeskTicket
    /\ p.kind = "customer" => p.new.status # "awaiting_customer"
    /\ p.new.status = "awaiting_customer" => now.status = "awaiting_customer" \/ p.kind = "status"

DeskInv ==
    /\ ticket \in DeskTicket /\ answered \in BOOLEAN
    /\ pending = [q \in Callers |-> pending[q]]
    /\ \A q \in Callers : pending[q].kind # "none" => TicketFresh(pending[q], ticket)
    /\ Desk!WaitsOnlyForCustomer

LEMMA InitDesk == Desk!Init => DeskInv
<1>. SUFFICES ASSUME Desk!Init PROVE DeskInv  OBVIOUS
<1>1. ticket.status = "absent" /\ ticket \in DeskTicket
  BY DEF Desk!Init, DeskTicket, DeskStatuses
<1>2. answered = FALSE /\ pending = [q \in Callers |-> Desk!Idle]  BY DEF Desk!Init
<1>. QED  BY <1>1, <1>2 DEF DeskInv, Desk!WaitsOnlyForCustomer, Desk!Idle

LEMMA DeskBegins ==
    ASSUME DeskInv, NEW q \in Callers, NEW kind, NEW status \in DeskStatuses,
           NEW admin \in Admins \cup {Desk!Nobody}, Desk!Begin(q, kind, status, admin),
           kind = "customer" => status # "awaiting_customer",
           status = "awaiting_customer" => ticket.status = "awaiting_customer" \/ kind = "status",
           ticket.status # "absent"
    PROVE  DeskInv'
<1>. DEFINE r == [kind |-> kind, old |-> ticket, new |-> [status |-> status, admin |-> admin]]
<1>1. pending' = [pending EXCEPT ![q] = r] /\ UNCHANGED <<ticket, answered>>  BY DEF Desk!Begin
<1>2. TicketFresh(r, ticket)
  BY DEF DeskInv,  TicketFresh, DeskTicket
<1>. HIDE DEF r
<1>3. ASSUME NEW p \in Callers, pending'[p].kind # "none" PROVE TicketFresh(pending'[p], ticket')
  BY <1>1, <1>2, <1>3 DEF DeskInv, TicketFresh
<1>. QED  BY <1>1, <1>3 DEF DeskInv, Desk!WaitsOnlyForCustomer, TicketFresh

LEMMA DeskCommits == ASSUME OneCaller, DeskInv, NEW q \in Callers, Desk!Commit(q) PROVE DeskInv'
<1>. DEFINE p == pending[q]
<1>1. p.kind # "none" /\ TicketFresh(p, ticket)  BY DEF Desk!Commit, DeskInv
<1>2. ticket = [f \in {"status", "admin"} |-> ticket[f]] /\ p.new = [f \in {"status", "admin"} |-> p.new[f]]
  BY <1>1 DEF DeskInv, DeskTicket, TicketFresh
<1>3. ticket' = [f \in DOMAIN ticket |-> IF p.new[f] = ticket[f] THEN ticket[f] ELSE p.new[f]]
  BY <1>1 DEF Desk!Commit, TicketFresh
<1>4. ticket' = p.new  
  <2>1. DOMAIN ticket = {"status", "admin"} BY <1>2
  <2>2. ticket' = [f \in {"status", "admin"} |-> p.new[f]]
    BY <1>3, <2>1
  <2>. QED  BY <1>2, <2>2
<1>5. answered' = IF p.kind = "customer" THEN TRUE
                  ELSE answered /\ ~(p.kind = "status" /\ p.new.status = "awaiting_customer")
  BY DEF Desk!Commit
<1>6. Desk!WaitsOnlyForCustomer'
  BY <1>1, <1>4, <1>5 DEF Desk!WaitsOnlyForCustomer, TicketFresh, DeskInv
<1>7. \A x \in Callers : x = q  BY DEF OneCaller
<1>8. pending' = [x \in Callers |-> Desk!Idle]
  BY <1>7 DEF Desk!Commit, DeskInv
<1>. QED  BY <1>1, <1>4, <1>5, <1>6, <1>8 DEF DeskInv, TicketFresh, Desk!Idle

LEMMA DeskStep == ASSUME OneCaller, DeskInv, Desk!Next PROVE DeskInv'
<1>1. CASE Desk!CreateTicket
  <2>1. ticket' \in DeskTicket /\ ticket'.status = "new"
    BY <1>1 DEF Desk!CreateTicket, DeskInv, DeskTicket, DeskStatuses, Desk!Allowed
  <2>2. ASSUME NEW q \in Callers PROVE pending[q].kind = "none"
    BY <1>1 DEF Desk!CreateTicket, DeskInv, TicketFresh
  <2>. QED  BY <1>1, <2>1, <2>2 DEF Desk!CreateTicket, DeskInv, Desk!WaitsOnlyForCustomer
<1>2. ASSUME NEW q \in Callers, Desk!CustomerMessage(q) PROVE DeskInv'
  <2>. DEFINE s == Desk!StatusAnswered(ticket.status)
  <2>1. s \in DeskStatuses /\ s # "awaiting_customer"
    BY DEF DeskInv, DeskTicket, DeskStatuses, Desk!StatusAnswered, Desk!Allowed
  <2>2. ticket.admin \in Admins \cup {Desk!Nobody}  BY DEF DeskInv, DeskTicket
  <2>. QED  BY <1>2, <2>1, <2>2, DeskBegins DEF Desk!CustomerMessage
<1>3. ASSUME NEW q \in Callers, NEW a \in Admins, Desk!AdminMessage(q, a) \/ Desk!Assign(q, a)
      PROVE  DeskInv'
  <2>1. Desk!Owned(a) \in Admins \cup {Desk!Nobody} BY DEF DeskInv, DeskTicket, Desk!Owned
  <2>2. /\ ticket.status \in DeskStatuses
        /\ "investigating" \in DeskStatuses /\ "assigned" \in DeskStatuses
    BY DEF DeskInv, DeskTicket, DeskStatuses, Desk!Allowed
  <2>. QED  BY <1>3, <2>1, <2>2, DeskBegins DEF Desk!AdminMessage, Desk!Assign
<1>4. ASSUME NEW q \in Callers, NEW a \in Admins, NEW s \in DOMAIN Desk!Allowed, Desk!UpdateStatus(q, a, s)
      PROVE  DeskInv'
  <2>1. Desk!Owned(a) \in Admins \cup {Desk!Nobody} BY DEF DeskInv, DeskTicket, Desk!Owned
  <2>2. s \in DeskStatuses  BY DEF DeskStatuses
  <2>. QED  BY <1>4, <2>1, <2>2, DeskBegins DEF Desk!UpdateStatus
<1>5. ASSUME NEW q \in Callers, Desk!Commit(q) PROVE DeskInv'  BY <1>5, DeskCommits
<1>. QED  BY <1>1, <1>2, <1>3, <1>4, <1>5 DEF Desk!Next

-----------------------------------------------------------------------------
(* The reviews.  An average is never unfolded: it is enough that the handler *)
(* takes it of the reviews it leaves.                                      *)

ReviewRow == [there : BOOLEAN, chef : Stars \cup {0}, driver : Stars \cup {0}, visible : BOOLEAN]
ReviewFits(r) == r \in ReviewRow /\ (r.there => r.chef \in Stars)

\* What an open request commits: a review, and ratings computed from the reviews as
\* they will be, which for the chef holds whenever a customer writes.
ReviewFresh(r, rows, now) ==
    /\ r.order \in Reviewed /\ r.old = rows[r.order] /\ ReviewFits(r.new)
    /\ r.read = now /\ r.rating = [p \in Reviews!Both |-> r.rating[p]]
    /\ r.handler \in {"create", "update"} =>
          LET session == [rows EXCEPT ![r.order] = r.new]
          IN r.rating["chef"] = Reviews!Average(session, session, "chef")

ReviewInv ==
    /\ review = [o \in Reviewed |-> review[o]] /\ \A o \in Reviewed : ReviewFits(review[o])
    /\ rating = [p \in Reviews!Both |-> rating[p]]
    /\ open = [q \in Callers |-> open[q]]
    /\ \A q \in Callers : open[q].on => ReviewFresh(open[q], review, rating)
    /\ Reviews!ChefRatingFollowsReviews

LEMMA InitReview == Reviews!Init => ReviewInv
<1>. SUFFICES ASSUME Reviews!Init PROVE ReviewInv  OBVIOUS
<1>1. ReviewFits(Reviews!NoReview)  BY DEF ReviewFits, ReviewRow, Reviews!NoReview, Reviews!Null
<1>2. open = [q \in Callers |-> Reviews!Idle] /\ last = "none"  BY DEF Reviews!Init
<1>3. \A q \in Callers : open[q].on = FALSE  BY <1>2 DEF Reviews!Idle
<1>. QED
  BY <1>1, <1>2, <1>3 DEF Reviews!Init, ReviewInv, Reviews!ChefRatingFollowsReviews

LEMMA SameReviewsCounted ==
    ASSUME NEW p, NEW old, NEW new, Reviews!Counted(old, p) = Reviews!Counted(new, p)
    PROVE  Reviews!Average(old, new, p) = Reviews!Average(new, new, p)
  BY DEF Reviews!Average

LEMMA ReviewRefreshed ==
    ASSUME ReviewInv, NEW q \in Callers, NEW handler, NEW o \in Reviewed, NEW table, NEW session,
           Reviews!Refresh(q, handler, o, table, session),
           session = [review EXCEPT ![o] = session[o]], ReviewFits(session[o]),
           handler \in {"create", "update"} =>
             Reviews!Counted(table, "chef") = Reviews!Counted(session, "chef")
    PROVE  ReviewInv'
<1>. DEFINE chefs == [p \in Reviews!Both |-> Reviews!Average(table, session, p)]
            r == [on |-> TRUE, handler |-> handler, order |-> o, old |-> review[o], new |-> session[o],
                  read |-> rating, rating |-> chefs]
<1>1. open' = [open EXCEPT ![q] = r] /\ UNCHANGED <<review, rating, last>>  BY DEF Reviews!Refresh
<1>2. handler \in {"create", "update"} => chefs["chef"] = Reviews!Average(session, session, "chef")
  BY SameReviewsCounted DEF Reviews!Both
<1>3. chefs = [p \in Reviews!Both |-> chefs[p]]  OBVIOUS
<1>. HIDE DEF chefs
<1>4. ReviewFresh(r, review, rating)  BY <1>2, <1>3 DEF ReviewFresh
<1>5. r.on = TRUE  OBVIOUS
<1>. HIDE DEF r
<1>6. \A p \in Callers : open'[p].on => ReviewFresh(open'[p], review, rating)
  BY <1>1, <1>4 DEF ReviewInv
<1>7. ~ \A p \in Callers : ~open'[p].on  BY <1>1, <1>5 DEF ReviewInv
<1>8. open' = [p \in Callers |-> open'[p]]  BY <1>1 DEF ReviewInv
<1>. QED  BY <1>1, <1>6, <1>7, <1>8 DEF ReviewInv, Reviews!ChefRatingFollowsReviews

LEMMA ReviewCommits == ASSUME OneCaller, ReviewInv, NEW q \in Callers, Reviews!Commit(q) PROVE ReviewInv'
<1>. DEFINE r == open[q]
<1>1. r.on /\ ReviewFresh(r, review, rating)  BY DEF Reviews!Commit, ReviewInv
<1>2. review' = [review EXCEPT ![r.order] = r.new]
  <2>1. r.new = [f \in DOMAIN review[r.order] |-> r.new[f]]
    BY <1>1 DEF ReviewInv, ReviewFresh, ReviewFits, ReviewRow
  <2>2. Reviews!Written(review[r.order], r.old, r.new) = [f \in DOMAIN review[r.order] |-> r.new[f]]
    BY <1>1 DEF Reviews!Written, ReviewFresh
  <2>. QED  BY <1>1, <2>1, <2>2 DEF Reviews!Commit, ReviewFresh, ReviewInv
<1>3. rating' = r.rating
  <2>1. Reviews!Written(rating, r.read, r.rating) = [p \in DOMAIN rating |-> r.rating[p]]
    BY <1>1 DEF Reviews!Written, ReviewFresh
  <2>2. DOMAIN rating = Reviews!Both  BY DEF ReviewInv
  <2>. QED  BY <1>1, <2>1, <2>2 DEF Reviews!Commit, ReviewFresh
<1>4. last' = r.handler  BY DEF Reviews!Commit
<1>5. open' = [p \in Callers |-> Reviews!Idle]
  BY DEF Reviews!Commit, OneCaller, ReviewInv
<1>6. \A p \in Callers : open'[p].on = FALSE  BY <1>5 DEF Reviews!Idle
<1>7. \A o \in Reviewed : ReviewFits(review'[o])
  BY <1>1, <1>2 DEF ReviewInv, ReviewFresh
<1>8. Reviews!ChefRatingFollowsReviews'
  BY <1>1, <1>2, <1>3, <1>4 DEF Reviews!ChefRatingFollowsReviews, Reviews!Follows, ReviewFresh
<1>9. /\ review' = [o \in Reviewed |-> review'[o]]
      /\ rating' = [p \in Reviews!Both |-> rating'[p]]
  BY <1>1, <1>2, <1>3 DEF ReviewInv, ReviewFresh
<1>. QED  BY <1>5, <1>6, <1>7, <1>8, <1>9 DEF ReviewInv

LEMMA ReviewStep == ASSUME OneCaller, ReviewInv, Reviews!Next PROVE ReviewInv'
<1>1. ASSUME NEW q \in Callers, NEW o \in Reviewed, NEW chef \in Stars, NEW driver \in Stars \cup {0},
             Reviews!Create(q, o, chef, driver)
      PROVE  ReviewInv'
  <2>. DEFINE new == [there |-> TRUE, chef |-> chef, driver |-> driver, visible |-> TRUE]
              session == [review EXCEPT ![o] = new]
  <2>1. Reviews!Refresh(q, "create", o, session, session)
    BY <1>1 DEF Reviews!Create, Reviews!Flushed
  <2>2. ReviewFits(new)  BY DEF ReviewFits, ReviewRow
  <2>. HIDE DEF new
  <2>3. session[o] = new  BY DEF ReviewInv
  <2>. QED  BY <2>1, <2>2, <2>3, ReviewRefreshed
<1>2. ASSUME NEW q \in Callers, NEW o \in Reviewed, NEW chef \in Stars, NEW driver \in Stars \cup {0},
             Reviews!Update(q, o, chef, driver)
      PROVE  ReviewInv'
  <2>. DEFINE session == [review EXCEPT ![o].chef = chef, ![o].driver = driver]
  <2>1. Reviews!Refresh(q, "update", o, review, session) /\ review[o].there
    BY <1>1, <1>2 DEF Reviews!Update
  <2>2. /\ session = [x \in Reviewed |-> session[x]]
        /\ \A x \in Reviewed \ {o} : session[x] = review[x]
    BY DEF ReviewInv
  <2>3. /\ ReviewFits(session[o]) /\ session[o].chef = chef
        /\ session[o].there = review[o].there /\ session[o].visible = review[o].visible
    BY <2>1 DEF ReviewInv, ReviewFits, ReviewRow
  <2>4. ReviewFits(review[o]) /\ DOMAIN review = Reviewed  BY DEF ReviewInv
  <2>. HIDE DEF session
  <2>5. chef # 0 /\ review[o].chef # 0
    BY <2>1, <2>4, CustomersAssumption DEF ReviewFits
  <2>6. DOMAIN session = Reviewed  BY <2>2
  <2>7. Reviews!Counted(review, "chef") = Reviews!Counted(session, "chef")
    BY <2>2, <2>3, <2>4, <2>5, <2>6 DEF Reviews!Counted, Reviews!Null
  <2>8. session = [review EXCEPT ![o] = session[o]]  BY <2>2, <2>4
  <2>. QED  BY <2>1, <2>3, <2>7, <2>8, ReviewRefreshed
<1>3. ASSUME NEW q \in Callers, NEW o \in Reviewed, NEW visible \in BOOLEAN, Reviews!Moderate(q, o, visible)
      PROVE  ReviewInv'
  <2>. DEFINE session == [review EXCEPT ![o].visible = visible]
  <2>1. Reviews!Refresh(q, "moderate", o, review, session)  BY <1>3 DEF Reviews!Moderate
  <2>2. ReviewFits(session[o])  BY DEF ReviewInv, ReviewFits, ReviewRow
  <2>3. session = [review EXCEPT ![o] = session[o]]  BY DEF ReviewInv
  <2>. QED  BY <2>1, <2>2, <2>3, ReviewRefreshed
<1>4. ASSUME NEW q \in Callers, Reviews!Commit(q) PROVE ReviewInv'  BY <1>4, ReviewCommits
<1>. QED  BY <1>1, <1>2, <1>3, <1>4 DEF Reviews!Next, Reviews!Null

-----------------------------------------------------------------------------
(* The loyalty account.                                                    *)

PointRow == [status : {"cart", "reserved", "paid", "unpaid", "delivered"}, points : Nat, earns : Nat]
PointAccount == [balance : Int, earned : Int, redeemed : Int]

\* What a request adds to the account it has read, and to the ledger.
PointsFresh(r, now, rows) ==
    /\ r.kind \in {"paid", "unpaid", "delivered"} /\ r.order \in Bought /\ r.old = now
    /\ r.kind # "delivered" => rows[r.order].status = "reserved"
    /\ r.kind = "paid" =>
         /\ r.new = [now EXCEPT !.redeemed = @ + rows[r.order].points]
         /\ r.entry = Loyalty!Entry("redeem", r.order, -rows[r.order].points)
    /\ r.kind = "unpaid" =>
         r.new = [now EXCEPT !.balance = @ + rows[r.order].points] /\ r.entry = {}
    /\ r.kind = "delivered" =>
         /\ r.new = [now EXCEPT !.balance = @ + rows[r.order].earns, !.earned = @ + rows[r.order].earns]
         /\ r.entry = Loyalty!Entry("earn", r.order, rows[r.order].earns)

\* The balance and the lifetime totals are what the sets of points add up to, whether
\* or not a request is open.
Sums(now, gained, spent, held) ==
    /\ IsFiniteSet(gained) /\ IsFiniteSet(spent) /\ IsFiniteSet(held)
    /\ now.balance = Cardinality(gained) - Cardinality(spent) - Cardinality(held)
    /\ now.earned = Cardinality(gained) /\ now.redeemed = Cardinality(spent)

PointTypes ==
    /\ order \in [Bought -> PointRow] /\ account \in PointAccount
    /\ pointsRequest = [q \in Callers |-> pointsRequest[q]]

PointsInv ==
    /\ PointTypes
    /\ \A q \in Callers : pointsRequest[q] # Loyalty!Idle => PointsFresh(pointsRequest[q], account, order)
    /\ Sums(account, Loyalty!EarnedPoints, Loyalty!RedeemedPoints, Loyalty!HeldPoints)

LEMMA InitPoints == Loyalty!Init => PointsInv
<1>. SUFFICES ASSUME Loyalty!Init PROVE PointsInv  OBVIOUS
<1>1. PointTypes /\ \A q \in Callers : pointsRequest[q] = Loyalty!Idle
  BY DEF Loyalty!Init, PointTypes, PointRow, PointAccount, Loyalty!NoOrder
<1>2. Loyalty!EarnedPoints = {} /\ Loyalty!RedeemedPoints = {} /\ Loyalty!HeldPoints = {}
  BY DEF Loyalty!Init, Loyalty!EarnedPoints, Loyalty!RedeemedPoints, Loyalty!HeldPoints, Loyalty!NoOrder
<1>3. IsFiniteSet({}) /\ Cardinality({}) = 0  BY FS_EmptySet
<1>4. account.balance = 0 /\ account.earned = 0 /\ account.redeemed = 0  BY DEF Loyalty!Init
<1>5. Sums(account, {}, {}, {})  BY <1>3, <1>4 DEF Sums
<1>. QED  BY <1>1, <1>2, <1>5 DEF PointsInv

LEMMA MorePoints ==
    ASSUME NEW A, IsFiniteSet(A), NEW x, NEW n \in Nat, A \cap ({x} \X (1..n)) = {}
    PROVE  /\ IsFiniteSet(A \cup ({x} \X (1..n))) /\ Cardinality(A) \in Nat
           /\ Cardinality(A \cup ({x} \X (1..n))) = Cardinality(A) + n
<1>1. IsFiniteSet({x}) /\ Cardinality({x}) = 1  BY FS_Singleton
<1>2. IsFiniteSet(1..n) /\ Cardinality(1..n) = n
  <2>1. IsFiniteSet(1..n) /\ Cardinality(1..n) = IF 1 > n THEN 0 ELSE n - 1 + 1  BY FS_Interval
  <2>. QED  BY <2>1
<1>. DEFINE B == {x} \X (1..n)
<1>3. IsFiniteSet(B) /\ Cardinality(B) = n
  <2>1. IsFiniteSet(B) /\ Cardinality(B) = Cardinality({x}) * Cardinality(1..n)
    BY <1>1, <1>2, FS_Product
  <2>. QED  BY <1>1, <1>2, <2>1
<1>4. A \cap B = {}  OBVIOUS
<1>. HIDE DEF B
<1>5. Cardinality(A \cap B) = 0  BY <1>4, FS_EmptySet
<1>6. /\ IsFiniteSet(A \cup B)
      /\ Cardinality(A \cup B) = Cardinality(A) + Cardinality(B) - Cardinality(A \cap B)
  BY <1>3, FS_Union
<1>7. Cardinality(A) \in Nat  BY FS_CardinalityType
<1>8. Cardinality(B) = n  BY <1>3
<1>. QED  BY <1>5, <1>6, <1>7, <1>8 DEF B

LEMMA PointsReserved ==
    ASSUME OneCaller, PointsInv, NEW o \in Bought, NEW points \in Points, NEW earns \in Earned,
           Loyalty!ReserveForOrder(o, points, earns)
    PROVE  PointsInv'
<1>1. points \in Nat /\ earns \in Nat  BY CustomersAssumption
<1>. DEFINE new == [status |-> "reserved", points |-> points, earns |-> earns]
<1>2. /\ \A q \in Callers : pointsRequest[q] = Loyalty!Idle
      /\ order[o].status = "cart"
      /\ account' = [account EXCEPT !.balance = @ - points]
      /\ order' = [order EXCEPT ![o] = new] /\ UNCHANGED <<ledger, pointsRequest>>
  BY DEF Loyalty!ReserveForOrder
<1>3. new \in PointRow /\ new.status = "reserved" /\ new.points = points  BY <1>1 DEF PointRow
<1>. HIDE DEF new
<1>4. order' \in [Bought -> PointRow] /\ order'[o] = new /\ \A x \in Bought : x # o => order'[x] = order[x]
  BY <1>2, <1>3 DEF PointsInv, PointTypes
<1>5. /\ account' \in PointAccount /\ account'.balance = account.balance - points
      /\ account'.earned = account.earned /\ account'.redeemed = account.redeemed
  BY <1>1, <1>2 DEF PointsInv, PointTypes, PointAccount
<1>6. Loyalty!HeldPoints' = Loyalty!HeldPoints \cup ({o} \X (1..points))
  BY <1>2, <1>3, <1>4 DEF Loyalty!HeldPoints
<1>7. Loyalty!HeldPoints \cap ({o} \X (1..points)) = {}
  BY <1>2 DEF Loyalty!HeldPoints
<1>8. Loyalty!EarnedPoints' = Loyalty!EarnedPoints /\ Loyalty!RedeemedPoints' = Loyalty!RedeemedPoints
  BY <1>2 DEF Loyalty!EarnedPoints, Loyalty!RedeemedPoints
<1>9. /\ IsFiniteSet(Loyalty!HeldPoints') /\ Cardinality(Loyalty!HeldPoints) \in Nat
      /\ Cardinality(Loyalty!HeldPoints') = Cardinality(Loyalty!HeldPoints) + points
  <2>1. IsFiniteSet(Loyalty!HeldPoints)  BY DEF PointsInv, Sums
  <2>. QED  BY <1>1, <1>6, <1>7, <2>1, MorePoints
<1>10. /\ Cardinality(Loyalty!EarnedPoints) \in Nat /\ Cardinality(Loyalty!RedeemedPoints) \in Nat
  BY FS_CardinalityType DEF PointsInv, Sums
<1>11. Sums(account', Loyalty!EarnedPoints', Loyalty!RedeemedPoints', Loyalty!HeldPoints')
  BY <1>1, <1>5, <1>8, <1>9, <1>10 DEF PointsInv, Sums
<1>. QED  BY <1>2, <1>4, <1>5, <1>11 DEF PointsInv, PointTypes

LEMMA PointsRead ==
    ASSUME OneCaller, PointsInv, NEW q \in Callers, NEW kind, NEW o, NEW new, NEW entry,
           Loyalty!Reads(q, kind, o, new, entry),
           PointsFresh([kind |-> kind, order |-> o, old |-> account, new |-> new, entry |-> entry], account, order)
    PROVE  PointsInv'
<1>. DEFINE r == [kind |-> kind, order |-> o, old |-> account, new |-> new, entry |-> entry]
<1>1. pointsRequest' = [pointsRequest EXCEPT ![q] = r] /\ UNCHANGED <<account, order, ledger>>
  BY DEF Loyalty!Reads
<1>2. PointsFresh(r, account, order)  OBVIOUS
<1>. HIDE DEF r
<1>3. pointsRequest' = [p \in Callers |-> r]  BY <1>1 DEF OneCaller, PointsInv, PointTypes
<1>4. /\ Loyalty!EarnedPoints' = Loyalty!EarnedPoints /\ Loyalty!RedeemedPoints' = Loyalty!RedeemedPoints
      /\ Loyalty!HeldPoints' = Loyalty!HeldPoints
  BY <1>1 DEF Loyalty!EarnedPoints, Loyalty!RedeemedPoints, Loyalty!HeldPoints
<1>. QED  BY <1>1, <1>2, <1>3, <1>4 DEF PointsInv, PointTypes

\* A new entry of the ledger adds its own points, on the side of its sign.
LEMMA LedgerGrows ==
    ASSUME NEW e, e \notin ledger, ledger' = ledger \cup {e}
    PROVE  /\ Loyalty!EarnedPoints' = Loyalty!EarnedPoints \cup ({e} \X (1..e.points))
           /\ Loyalty!RedeemedPoints' = Loyalty!RedeemedPoints \cup ({e} \X (1..-e.points))
           /\ Loyalty!EarnedPoints \cap ({e} \X (1..e.points)) = {}
           /\ Loyalty!RedeemedPoints \cap ({e} \X (1..-e.points)) = {}
  BY DEF Loyalty!EarnedPoints, Loyalty!RedeemedPoints

\* What a request records: nothing, or one entry that the ledger does not have.
LEMMA EntryRecorded ==
    ASSUME PointsInv, NEW kind, NEW o, NEW n \in Int, NEW r, r.entry = Loyalty!Entry(kind, o, n),
           ~Loyalty!Recorded(r), ledger' = ledger \cup r.entry
    PROVE  /\ IsFiniteSet(Loyalty!EarnedPoints') /\ IsFiniteSet(Loyalty!RedeemedPoints')
           /\ Cardinality(Loyalty!EarnedPoints') = Cardinality(Loyalty!EarnedPoints) + (IF n > 0 THEN n ELSE 0)
           /\ Cardinality(Loyalty!RedeemedPoints') = Cardinality(Loyalty!RedeemedPoints) + (IF n < 0 THEN -n ELSE 0)
<1>0. /\ IsFiniteSet(Loyalty!EarnedPoints) /\ IsFiniteSet(Loyalty!RedeemedPoints)
      /\ Cardinality(Loyalty!EarnedPoints) \in Nat /\ Cardinality(Loyalty!RedeemedPoints) \in Nat
  <2>1. IsFiniteSet(Loyalty!EarnedPoints) /\ IsFiniteSet(Loyalty!RedeemedPoints)  BY DEF PointsInv, Sums
  <2>. QED  BY <2>1, FS_CardinalityType
<1>1. CASE n = 0
  <2>1. ledger' = ledger  BY <1>1 DEF Loyalty!Entry
  <2>2. Loyalty!EarnedPoints' = Loyalty!EarnedPoints /\ Loyalty!RedeemedPoints' = Loyalty!RedeemedPoints
    BY <2>1 DEF Loyalty!EarnedPoints, Loyalty!RedeemedPoints
  <2>. QED  BY <1>0, <1>1, <2>2
<1>2. CASE n # 0
  <2>. DEFINE e == [key |-> <<kind, o>>, points |-> n]
  <2>1. r.entry = {e}  BY <1>2 DEF Loyalty!Entry
  <2>2. e \notin ledger  BY <2>1 DEF Loyalty!Recorded
  <2>3. e.points = n  OBVIOUS
  <2>4. ledger' = ledger \cup {e}  BY <2>1
  <2>. HIDE DEF e
  <2>5. /\ Loyalty!EarnedPoints' = Loyalty!EarnedPoints \cup ({e} \X (1..n))
        /\ Loyalty!RedeemedPoints' = Loyalty!RedeemedPoints \cup ({e} \X (1..-n))
        /\ Loyalty!EarnedPoints \cap ({e} \X (1..n)) = {}
        /\ Loyalty!RedeemedPoints \cap ({e} \X (1..-n)) = {}
    BY <2>2, <2>3, <2>4, LedgerGrows
  <2>6. CASE n > 0
    <3>1. 1..-n = {}  BY <2>6
    <3>2. {e} \X (1..-n) = {}  BY <3>1
    <3>3. Loyalty!RedeemedPoints' = Loyalty!RedeemedPoints  BY <2>5, <3>2
    <3>4. n \in Nat  BY <2>6
    <3>5. /\ IsFiniteSet(Loyalty!EarnedPoints')
          /\ Cardinality(Loyalty!EarnedPoints') = Cardinality(Loyalty!EarnedPoints) + n
      BY <1>0, <2>5, <3>4, MorePoints
    <3>. QED  BY <1>0, <2>6, <3>3, <3>5
  <2>7. CASE n < 0
    <3>1. 1..n = {}  BY <2>7
    <3>2. {e} \X (1..n) = {}  BY <3>1
    <3>3. Loyalty!EarnedPoints' = Loyalty!EarnedPoints  BY <2>5, <3>2
    <3>4. -n \in Nat  BY <2>7
    <3>5. /\ IsFiniteSet(Loyalty!RedeemedPoints')
          /\ Cardinality(Loyalty!RedeemedPoints') = Cardinality(Loyalty!RedeemedPoints) + -n
      BY <1>0, <2>5, <3>4, MorePoints
    <3>. QED  BY <1>0, <2>7, <3>3, <3>5
  <2>. QED  BY <1>2, <2>6, <2>7
<1>. QED  BY <1>1, <1>2

\* An order that leaves `reserved' gives up its points.
LEMMA HoldEnds ==
    ASSUME PointsInv, NEW o \in Bought, NEW status \in {"paid", "unpaid", "delivered"},
           order' = [order EXCEPT ![o].status = status]
    PROVE  /\ order' \in [Bought -> PointRow] /\ IsFiniteSet(Loyalty!HeldPoints')
           /\ Cardinality(Loyalty!HeldPoints) = Cardinality(Loyalty!HeldPoints')
                 + (IF order[o].status = "reserved" THEN order[o].points ELSE 0)
           /\ Cardinality(Loyalty!HeldPoints) \in Nat /\ Cardinality(Loyalty!HeldPoints') \in Nat
<1>1. /\ order' \in [Bought -> PointRow] /\ order'[o].status = status
      /\ \A x \in Bought : x # o => order'[x] = order[x]
  BY DEF PointsInv, PointTypes, PointRow
<1>2. IsFiniteSet(Loyalty!HeldPoints)  BY DEF PointsInv, Sums
<1>3. Loyalty!HeldPoints' \in SUBSET Loyalty!HeldPoints
  BY <1>1 DEF Loyalty!HeldPoints
<1>4. IsFiniteSet(Loyalty!HeldPoints')  BY <1>2, <1>3, FS_Subset
<1>5. Cardinality(Loyalty!HeldPoints) \in Nat /\ Cardinality(Loyalty!HeldPoints') \in Nat
  BY <1>2, <1>4, FS_CardinalityType
<1>6. CASE order[o].status = "reserved"
  <2>. DEFINE n == order[o].points
  <2>1. n \in Nat  BY DEF PointsInv, PointTypes, PointRow
  <2>2. Loyalty!HeldPoints = Loyalty!HeldPoints' \cup ({o} \X (1..n))
    BY <1>1, <1>6 DEF Loyalty!HeldPoints
  <2>3. Loyalty!HeldPoints' \cap ({o} \X (1..n)) = {}
    BY <1>1 DEF Loyalty!HeldPoints
  <2>. HIDE DEF n
  <2>4. Cardinality(Loyalty!HeldPoints' \cup ({o} \X (1..n))) = Cardinality(Loyalty!HeldPoints') + n
    BY <1>4, <2>1, <2>3, MorePoints
  <2>5. Cardinality(Loyalty!HeldPoints) = Cardinality(Loyalty!HeldPoints') + n
    BY <2>2, <2>4
  <2>. QED  BY <1>1, <1>4, <1>5, <1>6, <2>5 DEF n
<1>7. CASE order[o].status # "reserved"
  <2>1. Loyalty!HeldPoints' = Loyalty!HeldPoints  BY <1>1, <1>7 DEF Loyalty!HeldPoints
  <2>. QED  BY <1>1, <1>4, <1>5, <1>7, <2>1
<1>. QED  BY <1>6, <1>7

LEMMA PointsCommitted == ASSUME OneCaller, PointsInv, NEW q \in Callers, Loyalty!Commit(q) PROVE PointsInv'
<1>. DEFINE r == pointsRequest[q]
            o == r.order
            fits == Loyalty!StillThere(r) /\ ~Loyalty!Recorded(r)
<1>1. /\ r.kind # "none" /\ pointsRequest' = [pointsRequest EXCEPT ![q] = Loyalty!Idle]
      /\ account' = IF fits THEN Loyalty!Written(r) ELSE account
      /\ order' = IF fits THEN [order EXCEPT ![r.order].status = r.kind] ELSE order
      /\ ledger' = IF fits THEN ledger \cup r.entry ELSE ledger
  BY DEF Loyalty!Commit
<1>2. PointsFresh(r, account, order)  BY <1>1 DEF PointsInv, Loyalty!Idle
<1>3. pointsRequest' = [p \in Callers |-> Loyalty!Idle]
  BY <1>1 DEF OneCaller, PointsInv, PointTypes
<1>4. CASE ~fits
  <2>1. UNCHANGED <<account, order, ledger>>  BY <1>1, <1>4
  <2>2. /\ Loyalty!EarnedPoints' = Loyalty!EarnedPoints /\ Loyalty!RedeemedPoints' = Loyalty!RedeemedPoints
        /\ Loyalty!HeldPoints' = Loyalty!HeldPoints
    BY <2>1 DEF Loyalty!EarnedPoints, Loyalty!RedeemedPoints, Loyalty!HeldPoints
  <2>. QED  BY <1>3, <2>1, <2>2 DEF PointsInv, PointTypes
<1>5. CASE fits
  <2>1. /\ account' = Loyalty!Written(r) /\ order' = [order EXCEPT ![o].status = r.kind]
        /\ ledger' = ledger \cup r.entry
        /\ r.kind = "delivered" => order[o].status = "paid"
        /\ ~Loyalty!Recorded(r)
    BY <1>1, <1>5 DEF Loyalty!StillThere
  <2>2. o \in Bought /\ r.old = account /\ r.kind \in {"paid", "unpaid", "delivered"}
        /\ (r.kind # "delivered" => order[o].status = "reserved")
    BY <1>2 DEF PointsFresh
  <2>3. /\ order' \in [Bought -> PointRow] /\ IsFiniteSet(Loyalty!HeldPoints')
        /\ Cardinality(Loyalty!HeldPoints) = Cardinality(Loyalty!HeldPoints')
                 + (IF order[o].status = "reserved" THEN order[o].points ELSE 0)
        /\ Cardinality(Loyalty!HeldPoints) \in Nat /\ Cardinality(Loyalty!HeldPoints') \in Nat
    BY <2>1, <2>2, HoldEnds
  <2>4. /\ order[o].points \in Nat /\ order[o].earns \in Nat
        /\ account \in PointAccount /\ DOMAIN account = {"balance", "earned", "redeemed"}
    BY <2>2 DEF PointsInv, PointTypes, PointRow, PointAccount
  <2>5. /\ DOMAIN account' = {"balance", "earned", "redeemed"}
        /\ account' = [f \in {"balance", "earned", "redeemed"} |-> account'[f]]
        /\ account'.balance = r.new.balance /\ account'.earned = r.new.earned
        /\ account'.redeemed = r.new.redeemed
    BY <2>1, <2>2, <2>4 DEF Loyalty!Written
  <2>6. Sums(account, Loyalty!EarnedPoints, Loyalty!RedeemedPoints, Loyalty!HeldPoints)
    BY DEF PointsInv
  <2>7. Cardinality(Loyalty!EarnedPoints) \in Nat /\ Cardinality(Loyalty!RedeemedPoints) \in Nat
    BY <2>6, FS_CardinalityType DEF Sums
  <2>8. /\ account'.balance \in Int /\ account'.earned \in Int /\ account'.redeemed \in Int
        /\ Sums(account', Loyalty!EarnedPoints', Loyalty!RedeemedPoints', Loyalty!HeldPoints')
    <3>1. CASE r.kind = "paid"
      <4>. DEFINE n == order[o].points
      <4>1. r.entry = Loyalty!Entry("redeem", o, -n) /\ r.new = [account EXCEPT !.redeemed = @ + n]
        BY <1>2, <3>1 DEF PointsFresh
      <4>2. /\ account'.balance = account.balance /\ account'.earned = account.earned
            /\ account'.redeemed = account.redeemed + n
        BY <2>4, <2>5, <4>1 DEF PointAccount
      <4>3. -n \in Int /\ ~(-n > 0) /\ (IF -n < 0 THEN -(-n) ELSE 0) = n  BY <2>4
      <4>4. /\ IsFiniteSet(Loyalty!EarnedPoints') /\ IsFiniteSet(Loyalty!RedeemedPoints')
            /\ Cardinality(Loyalty!EarnedPoints') = Cardinality(Loyalty!EarnedPoints)
            /\ Cardinality(Loyalty!RedeemedPoints') = Cardinality(Loyalty!RedeemedPoints) + n
        <5>. HIDE DEF n
        <5>1. /\ IsFiniteSet(Loyalty!EarnedPoints') /\ IsFiniteSet(Loyalty!RedeemedPoints')
              /\ Cardinality(Loyalty!EarnedPoints') = Cardinality(Loyalty!EarnedPoints) + (IF -n > 0 THEN -n ELSE 0)
              /\ Cardinality(Loyalty!RedeemedPoints')
                   = Cardinality(Loyalty!RedeemedPoints) + (IF -n < 0 THEN -(-n) ELSE 0)
          BY <2>1, <4>1, <4>3, EntryRecorded
        <5>. QED  BY <2>7, <4>3, <5>1
      <4>. QED  BY <2>2, <2>3, <2>4, <2>6, <2>7, <3>1, <4>2, <4>4 DEF Sums
    <3>2. CASE r.kind = "unpaid"
      <4>. DEFINE n == order[o].points
      <4>1. r.entry = {} /\ r.new = [account EXCEPT !.balance = @ + n]
        BY <1>2, <3>2 DEF PointsFresh
      <4>2. /\ account'.balance = account.balance + n /\ account'.earned = account.earned
            /\ account'.redeemed = account.redeemed
        BY <2>4, <2>5, <4>1 DEF PointAccount
      <4>3. /\ Loyalty!EarnedPoints' = Loyalty!EarnedPoints
            /\ Loyalty!RedeemedPoints' = Loyalty!RedeemedPoints
        BY <2>1, <4>1 DEF Loyalty!EarnedPoints, Loyalty!RedeemedPoints
      <4>. QED  BY <2>2, <2>3, <2>4, <2>6, <2>7, <3>2, <4>2, <4>3 DEF Sums
    <3>3. CASE r.kind = "delivered"
      <4>. DEFINE n == order[o].earns
      <4>1. /\ r.entry = Loyalty!Entry("earn", o, n)
            /\ r.new = [account EXCEPT !.balance = @ + n, !.earned = @ + n]
        BY <1>2, <3>3 DEF PointsFresh
      <4>2. /\ account'.balance = account.balance + n /\ account'.earned = account.earned + n
            /\ account'.redeemed = account.redeemed
        BY <2>4, <2>5, <4>1 DEF PointAccount
      <4>3. n \in Int /\ ~(n < 0) /\ (IF n > 0 THEN n ELSE 0) = n  BY <2>4
      <4>4. /\ IsFiniteSet(Loyalty!EarnedPoints') /\ IsFiniteSet(Loyalty!RedeemedPoints')
            /\ Cardinality(Loyalty!EarnedPoints') = Cardinality(Loyalty!EarnedPoints) + n
            /\ Cardinality(Loyalty!RedeemedPoints') = Cardinality(Loyalty!RedeemedPoints)
        <5>. HIDE DEF n
        <5>1. /\ IsFiniteSet(Loyalty!EarnedPoints') /\ IsFiniteSet(Loyalty!RedeemedPoints')
              /\ Cardinality(Loyalty!EarnedPoints') = Cardinality(Loyalty!EarnedPoints) + (IF n > 0 THEN n ELSE 0)
              /\ Cardinality(Loyalty!RedeemedPoints')
                   = Cardinality(Loyalty!RedeemedPoints) + (IF n < 0 THEN -n ELSE 0)
          BY <2>1, <4>1, <4>3, EntryRecorded
        <5>. QED  BY <2>7, <4>3, <5>1
      <4>. QED  BY <2>1, <2>2, <2>3, <2>4, <2>6, <2>7, <3>3, <4>2, <4>4 DEF Sums
    <3>. QED  BY <2>2, <3>1, <3>2, <3>3
  <2>9. account' \in PointAccount  BY <2>5, <2>8 DEF PointAccount
  <2>. QED  BY <1>3, <2>3, <2>8, <2>9 DEF PointsInv, PointTypes
<1>. QED  BY <1>4, <1>5

LEMMA PointsStep == ASSUME OneCaller, PointsInv, Loyalty!Next PROVE PointsInv'
<1>1. ASSUME NEW q \in Callers, NEW o \in Bought,
             Loyalty!ApplyForPaidOrder(q, o) \/ Loyalty!ReleaseForUnpaidOrder(q, o)
               \/ Loyalty!AwardForDeliveredOrder(q, o)
      PROVE  PointsInv'
  <2>1. CASE Loyalty!ApplyForPaidOrder(q, o)
    <3>. DEFINE new == [account EXCEPT !.redeemed = @ + order[o].points]
                entry == Loyalty!Entry("redeem", o, -order[o].points)
    <3>1. Loyalty!Reads(q, "paid", o, new, entry)
      BY <2>1 DEF Loyalty!ApplyForPaidOrder
    <3>2. PointsFresh([kind |-> "paid", order |-> o, old |-> account, new |-> new, entry |-> entry],
                      account, order)
      BY <2>1 DEF PointsFresh, Loyalty!ApplyForPaidOrder, Loyalty!Reserved
    <3>. HIDE DEF new, entry
    <3>. QED  BY <3>1, <3>2, PointsRead
  <2>2. CASE Loyalty!ReleaseForUnpaidOrder(q, o)
    <3>. DEFINE new == [account EXCEPT !.balance = @ + order[o].points]
    <3>1. Loyalty!Reads(q, "unpaid", o, new, {})
      BY <2>2 DEF Loyalty!ReleaseForUnpaidOrder
    <3>2. PointsFresh([kind |-> "unpaid", order |-> o, old |-> account, new |-> new, entry |-> {}],
                      account, order)
      BY <2>2 DEF PointsFresh, Loyalty!ReleaseForUnpaidOrder, Loyalty!Reserved
    <3>. HIDE DEF new
    <3>. QED  BY <3>1, <3>2, PointsRead
  <2>3. CASE Loyalty!AwardForDeliveredOrder(q, o)
    <3>. DEFINE n == order[o].earns
                new == [account EXCEPT !.balance = @ + n, !.earned = @ + n]
                entry == Loyalty!Entry("earn", o, n)
    <3>1. Loyalty!Reads(q, "delivered", o, new, entry)
      BY <2>3 DEF Loyalty!AwardForDeliveredOrder
    <3>2. PointsFresh([kind |-> "delivered", order |-> o, old |-> account, new |-> new, entry |-> entry],
                      account, order)
      BY DEF PointsFresh
    <3>. HIDE DEF new, entry
    <3>. QED  BY <3>1, <3>2, PointsRead
  <2>. QED  BY <1>1, <2>1, <2>2, <2>3
<1>2. ASSUME NEW q \in Callers, Loyalty!Commit(q) PROVE PointsInv'  BY <1>2, PointsCommitted
<1>3. ASSUME NEW o \in Bought, NEW points \in Points, NEW earns \in Earned,
             Loyalty!ReserveForOrder(o, points, earns)
      PROVE  PointsInv'
  BY <1>3, PointsReserved
<1>. QED  BY <1>1, <1>2, <1>3 DEF Loyalty!Next

LEMMA PointsHold == ASSUME PointsInv PROVE Loyalty!PointsAddUp
<1>1. ASSUME NEW S PROVE Loyalty!Cardinality(S) = Cardinality(S)
  BY DEF Loyalty!Cardinality, Cardinality, Loyalty!IsFiniteSet, IsFiniteSet
<1>2. Sums(account, Loyalty!EarnedPoints, Loyalty!RedeemedPoints, Loyalty!HeldPoints)  BY DEF PointsInv
<1>. QED  BY <1>1, <1>2 DEF Sums, Loyalty!PointsAddUp

-----------------------------------------------------------------------------
(* The media assets.                                                       *)

MediaRow == [status : {"absent", "pending", "ready", "failed", "deleted"}, sized : BOOLEAN]

\* What an asset has while no deletion of it is between the store and the row.
ObjectFits(a, rows, off, objects) ==
    /\ rows[a].status = "ready" /\ a \notin off => objects[a] = "announced"
    /\ rows[a].status = "deleted" => objects[a] = "none"

\* What a request knows of the asset it is at.
MediaFresh(r, rows, off, objects) ==
    /\ r.asset \in Assets
    /\ r.kind = "erased" \/ ObjectFits(r.asset, rows, off, objects)
    /\ r.kind = "erased" => objects[r.asset] = "none"
    /\ r.kind = "ready" => objects[r.asset] = "announced"

MediaInv ==
    /\ row \in [Assets -> MediaRow]
    /\ object = [a \in Assets |-> object[a]]
    /\ mediaRequest = [q \in Callers |-> mediaRequest[q]]
    /\ \A q \in Callers : mediaRequest[q] # Media!Idle => MediaFresh(mediaRequest[q], row, cutOff, object)
    /\ \A a \in Assets : Media!Settled(a) => ObjectFits(a, row, cutOff, object)

LEMMA InitMedia == Media!Init => MediaInv
  BY DEF Media!Init, MediaInv, MediaRow, Media!Absent, ObjectFits, Media!Settled

\* While no request is open, every asset is settled.
LEMMA MediaAsks ==
    ASSUME OneCaller, MediaInv, NEW q \in Callers, NEW kind, kind \notin {"none", "erased", "ready"},
           NEW a \in Assets, Media!Asks(q, [kind |-> kind, asset |-> a])
    PROVE  MediaInv'
<1>. DEFINE r == [kind |-> kind, asset |-> a]
<1>1. \A p \in Callers : p = q  BY DEF OneCaller
<1>2. mediaRequest' = [p \in Callers |-> r]  BY <1>1 DEF Media!Asks, MediaInv
<1>3. UNCHANGED <<row, object, cutOff>>  BY DEF Media!Asks
<1>4. \A b \in Assets : ObjectFits(b, row, cutOff, object)
  BY <1>1 DEF Media!Asks, MediaInv, Media!Settled
<1>5. r.asset = a /\ r.kind = kind  OBVIOUS
<1>. HIDE DEF r
<1>. QED  BY <1>2, <1>3, <1>4, <1>5 DEF MediaInv, MediaFresh, ObjectFits

\* The one open request goes on to another of its points.
LEMMA MediaGoesOn ==
    ASSUME OneCaller, MediaInv, NEW q \in Callers, NEW r, mediaRequest' = [mediaRequest EXCEPT ![q] = r],
           mediaRequest[q] # Media!Idle, r = Media!Idle \/ r.asset = mediaRequest[q].asset,
           row' \in [Assets -> MediaRow], object' = [a \in Assets |-> object'[a]],
           cutOff \subseteq cutOff',
           \A a \in Assets \ {mediaRequest[q].asset} : row'[a] = row[a] /\ object'[a] = object[a],
           r = Media!Idle => ObjectFits(mediaRequest[q].asset, row', cutOff', object'),
           r # Media!Idle => MediaFresh(r, row', cutOff', object')
    PROVE  MediaInv'
<1>. DEFINE x == mediaRequest[q].asset
<1>1. \A p \in Callers : p = q  BY DEF OneCaller
<1>2. mediaRequest' = [p \in Callers |-> r]  BY <1>1 DEF MediaInv
<1>3. ASSUME NEW a \in Assets, a # x PROVE ObjectFits(a, row', cutOff', object')
  <2>1. Media!Settled(a)  BY <1>1, <1>3 DEF Media!Settled
  <2>2. ObjectFits(a, row, cutOff, object)  BY <2>1 DEF MediaInv
  <2>. QED  BY <1>3, <2>2 DEF ObjectFits
<1>4. ASSUME NEW a \in Assets, Media!Settled(a)' PROVE ObjectFits(a, row', cutOff', object')
  <2>1. CASE r = Media!Idle  BY <1>3, <2>1
  <2>2. CASE r # Media!Idle  BY <1>2, <1>3, <1>4, <2>2 DEF Media!Settled
  <2>. QED  BY <2>1, <2>2
<1>. QED  BY <1>2, <1>4 DEF MediaInv

LEMMA MediaStep == ASSUME OneCaller, MediaInv, Media!Next PROVE MediaInv'
<1>1. ASSUME NEW a \in Assets, Media!CreateUpload(a) PROVE MediaInv'
  <2>1. row' \in [Assets -> MediaRow] /\ \A b \in Assets : b # a => row'[b] = row[b]
    BY <1>1 DEF Media!CreateUpload, MediaInv, MediaRow
  <2>2. row'[a].status = "pending"  BY <1>1 DEF Media!CreateUpload, MediaInv, MediaRow
  <2>3. UNCHANGED <<object, cutOff, mediaRequest>>  BY <1>1 DEF Media!CreateUpload
  <2>4. ASSUME NEW b \in Assets, ObjectFits(b, row, cutOff, object) PROVE ObjectFits(b, row', cutOff', object')
    BY <2>1, <2>2, <2>3, <2>4 DEF ObjectFits
  <2>. QED  BY <2>1, <2>3, <2>4 DEF MediaInv, MediaFresh, Media!Settled
<1>2. ASSUME NEW a \in Assets, Media!LinkExpires(a) PROVE MediaInv'
  <2>1. UNCHANGED <<row, object, cutOff, mediaRequest>>  BY <1>2 DEF Media!LinkExpires
  <2>. QED  BY <2>1 DEF MediaInv, MediaFresh, ObjectFits, Media!Settled
<1>3. ASSUME NEW a \in Assets, NEW size, Media!Upload(a, size) PROVE MediaInv'
  <2>1. row[a].status = "pending" /\ Media!Settled(a)  BY <1>3 DEF Media!Upload
  <2>2. /\ object' = [b \in Assets |-> object'[b]]
        /\ \A b \in Assets : b # a => object'[b] = object[b]
        /\ UNCHANGED <<row, cutOff, mediaRequest>>
    BY <1>3 DEF Media!Upload, MediaInv
  <2>3. ASSUME NEW b \in Assets, ObjectFits(b, row, cutOff, object) PROVE ObjectFits(b, row', cutOff', object')
    BY <2>1, <2>2, <2>3 DEF ObjectFits
  <2>4. ASSUME NEW q \in Callers, mediaRequest'[q] # Media!Idle
        PROVE  MediaFresh(mediaRequest'[q], row', cutOff', object')
    BY <2>1, <2>2, <2>3, <2>4 DEF MediaInv, MediaFresh, Media!Settled
  <2>. QED  BY <2>2, <2>3, <2>4 DEF MediaInv, Media!Settled
<1>4. ASSUME NEW q \in Callers, NEW a \in Assets,
             Media!BeginComplete(q, a) \/ Media!BeginDelete(q, a) \/ Media!BeginAttach(q, a)
      PROVE  MediaInv'
  BY <1>4, MediaAsks DEF Media!BeginComplete, Media!BeginDelete, Media!BeginAttach
<1>5. ASSUME NEW q \in Callers, Media!Head(q) PROVE MediaInv'
  <2>. DEFINE r == mediaRequest[q]
              to == IF object[r.asset] = "none" THEN Media!Idle
                    ELSE [r EXCEPT !.kind = IF Media!RightSize(r.asset) THEN "ready" ELSE "failed"]
  <2>1. r.kind = "complete" /\ mediaRequest' = [mediaRequest EXCEPT ![q] = to]
        /\ UNCHANGED <<row, object, cutOff>>
    BY <1>5 DEF Media!Head
  <2>2. r # Media!Idle  BY <2>1 DEF Media!Idle
  <2>3. /\ MediaFresh(r, row, cutOff, object) /\ ObjectFits(r.asset, row, cutOff, object)
        /\ r.asset \in Assets
    BY <2>1, <2>2 DEF MediaInv, MediaFresh
  <2>4. to # Media!Idle => to.asset = r.asset /\ (to.kind = "ready" => object[r.asset] = "announced")
                              /\ to.kind # "erased"
    BY <2>1 DEF Media!RightSize
  <2>5. ObjectFits(r.asset, row', cutOff', object')  BY <2>1, <2>3 DEF ObjectFits
  <2>. HIDE DEF to
  <2>6. to # Media!Idle => MediaFresh(to, row', cutOff', object')  BY <2>1, <2>3, <2>4, <2>5 DEF MediaFresh
  <2>. QED  BY <2>1, <2>2, <2>4, <2>5, <2>6, MediaGoesOn DEF MediaInv
<1>6. ASSUME NEW q \in Callers, Media!Erase(q) PROVE MediaInv'
  <2>. DEFINE r == mediaRequest[q]
              to == [r EXCEPT !.kind = "erased"]
  <2>1. r.kind = "delete" /\ mediaRequest' = [mediaRequest EXCEPT ![q] = to]
        /\ object' = [object EXCEPT ![r.asset] = "none"] /\ UNCHANGED <<row, cutOff>>
    BY <1>6 DEF Media!Erase, MediaInv
  <2>2. r # Media!Idle  BY <2>1 DEF Media!Idle
  <2>3. r.asset \in Assets  BY <2>1, <2>2 DEF MediaInv, MediaFresh
  <2>4. to.asset = r.asset /\ to # Media!Idle  BY DEF Media!Idle
  <2>5. object'[r.asset] = "none"  BY <2>1, <2>3 DEF MediaInv
  <2>6. MediaFresh(to, row', cutOff', object')  BY <2>3, <2>4, <2>5 DEF MediaFresh
  <2>7. /\ object' = [a \in Assets |-> object'[a]]
        /\ \A a \in Assets \ {r.asset} : row'[a] = row[a] /\ object'[a] = object[a]
    BY <2>1 DEF MediaInv
  <2>. HIDE DEF to
  <2>. QED  BY <2>1, <2>2, <2>4, <2>6, <2>7, MediaGoesOn DEF MediaInv
<1>7. ASSUME NEW q \in Callers, Media!Commit(q) PROVE MediaInv'
  <2>. DEFINE r == mediaRequest[q]
              a == r.asset
  <2>1. r # Media!Idle  BY <1>7 DEF Media!Commit, Media!Idle
  <2>2. MediaFresh(r, row, cutOff, object) /\ a \in Assets  BY <2>1 DEF MediaInv, MediaFresh
  <2>3. PICK new : Media!Writes(q, a, new) /\ new \in MediaRow
                    /\ (new.status = "ready" => object[a] = "announced" \/ a \in cutOff)
                    /\ (new.status = "deleted" => object[a] = "none")
    <3>1. CASE r.kind = "ready"
      <4>. DEFINE new == [status |-> "ready", sized |-> TRUE]
      <4>1. new \in MediaRow /\ new.status = "ready"  BY DEF MediaRow
      <4>2. Media!Writes(q, a, new)  BY <1>7, <3>1 DEF Media!Commit
      <4>. HIDE DEF new
      <4>. QED  BY <2>2, <3>1, <4>1, <4>2 DEF MediaFresh
    <3>2. CASE r.kind = "erased"
      <4>1. [row[a] EXCEPT !.status = "deleted"] \in MediaRow
            /\ [row[a] EXCEPT !.status = "deleted"].status = "deleted"
        BY <2>2 DEF MediaInv, MediaRow
      <4>. QED  BY <1>7, <2>2, <3>2, <4>1 DEF Media!Commit, MediaFresh
    <3>3. CASE r.kind \in {"failed", "expired"}
      <4>1. [row[a] EXCEPT !.status = "failed"] \in MediaRow
            /\ [row[a] EXCEPT !.status = "failed"].status = "failed"
        BY <2>2 DEF MediaInv, MediaRow
      <4>. QED  BY <1>7, <2>2, <3>3, <4>1 DEF Media!Commit, MediaFresh
    <3>4. CASE r.kind = "attach"
      BY <1>7, <2>2, <3>4 DEF Media!Commit, MediaFresh, ObjectFits, MediaInv
    <3>. QED  BY <1>7, <3>1, <3>2, <3>3, <3>4 DEF Media!Commit
  <2>4. /\ row' = [row EXCEPT ![a] = new] /\ UNCHANGED <<object, cutOff>>
        /\ mediaRequest' = [mediaRequest EXCEPT ![q] = Media!Idle]
    BY <2>3 DEF Media!Writes
  <2>5. ObjectFits(a, row', cutOff', object')  BY <2>2, <2>3, <2>4 DEF ObjectFits, MediaInv
  <2>6. row' \in [Assets -> MediaRow] /\ \A b \in Assets \ {a} : row'[b] = row[b]
    BY <2>3, <2>4 DEF MediaInv
  <2>. QED  BY <2>1, <2>2, <2>4, <2>5, <2>6, MediaGoesOn DEF MediaInv
<1>8. ASSUME NEW q \in Callers, Media!Crash(q) PROVE MediaInv'
  <2>. DEFINE r == mediaRequest[q]
  <2>1. r # Media!Idle /\ mediaRequest' = [mediaRequest EXCEPT ![q] = Media!Idle]
        /\ cutOff' = (IF r.kind = "erased" THEN cutOff \cup {r.asset} ELSE cutOff)
        /\ UNCHANGED <<row, object>>
    BY <1>8 DEF Media!Crash
  <2>2. ObjectFits(r.asset, row', cutOff', object')
    BY <2>1 DEF MediaInv, MediaFresh, ObjectFits
  <2>. QED  BY <2>1, <2>2, MediaGoesOn DEF MediaInv
<1>. QED  BY <1>1, <1>2, <1>3, <1>4, <1>5, <1>6, <1>7, <1>8 DEF Media!Next

-----------------------------------------------------------------------------

CustomersInv ==
    CartInv /\ BookInv /\ DeskInv /\ ReviewInv /\ PointsInv /\ MediaInv

LEMMA CustomersIdle ==
    /\ CartInv /\ UNCHANGED cartVars => CartInv'
    /\ BookInv /\ UNCHANGED bookVars => BookInv'
    /\ DeskInv /\ UNCHANGED deskVars => DeskInv'
    /\ ReviewInv /\ UNCHANGED reviewVars => ReviewInv'
    /\ PointsInv /\ UNCHANGED pointVars => PointsInv'
    /\ MediaInv /\ UNCHANGED mediaVars => MediaInv'
<1>1. ASSUME CartInv, UNCHANGED cartVars PROVE CartInv'
  BY <1>1 DEF cartVars, CartInv, Carts!OrderFromOneKitchen
<1>2. ASSUME BookInv, UNCHANGED bookVars PROVE BookInv'  BY <1>2 DEF bookVars, BookInv
<1>3. ASSUME DeskInv, UNCHANGED deskVars PROVE DeskInv'
  BY <1>3 DEF deskVars, DeskInv, Desk!WaitsOnlyForCustomer
<1>4. ASSUME ReviewInv, UNCHANGED reviewVars PROVE ReviewInv'
  BY <1>4 DEF reviewVars, ReviewInv, Reviews!ChefRatingFollowsReviews, Reviews!Follows
<1>5. ASSUME PointsInv, UNCHANGED pointVars PROVE PointsInv'
  BY <1>5 DEF pointVars, PointsInv, PointTypes, Loyalty!EarnedPoints, Loyalty!RedeemedPoints,
     Loyalty!HeldPoints
<1>6. ASSUME MediaInv, UNCHANGED mediaVars PROVE MediaInv'
  BY <1>6 DEF mediaVars, MediaInv, Media!Settled
<1>. QED  BY <1>1, <1>2, <1>3, <1>4, <1>5, <1>6

LEMMA CustomersStep ==
    ASSUME OneCaller, CustomersInv, [LoadsNext]_<<load, spVars, customerVars>> PROVE CustomersInv'
<1>1. CASE load = "special" /\ Next /\ UNCHANGED <<load, customerVars>>
  BY <1>1, CustomersIdle DEF CustomersInv, customerVars
<1>2. CASE /\ Carts!Next
           /\ UNCHANGED <<load, spVars, bookVars, deskVars, reviewVars, pointVars, mediaVars>>
  BY <1>2, CartStep, CustomersIdle DEF CustomersInv
<1>3. CASE /\ Book!Next
           /\ UNCHANGED <<load, spVars, cartVars, deskVars, reviewVars, pointVars, mediaVars>>
  BY <1>3, BookStep, CustomersIdle DEF CustomersInv
<1>4. CASE /\ Desk!Next
           /\ UNCHANGED <<load, spVars, cartVars, bookVars, reviewVars, pointVars, mediaVars>>
  BY <1>4, DeskStep, CustomersIdle DEF CustomersInv
<1>5. CASE /\ Reviews!Next
           /\ UNCHANGED <<load, spVars, cartVars, bookVars, deskVars, pointVars, mediaVars>>
  BY <1>5, ReviewStep, CustomersIdle DEF CustomersInv
<1>6. CASE /\ Loyalty!Next
           /\ UNCHANGED <<load, spVars, cartVars, bookVars, deskVars, reviewVars, mediaVars>>
  BY <1>6, PointsStep, CustomersIdle DEF CustomersInv
<1>7. CASE /\ Media!Next
           /\ UNCHANGED <<load, spVars, cartVars, bookVars, deskVars, reviewVars, pointVars>>
  BY <1>7, MediaStep, CustomersIdle DEF CustomersInv
<1>8. CASE UNCHANGED <<load, spVars, customerVars>>
  BY <1>8, CustomersIdle DEF CustomersInv, customerVars
<1>. QED  BY <1>1, <1>2, <1>3, <1>4, <1>5, <1>6, <1>7, <1>8 DEF LoadsNext

\* For any number of carts, addresses, reviews, orders and assets, the carts with any
\* number of overlapping requests, the rest with one request at a time: an order has
\* the lines of one kitchen, a customer with addresses has one default, a ticket waits
\* only for a customer who has not written, the chef's rating is the average of the
\* visible reviews after a customer wrote one, the balance of points is what the
\* ledger and the holds add up to, and an asset that is ready has its object.
THEOREM CustomersRowsAgree == ASSUME OneCaller PROVE LoadsSpec => []CustomerRowsAgree
<1>1. LoadsInit => CustomersInv
  BY InitCart, InitBook, InitDesk, InitReview, InitPoints, InitMedia DEF LoadsInit, CustomersInv
<1>2. CustomersInv /\ [LoadsNext]_<<load, spVars, customerVars>> => CustomersInv'
  BY CustomersStep
<1>3. CustomersInv => CustomerRowsAgree
  <2>1. MediaInv => Media!ReadyHasObject
    BY DEF MediaInv, ObjectFits, Media!ReadyHasObject
  <2>. QED
    BY <2>1, BookHolds, PointsHold
    DEF CustomersInv, CustomerRowsAgree, CartInv, DeskInv, ReviewInv
<1>. QED  BY <1>1, <1>2, <1>3, PTL DEF LoadsSpec
=============================================================================
