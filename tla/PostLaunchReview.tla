-------------------------- MODULE PostLaunchReview --------------------------
(***************************************************************************)
(* The stabilization days after a launch: the worker prepares a financial  *)
(* close for every finished day, reports the overdue ones and writes one   *)
(* expansion review per day; administrators prepare, close and reopen days *)
(* and refresh the review.                                                 *)
(*                                                                         *)
(* Day 0 is the launch date.  The clock counts half days: the worker       *)
(* prepares day d from 2(d + 1) on, and it is overdue, after the grace     *)
(* hours, half a day later; an administrator prepares any day at any time. *)
(* maintain commits after each of its three parts.                         *)
(***************************************************************************)
EXTENDS Integers, FiniteSets

CONSTANTS
    StabilizationDays,  \* launch_post_launch_stabilization_days
    ReviewWindow,       \* launch_expansion_review_window_days
    LastDay,            \* the last day the run looks at
    CadenceEnabled      \* launch_daily_close_cadence_enabled

VARIABLES
    now,        \* half days since the launch date began
    session,    \* status of the launch command session
    close,      \* daily_financial_closes, by date: status, cadence_due_at, overdue_notified_at
    signals,    \* what else a review looks at in its window: the latest health, a critical
                \* incident, a capacity forecast at risk or an automatic pause
    review,     \* expansion_reviews.status, by date
    worker      \* the part of maintain that comes next

plVars == <<now, session, close, signals, review, worker>>

Days == 0..LastDay
Today == now \div 2
Cadence == 0..(StabilizationDays - 1)
NoClose == [status |-> "none", cadence |-> FALSE, overdue |-> FALSE]
Prepared == {"ready", "blocked"}

\* A forecast is made of every snapshot, and its risk is at least the snapshot's health.
Signals == {s \in [health : {"none", "green", "amber", "red"}, incident : BOOLEAN, caution : BOOLEAN] :
                s.health \in {"amber", "red"} => s.caution}

Init ==
    /\ now = 0
    /\ session = "active"
    /\ close = [d \in Days |-> NoClose]
    /\ signals = [health |-> "none", incident |-> FALSE, caution |-> FALSE]
    /\ review = [d \in Days |-> "none"]
    /\ worker = "prepare"

Tick ==
    /\ now < 2 * LastDay + 1
    /\ now' = now + 1
    /\ UNCHANGED <<session, close, signals, review, worker>>

SignalsChange ==
    /\ signals' \in Signals
    /\ UNCHANGED <<now, session, close, review, worker>>

CompleteSession ==
    /\ session = "active"
    /\ session' = "completed"
    /\ UNCHANGED <<now, close, signals, review, worker>>

-----------------------------------------------------------------------------
(* Closing days.  A close is ready or blocked by what the figures say.     *)

PrepareAt(d) == 2 * (d + 1)
DueAt(d) == PrepareAt(d) + 1

\* prepare_financial_close, by an administrator, of any day, over or not; a closed
\* day is returned as it is.
PrepareFinancialClose(d, status) ==
    /\ session = "active"
    /\ close[d].status # "closed"
    /\ close' = [close EXCEPT ![d].status = status]
    /\ UNCHANGED <<now, session, signals, review, worker>>

CloseFinancialDay(d) ==
    /\ close[d].status = "ready"
    /\ close' = [close EXCEPT ![d].status = "closed"]
    /\ UNCHANGED <<now, session, signals, review, worker>>

ReopenFinancialDay(d) ==
    /\ close[d].status = "closed"
    /\ close' = [close EXCEPT ![d].status = "reopened"]
    /\ UNCHANGED <<now, session, signals, review, worker>>

-----------------------------------------------------------------------------
(* maintain.                                                               *)

\* prepare_due_financial_closes only creates, and gives every row its deadline.
PrepareDueCloses(figures) ==
    /\ worker = "prepare"
    /\ close' = [d \in Days |->
          IF ~CadenceEnabled \/ d \notin Cadence \/ PrepareAt(d) > now THEN close[d]
          ELSE [close[d] EXCEPT !.status = IF @ = "none" THEN figures[d] ELSE @, !.cadence = TRUE]]
    /\ worker' = "overdue"
    /\ UNCHANGED <<now, session, signals, review>>

Overdue(d) == close[d].cadence /\ DueAt(d) <= now /\ close[d].status # "closed"

MonitorOverdueCloses ==
    /\ worker = "overdue"
    /\ close' = [d \in Days |-> [close[d] EXCEPT !.overdue = @ \/ Overdue(d)]]
    /\ worker' = "review"
    /\ UNCHANGED <<now, session, signals, review>>

-----------------------------------------------------------------------------
(* The review of today.                                                    *)

Window == {d \in Days : Today - ReviewWindow + 1 <= d /\ d <= Today}
In(statuses) == {d \in Window : close[d].status \in statuses}
RequiredCloses == {d \in Cadence : d < Today}
OverdueCloses == {d \in Window : close[d].overdue /\ close[d].status # "closed"}

NeverIncomplete == FALSE        \* seeded fault
CadenceIncomplete ==
    Cardinality(RequiredCloses) >
        Cardinality(In({"closed"})) + Cardinality(In({"blocked"})) + Cardinality(OverdueCloses)

Blocked ==
    \/ signals.health \in {"none", "red"} \/ signals.incident
    \/ OverdueCloses # {} \/ In({"blocked"}) # {} \/ CadenceIncomplete

ReviewStatus ==
    IF Blocked THEN "blocked" ELSE IF signals.caution THEN "watch" ELSE "healthy"

\* refresh_review, by an administrator.
RefreshReview ==
    /\ review' = [review EXCEPT ![Today] = ReviewStatus]
    /\ UNCHANGED <<now, session, close, signals, worker>>

\* refresh_due_reviews: the first one of the day is kept.
RefreshDueReviews ==
    /\ worker = "review"
    /\ review' = [review EXCEPT ![Today] = IF @ = "none" THEN ReviewStatus ELSE @]
    /\ worker' = "prepare"
    /\ UNCHANGED <<now, session, close, signals>>

Next ==
    \/ Tick \/ SignalsChange \/ CompleteSession \/ MonitorOverdueCloses \/ RefreshReview \/ RefreshDueReviews
    \/ \E figures \in [Days -> Prepared] : PrepareDueCloses(figures)
    \/ \E d \in Days :
          \/ CloseFinancialDay(d) \/ ReopenFinancialDay(d)
          \/ \E status \in Prepared : PrepareFinancialClose(d, status)

-----------------------------------------------------------------------------
Written(d) == review'[d] # review[d]

Unclosed == {d \in RequiredCloses \cap Window : close[d].status # "closed"}

\* A review that does not block was written when every finished stabilization day it can
\* see was closed, but for at most one, and that only if today is closed already: the
\* counts of the review take its close for the missing one
\* (docs/POST_LAUNCH_STABILIZATION.md:34-39).
UnclosedDayBlocks ==
    [][\A d \in Days : Written(d) /\ review'[d] # "blocked" =>
          Cardinality(Unclosed) <= (IF close[Today].status = "closed" THEN 1 ELSE 0)]_plVars

\* The same without the exception.
EveryUnclosedDayBlocks ==
    [][\A d \in Days : Written(d) /\ review'[d] # "blocked" => Unclosed = {}]_plVars

\* When every finished stabilization day is closed, none of them blocks a review
\* (docs/POST_LAUNCH_STABILIZATION.md:34-39).
ClosedDaysNeverBlock ==
    [][\A d \in Days : Written(d) /\ review'[d] = "blocked" =>
          \/ signals.health \in {"none", "red"} \/ signals.incident
          \/ \E e \in RequiredCloses : close[e].status # "closed"
          \/ \E e \in Days : close[e].status = "blocked"]_plVars
=============================================================================
