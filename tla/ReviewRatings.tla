--------------------------- MODULE ReviewRatings ---------------------------
(***************************************************************************)
(* Reviews of delivered orders and the rating each of them feeds into: the *)
(* chef's and the driver's.  A handler recomputes both ratings from the    *)
(* reviews table and commits them with the review.                         *)
(*                                                                         *)
(* The session does not flush by itself: the WHERE clause of the           *)
(* recalculation sees the row as it is in the table, while the values of   *)
(* the row that comes back are those the handler has just assigned.        *)
(***************************************************************************)
EXTENDS Integers, FiniteSets, FiniteSetsExt

CONSTANTS
    Orders,     \* delivered orders, one review each at most
    Requests,   \* requests that may be open at once
    Stars,      \* what a customer may give
    Handlers    \* the handlers in use: "create", "update", "moderate"

VARIABLES
    review,     \* reviews, by order
    rating,     \* chef_profiles.rating and driver_profiles.rating, as a sum over a count
    last,       \* history: the handler that committed last
    open        \* what each request has read and computed, until it commits

rvVars == <<review, rating, last, open>>

Null == 0
NoReview == [there |-> FALSE, chef |-> Null, driver |-> Null, visible |-> FALSE]
Idle == [on |-> FALSE]
Nothing == [sum |-> 0, count |-> 0]
Both == {"chef", "driver"}

Init ==
    /\ review = [o \in Orders |-> NoReview]
    /\ rating = [p \in Both |-> Nothing]
    /\ last = "none"
    /\ open = [q \in Requests |-> Idle]

\* recalc_chef_rating and recalc_driver_rating: rows chosen by what the table says,
\* values as the session has them.
Counted(table, p) == {o \in DOMAIN table : table[o].there /\ table[o].visible /\ table[o][p] # Null}

SumOf(session, p, rows) == MapThenSumSet(LAMBDA o : session[o][p], rows)

Average(table, session, p) ==
    LET rows == Counted(table, p)
    IN [sum |-> SumOf(session, p, rows), count |-> Cardinality(rows)]

\* Python cannot add None to a number.
Summable(table, session) == \A p \in Both : \A o \in Counted(table, p) : session[o][p] # Null

\* _refresh_aggregates and what the request will commit.
Refresh(q, handler, o, table, session) ==
    /\ Summable(table, session)
    /\ open' = [open EXCEPT ![q] =
          [on |-> TRUE, handler |-> handler, order |-> o, old |-> review[o], new |-> session[o],
           read |-> rating, rating |-> [p \in Both |-> Average(table, session, p)]]]
    /\ UNCHANGED <<review, rating, last>>

NoOneCreates(o) == \A q \in Requests : open[q].on /\ open[q].order = o => open[q].old.there

\* The new row is flushed before the ratings are computed.
Unflushed(session) == review      \* seeded fault
Flushed(session) == session

Create(q, o, chef, driver) ==
    LET session == [review EXCEPT ![o] = [there |-> TRUE, chef |-> chef, driver |-> driver, visible |-> TRUE]]
    IN /\ "create" \in Handlers
       /\ ~open[q].on /\ ~review[o].there /\ NoOneCreates(o)
       /\ Refresh(q, "create", o, Flushed(session), session)

Update(q, o, chef, driver) ==
    /\ "update" \in Handlers
    /\ ~open[q].on /\ review[o].there
    /\ Refresh(q, "update", o, review, [review EXCEPT ![o].chef = chef, ![o].driver = driver])

Moderate(q, o, visible) ==
    /\ "moderate" \in Handlers
    /\ ~open[q].on /\ review[o].there
    /\ Refresh(q, "moderate", o, review, [review EXCEPT ![o].visible = visible])

\* A column that the request did not change is not written.
Written(now, old, new) == [f \in DOMAIN now |-> IF new[f] = old[f] THEN now[f] ELSE new[f]]

Commit(q) ==
    LET r == open[q]
    IN /\ r.on
       /\ review' = [review EXCEPT ![r.order] = Written(@, r.old, r.new)]
       /\ rating' = Written(rating, r.read, r.rating)
       /\ last' = r.handler
       /\ open' = [open EXCEPT ![q] = Idle]

Next ==
    \E q \in Requests :
        \/ Commit(q)
        \/ \E o \in Orders :
              \/ \E visible \in BOOLEAN : Moderate(q, o, visible)
              \/ \E chef \in Stars, driver \in Stars \cup {Null} :
                    Create(q, o, chef, driver) \/ Update(q, o, chef, driver)

-----------------------------------------------------------------------------
Follows(p) == rating[p] = Average(review, review, p)

\* After a customer has created or changed a review, the rating of the chef is the
\* average of the reviews that the public can see, whatever moderators did before
\* (docs/POST_ORDER_DOMAIN.md:23-24).
ChefRatingFollowsReviews ==
    (last \in {"create", "update"} /\ \A q \in Requests : ~open[q].on) => Follows("chef")

\* The ratings of chef and driver are the averages of the reviews that the public can
\* see: a hidden review does not count (docs/POST_ORDER_DOMAIN.md:23-32).
RatingFollowsReviews == (\A q \in Requests : ~open[q].on) => \A p \in Both : Follows(p)
=============================================================================
