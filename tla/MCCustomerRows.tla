--------------------------- MODULE MCCustomerRows ---------------------------
(***************************************************************************)
(* What customers keep with Baytna besides their standard orders: special  *)
(* orders, the cart and the kitchen it belongs to, the address book, the   *)
(* support ticket, the reviews, the loyalty account, the media.  Special   *)
(* orders run one handler at a time, customers' carts overlap, the other   *)
(* loads are one request at a time.  `load' is chosen first and never      *)
(* changes.                                                                *)
(***************************************************************************)
EXTENDS SpecialOrders

CONSTANTS
    Items, KitchenOf, CartIds, CartRequests, MaxPerOrder, MaxOrders,    \* carts
    Callers,                                \* open requests of the other loads
    Addresses, Admins, Reviewed, Stars,     \* book, desk, reviews
    Bought, Points, Earned,                 \* points
    Assets,                                 \* media
    s1, s2, d1, d2, o1, p1, p2

ASSUME CustomersAssumption ==
    /\ Addresses \subseteq Nat                \* in the order they are created
    /\ 0 \notin Stars                         \* stands for NULL
    /\ Points \subseteq Nat /\ Earned \subseteq Nat

VARIABLES
    load,
    kitchen, menu, dish, cart, line, orders, cartRequest,
    book, bookRequest,
    ticket, answered, noticed, pending,
    review, rating, last, open,
    account, order, ledger, pointsRequest,
    row, link, object, cutOff, attached, mediaRequest

SameWeekday == [d \in {d1, d2} |-> "mon"]
TwoKitchens == [i1 |-> "k1", i2 |-> "k2"]

Carts == INSTANCE KitchenCart WITH
    Carts <- CartIds, Requests <- CartRequests, request <- cartRequest

Book == INSTANCE AddressBook WITH Requests <- Callers, request <- bookRequest

Desk == INSTANCE SupportDesk WITH Requests <- Callers

Reviews == INSTANCE ReviewRatings WITH
    Orders <- Reviewed, Requests <- Callers, Handlers <- {"create", "update", "moderate"}

Loyalty == INSTANCE LoyaltyAccount WITH
    Orders <- Bought, Requests <- Callers, Overlaps <- FALSE, request <- pointsRequest

Media == INSTANCE MediaAssets WITH
    Requests <- Callers, Reuploads <- FALSE, Crashes <- TRUE, request <- mediaRequest

cartVars == <<kitchen, menu, dish, cart, line, orders, cartRequest>>
bookVars == <<book, bookRequest>>
deskVars == <<ticket, answered, noticed, pending>>
reviewVars == <<review, rating, last, open>>
pointVars == <<account, order, ledger, pointsRequest>>
mediaVars == <<row, link, object, cutOff, attached, mediaRequest>>
customerVars == <<cartVars, bookVars, deskVars, reviewVars, pointVars, mediaVars>>

LoadsInit ==
    /\ Init /\ Carts!Init /\ Book!Init /\ Desk!Init /\ Reviews!Init /\ Loyalty!Init /\ Media!Init
    /\ load \in {"special", "carts", "book", "desk", "reviews", "points", "media"}
    /\ load # "special" => weekly = [d \in DOMAIN weekly |-> 0]

\* The parts a load is not about stay as they start.
LoadsNext ==
    \/ /\ load = "special" /\ Next
       /\ UNCHANGED <<load, customerVars>>
    \/ /\ load = "carts" /\ Carts!Next
       /\ UNCHANGED <<load, spVars, bookVars, deskVars, reviewVars, pointVars, mediaVars>>
    \/ /\ load = "book" /\ Book!Next
       /\ UNCHANGED <<load, spVars, cartVars, deskVars, reviewVars, pointVars, mediaVars>>
    \/ /\ load = "desk" /\ Desk!Next
       /\ UNCHANGED <<load, spVars, cartVars, bookVars, reviewVars, pointVars, mediaVars>>
    \/ /\ load = "reviews" /\ Reviews!Next
       /\ UNCHANGED <<load, spVars, cartVars, bookVars, deskVars, pointVars, mediaVars>>
    \/ /\ load = "points" /\ Loyalty!Next
       /\ UNCHANGED <<load, spVars, cartVars, bookVars, deskVars, reviewVars, mediaVars>>
    \/ /\ load = "media" /\ Media!Next
       /\ UNCHANGED <<load, spVars, cartVars, bookVars, deskVars, reviewVars, pointVars>>

LoadsSpec == LoadsInit /\ [][LoadsNext]_<<load, spVars, customerVars>>

\* What customers keep fits together: no overlap of requests for one cart makes an
\* order of lines from two kitchens, and between two requests the address book has
\* one default, a ticket waits only for a customer who has not written, the chef's
\* rating is the average of the visible reviews after a review was written, the
\* balance of points is what the ledger and the holds add up to, and an asset that
\* is ready has its object.
CustomerRowsAgree ==
    /\ Carts!OrderFromOneKitchen
    /\ Book!OneDefault
    /\ Desk!WaitsOnlyForCustomer
    /\ Reviews!ChefRatingFollowsReviews
    /\ Loyalty!PointsAddUp
    /\ Media!ReadyHasObject
=============================================================================
