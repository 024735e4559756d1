---------------------------- MODULE KitchenCart ----------------------------
(***************************************************************************)
(* A customer's carts and the kitchens they are filled from.  A cart       *)
(* belongs to the kitchen (a chef's day) of its first line; checkout reads *)
(* the cart, checks every line against the menu again and turns it into an *)
(* order.  Requests read without a lock and commit later, so requests of   *)
(* the customer and of the chefs may come between the two.                 *)
(***************************************************************************)
EXTENDS Integers, FiniteSets

CONSTANTS
    Items,          \* items of the daily menus
    KitchenOf,      \* the workday each of them belongs to
    Carts,
    Requests,       \* requests of the customer that may be open at once
    MaxPerOrder,    \* max_per_order of every item
    MaxOrders       \* orders the run looks at

VARIABLES
    kitchen,    \* chef_workdays.status
    menu,       \* daily_menu_items: status and quantity_available
    dish,       \* dishes.is_active, by item
    cart,       \* carts: status and kitchen (chef_id, service_date)
    line,       \* cart_items: quantity, 0 when there is none
    orders,     \* the orders made: kitchen and quantities
    request     \* what each request has read and will write

kcVars == <<kitchen, menu, dish, cart, line, orders, request>>

Kitchens == {KitchenOf[i] : i \in Items}
NoKitchen == "none"
Idle == [kind |-> "idle"]
MenuRows == [status : {"available", "sold_out", "hidden"}, quantity : 0..MaxPerOrder]
Published(n) == [status |-> IF n = 0 THEN "sold_out" ELSE "available", quantity |-> n]

Init ==
    /\ kitchen = [k \in Kitchens |-> "open"]
    /\ menu = [i \in Items |-> Published(MaxPerOrder)]
    /\ dish = [i \in Items |-> TRUE]
    /\ cart = [c \in Carts |-> [status |-> "absent", kitchen |-> NoKitchen]]
    /\ line = [c \in Carts |-> [i \in Items |-> 0]]
    /\ orders = {}
    /\ request = [q \in Requests |-> Idle]

-----------------------------------------------------------------------------
(* Chefs.                                                                  *)

OpenKitchen(k) ==
    /\ kitchen' = [kitchen EXCEPT ![k] = "open"]
    /\ UNCHANGED <<menu, dish, cart, line, orders, request>>

CloseKitchen(k) ==
    /\ kitchen' = [kitchen EXCEPT ![k] = "closed"]
    /\ UNCHANGED <<menu, dish, cart, line, orders, request>>

UpdateDish(i, active) ==
    /\ dish' = [dish EXCEPT ![i] = active]
    /\ UNCHANGED <<kitchen, menu, cart, line, orders, request>>

UpdateQuantity(i, n) ==
    /\ menu' = [menu EXCEPT ![i] = IF @.status = "hidden" THEN [@ EXCEPT !.quantity = n] ELSE Published(n)]
    /\ UNCHANGED <<kitchen, dish, cart, line, orders, request>>

Referenced(i) == (\E c \in Carts : line[c][i] > 0) \/ (\E o \in orders : o.line[i] > 0)
Uses(r, i) == r.kind = "add" /\ r.item = i

\* replace_today_menu deletes the rows of the day and writes new ones; a row that a cart or
\* an order refers to cannot be deleted, and a request that read one fails.
ReplaceTodayMenu(k, i, row) ==
    /\ kitchen[k] = "open" /\ KitchenOf[i] = k /\ dish[i]
    /\ \A j \in Items : KitchenOf[j] = k => ~Referenced(j)
    /\ menu' = [menu EXCEPT ![i] = row]
    /\ request' = [q \in Requests |-> IF Uses(request[q], i) THEN Idle ELSE request[q]]
    /\ UNCHANGED <<kitchen, dish, cart, line, orders>>

-----------------------------------------------------------------------------
(* What a handler checks before it writes.                                 *)

ValidatedMenuContext(i) == kitchen[KitchenOf[i]] = "open" /\ dish[i] /\ menu[i].status # "hidden"

ValidRequestedQuantity(i, n) ==
    n <= MaxPerOrder /\ menu[i].status # "sold_out" /\ n <= menu[i].quantity

\* active_cart, or a new cart.
IsActive(c) == cart[c].status = "active"
ActiveCart(c) == IsActive(c) \/ (cart[c].status = "absent" /\ \A d \in Carts : ~IsActive(d))

SameKitchen(c, k) == cart[c].kitchen \in {NoKitchen, k}

Reads(q, r) ==
    /\ request[q] = Idle
    /\ request' = [request EXCEPT ![q] = r]
    /\ UNCHANGED <<kitchen, menu, dish, cart, line, orders>>

AddCartItem(q, c, i) ==
    /\ ActiveCart(c) /\ ValidatedMenuContext(i) /\ SameKitchen(c, KitchenOf[i])
    /\ ValidRequestedQuantity(i, line[c][i] + 1)
    /\ Reads(q, [kind |-> "add", cart |-> c, item |-> i, was |-> line[c][i],
                 quantity |-> line[c][i] + 1, kitchen |-> cart[c].kitchen])

UpdateCartItem(q, c, i, n) ==
    /\ IsActive(c) /\ line[c][i] > 0 /\ ValidatedMenuContext(i) /\ ValidRequestedQuantity(i, n)
    /\ cart[c].kitchen = KitchenOf[i]
    /\ Reads(q, [kind |-> "update", cart |-> c, item |-> i, was |-> line[c][i],
                 quantity |-> n, kitchen |-> cart[c].kitchen])

RemoveCartItem(q, c, i) ==
    /\ IsActive(c) /\ line[c][i] > 0
    /\ Reads(q, [kind |-> "remove", cart |-> c, item |-> i,
                 last |-> \A j \in Items \ {i} : line[c][j] = 0, kitchen |-> cart[c].kitchen])

ClearCart(q, c) ==
    /\ ActiveCart(c)
    /\ Reads(q, [kind |-> "clear", cart |-> c, kitchen |-> cart[c].kitchen])

AnyKitchen(c) == TRUE       \* seeded fault
EveryLineOfItsKitchen(c) == \A i \in Items : line[c][i] > 0 => KitchenOf[i] = cart[c].kitchen

Checkout(q, c) ==
    /\ IsActive(c) /\ cart[c].kitchen # NoKitchen
    /\ \E i \in Items : line[c][i] > 0
    /\ EveryLineOfItsKitchen(c)
    /\ \A i \in Items : line[c][i] > 0 => ValidatedMenuContext(i) /\ ValidRequestedQuantity(i, line[c][i])
    /\ Cardinality(orders) < MaxOrders
    /\ Reads(q, [kind |-> "checkout", cart |-> c, lines |-> line[c], kitchen |-> cart[c].kitchen])

-----------------------------------------------------------------------------
(* The writes and the commit.  The kitchen of the cart is written when it  *)
(* differs from what was read.                                             *)

Ends(q) == request' = [request EXCEPT ![q] = Idle]
KitchenWritten(r, k) == IF r.kitchen = k THEN cart[r.cart].kitchen ELSE k

WriteLine(q) ==
    LET r == request[q]
    IN /\ r.kind \in {"add", "update"}
       /\ (line[r.cart][r.item] > 0) = (r.was > 0)
       /\ line' = [line EXCEPT ![r.cart][r.item] = IF r.quantity = r.was THEN @ ELSE r.quantity]
       /\ cart' = [cart EXCEPT ![r.cart] =
             [status |-> IF @.status = "absent" THEN "active" ELSE @.status,
              kitchen |-> KitchenWritten(r, KitchenOf[r.item])]]
       /\ Ends(q)
       /\ UNCHANGED <<kitchen, menu, dish, orders>>

WriteRemoval(q) ==
    LET r == request[q]
    IN /\ r.kind = "remove" /\ line[r.cart][r.item] > 0
       /\ line' = [line EXCEPT ![r.cart][r.item] = 0]
       /\ cart' = IF r.last THEN [cart EXCEPT ![r.cart].kitchen = KitchenWritten(r, NoKitchen)] ELSE cart
       /\ Ends(q)
       /\ UNCHANGED <<kitchen, menu, dish, orders>>

WriteClear(q) ==
    LET r == request[q]
    IN /\ r.kind = "clear"
       /\ line' = [line EXCEPT ![r.cart] = [i \in Items |-> 0]]
       /\ cart' = [cart EXCEPT ![r.cart] =
             [status |-> IF @.status = "absent" THEN "active" ELSE @.status,
              kitchen |-> KitchenWritten(r, NoKitchen)]]
       /\ Ends(q)
       /\ UNCHANGED <<kitchen, menu, dish, orders>>

\* The guarded UPDATE of reserve_inventory, for every line of the order.
Reservable(i, n) == menu[i].status = "available" /\ menu[i].quantity >= n

WriteOrder(q) ==
    LET r == request[q]
    IN /\ r.kind = "checkout"
       /\ \A i \in Items : r.lines[i] > 0 => Reservable(i, r.lines[i])
       /\ menu' = [i \in Items |-> IF r.lines[i] > 0 THEN Published(menu[i].quantity - r.lines[i]) ELSE menu[i]]
       /\ orders' = orders \cup {[id |-> Cardinality(orders) + 1, cart |-> r.cart, kitchen |-> r.kitchen, line |-> r.lines]}
       /\ cart' = [cart EXCEPT ![r.cart].status = "converted"]
       /\ Ends(q)
       /\ UNCHANGED <<kitchen, dish, line>>

\* A row that was read is gone, one that was missing is there, or portions are short.
RollBack(q) ==
    LET r == request[q]
    IN /\ \/ r.kind \in {"add", "update"} /\ (line[r.cart][r.item] > 0) # (r.was > 0)
          \/ r.kind = "remove" /\ line[r.cart][r.item] = 0
          \/ r.kind = "checkout" /\ \E i \in Items : r.lines[i] > 0 /\ ~Reservable(i, r.lines[i])
       /\ Ends(q)
       /\ UNCHANGED <<kitchen, menu, dish, cart, line, orders>>

Next ==
    \/ \E q \in Requests :
          \/ WriteLine(q) \/ WriteRemoval(q) \/ WriteClear(q) \/ WriteOrder(q) \/ RollBack(q)
          \/ \E c \in Carts :
                \/ ClearCart(q, c) \/ Checkout(q, c)
                \/ \E i \in Items :
                      \/ AddCartItem(q, c, i) \/ RemoveCartItem(q, c, i)
                      \/ \E n \in 1..MaxPerOrder : UpdateCartItem(q, c, i, n)
    \/ \E k \in Kitchens : OpenKitchen(k) \/ CloseKitchen(k)
    \/ \E i \in Items :
          \/ \E active \in BOOLEAN : UpdateDish(i, active)
          \/ \E n \in 0..MaxPerOrder : UpdateQuantity(i, n)
          \/ \E row \in MenuRows : (row.status = "sold_out" => row.quantity = 0)
                                     /\ (row.status = "available" => row.quantity > 0)
                                     /\ ReplaceTodayMenu(KitchenOf[i], i, row)

-----------------------------------------------------------------------------
\* An order has lines, all of them of its own kitchen, and at most max_per_order of
\* an item, even though requests that overlap can leave a cart with lines of two
\* kitchens or of none (docs/ORDER_DOMAIN.md).
OrderFromOneKitchen ==
    \A o \in orders :
        /\ \E i \in Items : o.line[i] > 0
        /\ \A i \in Items : o.line[i] > 0 => KitchenOf[i] = o.kitchen /\ o.line[i] <= MaxPerOrder

\* A cart becomes one order.
OneOrderPerCart == \A o, p \in orders : o.cart = p.cart => o = p
=============================================================================
