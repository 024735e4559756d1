-------------------------- MODULE TrafficAdmission --------------------------
(***************************************************************************)
(* The admission of orders into the zones of the launch: the caps per day  *)
(* and hour of a zone and per day of a chef, checked under the lock of the *)
(* zone's policy row by every checkout and every change of address.        *)
(*                                                                         *)
(* A request reads the zone, waits for the lock, counts the orders that    *)
(* are committed by then, and keeps the lock until it commits its order or *)
(* rolls back.  All orders are one chef's, for one service date.           *)
(***************************************************************************)
EXTENDS Integers, FiniteSets

CONSTANTS
    Requests,
    Orders,
    Zones,          \* expansion_zones, one area each
    Elsewhere,      \* an area outside every zone
    Bucket,         \* rollout bucket of each order's customer, 0..99
    DailyCap,       \* daily_order_cap of each zone
    HourlyCap,      \* initial hourly_order_cap of each zone
    ChefCap,        \* chef_daily_order_cap of every zone
    HourlyCaps,     \* hourly caps an administrator may enter
    Percents,       \* rollout percentages the zone passes through
    LastHour,       \* bound on the clock
    Nobody

ASSUME NobodyAssumption == Nobody \notin Requests
ASSUME OrdersAssumption == IsFiniteSet(Orders)
ASSUME DailyCapAssumption == DailyCap \in [Zones -> Nat]

VARIABLES
    hour,
    zone,           \* expansion_zones: open to traffic, rollout_percent
    hourly,         \* zone_traffic_policies.hourly_order_cap
    lock,           \* the transaction that holds the policy row
    order,          \* orders with their delivery address
    admission,      \* what each request is doing
    rejections      \* zones with a rejected zone_admission_events row

taVars == <<hour, zone, hourly, lock, order, admission, rejections>>

Absent == [status |-> "none", area |-> Elsewhere, created |-> 0]
Free == [step |-> "idle"]

Init ==
    /\ hour = 0
    /\ zone = [z \in Zones |-> [open |-> TRUE, percent |-> 100]]
    /\ hourly = HourlyCap
    /\ lock = [z \in Zones |-> Nobody]
    /\ order = [o \in Orders |-> Absent]
    /\ admission = [r \in Requests |-> Free]
    /\ rejections = {}

-----------------------------------------------------------------------------
\* Active orders delivered to the zone, made in the last hour for the hourly cap.
AreaOrders(z) == {o \in Orders : order[o].status = "active" /\ order[o].area = z}
HourOrders(z) == {o \in AreaOrders(z) : order[o].created >= hour - 1}
ChefOrders(S) == {o \in Orders \ S : order[o].status = "active"}

\* The zone is live and the customer of the order in its rollout.
OpenTo(a, o) == a \in Zones => zone[a].open /\ Bucket[o] < zone[a].percent

\* admit_or_raise, before the lock: the request learns the zone's columns, and
\* the address change also that the order is open and its area another one.
EnterAdmission(r, o, a, kind) ==
    /\ admission[r] = Free
    /\ \/ /\ kind = "checkout"      \* a fresh uuid
          /\ order[o].status = "none"
          /\ \A q \in Requests : admission[q].step # "idle" => admission[q].order # o
       \/ /\ kind = "address"
          /\ order[o].status = "active"
          /\ order[o].area # a
    /\ admission' = [admission EXCEPT ![r] =
          [step |-> "waiting", order |-> o, area |-> a, inRollout |-> OpenTo(a, o)]]
    /\ UNCHANGED <<hour, zone, hourly, lock, order, rejections>>

\* The gates in the order of the code; the columns of the zone are those read
\* before the lock, the caps of the policy those of the locked row.
Admitted(r) ==
    LET a == admission[r]
    IN /\ a.inRollout
       /\ Cardinality(AreaOrders(a.area)) < DailyCap[a.area]
       /\ Cardinality(HourOrders(a.area)) < hourly[a.area]
       /\ Cardinality(ChefOrders({a.order})) < ChefCap

\* The gate of a request that waits for no lock.
NeedsNoLock(a) == TRUE     \* seeded fault
LockFree(a) == a \in Zones => lock[a] = Nobody

TakesLock(r, a) == IF a \in Zones THEN [lock EXCEPT ![a] = r] ELSE lock

Admit(r) ==
    LET a == admission[r].area
    IN /\ admission[r].step = "waiting"
       /\ LockFree(a)
       /\ a \in Zones => Admitted(r)
       /\ lock' = TakesLock(r, a)
       /\ admission' = [admission EXCEPT ![r].step = "admitted"]
       /\ UNCHANGED <<hour, zone, hourly, order, rejections>>

\* The rejection is committed before the request fails.
Reject(r) ==
    LET a == admission[r].area
    IN /\ admission[r].step = "waiting"
       /\ a \in Zones /\ LockFree(a) /\ ~Admitted(r)
       /\ rejections' = rejections \cup {a}
       /\ admission' = [admission EXCEPT ![r] = Free]
       /\ UNCHANGED <<hour, zone, hourly, lock, order>>

Unlocked(r) == [z \in Zones |-> IF lock[z] = r THEN Nobody ELSE lock[z]]

\* The order with its address snapshot, or the new snapshot of the old order.
CommitOrder(r) ==
    LET a == admission[r]
        new == order[a.order].status = "none"
    IN /\ a.step = "admitted"
       /\ order' = [order EXCEPT ![a.order] =
             IF new THEN [status |-> "active", area |-> a.area, created |-> hour]
             ELSE [@ EXCEPT !.area = a.area]]
       /\ lock' = Unlocked(r)
       /\ admission' = [admission EXCEPT ![r] = Free]
       /\ UNCHANGED <<hour, zone, hourly, rejections>>

\* The checkout fails after its admission, for want of a portion for instance.
RollBack(r) ==
    /\ admission[r].step = "admitted"
    /\ lock' = Unlocked(r)
    /\ admission' = [admission EXCEPT ![r] = Free]
    /\ UNCHANGED <<hour, zone, hourly, order, rejections>>

\* An order is cancelled or expires; a delivered one still counts.
LeaveOrder(o) ==
    /\ order[o].status = "active"
    /\ order' = [order EXCEPT ![o].status = "closed"]
    /\ UNCHANGED <<hour, zone, hourly, lock, admission, rejections>>

\* update_caps and update_policy, under the lock; the daily caps stay fixed here.
UpdateCaps(z, n) ==
    /\ lock[z] = Nobody
    /\ hourly' = [hourly EXCEPT ![z] = n]
    /\ UNCHANGED <<hour, zone, lock, order, admission, rejections>>

\* The rollout of a zone is paused, resumed or widened without the lock.
ChangeZone(z, open, percent) ==
    /\ zone' = [zone EXCEPT ![z] = [open |-> open, percent |-> percent]]
    /\ UNCHANGED <<hour, hourly, lock, order, admission, rejections>>

NextHour ==
    /\ hour < LastHour
    /\ hour' = hour + 1
    /\ UNCHANGED <<zone, hourly, lock, order, admission, rejections>>

Next ==
    \/ \E r \in Requests, o \in Orders, a \in Zones \cup {Elsewhere}, k \in {"checkout", "address"} :
          EnterAdmission(r, o, a, k)
    \/ \E r \in Requests : Admit(r) \/ Reject(r) \/ CommitOrder(r) \/ RollBack(r)
    \/ \E o \in Orders : LeaveOrder(o)
    \/ \E z \in Zones, n \in HourlyCaps : UpdateCaps(z, n)
    \/ \E z \in Zones, open \in BOOLEAN, n \in Percents : ChangeZone(z, open, n)
    \/ NextHour

Spec == Init /\ [][Next]_taVars

-----------------------------------------------------------------------------
\* Whatever checkouts and address changes race, a zone never has more active
\* orders of a day than its cap (docs/TRAFFIC_GOVERNANCE.md, "Daily cap").
DailyCapHolds == \A z \in Zones : Cardinality(AreaOrders(z)) <= DailyCap[z]

\* No checkout and no address change takes a zone above the hourly cap that is
\* in force at its commit, while administrators change the cap
\* (docs/TRAFFIC_GOVERNANCE.md, "Hourly cap").
HourlyCapHolds ==
    [][\A z \in Zones : Cardinality(HourOrders(z)') > Cardinality(HourOrders(z)) =>
          Cardinality(HourOrders(z)') <= hourly'[z]]_taVars

\* The chef's kitchen never has more orders of a day than the cap of the zones
\* it serves (docs/TRAFFIC_GOVERNANCE.md, "Chef cap").
ChefCapHolds == Cardinality(ChefOrders({})) <= ChefCap
=============================================================================
