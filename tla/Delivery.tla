------------------------------ MODULE Delivery ------------------------------
(***************************************************************************)
(* A paid order from the chef's answer to the customer's door: the chef's  *)
(* fulfillment row, the delivery task, the driver's profile and the order  *)
(* status that they all move.                                              *)
(*                                                                         *)
(* A request is two steps.  In the first it reads its rows and passes the  *)
(* checks on them; in the second it runs its statements and commits.  The  *)
(* status changes of orders and tasks are `UPDATE ... WHERE status =       *)
(* expected', evaluated on the committed row, and a mismatch rolls the     *)
(* request back; every other column is an ORM attribute, written           *)
(* whatever the committed row holds by then.  The updates lock their rows  *)
(* until commit, so taking them together at commit loses no behaviour.     *)
(*                                                                         *)
(* With one element in Requests the handlers run one after the other.      *)
(***************************************************************************)
EXTENDS Integers, FiniteSets

CONSTANTS
    Orders,
    Drivers,
    None,          \* NULL: no driver, no order
    Requests,      \* requests that run at the same time
    Handlers       \* the handlers that are in use

AllHandlers == {"accept", "reject", "prepare", "package", "ready", "claim", "arrive", "pickup",
                "start", "deliver", "report", "resume", "availability"}

ASSUME HandlersAssumption == Handlers \subseteq AllHandlers
ASSUME NoneAssumption == None \notin Drivers \cup Orders

VARIABLES
    orderStatus,   \* orders.status
    stage,         \* chef_order_fulfillments.stage
    task, taskDriver, issueFrom,   \* delivery_tasks: status, driver_id, issue_from_status
    driverStatus,  \* driver_profiles.status
    moneyBack,     \* the payment provider has returned the money of the order
    req            \* what each request has read, or Idle

taskVars == <<task, taskDriver, issueFrom>>
vars == <<orderStatus, stage, taskVars, driverStatus, moneyBack, req>>

OrderStatuses == {"confirmed", "accepted_by_chef", "cancelled", "preparing", "ready_for_pickup",
                  "assigned_to_driver", "picked_up", "out_for_delivery", "delivered"}
Stages == {"new", "accepted", "rejected", "preparing", "packaging", "ready"}
ActiveNoIssue == {"to_pickup", "at_pickup", "picked_up", "to_customer"}     \* seeded fault
ACTIVE_MISSION_STATUSES == {"to_pickup", "at_pickup", "picked_up", "to_customer", "delivery_issue"}
RESTORABLE == {"to_pickup", "at_pickup", "picked_up", "to_customer"}

Idle == [handler |-> "none"]

\* A standard order arrives confirmed and waits for the chef; the chef of a
\* special order has accepted before the customer paid.  The fulfillment row is
\* there: OrderPayment has the step that creates it.
Init ==
    /\ orderStatus \in [Orders -> {"confirmed", "accepted_by_chef"}]
    /\ stage = [o \in Orders |-> IF orderStatus[o] = "confirmed" THEN "new" ELSE "accepted"]
    /\ task = [o \in Orders |-> "none"]
    /\ taskDriver = [o \in Orders |-> None]
    /\ issueFrom = [o \in Orders |-> "none"]
    /\ driverStatus = [d \in Drivers |-> "offline"]
    /\ moneyBack = [o \in Orders |-> FALSE]
    /\ req = [r \in Requests |-> Idle]

-----------------------------------------------------------------------------
(* Reading.  The idempotent early returns change nothing and are no steps. *)

MissionsOf(d) == {o \in Orders : taskDriver[o] = d /\ task[o] \in ACTIVE_MISSION_STATUSES}

\* Request r has read the rows of order o and of driver d, and passed the checks
\* of handler h.
Begin(r, h, o, d, q) ==
    /\ h \in Handlers
    /\ req[r] = Idle
    /\ req' = [req EXCEPT ![r] = [handler |-> h, order |-> o, driver |-> d, saw |-> q]]
    /\ UNCHANGED <<orderStatus, stage, taskVars, driverStatus, moneyBack>>

\* The chef's handlers: the order and its fulfillment row agree with them.
ChefMay ==
    [accept  |-> {<<"confirmed", "new">>},
     reject  |-> {<<"confirmed", "new">>},
     prepare |-> {<<"accepted_by_chef", "accepted">>},
     package |-> {<<"preparing", "preparing">>},
     ready   |-> {<<"preparing", "preparing">>, <<"preparing", "packaging">>}]

BeginChef(r, h, o) ==
    /\ <<orderStatus[o], stage[o]>> \in ChefMay[h]
    /\ Begin(r, h, o, None, "asked")

BeginClaim(r, o, d) ==
    /\ driverStatus[d] = "available"
    /\ MissionsOf(d) = {}
    /\ task[o] # "none" /\ orderStatus[o] = "ready_for_pickup"
    /\ Begin(r, "claim", o, d, "none")

\* The driver's handlers: the task, and except for `arrive' the order.
DriverMay ==
    [arrive  |-> {<<"to_pickup", s>> : s \in OrderStatuses},
     pickup  |-> {<<"at_pickup", "assigned_to_driver">>},
     start   |-> {<<"picked_up", "picked_up">>},
     deliver |-> {<<"to_customer", "out_for_delivery">>}]

BeginDriver(r, h, o, d) ==
    /\ taskDriver[o] = d
    /\ <<task[o], orderStatus[o]>> \in DriverMay[h]
    /\ Begin(r, h, o, d, "none")

BeginReport(r, o, d) ==
    /\ taskDriver[o] = d
    /\ task[o] \in RESTORABLE
    /\ Begin(r, "report", o, d, task[o])

BeginResume(r, o, d) ==
    /\ taskDriver[o] = d
    /\ task[o] = "delivery_issue"
    /\ issueFrom[o] \in RESTORABLE
    /\ Begin(r, "resume", o, d, issueFrom[o])

\* `saw' is the status the request will set; the ORM writes it only if it is
\* not the one that was read.
BeginAvailability(r, d, available) ==
    LET new == IF MissionsOf(d) # {} THEN "on_mission"
               ELSE IF available THEN "available" ELSE "offline"
    IN /\ MissionsOf(d) # {} => available
       /\ new # driverStatus[d]
       /\ Begin(r, "availability", None, d, new)

-----------------------------------------------------------------------------
(* Writing.                                                                *)

Asked(r, h) == req[r] # Idle /\ req[r].handler = h

\* transition_order: UPDATE orders SET status = new WHERE status = expected.
AnyStatus(o, expected) == TRUE     \* seeded fault
StillIs(o, expected) == orderStatus[o] = expected

TransitionOrder(o, expected, new) ==
    /\ StillIs(o, expected)
    /\ orderStatus' = [orderStatus EXCEPT ![o] = new]

\* transition_task: the same for a task of driver d.
TransitionTask(o, d, expected, new) ==
    /\ task[o] = expected /\ taskDriver[o] = d
    /\ task' = [task EXCEPT ![o] = new]
    /\ UNCHANGED taskDriver

End(r) == req' = [req EXCEPT ![r] = Idle]

SetStage(o, new) == stage' = [stage EXCEPT ![o] = new]

Accept(r) ==
    LET o == req[r].order
    IN /\ Asked(r, "accept")
       /\ TransitionOrder(o, "confirmed", "accepted_by_chef")
       /\ SetStage(o, "accepted")
       /\ End(r)
       /\ UNCHANGED <<taskVars, driverStatus, moneyBack>>

\* create_refund calls the provider while the refund row is not committed yet;
\* its unique key makes a second rejection wait.
RefundAtProvider(r) ==
    LET o == req[r].order
    IN /\ Asked(r, "reject") /\ req[r].saw = "asked"
       /\ \A x \in Requests : Asked(x, "reject") => req[x].order # o \/ req[x].saw = "asked"
       /\ req' = [req EXCEPT ![r].saw = "answered"]
       /\ moneyBack' \in {moneyBack, [moneyBack EXCEPT ![o] = TRUE]}
       /\ UNCHANGED <<orderStatus, stage, taskVars, driverStatus>>

Reject(r) ==
    LET o == req[r].order
    IN /\ Asked(r, "reject") /\ req[r].saw = "answered"
       /\ TransitionOrder(o, "confirmed", "cancelled")
       /\ SetStage(o, "rejected")
       /\ End(r)
       /\ UNCHANGED <<taskVars, driverStatus, moneyBack>>

StartPreparing(r) ==
    LET o == req[r].order
    IN /\ Asked(r, "prepare")
       /\ TransitionOrder(o, "accepted_by_chef", "preparing")
       /\ SetStage(o, "preparing")
       /\ End(r)
       /\ UNCHANGED <<taskVars, driverStatus, moneyBack>>

\* start_packaging has no guarded UPDATE.
StartPackaging(r) ==
    /\ Asked(r, "package")
    /\ SetStage(req[r].order, "packaging")
    /\ End(r)
    /\ UNCHANGED <<orderStatus, taskVars, driverStatus, moneyBack>>

StageKept(o) == stage[o]     \* seeded fault
StageWhenReady(o) == "ready"

ReadyForPickup(r) ==
    LET o == req[r].order
    IN /\ Asked(r, "ready")
       /\ TransitionOrder(o, "preparing", "ready_for_pickup")
       /\ SetStage(o, StageWhenReady(o))
       /\ task' = [task EXCEPT ![o] = IF @ = "none" THEN "unassigned" ELSE @]
       /\ End(r)
       /\ UNCHANGED <<taskDriver, issueFrom, driverStatus, moneyBack>>

\* claim_task, then transition_order.
AcceptMission(r) ==
    LET o == req[r].order  d == req[r].driver
    IN /\ Asked(r, "claim")
       /\ task[o] = "unassigned" /\ taskDriver[o] = None
       /\ task' = [task EXCEPT ![o] = "to_pickup"]
       /\ taskDriver' = [taskDriver EXCEPT ![o] = d]
       /\ TransitionOrder(o, "ready_for_pickup", "assigned_to_driver")
       /\ driverStatus' = [driverStatus EXCEPT ![d] = "on_mission"]
       /\ End(r)
       /\ UNCHANGED <<stage, issueFrom, moneyBack>>

ArrivePickup(r) ==
    /\ Asked(r, "arrive")
    /\ TransitionTask(req[r].order, req[r].driver, "to_pickup", "at_pickup")
    /\ End(r)
    /\ UNCHANGED <<orderStatus, stage, issueFrom, driverStatus, moneyBack>>

ConfirmPickup(r) ==
    /\ Asked(r, "pickup")
    /\ TransitionTask(req[r].order, req[r].driver, "at_pickup", "picked_up")
    /\ TransitionOrder(req[r].order, "assigned_to_driver", "picked_up")
    /\ End(r)
    /\ UNCHANGED <<stage, issueFrom, driverStatus, moneyBack>>

StartDelivery(r) ==
    /\ Asked(r, "start")
    /\ TransitionTask(req[r].order, req[r].driver, "picked_up", "to_customer")
    /\ TransitionOrder(req[r].order, "picked_up", "out_for_delivery")
    /\ End(r)
    /\ UNCHANGED <<stage, issueFrom, driverStatus, moneyBack>>

KeepsStatus(d) == driverStatus[d]     \* seeded fault
StatusAfterDelivery(d) == "available"

MarkDelivered(r) ==
    LET d == req[r].driver
    IN /\ Asked(r, "deliver")
       /\ TransitionTask(req[r].order, d, "to_customer", "delivered")
       /\ TransitionOrder(req[r].order, "out_for_delivery", "delivered")
       /\ driverStatus' = [driverStatus EXCEPT ![d] = StatusAfterDelivery(d)]
       /\ End(r)
       /\ UNCHANGED <<stage, issueFrom, moneyBack>>

ReportIssue(r) ==
    LET o == req[r].order
    IN /\ Asked(r, "report")
       /\ TransitionTask(o, req[r].driver, req[r].saw, "delivery_issue")
       /\ issueFrom' = [issueFrom EXCEPT ![o] = req[r].saw]
       /\ End(r)
       /\ UNCHANGED <<orderStatus, stage, driverStatus, moneyBack>>

FirstStage(q) == "to_pickup"     \* seeded fault
Restored(q) == q.saw             \* the issue_from_status that was read

ResumeAfterIssue(r) ==
    LET o == req[r].order
    IN /\ Asked(r, "resume")
       /\ TransitionTask(o, req[r].driver, "delivery_issue", Restored(req[r]))
       /\ issueFrom' = [issueFrom EXCEPT ![o] = "none"]
       /\ End(r)
       /\ UNCHANGED <<orderStatus, stage, driverStatus, moneyBack>>

SetAvailability(r) ==
    /\ Asked(r, "availability")
    /\ driverStatus' = [driverStatus EXCEPT ![req[r].driver] = req[r].saw]
    /\ End(r)
    /\ UNCHANGED <<orderStatus, stage, taskVars, moneyBack>>

\* The request is rolled back: a guarded UPDATE found another status, an error,
\* or the process died.
Drop(r) ==
    /\ req[r] # Idle
    /\ End(r)
    /\ UNCHANGED <<orderStatus, stage, taskVars, driverStatus, moneyBack>>

RequestBegins ==
    \/ \E r \in Requests, o \in Orders :
        \/ \E h \in DOMAIN ChefMay : BeginChef(r, h, o)
        \/ \E d \in Drivers :
            \/ BeginClaim(r, o, d) \/ BeginReport(r, o, d) \/ BeginResume(r, o, d)
            \/ \E h \in DOMAIN DriverMay : BeginDriver(r, h, o, d)
    \/ \E r \in Requests, d \in Drivers, b \in BOOLEAN : BeginAvailability(r, d, b)

Next ==
    \/ RequestBegins
    \/ \E r \in Requests :
        \/ Accept(r) \/ RefundAtProvider(r) \/ Reject(r)
        \/ StartPreparing(r) \/ StartPackaging(r) \/ ReadyForPickup(r)
        \/ AcceptMission(r) \/ ArrivePickup(r) \/ ConfirmPickup(r)
        \/ StartDelivery(r) \/ MarkDelivered(r)
        \/ ReportIssue(r) \/ ResumeAfterIssue(r) \/ SetAvailability(r)
        \/ Drop(r)

Spec == Init /\ [][Next]_vars

-----------------------------------------------------------------------------
(* Properties.                                                             *)

\* The orders that driver d has accepted and not delivered.
Busy(d) == {o \in Orders : taskDriver[o] = d /\ task[o] # "delivered"}

\* One mission per driver: a driver who has a mission cannot claim another
\* (docs/DELIVERY_DOMAIN.md, "One Mission Per Driver").
OneMissionPerDriver == \A d \in Drivers : Cardinality(Busy(d)) <= 1

\* The profile says on_mission exactly while the driver has an active mission,
\* one with an open issue included.
DriverStatusTruthful ==
    \A d \in Drivers : driverStatus[d] = "on_mission" <=> Busy(d) # {}

\* The pairs of task and order status that belong together.
TogetherWithOrder ==
    {<<"none", s>> : s \in {"confirmed", "accepted_by_chef", "cancelled", "preparing"}}
    \cup {<<"unassigned", "ready_for_pickup">>,
          <<"to_pickup", "assigned_to_driver">>, <<"at_pickup", "assigned_to_driver">>,
          <<"picked_up", "picked_up">>, <<"to_customer", "out_for_delivery">>,
          <<"delivered", "delivered">>}

\* Order and task never drift apart, an open issue remembers the stage of its
\* order, and a task has a driver from the claim on.
TaskFollowsOrder ==
    \A o \in Orders :
        /\ <<IF task[o] = "delivery_issue" THEN issueFrom[o] ELSE task[o], orderStatus[o]>>
             \in TogetherWithOrder
        /\ task[o] = "delivery_issue" <=> issueFrom[o] # "none"
        /\ taskDriver[o] = None <=> task[o] \in {"none", "unassigned"}

StageWhen(s) ==
    CASE s = "confirmed" -> {"new"}
      [] s = "accepted_by_chef" -> {"accepted"}
      [] s = "cancelled" -> {"rejected"}
      [] s = "preparing" -> {"preparing", "packaging"}
      [] OTHER -> {"ready"}

\* The fulfillment row agrees with the order: preparing, packaging and ready
\* come in that order (docs/FULFILLMENT_DOMAIN.md:45).
StageFollowsOrder == \A o \in Orders : stage[o] \in StageWhen(orderStatus[o])

\* Two transition requests never both succeed (docs/FULFILLMENT_DOMAIN.md,
\* Concurrency): an order whose money a rejection has returned is not accepted.
AcceptedNotRefunded ==
    \A o \in Orders : moneyBack[o] => orderStatus[o] \in {"confirmed", "cancelled"}

OrderSteps ==
    {<<"confirmed", "accepted_by_chef">>, <<"confirmed", "cancelled">>,
     <<"accepted_by_chef", "preparing">>, <<"preparing", "ready_for_pickup">>,
     <<"ready_for_pickup", "assigned_to_driver">>, <<"assigned_to_driver", "picked_up">>,
     <<"picked_up", "out_for_delivery">>, <<"out_for_delivery", "delivered">>}

\* Whatever requests overlap, an order takes the documented steps one by one: of
\* two requests that read the same status only one moves it.
OrderStepsOnly ==
    [][\A o \in Orders : orderStatus'[o] # orderStatus[o] =>
         <<orderStatus[o], orderStatus'[o]>> \in OrderSteps]_vars
=============================================================================
