-------------------------- MODULE DeliveryProofs --------------------------
(***************************************************************************)
(* What Delivery guarantees for any number of orders and drivers: for any  *)
(* number of requests that overlap, and, where that is not enough, for     *)
(* requests that come one after the other.                                 *)
(***************************************************************************)
EXTENDS MCDeliveryLoads, FiniteSetTheorems, TLAPS

TaskStatuses == ACTIVE_MISSION_STATUSES \cup {"none", "unassigned", "delivered"}

\* What a request may have read.
Asking ==
    [handler : Handlers, order : Orders \cup {None}, driver : Drivers \cup {None},
     saw : {"none", "asked", "answered", "offline", "available", "on_mission"} \cup RESTORABLE]

RowsTypeOK ==
    /\ orderStatus \in [Orders -> OrderStatuses]
    /\ task \in [Orders -> TaskStatuses]
    /\ taskDriver \in [Orders -> Drivers \cup {None}]
    /\ issueFrom \in [Orders -> {"none"} \cup RESTORABLE]

\* A request names its order, the driver's handlers their driver, and a report
\* the status that the task had.
Sensible(q) ==
    /\ q.handler # "availability" => q.order \in Orders
    /\ q.handler = "claim" => q.driver \in Drivers
    /\ q.handler \in {"report", "resume"} => q.saw \in RESTORABLE

RequestsOK ==
    /\ req \in [Requests -> {Idle} \cup Asking]
    /\ \A r \in Requests : req[r] # Idle => Sensible(req[r])

DeliveryTypeOK == RowsTypeOK /\ RequestsOK

-----------------------------------------------------------------------------
LEMMA InitType == Init => DeliveryTypeOK
  BY DEF Init, DeliveryTypeOK, RowsTypeOK, RequestsOK, OrderStatuses, TaskStatuses

\* A request that begins is sensible.
LEMMA BeginType ==
    ASSUME DeliveryTypeOK, NEW r \in Requests, NEW h, NEW o \in Orders \cup {None},
           NEW d \in Drivers \cup {None}, NEW q, Begin(r, h, o, d, q),
           [handler |-> h, order |-> o, driver |-> d, saw |-> q] \in Asking,
           Sensible([handler |-> h, order |-> o, driver |-> d, saw |-> q])
    PROVE  DeliveryTypeOK'
<1>1. RowsTypeOK'  BY DEF DeliveryTypeOK, RowsTypeOK, Begin, taskVars
<1>2. RequestsOK'  BY DEF DeliveryTypeOK, RequestsOK, Begin
<1>. QED  BY <1>1, <1>2 DEF DeliveryTypeOK

\* A request that ends leaves the others as they are.
LEMMA EndType ==
    ASSUME RequestsOK, NEW r \in Requests, End(r)
    PROVE  RequestsOK'
  BY DEF RequestsOK, End

LEMMA StepType == DeliveryTypeOK /\ [Next]_vars => DeliveryTypeOK'
<1>. SUFFICES ASSUME DeliveryTypeOK, [Next]_vars PROVE DeliveryTypeOK'  OBVIOUS
<1>1. ASSUME NEW r \in Requests, NEW o \in Orders, NEW h \in DOMAIN ChefMay, BeginChef(r, h, o)
      PROVE  DeliveryTypeOK'
  <2>1. h \in {"accept", "reject", "prepare", "package", "ready"} /\ h \in Handlers
    BY <1>1 DEF ChefMay, BeginChef, Begin
  <2>. QED  BY <1>1, <2>1, BeginType DEF BeginChef, Asking, Sensible
<1>2. ASSUME NEW r \in Requests, NEW o \in Orders, NEW d \in Drivers,
             BeginClaim(r, o, d) \/ BeginReport(r, o, d) \/ BeginResume(r, o, d)
      PROVE  DeliveryTypeOK'
  <2>1. CASE BeginClaim(r, o, d)
    <3>1. "claim" \in Handlers  BY <2>1 DEF BeginClaim, Begin
    <3>. QED  BY <2>1, <3>1, BeginType DEF BeginClaim, Asking, Sensible
  <2>2. CASE BeginReport(r, o, d)
    <3>1. "report" \in Handlers  BY <2>2 DEF BeginReport, Begin
    <3>. QED  BY <2>2, <3>1, BeginType DEF BeginReport, Asking, Sensible
  <2>3. CASE BeginResume(r, o, d)
    <3>1. "resume" \in Handlers  BY <2>3 DEF BeginResume, Begin
    <3>. QED  BY <2>3, <3>1, BeginType DEF BeginResume, Asking, Sensible
  <2>. QED  BY <1>2, <2>1, <2>2, <2>3
<1>3. ASSUME NEW r \in Requests, NEW o \in Orders, NEW d \in Drivers,
             NEW h \in DOMAIN DriverMay, BeginDriver(r, h, o, d)
      PROVE  DeliveryTypeOK'
  <2>1. h \in {"arrive", "pickup", "start", "deliver"} /\ h \in Handlers
    BY <1>3 DEF DriverMay, BeginDriver, Begin
  <2>. QED  BY <1>3, <2>1, BeginType DEF BeginDriver, Asking, Sensible
<1>4. ASSUME NEW r \in Requests, NEW d \in Drivers, NEW b \in BOOLEAN, BeginAvailability(r, d, b)
      PROVE  DeliveryTypeOK'
  <2>1. "availability" \in Handlers  BY <1>4 DEF BeginAvailability, Begin
  <2>. QED  BY <1>4, <2>1, BeginType DEF BeginAvailability, Asking, Sensible
<1>5. ASSUME NEW r \in Requests,
             Accept(r) \/ Reject(r) \/ StartPreparing(r) \/ StartPackaging(r)
                \/ SetAvailability(r) \/ Drop(r)
      PROVE  DeliveryTypeOK'
  <2>1. RequestsOK'
    BY <1>5, EndType DEF DeliveryTypeOK, Accept, Reject, StartPreparing, StartPackaging,
                         SetAvailability, Drop
  <2>2. RowsTypeOK'
    BY <1>5 DEF DeliveryTypeOK, RowsTypeOK, OrderStatuses, taskVars, Accept, Reject,
                StartPreparing, StartPackaging, SetAvailability, Drop, TransitionOrder
  <2>. QED  BY <2>1, <2>2 DEF DeliveryTypeOK
<1>6. ASSUME NEW r \in Requests, RefundAtProvider(r) PROVE DeliveryTypeOK'
  <2>1. req[r] \in Asking /\ req[r].handler = "reject" /\ Sensible(req[r])
    BY <1>6 DEF RefundAtProvider, Asked, DeliveryTypeOK, RequestsOK
  <2>2. req' = [req EXCEPT ![r] = [req[r] EXCEPT !.saw = "answered"]]
    BY <1>6 DEF RefundAtProvider
  <2>3. [req[r] EXCEPT !.saw = "answered"] \in Asking  BY <2>1 DEF Asking
  <2>4. Sensible([req[r] EXCEPT !.saw = "answered"])  BY <2>1 DEF Sensible, Asking
  <2>5. RequestsOK'  BY <2>2, <2>3, <2>4 DEF DeliveryTypeOK, RequestsOK
  <2>6. RowsTypeOK'  BY <1>6 DEF RefundAtProvider, DeliveryTypeOK, RowsTypeOK, taskVars
  <2>. QED  BY <2>5, <2>6 DEF DeliveryTypeOK
<1>7. ASSUME NEW r \in Requests,
             ReadyForPickup(r) \/ AcceptMission(r) \/ ArrivePickup(r) \/ ConfirmPickup(r)
                \/ StartDelivery(r) \/ MarkDelivered(r) \/ ReportIssue(r) \/ ResumeAfterIssue(r)
      PROVE  DeliveryTypeOK'
  <2>1. RequestsOK'
    BY <1>7, EndType DEF DeliveryTypeOK, ReadyForPickup, AcceptMission, ArrivePickup, ConfirmPickup,
                         StartDelivery, MarkDelivered, ReportIssue, ResumeAfterIssue
  <2>. USE DEF DeliveryTypeOK, RowsTypeOK, OrderStatuses, TaskStatuses, ACTIVE_MISSION_STATUSES,
               RESTORABLE, taskVars, TransitionOrder, TransitionTask
  <2>2. CASE ReadyForPickup(r)
    <3>1. RowsTypeOK'  BY <2>2 DEF ReadyForPickup
    <3>. QED  BY <2>1, <3>1
  <2>3. CASE AcceptMission(r)
    <3>1. req[r].driver \in Drivers  BY <2>3 DEF AcceptMission, Asked, RequestsOK, Sensible
    <3>2. RowsTypeOK'  BY <2>3, <3>1 DEF AcceptMission
    <3>. QED  BY <2>1, <3>2
  <2>4. CASE ArrivePickup(r) \/ ConfirmPickup(r) \/ StartDelivery(r) \/ MarkDelivered(r)
    <3>1. RowsTypeOK'  BY <2>4 DEF ArrivePickup, ConfirmPickup, StartDelivery, MarkDelivered
    <3>. QED  BY <2>1, <3>1
  <2>5. CASE ReportIssue(r) \/ ResumeAfterIssue(r)
    <3>1. req[r].saw \in RESTORABLE
      BY <2>5 DEF ReportIssue, ResumeAfterIssue, Asked, RequestsOK, Sensible
    <3>2. RowsTypeOK'  BY <2>5, <3>1 DEF ReportIssue, ResumeAfterIssue, Restored
    <3>. QED  BY <2>1, <3>2
  <2>. QED  BY <1>7, <2>2, <2>3, <2>4, <2>5
<1>8. CASE UNCHANGED vars
  BY <1>8 DEF vars, taskVars, DeliveryTypeOK, RowsTypeOK, RequestsOK
<1>. QED
  BY <1>1, <1>2, <1>3, <1>4, <1>5, <1>6, <1>7, <1>8 DEF Next, RequestBegins

LEMMA TypeInvariant == Spec => []DeliveryTypeOK
  BY InitType, StepType, PTL DEF Spec

-----------------------------------------------------------------------------
\* Reading changes no row.
LEMMA BeginsChangeNothing ==
    ASSUME RequestBegins
    PROVE  UNCHANGED <<orderStatus, stage, taskVars, driverStatus, moneyBack>>
<1>. DEFINE Same == UNCHANGED <<orderStatus, stage, taskVars, driverStatus, moneyBack>>
<1>1. \A r, h, o, d, q : Begin(r, h, o, d, q) => Same  BY DEF Begin
<1>. HIDE DEF Same
<1>2. ASSUME NEW r \in Requests, NEW o \in Orders, NEW h \in DOMAIN ChefMay, BeginChef(r, h, o)
      PROVE  Same
  BY <1>1, <1>2 DEF BeginChef
<1>3. ASSUME NEW r \in Requests, NEW o \in Orders, NEW d \in Drivers,
             BeginClaim(r, o, d) \/ BeginReport(r, o, d) \/ BeginResume(r, o, d)
      PROVE  Same
  BY <1>1, <1>3 DEF BeginClaim, BeginReport, BeginResume
<1>4. ASSUME NEW r \in Requests, NEW o \in Orders, NEW d \in Drivers,
             NEW h \in DOMAIN DriverMay, BeginDriver(r, h, o, d)
      PROVE  Same
  BY <1>1, <1>4 DEF BeginDriver
<1>5. ASSUME NEW r \in Requests, NEW d \in Drivers, NEW b \in BOOLEAN, BeginAvailability(r, d, b)
      PROVE  Same
  BY <1>1, <1>5 DEF BeginAvailability
<1>6. Same  BY <1>2, <1>3, <1>4, <1>5 DEF RequestBegins
<1>. QED  BY <1>6 DEF Same

-----------------------------------------------------------------------------
\* A guarded update moves its order by one step or finds it moved already.
LEMMA TransitionIsStep ==
    ASSUME RowsTypeOK, NEW o \in Orders, NEW old, NEW new, TransitionOrder(o, old, new),
           <<old, new>> \in OrderSteps
    PROVE  \A p \in Orders : orderStatus'[p] # orderStatus[p] =>
               <<orderStatus[p], orderStatus'[p]>> \in OrderSteps
  BY DEF RowsTypeOK, TransitionOrder, StillIs

\* Whatever requests overlap, whichever handlers are in use, an order takes the
\* documented steps one by one (OrderStepsOnly).
THEOREM OrdersStepByStep == Spec => OrderStepsOnly
<1>. DEFINE Steps == \A o \in Orders : orderStatus'[o] # orderStatus[o] =>
                        <<orderStatus[o], orderStatus'[o]>> \in OrderSteps
<1>1. ASSUME DeliveryTypeOK, Next PROVE Steps
  <2>1. ASSUME NEW r \in Requests, NEW h, h # "availability", Asked(r, h)
        PROVE  req[r].order \in Orders
    BY <1>1, <2>1 DEF Asked, DeliveryTypeOK, RequestsOK, Sensible
  <2>2. CASE UNCHANGED orderStatus  BY <2>2
  <2>3. ASSUME NEW r \in Requests,
               Accept(r) \/ Reject(r) \/ StartPreparing(r) \/ ReadyForPickup(r)
                  \/ AcceptMission(r) \/ ConfirmPickup(r) \/ StartDelivery(r) \/ MarkDelivered(r)
        PROVE  Steps
    <3>1. req[r].order \in Orders
      BY <2>1, <2>3 DEF Accept, Reject, StartPreparing, ReadyForPickup, AcceptMission,
                        ConfirmPickup, StartDelivery, MarkDelivered
    <3>2. PICK step \in OrderSteps : TransitionOrder(req[r].order, step[1], step[2])
      BY <2>3 DEF Accept, Reject, StartPreparing, ReadyForPickup, AcceptMission,
                  ConfirmPickup, StartDelivery, MarkDelivered, OrderSteps
    <3>3. <<step[1], step[2]>> \in OrderSteps  BY DEF OrderSteps
    <3>. QED  BY <1>1, <3>1, <3>2, <3>3, TransitionIsStep DEF DeliveryTypeOK
  <2>4. ASSUME NEW r \in Requests,
               RefundAtProvider(r) \/ StartPackaging(r) \/ ArrivePickup(r) \/ ReportIssue(r)
                  \/ ResumeAfterIssue(r) \/ SetAvailability(r) \/ Drop(r)
        PROVE  UNCHANGED orderStatus
    BY <2>4 DEF RefundAtProvider, StartPackaging, ArrivePickup, ReportIssue,
                ResumeAfterIssue, SetAvailability, Drop
  <2>5. CASE RequestBegins  BY <2>2, <2>5, BeginsChangeNothing
  <2>. QED  BY <1>1, <2>2, <2>3, <2>4, <2>5 DEF Next
<1>2. DeliveryTypeOK /\ [Next]_vars => [Steps]_vars  BY <1>1
<1>. QED  BY <1>2, TypeInvariant, PTL DEF Spec, OrderStepsOnly

-----------------------------------------------------------------------------
Follows == DeliveryTypeOK /\ TaskFollowsOrder

LEMMA InitFollows == Init => Follows
<1>. SUFFICES ASSUME Init PROVE TaskFollowsOrder  BY InitType DEF Follows
<1>. QED  BY DEF Init, TaskFollowsOrder, TogetherWithOrder

\* Each handler moves order and task together or not at all.
LEMMA StepFollows ==
    ASSUME Follows, [Next]_vars, \A r \in Requests : ~ResumeAfterIssue(r)
    PROVE  Follows'
<1>. SUFFICES TaskFollowsOrder'  BY StepType DEF Follows
<1>0. ASSUME NEW r \in Requests, NEW h, h # "availability", Asked(r, h)
      PROVE  /\ req[r].order \in Orders
             /\ h \in Handlers
             /\ h = "claim" => req[r].driver \in Drivers
             /\ h = "report" => req[r].saw \in RESTORABLE
  BY <1>0 DEF Asked, Follows, DeliveryTypeOK, RequestsOK, Sensible, Asking
<1>1. CASE UNCHANGED <<orderStatus, taskVars>>
  BY <1>1 DEF Follows, TaskFollowsOrder, taskVars
<1>. USE DEF Follows, DeliveryTypeOK, RowsTypeOK, TaskFollowsOrder, TogetherWithOrder
<1>2. ASSUME NEW r \in Requests, Accept(r) \/ Reject(r) \/ StartPreparing(r)
      PROVE  TaskFollowsOrder'
  <2>1. req[r].order \in Orders  BY <1>0, <1>2 DEF Accept, Reject, StartPreparing
  <2>. QED
    BY <1>2, <2>1 DEF Accept, Reject, StartPreparing, TransitionOrder, StillIs, taskVars
<1>3. ASSUME NEW r \in Requests, ReadyForPickup(r) PROVE TaskFollowsOrder'
  <2>1. req[r].order \in Orders  BY <1>0, <1>3 DEF ReadyForPickup
  <2>. QED  BY <1>3, <2>1 DEF ReadyForPickup, TransitionOrder, StillIs
<1>4. ASSUME NEW r \in Requests, AcceptMission(r) PROVE TaskFollowsOrder'
  <2>1. req[r].order \in Orders /\ req[r].driver \in Drivers  BY <1>0, <1>4 DEF AcceptMission
  <2>. QED  BY <1>4, <2>1, NoneAssumption DEF AcceptMission, TransitionOrder, StillIs
<1>5. ASSUME NEW r \in Requests,
             ArrivePickup(r) \/ ConfirmPickup(r) \/ StartDelivery(r) \/ MarkDelivered(r)
      PROVE  TaskFollowsOrder'
  <2>1. req[r].order \in Orders
    BY <1>0, <1>5 DEF ArrivePickup, ConfirmPickup, StartDelivery, MarkDelivered
  <2>2. CASE ArrivePickup(r)  BY <2>1, <2>2 DEF ArrivePickup, TransitionTask
  <2>3. CASE ConfirmPickup(r)
    BY <2>1, <2>3 DEF ConfirmPickup, TransitionTask, TransitionOrder, StillIs
  <2>4. CASE StartDelivery(r)
    BY <2>1, <2>4 DEF StartDelivery, TransitionTask, TransitionOrder, StillIs
  <2>5. CASE MarkDelivered(r)
    BY <2>1, <2>5 DEF MarkDelivered, TransitionTask, TransitionOrder, StillIs
  <2>. QED  BY <1>5, <2>2, <2>3, <2>4, <2>5
<1>6. ASSUME NEW r \in Requests, ReportIssue(r) PROVE TaskFollowsOrder'
  <2>1. req[r].order \in Orders /\ req[r].saw \in RESTORABLE  BY <1>0, <1>6 DEF ReportIssue
  <2>. QED  BY <1>6, <2>1 DEF ReportIssue, TransitionTask, RESTORABLE
<1>7. ASSUME NEW r \in Requests,
             RefundAtProvider(r) \/ StartPackaging(r) \/ SetAvailability(r) \/ Drop(r)
      PROVE  UNCHANGED <<orderStatus, taskVars>>
  BY <1>7 DEF RefundAtProvider, StartPackaging, SetAvailability, Drop
<1>8. CASE RequestBegins  BY <1>1, <1>8, BeginsChangeNothing
<1>9. CASE UNCHANGED vars  BY <1>1, <1>9 DEF vars
<1>. HIDE DEF Follows, TaskFollowsOrder, DeliveryTypeOK
<1>. QED
  BY <1>1, <1>2, <1>3, <1>4, <1>5, <1>6, <1>7, <1>8, <1>9 DEF Next

\* Order and task never drift apart, whatever requests overlap, as long as no
\* issue is resumed (TaskFollowsOrder).
THEOREM TasksFollow ==
    ASSUME "resume" \notin Handlers
    PROVE  Spec => []TaskFollowsOrder
<1>1. Follows /\ [Next]_vars => Follows'
  <2>. SUFFICES ASSUME Follows, [Next]_vars PROVE Follows'  OBVIOUS
  <2>1. ASSUME NEW r \in Requests, ResumeAfterIssue(r) PROVE FALSE
    BY <2>1 DEF ResumeAfterIssue, Asked, Follows, DeliveryTypeOK, RequestsOK, Asking
  <2>. QED  BY <2>1, StepFollows
<1>2. Follows => TaskFollowsOrder  BY DEF Follows
<1>. QED  BY <1>1, <1>2, InitFollows, PTL DEF Spec

-----------------------------------------------------------------------------
(* One request at a time: what a request has read is still so when it      *)
(* commits, and the columns that no guarded UPDATE protects agree as well. *)

OneRequest == \A r, x \in Requests : r = x

\* What handler and rows say of each other while a request is open.
Current(q) ==
    /\ q.handler \in DOMAIN ChefMay =>
          <<orderStatus[q.order], stage[q.order]>> \in ChefMay[q.handler]
    /\ q.handler = "claim" => driverStatus[q.driver] = "available"
    /\ q.handler = "deliver" => taskDriver[q.order] = q.driver /\ q.driver \in Drivers
    /\ q.handler = "resume" => issueFrom[q.order] = q.saw
    /\ q.handler = "availability" =>
          /\ q.driver \in Drivers
          /\ q.saw \in {"offline", "available", "on_mission"}
          /\ q.saw = "on_mission" <=> Busy(q.driver) # {}

\* A driver is busy with one order at most.
OneOrderEach == \A d \in Drivers : \A o, p \in Busy(d) : o = p

ProfilesTypeOK ==
    /\ stage \in [Orders -> Stages]
    /\ driverStatus \in [Drivers -> {"offline", "available", "on_mission"}]

RequestsCurrent == \A r \in Requests : req[r] # Idle => Current(req[r])

MissionsInv ==
    /\ Follows
    /\ ProfilesTypeOK
    /\ StageFollowsOrder
    /\ DriverStatusTruthful
    /\ OneOrderEach
    /\ RequestsCurrent

LEMMA InitMissions == Init => MissionsInv
<1>. SUFFICES ASSUME Init PROVE MissionsInv  OBVIOUS
<1>1. \A d \in Drivers : Busy(d) = {}  BY NoneAssumption DEF Init, Busy
<1>2. StageFollowsOrder  BY DEF Init, StageFollowsOrder, StageWhen
<1>3. ProfilesTypeOK  BY DEF Init, ProfilesTypeOK, Stages
<1>4. DriverStatusTruthful /\ OneOrderEach
  BY <1>1 DEF Init, DriverStatusTruthful, OneOrderEach
<1>. QED  BY <1>2, <1>3, <1>4, InitFollows DEF Init, MissionsInv, RequestsCurrent

\* The missions a driver has are the tasks taken and not delivered.
LEMMA BusyIsMissions ==
    ASSUME Follows, NEW d \in Drivers
    PROVE  Busy(d) = MissionsOf(d)
  BY NoneAssumption DEF Follows, DeliveryTypeOK, RowsTypeOK, TaskStatuses, TaskFollowsOrder, Busy, MissionsOf,
                        ACTIVE_MISSION_STATUSES

\* Nobody else is at work while a request is open.
LEMMA Alone ==
    ASSUME OneRequest, RequestsOK, NEW r \in Requests, End(r)
    PROVE  \A x \in Requests : req'[x] = Idle
  BY DEF OneRequest, RequestsOK, End

\* A request reads rows and columns that agree, and remembers what they say.
LEMMA BeginMissions ==
    ASSUME OneRequest, MissionsInv, RequestBegins
    PROVE  MissionsInv'
<1>1. UNCHANGED <<orderStatus, stage, taskVars, driverStatus, moneyBack>>
  BY BeginsChangeNothing
<1>2. Follows'
  <2>1. \A r \in Requests : ~ResumeAfterIssue(r)
    <3>. SUFFICES ASSUME NEW r \in Requests, ResumeAfterIssue(r) PROVE FALSE  OBVIOUS
    <3>1. req[r].order \in Orders /\ req[r].saw \in RESTORABLE
      BY DEF ResumeAfterIssue, Asked, MissionsInv, Follows, DeliveryTypeOK, RequestsOK, Sensible
    <3>2. task[req[r].order] = "delivery_issue" /\ task'[req[r].order] = req[r].saw
      BY <3>1 DEF ResumeAfterIssue, TransitionTask, Restored, MissionsInv, Follows, DeliveryTypeOK,
                  RowsTypeOK
    <3>. QED  BY <1>1, <3>1, <3>2 DEF taskVars, RESTORABLE
  <2>. QED  BY <2>1, StepFollows DEF MissionsInv, Next
<1>3. /\ ProfilesTypeOK' /\ StageFollowsOrder' /\ DriverStatusTruthful' /\ OneOrderEach'
      /\ \A d : Busy(d)' = Busy(d)
  BY <1>1 DEF MissionsInv, ProfilesTypeOK, StageFollowsOrder, DriverStatusTruthful, OneOrderEach,
              Busy, taskVars
<1>4. \A q : Current(q)' <=> Current(q)
  BY <1>1, <1>3 DEF Current, taskVars
<1>5. ASSUME NEW r \in Requests, NEW h, NEW o, NEW d, NEW q, Begin(r, h, o, d, q),
             Current([handler |-> h, order |-> o, driver |-> d, saw |-> q])
      PROVE  RequestsCurrent'
  <2>1. \A x \in Requests : req'[x] = [handler |-> h, order |-> o, driver |-> d, saw |-> q]
    BY <1>5 DEF OneRequest, Begin, MissionsInv, Follows, DeliveryTypeOK, RequestsOK
  <2>. QED  BY <1>4, <1>5, <2>1 DEF RequestsCurrent
<1>6. ASSUME NEW r \in Requests, NEW o \in Orders, NEW h \in DOMAIN ChefMay, BeginChef(r, h, o)
      PROVE  RequestsCurrent'
  <2>1. Current([handler |-> h, order |-> o, driver |-> None, saw |-> "asked"])
    BY <1>6 DEF BeginChef, Current, ChefMay
  <2>. QED  BY <1>5, <1>6, <2>1 DEF BeginChef
<1>7. ASSUME NEW r \in Requests, NEW o \in Orders, NEW d \in Drivers, BeginClaim(r, o, d)
      PROVE  RequestsCurrent'
  <2>1. Current([handler |-> "claim", order |-> o, driver |-> d, saw |-> "none"])
    BY <1>7 DEF BeginClaim, Current, ChefMay
  <2>. QED  BY <1>5, <1>7, <2>1 DEF BeginClaim
<1>8. ASSUME NEW r \in Requests, NEW o \in Orders, NEW d \in Drivers, BeginReport(r, o, d)
      PROVE  RequestsCurrent'
  <2>1. Current([handler |-> "report", order |-> o, driver |-> d, saw |-> task[o]])
    BY DEF Current, ChefMay
  <2>. QED  BY <1>5, <1>8, <2>1 DEF BeginReport
<1>9. ASSUME NEW r \in Requests, NEW o \in Orders, NEW d \in Drivers, BeginResume(r, o, d)
      PROVE  RequestsCurrent'
  <2>1. Current([handler |-> "resume", order |-> o, driver |-> d, saw |-> issueFrom[o]])
    BY DEF Current, ChefMay
  <2>. QED  BY <1>5, <1>9, <2>1 DEF BeginResume
<1>10. ASSUME NEW r \in Requests, NEW o \in Orders, NEW d \in Drivers,
              NEW h \in DOMAIN DriverMay, BeginDriver(r, h, o, d)
       PROVE  RequestsCurrent'
  <2>1. Current([handler |-> h, order |-> o, driver |-> d, saw |-> "none"])
    BY <1>10 DEF BeginDriver, Current, ChefMay, DriverMay
  <2>. QED  BY <1>5, <1>10, <2>1 DEF BeginDriver
<1>11. ASSUME NEW r \in Requests, NEW d \in Drivers, NEW b \in BOOLEAN, BeginAvailability(r, d, b)
       PROVE  RequestsCurrent'
  <2>. DEFINE new == IF MissionsOf(d) # {} THEN "on_mission"
                     ELSE IF b THEN "available" ELSE "offline"
  <2>1. new = "on_mission" <=> Busy(d) # {}
    BY BusyIsMissions DEF MissionsInv
  <2>2. Current([handler |-> "availability", order |-> None, driver |-> d, saw |-> new])
    BY <2>1 DEF Current, ChefMay
  <2>. QED  BY <1>5, <1>11, <2>2 DEF BeginAvailability
<1>12. RequestsCurrent'  BY <1>6, <1>7, <1>8, <1>9, <1>10, <1>11 DEF RequestBegins
<1>. QED  BY <1>2, <1>3, <1>12 DEF MissionsInv

\* Resuming restores the status that the issue remembers.
LEMMA ResumeFollows ==
    ASSUME MissionsInv, NEW r \in Requests, ResumeAfterIssue(r)
    PROVE  Follows'
<1>1. DeliveryTypeOK'
  BY StepType DEF MissionsInv, Follows, Next
<1>2. req[r].order \in Orders /\ req[r].saw \in RESTORABLE /\ issueFrom[req[r].order] = req[r].saw
  BY DEF MissionsInv, Follows, DeliveryTypeOK, RequestsOK, Sensible, RequestsCurrent, Current, ResumeAfterIssue, Asked
<1>3. TaskFollowsOrder'
  BY <1>2 DEF MissionsInv, Follows, DeliveryTypeOK, RowsTypeOK, TaskFollowsOrder, TogetherWithOrder,
              ResumeAfterIssue, TransitionTask, Restored, RESTORABLE
<1>. QED  BY <1>1, <1>3 DEF Follows

\* What the chef's handlers write agrees with the order they read.
LEMMA ChefStage ==
    ASSUME MissionsInv, NEW r \in Requests,
           Accept(r) \/ Reject(r) \/ StartPreparing(r) \/ StartPackaging(r) \/ ReadyForPickup(r)
    PROVE  ProfilesTypeOK' /\ StageFollowsOrder'
<1>1. req[r].order \in Orders
  BY DEF MissionsInv, Follows, DeliveryTypeOK, RequestsOK, Sensible, Asked, Accept, Reject,
         StartPreparing, StartPackaging, ReadyForPickup
<1>. USE <1>1 DEF MissionsInv, Follows, DeliveryTypeOK, RowsTypeOK, ProfilesTypeOK,
                  StageFollowsOrder, StageWhen, Stages, SetStage, TransitionOrder, StillIs
<1>2. CASE Accept(r)  BY <1>2 DEF Accept
<1>3. CASE Reject(r)  BY <1>3 DEF Reject
<1>4. CASE StartPreparing(r)  BY <1>4 DEF StartPreparing
<1>5. CASE StartPackaging(r)
  <2>1. Current(req[r]) /\ req[r].handler = "package"
    BY <1>5 DEF StartPackaging, Asked, RequestsCurrent
  <2>2. orderStatus[req[r].order] = "preparing"  BY <2>1 DEF Current, ChefMay
  <2>. QED  BY <1>5, <2>2 DEF StartPackaging
<1>6. CASE ReadyForPickup(r)  BY <1>6 DEF ReadyForPickup, StageWhenReady
<1>. QED  BY <1>2, <1>3, <1>4, <1>5, <1>6

\* From ready_for_pickup on the stage stays ready.
LEMMA DriverStage ==
    ASSUME MissionsInv, NEW r \in Requests,
           AcceptMission(r) \/ ConfirmPickup(r) \/ StartDelivery(r) \/ MarkDelivered(r)
    PROVE  StageFollowsOrder'
<1>1. req[r].order \in Orders
  BY DEF MissionsInv, Follows, DeliveryTypeOK, RequestsOK, Sensible, Asked, AcceptMission,
         ConfirmPickup, StartDelivery, MarkDelivered
<1>. QED
  BY <1>1 DEF MissionsInv, Follows, DeliveryTypeOK, RowsTypeOK, StageFollowsOrder, StageWhen,
              TransitionOrder, StillIs, AcceptMission, ConfirmPickup, StartDelivery, MarkDelivered

\* Claim and delivery change what one driver is busy with, the other handlers nothing.
LEMMA MissionSteps ==
    ASSUME OneRequest, MissionsInv, NEW r \in Requests,
           \/ AcceptMission(r) \/ MarkDelivered(r) \/ ArrivePickup(r) \/ ConfirmPickup(r)
           \/ StartDelivery(r) \/ ReportIssue(r) \/ ResumeAfterIssue(r) \/ ReadyForPickup(r)
           \/ SetAvailability(r)
    PROVE  driverStatus' \in [Drivers -> {"offline", "available", "on_mission"}]
           /\ DriverStatusTruthful' /\ OneOrderEach'
<1>. DEFINE o == req[r].order  d == req[r].driver
<1>. USE DEF MissionsInv, Follows, DeliveryTypeOK, RowsTypeOK, ProfilesTypeOK, DriverStatusTruthful,
             OneOrderEach
<1>1. CASE AcceptMission(r)
  <2>1. o \in Orders /\ d \in Drivers /\ driverStatus[d] = "available"
    BY <1>1 DEF AcceptMission, Asked, RequestsOK, Sensible, RequestsCurrent, Current
  <2>2. Busy(d) = {}  BY <2>1
  <2>3. /\ taskDriver[o] = None
        /\ task' = [task EXCEPT ![o] = "to_pickup"]
        /\ taskDriver' = [taskDriver EXCEPT ![o] = d]
        /\ driverStatus' = [driverStatus EXCEPT ![d] = "on_mission"]
    BY <1>1 DEF AcceptMission
  <2>4. \A e \in Drivers : Busy(e)' = IF e = d THEN {o} ELSE Busy(e)
    BY <2>1, <2>2, <2>3, NoneAssumption DEF Busy
  <2>. QED  BY <2>1, <2>3, <2>4
<1>2. CASE MarkDelivered(r)
  <2>1. o \in Orders /\ d \in Drivers /\ taskDriver[o] = d
    BY <1>2 DEF MarkDelivered, Asked, RequestsOK, Sensible, RequestsCurrent, Current
  <2>2. /\ task[o] = "to_customer"
        /\ task' = [task EXCEPT ![o] = "delivered"] /\ taskDriver' = taskDriver
        /\ driverStatus' = [driverStatus EXCEPT ![d] = "available"]
    BY <1>2 DEF MarkDelivered, TransitionTask, StatusAfterDelivery
  <2>3. Busy(d) = {o}  BY <2>1, <2>2 DEF Busy
  <2>4. \A e \in Drivers : Busy(e)' = IF e = d THEN {} ELSE Busy(e)
    BY <2>1, <2>2, <2>3 DEF Busy
  <2>. QED  BY <2>1, <2>2, <2>4
<1>3. CASE \/ ArrivePickup(r) \/ ConfirmPickup(r) \/ StartDelivery(r)
           \/ ReportIssue(r) \/ ResumeAfterIssue(r) \/ ReadyForPickup(r)
  <2>1. o \in Orders
    BY <1>3 DEF ArrivePickup, ConfirmPickup, StartDelivery, ReportIssue, ResumeAfterIssue,
                ReadyForPickup, Asked, RequestsOK, Sensible
  <2>2. CASE ReadyForPickup(r)
    <3>1. /\ driverStatus' = driverStatus /\ taskDriver' = taskDriver
          /\ task' = [task EXCEPT ![o] = IF @ = "none" THEN "unassigned" ELSE @]
      BY <2>2 DEF ReadyForPickup
    <3>2. task[o] = "none" => taskDriver[o] = None  BY <2>1 DEF TaskFollowsOrder
    <3>3. \A e \in Drivers : Busy(e)' = Busy(e)  BY <2>1, <3>1, <3>2, NoneAssumption DEF Busy
    <3>. QED  BY <3>1, <3>3
  <2>3. CASE ~ReadyForPickup(r)
    <3>1. req[r].handler \in {"report", "resume"} => req[r].saw \in RESTORABLE
      BY <1>3 DEF RequestsOK, Sensible, Asked, ArrivePickup, ConfirmPickup, StartDelivery,
                  ReportIssue, ResumeAfterIssue, ReadyForPickup
    <3>2. /\ driverStatus' = driverStatus /\ taskDriver' = taskDriver /\ task[o] # "delivered"
          /\ \E s : s # "delivered" /\ task' = [task EXCEPT ![o] = s]
      BY <1>3, <2>3, <3>1 DEF ArrivePickup, ConfirmPickup, StartDelivery, ReportIssue,
            ResumeAfterIssue, TransitionTask, Restored, RESTORABLE, Asked
    <3>3. \A e \in Drivers : Busy(e)' = Busy(e)  BY <2>1, <3>2 DEF Busy
    <3>. QED  BY <3>2, <3>3
  <2>. QED  BY <2>2, <2>3
<1>4. CASE SetAvailability(r)
  <2>1. d \in Drivers /\ (req[r].saw = "on_mission" <=> Busy(d) # {})
    BY <1>4 DEF SetAvailability, Asked, RequestsCurrent, Current
  <2>2. req[r] \in Asking /\ req[r].handler = "availability"
    BY <1>4 DEF SetAvailability, Asked, RequestsOK
  <2>3. /\ driverStatus' = [driverStatus EXCEPT ![d] = req[r].saw]
        /\ UNCHANGED <<task, taskDriver>>
    BY <1>4 DEF SetAvailability, taskVars
  <2>4. \A e \in Drivers : Busy(e)' = Busy(e)  BY <2>3 DEF Busy
  <2>5. req[r].saw \in {"offline", "available", "on_mission"}
    BY <1>4 DEF SetAvailability, Asked, RequestsOK, RequestsCurrent, Current
  <2>. QED  BY <2>1, <2>3, <2>4, <2>5
<1>. QED  BY <1>1, <1>2, <1>3, <1>4

\* A step of any handler keeps the rows and profiles together.
LEMMA StepMissions ==
    ASSUME OneRequest
    PROVE  MissionsInv /\ [Next]_vars => MissionsInv'
<1>. SUFFICES ASSUME MissionsInv, [Next]_vars PROVE MissionsInv'  OBVIOUS
<1>1. Follows'
  <2>1. CASE \A r \in Requests : ~ResumeAfterIssue(r)  BY <2>1, StepFollows DEF MissionsInv
  <2>. QED  BY <2>1, ResumeFollows
<1>2. ASSUME NEW r \in Requests, End(r) PROVE RequestsCurrent'
  BY <1>2, Alone DEF MissionsInv, Follows, DeliveryTypeOK, RequestsCurrent
<1>3. ASSUME NEW r \in Requests,
             \/ Accept(r) \/ Reject(r) \/ StartPreparing(r) \/ StartPackaging(r)
             \/ ReadyForPickup(r) \/ AcceptMission(r) \/ ArrivePickup(r) \/ ConfirmPickup(r)
             \/ StartDelivery(r) \/ MarkDelivered(r) \/ ReportIssue(r) \/ ResumeAfterIssue(r)
             \/ SetAvailability(r) \/ Drop(r)
      PROVE  MissionsInv'
  <2>1. RequestsCurrent'
    BY <1>2, <1>3 DEF Accept, Reject, StartPreparing, StartPackaging, ReadyForPickup, AcceptMission,
          ArrivePickup, ConfirmPickup, StartDelivery, MarkDelivered, ReportIssue, ResumeAfterIssue,
          SetAvailability, Drop
  <2>2. CASE UNCHANGED <<driverStatus, taskVars>> /\ ProfilesTypeOK' /\ StageFollowsOrder'
    BY <1>1, <2>1, <2>2 DEF MissionsInv, DriverStatusTruthful, OneOrderEach, Busy, taskVars
  <2>3. CASE Accept(r) \/ Reject(r) \/ StartPreparing(r) \/ StartPackaging(r)
    BY <2>2, <2>3, ChefStage DEF Accept, Reject, StartPreparing, StartPackaging
  <2>4. CASE ReadyForPickup(r)
    BY <1>1, <2>1, <2>4, ChefStage, MissionSteps DEF MissionsInv
  <2>5. CASE Drop(r)
    BY <2>2, <2>5 DEF Drop, MissionsInv, ProfilesTypeOK, StageFollowsOrder
  <2>6. CASE AcceptMission(r) \/ ConfirmPickup(r) \/ StartDelivery(r) \/ MarkDelivered(r)
    <3>1. stage' = stage
      BY <2>6 DEF AcceptMission, ConfirmPickup, StartDelivery, MarkDelivered
    <3>. QED  BY <1>1, <2>1, <2>6, <3>1, DriverStage, MissionSteps DEF MissionsInv, ProfilesTypeOK
  <2>7. CASE ArrivePickup(r) \/ ReportIssue(r) \/ ResumeAfterIssue(r) \/ SetAvailability(r)
    <3>1. stage' = stage /\ orderStatus' = orderStatus
      BY <2>7 DEF ArrivePickup, ReportIssue, ResumeAfterIssue, SetAvailability
    <3>2. StageFollowsOrder'  BY <3>1 DEF MissionsInv, StageFollowsOrder
    <3>. QED  BY <1>1, <2>1, <2>7, <3>1, <3>2, MissionSteps DEF MissionsInv, ProfilesTypeOK
  <2>. QED  BY <1>3, <2>3, <2>4, <2>5, <2>6, <2>7
<1>4. ASSUME NEW r \in Requests, RefundAtProvider(r) PROVE MissionsInv'
  <2>1. /\ UNCHANGED <<orderStatus, stage, taskVars, driverStatus>>
        /\ req[r] \in Asking /\ req[r].handler = "reject"
        /\ req' = [req EXCEPT ![r].saw = "answered"]
    BY <1>4 DEF RefundAtProvider, Asked, MissionsInv, Follows, DeliveryTypeOK, RequestsOK
  <2>2. \A x \in Requests : req'[x] = [req[x] EXCEPT !.saw = "answered"] /\ req[x] = req[r]
    BY <2>1 DEF OneRequest, MissionsInv, Follows, DeliveryTypeOK, RequestsOK
  <2>3. RequestsCurrent'
    <3>1. req[r] # Idle  BY <2>1 DEF Idle
    <3>2. Current(req[r])  BY <3>1 DEF MissionsInv, RequestsCurrent
    <3>3. [req[r] EXCEPT !.saw = "answered"].handler = "reject"  BY <2>1 DEF Asking
    <3>4. [req[r] EXCEPT !.saw = "answered"].order = req[r].order  BY <2>1 DEF Asking
    <3>5. \A x \in Requests : /\ Current(req[x]) /\ req[x].handler = "reject"
                              /\ req'[x].handler = "reject" /\ req'[x].order = req[x].order
      BY <2>1, <2>2, <3>2, <3>3, <3>4
    <3>. QED  BY <2>1, <3>5 DEF RequestsCurrent, Current, ChefMay
  <2>. QED
    BY <1>1, <2>1, <2>3 DEF MissionsInv, ProfilesTypeOK, StageFollowsOrder, DriverStatusTruthful,
                            OneOrderEach, Busy, taskVars
<1>5. CASE RequestBegins  BY <1>5, BeginMissions
<1>6. CASE UNCHANGED vars
  BY <1>1, <1>6 DEF vars, taskVars, MissionsInv, ProfilesTypeOK, StageFollowsOrder,
                    DriverStatusTruthful, OneOrderEach, Busy, RequestsCurrent, Current
<1>. QED  BY <1>3, <1>4, <1>5, <1>6 DEF Next

LEMMA MissionsFollow ==
    ASSUME MissionsInv
    PROVE  OneMissionPerDriver /\ DriverStatusTruthful /\ StageFollowsOrder
<1>1. ASSUME NEW d \in Drivers PROVE Cardinality(Busy(d)) <= 1
  <2>1. CASE Busy(d) = {}  BY <2>1, FS_EmptySet
  <2>2. CASE Busy(d) # {}
    <3>1. PICK o : o \in Busy(d)  BY <2>2
    <3>2. \A p \in Busy(d) : p = o  BY <3>1 DEF MissionsInv, OneOrderEach
    <3>3. Busy(d) = {o}  BY <3>1, <3>2
    <3>4. Cardinality({o}) = 1  BY FS_Singleton
    <3>. QED  BY <3>3, <3>4
  <2>. QED  BY <2>1, <2>2
<1>. QED  BY <1>1 DEF OneMissionPerDriver, MissionsInv

\* One request at a time, whatever the handlers and however often a request is cut
\* off: a driver has one mission at most, the driver's profile says on_mission exactly
\* while there is one, and the chef's stage agrees with the order.
THEOREM SerialRequestsAgree ==
    ASSUME OneRequest
    PROVE  LoadsSpec => []SerialMissionsAgree
<1>. DEFINE Inv == load = "serial" => MissionsInv
<1>1. LoadsInit => Inv  BY InitMissions DEF LoadsInit
<1>2. Inv /\ [LoadsNext]_<<vars, load>> => Inv'
  BY StepMissions DEF LoadsNext
<1>3. Inv => SerialMissionsAgree  BY MissionsFollow DEF SerialMissionsAgree
<1>. QED  BY <1>1, <1>2, <1>3, PTL DEF LoadsSpec
=============================================================================
