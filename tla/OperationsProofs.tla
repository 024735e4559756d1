-------------------------- MODULE OperationsProofs --------------------------
(***************************************************************************)
(* What keeps the launch in bounds, for any number of requests, orders,    *)
(* zones, sessions, overrides, drills, days and administrators: the daily  *)
(* cap of a zone while checkouts overlap, and, one transaction at a time,  *)
(* the state of a zone, the traffic policy that overrides give back, the   *)
(* closed day, the severity of an incident, the post-launch review and     *)
(* the pilot's report.                                                     *)
(***************************************************************************)
EXTENDS MCOperations, FiniteSetTheorems, TLAPS

-----------------------------------------------------------------------------
(* Traffic admission.                                                      *)

Areas == Zones \cup {Elsewhere}

Rows ==
    /\ order \in [Orders -> [status : {"none", "active", "closed"}, area : Areas, created : Int]]
    /\ lock \in [Zones -> Requests \cup {Nobody}]
    /\ hour \in Int

Asking == [step : {"waiting", "admitted"}, order : Orders, area : Areas, inRollout : BOOLEAN]

AdmissionTypeOK == Rows /\ admission \in [Requests -> {Free} \cup Asking]

\* A request that was admitted to a zone holds its policy row, and there is
\* still room for the order: what it counted has not grown since.
RoomIsKept ==
    \A r \in Requests, z \in Zones :
        admission[r].step = "admitted" /\ admission[r].area = z =>
            lock[z] = r /\ Cardinality(AreaOrders(z)) < DailyCap[z]

AdmissionInv == AdmissionTypeOK /\ RoomIsKept /\ DailyCapHolds

-----------------------------------------------------------------------------
\* A zone's orders are finitely many; fewer of them fit wherever they fitted.
LEMMA OrdersCounted ==
    ASSUME NEW z \in Zones
    PROVE  /\ IsFiniteSet(AreaOrders(z)) /\ Cardinality(AreaOrders(z)) \in Nat
           /\ DailyCap[z] \in Nat
<1>1. AreaOrders(z) \subseteq Orders  BY DEF AreaOrders
<1>. QED  BY <1>1, OrdersAssumption, DailyCapAssumption, FS_Subset, FS_CardinalityType

LEMMA FewerOrders ==
    ASSUME NEW z \in Zones, AreaOrders(z)' \subseteq AreaOrders(z)
    PROVE  /\ Cardinality(AreaOrders(z)') \in Nat
           /\ Cardinality(AreaOrders(z)') <= Cardinality(AreaOrders(z))
  BY OrdersCounted, FS_Subset, FS_CardinalityType

LEMMA OneMoreOrder ==
    ASSUME NEW z \in Zones, NEW o, AreaOrders(z)' \subseteq AreaOrders(z) \cup {o}
    PROVE  /\ Cardinality(AreaOrders(z)') \in Nat
           /\ Cardinality(AreaOrders(z)') <= Cardinality(AreaOrders(z)) + 1
<1>. DEFINE S == AreaOrders(z)
<1>0. IsFiniteSet(S) /\ Cardinality(S) \in Nat  BY OrdersCounted
<1>1. /\ IsFiniteSet(S \cup {o})
      /\ Cardinality(S \cup {o}) <= Cardinality(S) + 1
      /\ Cardinality(S \cup {o}) \in Nat
  <2>. HIDE DEF S
  <2>1. /\ IsFiniteSet(S \cup {o})
        /\ Cardinality(S \cup {o}) = Cardinality(S) \/ Cardinality(S \cup {o}) = Cardinality(S) + 1
    BY <1>0, FS_AddElement
  <2>. QED  BY <1>0, <2>1
<1>2. /\ Cardinality(AreaOrders(z)') \in Nat
      /\ Cardinality(AreaOrders(z)') <= Cardinality(AreaOrders(z) \cup {o})
  BY <1>1, FS_Subset, FS_CardinalityType
<1>. QED  BY <1>1, <1>2, OrdersCounted

-----------------------------------------------------------------------------
LEMMA InitAdmission == Init => AdmissionInv
<1>. SUFFICES ASSUME Init PROVE AdmissionInv  OBVIOUS
<1>1. AdmissionTypeOK
  BY DEF Init, AdmissionTypeOK, Rows, Areas, Absent
<1>2. RoomIsKept  BY DEF Init, RoomIsKept, Free
<1>3. ASSUME NEW z \in Zones PROVE Cardinality(AreaOrders(z)) <= DailyCap[z]
  <2>1. AreaOrders(z) = {}  BY DEF Init, AreaOrders, Absent
  <2>. QED  BY <2>1, FS_EmptySet, OrdersCounted
<1>. QED  BY <1>1, <1>2, <1>3 DEF AdmissionInv, DailyCapHolds

LEMMA StepType == AdmissionTypeOK /\ [Next]_taVars => AdmissionTypeOK'
<1>. SUFFICES ASSUME AdmissionTypeOK, [Next]_taVars PROVE AdmissionTypeOK'  OBVIOUS
<1>. USE DEF AdmissionTypeOK, Rows, Asking, Free
<1>1. ASSUME NEW r \in Requests, NEW o \in Orders, NEW a \in Areas,
             NEW k \in {"checkout", "address"}, EnterAdmission(r, o, a, k)
      PROVE  AdmissionTypeOK'
  <2>1. OpenTo(a, o) \in BOOLEAN  BY DEF OpenTo
  <2>. QED  BY <1>1, <2>1 DEF EnterAdmission
<1>2. ASSUME NEW r \in Requests, Admit(r) PROVE AdmissionTypeOK'
  <2>1. lock' \in [Zones -> Requests \cup {Nobody}]  BY <1>2 DEF Admit, TakesLock
  <2>2. admission[r] \in Asking  BY <1>2 DEF Admit
  <2>. QED  BY <1>2, <2>1, <2>2 DEF Admit
<1>3. ASSUME NEW r \in Requests, Reject(r) PROVE AdmissionTypeOK'
  BY <1>3 DEF Reject
<1>4. ASSUME NEW r \in Requests, CommitOrder(r) PROVE AdmissionTypeOK'
  <2>1. admission[r] \in Asking  BY <1>4 DEF CommitOrder
  <2>. QED  BY <1>4, <2>1 DEF CommitOrder, Unlocked
<1>5. ASSUME NEW r \in Requests, RollBack(r) PROVE AdmissionTypeOK'
  BY <1>5 DEF RollBack, Unlocked
<1>6. ASSUME NEW o \in Orders, LeaveOrder(o) PROVE AdmissionTypeOK'
  BY <1>6 DEF LeaveOrder
<1>7. ASSUME NEW z \in Zones, NEW n \in HourlyCaps, UpdateCaps(z, n) PROVE AdmissionTypeOK'
  BY <1>7 DEF UpdateCaps
<1>8. ASSUME NEW z \in Zones, NEW b \in BOOLEAN, NEW n \in Percents, ChangeZone(z, b, n)
      PROVE  AdmissionTypeOK'
  BY <1>8 DEF ChangeZone
<1>9. CASE NextHour  BY <1>9 DEF NextHour
<1>10. CASE UNCHANGED taVars  BY <1>10 DEF taVars
<1>. QED  BY <1>1, <1>2, <1>3, <1>4, <1>5, <1>6, <1>7, <1>8, <1>9, <1>10 DEF Next, Areas

\* A step that gives a zone no order, takes no lock and admits nobody.
LEMMA NothingTaken ==
    ASSUME AdmissionInv,
           \A z \in Zones : AreaOrders(z)' \subseteq AreaOrders(z),
           \A q \in Requests : admission'[q].step = "admitted" =>
               admission'[q] = admission[q] /\ \A z \in Zones : lock[z] = q => lock'[z] = q
    PROVE  RoomIsKept' /\ DailyCapHolds'
<1>1. ASSUME NEW z \in Zones PROVE Cardinality(AreaOrders(z)') <= DailyCap[z]
  BY <1>1, FewerOrders, OrdersCounted DEF AdmissionInv, DailyCapHolds
<1>2. ASSUME NEW q \in Requests, NEW z \in Zones,
             admission'[q].step = "admitted", admission'[q].area = z
      PROVE  lock'[z] = q /\ Cardinality(AreaOrders(z)') < DailyCap[z]
  <2>1. admission'[q] = admission[q] /\ (lock[z] = q => lock'[z] = q)  BY <1>2
  <2>2. lock[z] = q /\ Cardinality(AreaOrders(z)) < DailyCap[z]
    BY <1>2, <2>1 DEF AdmissionInv, RoomIsKept
  <2>. QED  BY <2>1, <2>2, FewerOrders, OrdersCounted
<1>. QED  BY <1>1, <1>2 DEF RoomIsKept, DailyCapHolds

\* Admission counts under the lock, and the lock was free: whoever was admitted
\* before is in another zone.
LEMMA AdmitKeeps ==
    ASSUME AdmissionInv, NEW r \in Requests, Admit(r)
    PROVE  RoomIsKept' /\ DailyCapHolds'
<1>. PICK a \in Areas : admission[r].area = a
  BY DEF Admit, AdmissionInv, AdmissionTypeOK, Free, Asking
<1>1. /\ admission[r] \in Asking
      /\ \A q \in Requests \ {r} : admission'[q] = admission[q]
      /\ admission'[r].area = a
  BY DEF Admit, AdmissionInv, AdmissionTypeOK, Free, Asking
<1>2. \A z \in Zones : AreaOrders(z)' = AreaOrders(z)  BY DEF Admit, AreaOrders
<1>3. DailyCapHolds'  BY <1>2 DEF AdmissionInv, DailyCapHolds
<1>4. ASSUME NEW q \in Requests, NEW z \in Zones,
             admission'[q].step = "admitted", admission'[q].area = z
      PROVE  lock'[z] = q /\ Cardinality(AreaOrders(z)') < DailyCap[z]
  <2>1. CASE q = r
    <3>1. z = a  BY <1>1, <1>4, <2>1
    <3>2. lock'[z] = q
      BY <2>1, <3>1 DEF Admit, TakesLock, AdmissionInv, AdmissionTypeOK, Rows
    <3>3. Cardinality(AreaOrders(z)) < DailyCap[z]  BY <3>1 DEF Admit, Admitted
    <3>. QED  BY <1>2, <3>2, <3>3
  <2>2. CASE q # r
    <3>1. lock[z] = q /\ Cardinality(AreaOrders(z)) < DailyCap[z]
      BY <1>1, <1>4, <2>2 DEF AdmissionInv, RoomIsKept
    <3>2. z # a  BY <3>1, NobodyAssumption DEF Admit, LockFree
    <3>3. lock'[z] = q
      BY <3>1, <3>2 DEF Admit, TakesLock, AdmissionInv, AdmissionTypeOK, Rows
    <3>. QED  BY <1>2, <3>1, <3>3
  <2>. QED  BY <2>1, <2>2
<1>. QED  BY <1>3, <1>4 DEF RoomIsKept

\* The commit adds one order to the zone whose lock it holds, and to no other.
LEMMA CommitKeeps ==
    ASSUME AdmissionInv, NEW r \in Requests, CommitOrder(r)
    PROVE  RoomIsKept' /\ DailyCapHolds'
<1>1. admission[r] \in Asking /\ admission[r].step = "admitted"
  BY DEF CommitOrder, AdmissionInv, AdmissionTypeOK, Free
<1>. PICK a \in Areas, o \in Orders : admission[r].area = a /\ admission[r].order = o
  BY <1>1 DEF Asking
<1>2. /\ \A p \in Orders \ {o} : order'[p] = order[p]
      /\ order'[o].area = a
  BY DEF CommitOrder, AdmissionInv, AdmissionTypeOK, Rows
<1>3. ASSUME NEW z \in Zones, z # a PROVE AreaOrders(z)' \subseteq AreaOrders(z)
  BY <1>2, <1>3 DEF AreaOrders
<1>4. ASSUME NEW z \in Zones PROVE AreaOrders(z)' \subseteq AreaOrders(z) \cup {o}
  BY <1>2 DEF AreaOrders
<1>5. a \in Zones => lock[a] = r /\ Cardinality(AreaOrders(a)) < DailyCap[a]
  BY <1>1 DEF AdmissionInv, RoomIsKept
<1>6. ASSUME NEW z \in Zones PROVE Cardinality(AreaOrders(z)') <= DailyCap[z]
  <2>1. CASE z = a
    <3>1. /\ Cardinality(AreaOrders(z)') \in Nat
          /\ Cardinality(AreaOrders(z)') <= Cardinality(AreaOrders(z)) + 1
      BY <1>4, OneMoreOrder
    <3>. QED  BY <1>5, <2>1, <3>1, OrdersCounted
  <2>2. CASE z # a
    BY <1>3, <2>2, FewerOrders, OrdersCounted DEF AdmissionInv, DailyCapHolds
  <2>. QED  BY <2>1, <2>2
<1>7. ASSUME NEW q \in Requests, NEW z \in Zones,
             admission'[q].step = "admitted", admission'[q].area = z
      PROVE  lock'[z] = q /\ Cardinality(AreaOrders(z)') < DailyCap[z]
  <2>1. q # r /\ admission'[q] = admission[q]
    BY <1>7 DEF CommitOrder, Free, AdmissionInv, AdmissionTypeOK
  <2>2. lock[z] = q /\ Cardinality(AreaOrders(z)) < DailyCap[z]
    BY <1>7, <2>1 DEF AdmissionInv, RoomIsKept
  <2>3. z # a  BY <1>5, <2>1, <2>2
  <2>4. lock'[z] = q
    BY <2>1, <2>2 DEF CommitOrder, Unlocked, AdmissionInv, AdmissionTypeOK, Rows
  <2>5. Cardinality(AreaOrders(z)') < DailyCap[z]
    BY <1>3, <2>2, <2>3, FewerOrders, OrdersCounted
  <2>. QED  BY <2>4, <2>5
<1>. QED  BY <1>6, <1>7 DEF RoomIsKept, DailyCapHolds

LEMMA StepAdmission == AdmissionInv /\ [Next]_taVars => AdmissionInv'
<1>. SUFFICES ASSUME AdmissionInv, [Next]_taVars PROVE RoomIsKept' /\ DailyCapHolds'
  BY StepType DEF AdmissionInv
<1>. USE DEF AreaOrders
<1>1. ASSUME NEW r \in Requests, NEW o \in Orders, NEW a \in Areas,
             NEW k \in {"checkout", "address"}, EnterAdmission(r, o, a, k)
      PROVE  RoomIsKept' /\ DailyCapHolds'
  BY <1>1, NothingTaken DEF EnterAdmission, AdmissionInv, AdmissionTypeOK
<1>2. ASSUME NEW r \in Requests, Reject(r) PROVE RoomIsKept' /\ DailyCapHolds'
  BY <1>2, NothingTaken DEF Reject, Free, AdmissionInv, AdmissionTypeOK
<1>3. ASSUME NEW r \in Requests, RollBack(r) PROVE RoomIsKept' /\ DailyCapHolds'
  <2>1. \A q \in Requests : admission'[q].step = "admitted" => q # r /\ admission'[q] = admission[q]
    BY <1>3 DEF RollBack, Free, AdmissionInv, AdmissionTypeOK
  <2>2. \A q \in Requests, z \in Zones : q # r /\ lock[z] = q => lock'[z] = q
    BY <1>3 DEF RollBack, Unlocked
  <2>. QED  BY <1>3, <2>1, <2>2, NothingTaken DEF RollBack
<1>4. ASSUME NEW o \in Orders, LeaveOrder(o) PROVE RoomIsKept' /\ DailyCapHolds'
  BY <1>4, NothingTaken DEF LeaveOrder, AdmissionInv, AdmissionTypeOK, Rows
<1>5. ASSUME NEW z \in Zones, NEW n \in HourlyCaps, UpdateCaps(z, n)
      PROVE  RoomIsKept' /\ DailyCapHolds'
  BY <1>5, NothingTaken DEF UpdateCaps
<1>6. ASSUME NEW z \in Zones, NEW b \in BOOLEAN, NEW n \in Percents, ChangeZone(z, b, n)
      PROVE  RoomIsKept' /\ DailyCapHolds'
  BY <1>6, NothingTaken DEF ChangeZone
<1>7. CASE NextHour  BY <1>7, NothingTaken DEF NextHour
<1>8. CASE UNCHANGED taVars  BY <1>8, NothingTaken DEF taVars
<1>. QED  BY <1>1, <1>2, <1>3, <1>4, <1>5, <1>6, <1>7, <1>8, AdmitKeeps, CommitKeeps
          DEF Next, Areas

\* Whatever checkouts and changes of address race, however many zones and requests
\* there are, a zone never has more active orders of a day than its cap
\* (launch_governance/service.py, admit_or_raise under the policy row's lock).
THEOREM DailyCapKept == Spec => []DailyCapHolds
<1>1. AdmissionInv => DailyCapHolds  BY DEF AdmissionInv
<1>. QED  BY InitAdmission, StepAdmission, <1>1, PTL DEF Spec

-----------------------------------------------------------------------------
(* The rollout of a zone.                                                  *)

ZoneRow == [status : {"candidate", "ready", "approved", "live", "paused"},
            stage : {"not_started", "canary", "limited", "full", "paused"}, percent : Int]
LiveZone == {z \in ZoneRow : z.status = "live" /\ z.stage \in Rollout!LiveStages}

\* While a task is open the zone is what it read: the task ends with the zone live on a
\* stage, or with a pause of a zone that is still live.
RolloutInv ==
    /\ rollout \in ZoneRow
    /\ pausedFrom \in Rollout!LiveStages \cup {"none"}
    /\ watch = [a \in Rollout!Actors |-> watch[a]]
    /\ \A a \in Rollout!Actors : watch[a] # Rollout!Done =>
          /\ watch[a].seen = rollout
          /\ \A b \in Rollout!Actors : watch[b] # Rollout!Done => b = a
          /\ Rollout!IsAdmin(a) => watch[a].to \in LiveZone
    /\ StatusFitsStage

LEMMA InitRollout == Rollout!Init => RolloutInv
  BY DEF Rollout!Init, RolloutInv, ZoneRow, StatusFitsStage, Rollout!StatusFitsStage, Rollout!Done

LEMMA TargetLives ==
    ASSUME RolloutInv, NEW k \in Rollout!Kinds, Rollout!MayBegin(k)
    PROVE  Rollout!Target(k) \in LiveZone
<1>1. rollout.percent \in Int  BY DEF RolloutInv, ZoneRow
<1>2. CASE k = "start"
  BY <1>2 DEF Rollout!Target, LiveZone, ZoneRow, Rollout!LiveStages, Rollout!Percent
<1>3. CASE k = "advance"
  BY <1>3 DEF Rollout!Target, Rollout!MayBegin, LiveZone, ZoneRow, Rollout!LiveStages,
         Rollout!Percent, Rollout!StageAfter
<1>4. CASE k = "resume"
  BY <1>1, <1>4 DEF Rollout!Target, Rollout!ResumeStage, LiveZone, ZoneRow, Rollout!LiveStages, RolloutInv
<1>5. CASE k = "launch"
  BY <1>5 DEF Rollout!Target, LiveZone, ZoneRow, Rollout!LiveStages
<1>. QED  BY <1>2, <1>3, <1>4, <1>5 DEF Rollout!Kinds

\* The zone was not written since the task read it, so all of the new zone is written.
LEMMA FlushedIsTarget ==
    ASSUME RolloutInv, NEW a \in Rollout!Actors, watch[a] # Rollout!Done, Rollout!IsAdmin(a)
    PROVE  Rollout!Flushed(a) = watch[a].to
<1>1. watch[a].seen = rollout /\ watch[a].to \in ZoneRow /\ rollout \in ZoneRow
  BY DEF RolloutInv, LiveZone
<1>. DEFINE to == watch[a].to
<1>2. Rollout!Flushed(a) = [c \in DOMAIN rollout |-> IF to[c] # rollout[c] THEN to[c] ELSE rollout[c]]
  BY <1>1 DEF Rollout!Flushed
<1>3. to \in ZoneRow  BY <1>1
<1>. HIDE DEF to
<1>4. DOMAIN rollout = DOMAIN to /\ to = [c \in DOMAIN to |-> to[c]]
  BY <1>1, <1>3 DEF ZoneRow
<1>5. Rollout!Flushed(a) = to  BY <1>2, <1>4
<1>. QED  BY <1>5 DEF to

LEMMA StepRollout == RolloutInv /\ [Rollout!Next]_rolloutVars => RolloutInv'
<1>. SUFFICES ASSUME RolloutInv, [Rollout!Next]_rolloutVars PROVE RolloutInv'  OBVIOUS
<1>. USE DEF RolloutInv, StatusFitsStage, Rollout!StatusFitsStage, Rollout!IsAdmin
<1>1. ASSUME UNCHANGED <<rollout, pausedFrom, watch>> PROVE RolloutInv'
  BY <1>1
<1>2. ASSUME rollout' \in ZoneRow, Rollout!StatusFitsStage', UNCHANGED watch, Rollout!MayCome,
             pausedFrom' \in Rollout!LiveStages \cup {"none"}
      PROVE  RolloutInv'
  BY <1>2 DEF Rollout!MayCome
<1>3. CASE Rollout!AssessZone
  <2>1. /\ rollout'.status = Rollout!StatusAssessed(rollout.status)
        /\ rollout' = [rollout EXCEPT !.status = rollout'.status]
    BY <1>3 DEF Rollout!AssessZone, ZoneRow
  <2>2. /\ rollout'.status \in {"candidate", "ready", "approved", "live", "paused"}
        /\ rollout'.status # rollout.status =>
             rollout.status \in {"candidate", "ready"} /\ rollout'.status \in {"candidate", "ready"}
    BY <2>1 DEF Rollout!StatusAssessed, ZoneRow
  <2>3. rollout' \in ZoneRow /\ rollout'.stage = rollout.stage  BY <2>1, <2>2 DEF ZoneRow
  <2>. QED  BY <1>2, <1>3, <2>2, <2>3 DEF Rollout!AssessZone
<1>4. CASE Rollout!ApproveZone
  <2>1. rollout' \in ZoneRow /\ rollout'.status = "approved"
    BY <1>4 DEF Rollout!ApproveZone, ZoneRow
  <2>. QED  BY <1>2, <1>4, <2>1 DEF Rollout!ApproveZone
<1>5. ASSUME NEW a \in ZoneAdmins, NEW k \in Rollout!Kinds, Rollout!BeginTask(a, k) PROVE RolloutInv'
  <2>. DEFINE new == [kind |-> k, seen |-> rollout, to |-> Rollout!Target(k), decision |-> Rollout!Decision]
  <2>1. new # Rollout!Done /\ new.seen = rollout /\ new.to \in LiveZone /\ a \in Rollout!Actors
    BY <1>5, TargetLives DEF Rollout!BeginTask, Rollout!Done, Rollout!Kinds, Rollout!Actors
  <2>2. watch' = [watch EXCEPT ![a] = new] /\ UNCHANGED <<rollout, pausedFrom>>
    BY <1>5 DEF Rollout!BeginTask
  <2>. HIDE DEF new
  <2>3. \A b \in Rollout!Actors : watch'[b] = IF b = a THEN new ELSE Rollout!Done
    BY <1>5, <2>1, <2>2 DEF Rollout!BeginTask, Rollout!MayCome
  <2>. QED  BY <2>1, <2>2, <2>3
<1>6. ASSUME NEW a \in ZoneAdmins, Rollout!FinishTask(a) PROVE RolloutInv'
  <2>1. a \in Rollout!Actors /\ watch[a] # Rollout!Done /\ watch[a].to \in LiveZone
    BY <1>6 DEF Rollout!FinishTask, Rollout!Actors, Rollout!Done
  <2>2. \A b \in Rollout!Actors : watch'[b] = Rollout!Done
    BY <1>6, <2>1 DEF Rollout!FinishTask
  <2>3. UNCHANGED rollout \/ rollout' \in LiveZone
    BY <1>6, <2>1, FlushedIsTarget DEF Rollout!FinishTask
  <2>4. rollout' \in ZoneRow /\ Rollout!StatusFitsStage'  BY <2>3 DEF LiveZone
  <2>. QED  BY <1>6, <2>2, <2>4 DEF Rollout!FinishTask
<1>7. ASSUME rollout.status = "live" PROVE Rollout!Paused(rollout) \in ZoneRow
                /\ Rollout!Paused(rollout).status = "paused" /\ Rollout!Paused(rollout).stage = "paused"
  BY DEF Rollout!Paused, ZoneRow
<1>8. CASE Rollout!PauseRollout
  BY <1>2, <1>7, <1>8 DEF Rollout!PauseRollout
<1>9. CASE Rollout!PauseZone
  BY <1>2, <1>7, <1>9 DEF Rollout!PauseZone
<1>10. ASSUME NEW S \in Rollout!SignalSets, Rollout!RefreshAllLiveZones(S) PROVE RolloutInv'
  <2>. DEFINE new == [kind |-> "watch", seen |-> rollout, red |-> health' = "red"]
  <2>1. new # Rollout!Done /\ new.seen = rollout /\ new.kind = "watch" /\ "monitor" \in Rollout!Actors
    BY DEF Rollout!Done, Rollout!Actors
  <2>2. watch' = [watch EXCEPT !["monitor"] = new] /\ UNCHANGED <<rollout, pausedFrom>>
    BY <1>10 DEF Rollout!RefreshAllLiveZones, Rollout!Snapshot
  <2>. HIDE DEF new
  <2>3. \A b \in Rollout!Actors : watch'[b] = IF b = "monitor" THEN new ELSE Rollout!Done
    BY <1>10, <2>1, <2>2 DEF Rollout!RefreshAllLiveZones, Rollout!MayCome
  <2>. QED  BY <2>1, <2>2, <2>3
<1>11. CASE Rollout!EvaluateSlo
  <2>1. "monitor" \in Rollout!Actors /\ watch["monitor"] # Rollout!Done
    BY <1>11 DEF Rollout!EvaluateSlo, Rollout!Actors, Rollout!Done
  <2>2. watch["monitor"].seen = rollout  BY <2>1
  <2>3. \A b \in Rollout!Actors : watch'[b] = Rollout!Done
    BY <1>11, <2>1 DEF Rollout!EvaluateSlo
  <2>4. \/ UNCHANGED <<rollout, pausedFrom>>
        \/ /\ rollout.status = "live" /\ rollout.stage \in Rollout!LiveStages
           /\ rollout' = Rollout!Paused(rollout) /\ pausedFrom' = rollout.stage
    BY <1>11, <2>2 DEF Rollout!EvaluateSlo, Rollout!PauseDue
  <2>. QED  BY <1>7, <1>11, <2>3, <2>4 DEF Rollout!EvaluateSlo
<1>. QED
  BY <1>1, <1>3, <1>4, <1>5, <1>6, <1>8, <1>9, <1>10, <1>11
     DEF Rollout!Next, Rollout!GatesChange, Rollout!UpdatePolicy, Rollout!RefreshMonitoring,
         Rollout!Snapshot, rolloutVars

\* One request at a time, for any number of administrators and any gates and policy:
\* whichever endpoint assessed, approved, started, advanced, paused or resumed the zone,
\* in whatever order, the two columns of its state agree.
THEOREM ZoneStateFits == LoadsSpec => []StatusFitsStage
<1>1. LoadsInit => RolloutInv  BY InitRollout DEF LoadsInit
<1>2. RolloutInv /\ [LoadsNext]_<<load, taVars, rolloutVars, commandVars, alertVars, afterVars, pilotVars>>
        => RolloutInv'
  BY StepRollout DEF LoadsNext
<1>3. RolloutInv => StatusFitsStage  BY DEF RolloutInv
<1>. QED  BY <1>1, <1>2, <1>3, PTL DEF LoadsSpec

-----------------------------------------------------------------------------
(* The traffic policy of the launch command.                               *)

Columns == {"cap", "admission"}

Stopping == \E d \in Drills : Command!Stops(d)

\* One active override per column of the policy, which remembers what administrators
\* made of the column, or what a drill that runs on will put right; where nothing holds
\* the column it is theirs.
OverridesStack ==
    /\ \A o \in Overrides : Command!Active(o) =>
          /\ override[o].type \in Columns
          /\ \/ override[o].previous = wanted[override[o].type]
             \/ override[o].type = "admission" /\ (crossed \/ Stopping)
    /\ \A o, p \in Overrides :
          Command!Active(o) /\ Command!Active(p) /\ override[o].type = override[p].type => o = p
    /\ \A c \in Columns :
          Command!Held(c) \/ policy[c] = wanted[c] \/ (c = "admission" /\ crossed)

\* One running drill per session; one that stops admission remembers what administrators
\* made of it, unless another one does.
DrillsStack ==
    /\ \A d, e \in Drills :
          Command!Running(d) /\ Command!Running(e) /\ drill[d].session = drill[e].session => d = e
    /\ \A d \in Drills : Command!Stops(d) =>
          \/ crossed \/ drill[d].admission = wanted["admission"]
          \/ \E e \in Drills \ {d} : Command!Stops(e)

\* A request that will end an override is alone, so it still finds the override active.
RevertsActive ==
    /\ task = [a \in Command!Actors |-> task[a]]
    /\ \A a, b \in Command!Actors : task[a] # Command!Done /\ task[b] # Command!Done => a = b
    /\ \A a \in Command!Actors : task[a].kind = "revert" =>
          task[a].override \in Overrides /\ Command!Active(task[a].override)

ControlRows ==
    /\ policy = [c \in Columns |-> policy[c]] /\ wanted = [c \in Columns |-> wanted[c]]
    /\ override = [o \in Overrides |-> override[o]] /\ drill = [d \in Drills |-> drill[d]]
    /\ crossed \in BOOLEAN

PolicyInv == ControlRows /\ OverridesStack /\ DrillsStack /\ RevertsActive

LEMMA InitPolicy == Command!Init => PolicyInv
<1>. SUFFICES ASSUME Command!Init PROVE PolicyInv  OBVIOUS
<1>1. /\ \A o \in Overrides : ~Command!Active(o)
      /\ \A d \in Drills : ~Command!Running(d) /\ ~Command!Stops(d)
  BY DEF Command!Init, Command!Active, Command!Running, Command!Stops
<1>2. ControlRows /\ policy = wanted  BY DEF Command!Init, ControlRows, Columns
<1>3. RevertsActive  BY DEF Command!Init, RevertsActive, Command!Done
<1>. QED  BY <1>1, <1>2, <1>3 DEF PolicyInv, OverridesStack, DrillsStack

\* What a set of overrides gives back is what administrators made of its columns, unless
\* a drill still stops admission.
LEMMA GivesBack ==
    ASSUME PolicyInv, NEW S \in SUBSET Overrides, \A o \in S : Command!Active(o), NEW c \in Columns
    PROVE  \/ Command!Restored(S, policy)[c] = wanted[c]
           \/ c = "admission" /\ (crossed \/ Stopping)
           \/ Command!Restored(S, policy)[c] = policy[c] /\ \A o \in S : override[o].type # c
<1>1. Command!Restored(S, policy)[c] =
         IF \E o \in S : override[o].type = c
         THEN override[CHOOSE o \in S : override[o].type = c].previous ELSE policy[c]
  BY DEF Command!Restored, PolicyInv, ControlRows
<1>2. CASE \A o \in S : override[o].type # c  BY <1>1, <1>2
<1>3. CASE \E o \in S : override[o].type = c
  <2>1. PICK p \in S : p = (CHOOSE x \in S : override[x].type = c) /\ override[p].type = c
    BY <1>3
  <2>2. override[p].previous = wanted[c] \/ (c = "admission" /\ (crossed \/ Stopping))
    BY <2>1 DEF PolicyInv, OverridesStack
  <2>. QED  BY <1>1, <1>3, <2>1, <2>2
<1>. QED  BY <1>2, <1>3

\* Overrides and a drill that end, alone or together, leave the others as they were.
LEMMA EndingGivesBack ==
    ASSUME PolicyInv,
           NEW S \in SUBSET Overrides, \A o \in S : Command!Active(o),
           NEW D \in SUBSET Drills, \A d \in D : Command!Running(d), \A d, e \in D : d = e,
           NEW os, os # "active", NEW ds, ds # "running",
           override' = Command!Ended(S, os), drill' = Command!DrillsEnded(D, ds),
           policy' = Command!Recovered(D, Command!Restored(S, policy)),
           Command!Crossing(D), wanted' = wanted
    PROVE  /\ ControlRows' /\ OverridesStack' /\ DrillsStack'
           /\ \A o \in Overrides : Command!Active(o)' => Command!Active(o)
<1>. DEFINE P == Command!Restored(S, policy)
            Lives == Command!Live(D) # {}
<1>1. \A o \in Overrides : /\ Command!Active(o)' <=> (Command!Active(o) /\ o \notin S)
                           /\ o \notin S => override'[o] = override[o]
  <2>. SUFFICES ASSUME NEW o \in Overrides
                PROVE  /\ Command!Active(o)' <=> (Command!Active(o) /\ o \notin S)
                       /\ o \notin S => override'[o] = override[o]
    OBVIOUS
  <2>1. override'[o] = IF o \in S THEN [override[o] EXCEPT !.status = os] ELSE override[o]
    BY DEF Command!Ended
  <2>2. CASE o \in S
    <3>1. override[o].status = "active"  BY <2>2 DEF Command!Active
    <3>2. override'[o].status = os \/ override'[o].status = override[o].status  BY <2>1, <2>2
    <3>3. override'[o].status = os
      BY <2>1, <2>2, <3>1
    <3>. QED  BY <2>2, <3>3 DEF Command!Active
  <2>3. CASE o \notin S  BY <2>1, <2>3 DEF Command!Active
  <2>. QED  BY <2>2, <2>3
<1>2. \A d \in Drills : /\ Command!Running(d)' <=> (Command!Running(d) /\ d \notin D)
                        /\ d \notin D => drill'[d] = drill[d]
  <2>. SUFFICES ASSUME NEW d \in Drills
                PROVE  /\ Command!Running(d)' <=> (Command!Running(d) /\ d \notin D)
                       /\ d \notin D => drill'[d] = drill[d]
    OBVIOUS
  <2>1. drill'[d] = IF d \in D THEN [drill[d] EXCEPT !.status = ds] ELSE drill[d]
    BY DEF Command!DrillsEnded
  <2>2. CASE d \in D
    <3>1. drill[d].status = "running"  BY <2>2 DEF Command!Running
    <3>2. drill'[d].status = ds  BY <2>1, <2>2, <3>1
    <3>. QED  BY <2>2, <3>2 DEF Command!Running
  <2>3. CASE d \notin D  BY <2>1, <2>3 DEF Command!Running
  <2>. QED  BY <2>2, <2>3
<1>3. \A d \in Drills : /\ Command!Stops(d)' <=> (Command!Stops(d) /\ d \notin D)
                        /\ (Command!Stops(d) /\ d \in D) => Lives
  BY <1>2 DEF Command!Stops, Command!Live
<1>4. /\ crossed' \in BOOLEAN /\ (crossed => crossed') /\ (Lives /\ Command!Held("admission")' => crossed')
  BY DEF Command!Crossing, PolicyInv, ControlRows
<1>5. /\ P = [c \in Columns |-> P[c]]
      /\ \A c \in Columns :
            \/ P[c] = wanted[c]
            \/ c = "admission" /\ (crossed \/ Stopping)
            \/ P[c] = policy[c] /\ \A o \in S : override[o].type # c
  <2>1. P = [c \in Columns |-> P[c]]  BY DEF Command!Restored, PolicyInv, ControlRows
  <2>. QED  BY <2>1, GivesBack
<1>6. /\ ~Lives => policy' = P
      /\ Lives => (\E d \in D : Command!Stops(d) /\ policy' = [P EXCEPT !.admission = drill[d].admission])
  <2>1. CASE Lives
    <3>1. PICK d \in Command!Live(D) : d = (CHOOSE x \in Command!Live(D) : TRUE)  BY <2>1
    <3>2. d \in D /\ Command!Stops(d)  BY <3>1 DEF Command!Live, Command!Stops
    <3>. QED  BY <2>1, <3>1, <3>2 DEF Command!Recovered
  <2>. QED  BY <2>1 DEF Command!Recovered
<1>. HIDE DEF P, Lives
<1>7. ControlRows'
  <2>1. policy' = [c \in Columns |-> policy'[c]]  BY <1>5, <1>6
  <2>. QED
    BY <1>4, <2>1 DEF PolicyInv, ControlRows, Command!Ended, Command!DrillsEnded
<1>8. \A d \in Drills : Command!Stops(d) => Command!Stops(d)' \/ Lives  BY <1>3
<1>9. \A o \in Overrides : (Command!Active(o)' /\ override'[o].type = "admission") => Command!Held("admission")'
  BY DEF Command!Held
<1>10. Stopping' => Command!Held("admission")'  BY DEF Stopping, Command!Held
<1>11. \A c \in Columns : Command!Held(c) =>
         \/ Command!Held(c)' \/ (\E o \in S : override[o].type = c) \/ (c = "admission" /\ Lives)
  <2>. SUFFICES ASSUME NEW c \in Columns, Command!Held(c), \A o \in S : override[o].type # c,
                       ~(c = "admission" /\ Lives)
                PROVE  Command!Held(c)'
    OBVIOUS
  <2>1. CASE \E o \in Overrides : Command!Active(o) /\ override[o].type = c
    BY <1>1, <2>1 DEF Command!Held
  <2>2. CASE c = "admission" /\ \E d \in Drills : Command!Stops(d)
    BY <1>8, <2>2 DEF Command!Held
  <2>. QED  BY <2>1, <2>2 DEF Command!Held
<1>12. OverridesStack'
  <2>1. ASSUME NEW o \in Overrides, Command!Active(o)'
        PROVE  /\ override'[o].type \in Columns
               /\ \/ override'[o].previous = wanted'[override'[o].type]
                  \/ override'[o].type = "admission" /\ (crossed' \/ Stopping')
    <3>1. override'[o] = override[o] /\ Command!Active(o)  BY <1>1, <2>1
    <3>2. (override[o].type = "admission" /\ Stopping) => crossed' \/ Stopping'
      BY <1>4, <1>8, <1>9, <2>1, <3>1 DEF Stopping
    <3>. QED  BY <1>4, <3>1, <3>2 DEF PolicyInv, OverridesStack
  <2>2. ASSUME NEW o \in Overrides, NEW p \in Overrides, Command!Active(o)', Command!Active(p)',
               override'[o].type = override'[p].type
        PROVE  o = p
    BY <1>1, <2>2 DEF PolicyInv, OverridesStack
  <2>3. ASSUME NEW c \in Columns, ~Command!Held(c)', ~(c = "admission" /\ crossed')
        PROVE  policy'[c] = wanted'[c]
    <3>1. Command!Held(c) \/ policy[c] = wanted[c] \/ (c = "admission" /\ crossed)
      BY DEF PolicyInv, OverridesStack
    <3>2. CASE c = "admission" /\ Lives
      <4>1. PICK d \in D : Command!Stops(d) /\ policy' = [P EXCEPT !.admission = drill[d].admission]
        BY <1>6, <3>2
      <4>2. ASSUME NEW e \in Drills \ {d}, Command!Stops(e) PROVE FALSE
        <5>1. e \notin D  BY <4>2
        <5>2. Command!Stops(e)'  BY <1>3, <4>2, <5>1
        <5>. QED  BY <2>3, <3>2, <5>2 DEF Command!Held
      <4>3. ~crossed  BY <1>4, <2>3, <3>2
      <4>4. drill[d].admission = wanted["admission"]
        BY <4>1, <4>2, <4>3 DEF PolicyInv, DrillsStack
      <4>5. policy'["admission"] = drill[d].admission  BY <1>5, <3>2, <4>1
      <4>. QED  BY <3>2, <4>4, <4>5
    <3>3. CASE ~(c = "admission" /\ Lives)
      <4>1. policy'[c] = P[c]  BY <1>5, <1>6, <3>3 DEF Columns
      <4>2. ~(c = "admission" /\ (crossed \/ Stopping))
        BY <1>4, <1>8, <1>10, <2>3, <3>3 DEF Stopping
      <4>3. CASE \A o \in S : override[o].type # c
        BY <1>5, <1>11, <2>3, <3>1, <3>3, <4>1, <4>2, <4>3
      <4>4. CASE \E o \in S : override[o].type = c
        BY <1>5, <4>1, <4>2, <4>4
      <4>. QED  BY <4>3, <4>4
    <3>. QED  BY <3>2, <3>3
  <2>. QED  BY <2>1, <2>2, <2>3 DEF OverridesStack
<1>13. DrillsStack'
  <2>1. ASSUME NEW d \in Drills, Command!Stops(d)'
        PROVE  \/ crossed' \/ drill'[d].admission = wanted'["admission"]
               \/ \E e \in Drills \ {d} : Command!Stops(e)'
    <3>1. Command!Stops(d) /\ drill'[d] = drill[d]  BY <1>2, <1>3, <2>1
    <3>2. Command!Held("admission")'  BY <2>1 DEF Command!Held
    <3>3. ASSUME NEW e \in Drills \ {d}, Command!Stops(e) PROVE crossed' \/ Command!Stops(e)'
      BY <1>4, <1>8, <3>2, <3>3
    <3>. QED  BY <1>4, <3>1, <3>3 DEF PolicyInv, DrillsStack
  <2>. QED  BY <1>2, <2>1 DEF PolicyInv, DrillsStack
<1>. QED  BY <1>1, <1>7, <1>12, <1>13

LEMMA StepPolicy == PolicyInv /\ [Command!Next]_commandVars => PolicyInv'
<1>. SUFFICES ASSUME PolicyInv, [Command!Next]_commandVars PROVE PolicyInv'  OBVIOUS
<1>0. \A a \in Command!Actors : a \in CommandAdmins \cup {"worker"}  BY DEF Command!Actors
<1>1. ASSUME UNCHANGED Command!controls, RevertsActive' PROVE PolicyInv'
  BY <1>1 DEF Command!controls, PolicyInv, ControlRows, OverridesStack, DrillsStack, Stopping,
              Command!Active, Command!Running, Command!Stops, Command!Held
<1>2. ASSUME UNCHANGED <<Command!controls, task>> PROVE PolicyInv'
  <2>1. RevertsActive'
    BY <1>2 DEF Command!controls, PolicyInv, RevertsActive, Command!Active
  <2>. QED  BY <1>1, <1>2, <2>1 DEF Command!controls
<1>3. ASSUME Command!MayCome, UNCHANGED task PROVE RevertsActive'
  BY <1>3 DEF Command!MayCome, PolicyInv, RevertsActive, Command!Done
<1>4. ASSUME NEW s \in Sessions, NEW o \in Overrides, NEW type \in Columns,
             NEW v \in Command!Values(type), Command!CreateOverride(s, o, type, v)
      PROVE  PolicyInv'
  <2>. DEFINE new == [status |-> "active", session |-> s, type |-> type, previous |-> policy[type]]
  <2>1. /\ \A p \in Overrides : override'[p] = IF p = o THEN new ELSE override[p]
        /\ override' = [p \in Overrides |-> override'[p]]
    BY <1>4 DEF Command!CreateOverride, PolicyInv, ControlRows
  <2>2. /\ \A c \in Columns : policy'[c] = IF c = type THEN v ELSE policy[c]
        /\ policy' = [c \in Columns |-> policy'[c]]
    BY <1>4 DEF Command!CreateOverride, PolicyInv, ControlRows
  <2>3. /\ UNCHANGED <<wanted, crossed, drill, task>> /\ Command!MayCome
        /\ \A p \in Overrides : ~(Command!Active(p) /\ override[p].type = type)
        /\ override[o].status = "none"
    BY <1>4 DEF Command!CreateOverride, Command!NotOverridden
  <2>4. /\ Command!Active(o)' /\ override'[o].type = type /\ override'[o].previous = policy[type]
        /\ ~Command!Active(o)
        /\ \A p \in Overrides \ {o} : override'[p] = override[p]
                                        /\ (Command!Active(p)' <=> Command!Active(p))
    BY <2>1, <2>3 DEF Command!Active
  <2>. HIDE DEF new
  <2>5. Stopping' <=> Stopping  BY <2>3 DEF Stopping, Command!Stops, Command!Running
  <2>6. policy[type] = wanted[type] \/ (type = "admission" /\ (crossed \/ Stopping))
    <3>1. Command!Held(type) => type = "admission" /\ Stopping  BY <2>3 DEF Command!Held, Stopping
    <3>. QED  BY <3>1 DEF PolicyInv, OverridesStack
  <2>7. \A c \in Columns : Command!Held(c) \/ c = type => Command!Held(c)'
    BY <2>3, <2>4 DEF Command!Held, Command!Stops, Command!Running
  <2>8. OverridesStack'
    <3>1. ASSUME NEW p \in Overrides, Command!Active(p)'
          PROVE  /\ override'[p].type \in Columns
                 /\ \/ override'[p].previous = wanted'[override'[p].type]
                    \/ override'[p].type = "admission" /\ (crossed' \/ Stopping')
      BY <2>3, <2>4, <2>5, <2>6, <3>1 DEF PolicyInv, OverridesStack
    <3>2. \A p, q \in Overrides :
             Command!Active(p)' /\ Command!Active(q)' /\ override'[p].type = override'[q].type => p = q
      BY <2>3, <2>4 DEF PolicyInv, OverridesStack
    <3>3. \A c \in Columns :
             Command!Held(c)' \/ policy'[c] = wanted'[c] \/ (c = "admission" /\ crossed')
      BY <2>2, <2>3, <2>7 DEF PolicyInv, OverridesStack
    <3>. QED  BY <3>1, <3>2, <3>3 DEF OverridesStack
  <2>9. DrillsStack'
    BY <2>3 DEF PolicyInv, DrillsStack, Command!Stops, Command!Running
  <2>10. RevertsActive'  BY <1>3, <2>3
  <2>. QED  BY <2>1, <2>2, <2>3, <2>8, <2>9, <2>10 DEF PolicyInv, ControlRows
<1>5. ASSUME NEW a \in Command!Actors, NEW o \in Overrides, Command!ReadRevert(a, o) PROVE PolicyInv'
  <2>. DEFINE new == [kind |-> "revert", override |-> o]
  <2>1. /\ task' = [task EXCEPT ![a] = new] /\ UNCHANGED Command!controls
        /\ Command!Active(o) /\ \A b \in Command!Actors : task[b] = Command!Done
    BY <1>5 DEF Command!ReadRevert, Command!MayCome
  <2>2. new.override = o /\ Command!Done.kind # "revert"  BY DEF Command!Done
  <2>3. \A b \in Command!Actors : task'[b] = IF b = a THEN new ELSE Command!Done
    BY <2>1 DEF PolicyInv, RevertsActive
  <2>. HIDE DEF new
  <2>4. override' = override  BY <2>1 DEF Command!controls
  <2>5. RevertsActive'  BY <2>1, <2>2, <2>3, <2>4 DEF PolicyInv, RevertsActive, Command!Active
  <2>. QED  BY <1>1, <2>1, <2>5
<1>6. ASSUME NEW S \in SUBSET Overrides, \A o \in S : Command!Active(o), NEW os \in {"reverted", "expired"},
             override' = Command!Ended(S, os), policy' = Command!Restored(S, policy),
             UNCHANGED <<drill, wanted, crossed>>, RevertsActive'
      PROVE  PolicyInv'
  <2>1. PICK D \in SUBSET Drills : D = {}  OBVIOUS
  <2>2. drill' = Command!DrillsEnded(D, "aborted")
    BY <1>6, <2>1 DEF Command!DrillsEnded, PolicyInv, ControlRows
  <2>3. Command!Live(D) = {}  BY <2>1 DEF Command!Live
  <2>4. policy' = Command!Recovered(D, Command!Restored(S, policy)) /\ Command!Crossing(D)
    BY <1>6, <2>3 DEF Command!Recovered, Command!Crossing, PolicyInv, ControlRows
  <2>5. ControlRows' /\ OverridesStack' /\ DrillsStack'
    BY <1>6, <2>1, <2>2, <2>4, EndingGivesBack
  <2>. QED  BY <1>6, <2>5 DEF PolicyInv
<1>7. ASSUME NEW a \in Command!Actors, Command!CommitRevert(a) PROVE PolicyInv'
  <2>1. /\ task[a].override \in Overrides /\ Command!Active(task[a].override)
        /\ task[a] # Command!Done
    BY <1>7 DEF Command!CommitRevert, PolicyInv, RevertsActive, Command!Done
  <2>2. PICK S \in SUBSET Overrides : S = {task[a].override}  BY <2>1
  <2>3. /\ policy' = Command!Restored(S, policy) /\ override' = Command!Ended(S, "reverted")
        /\ UNCHANGED <<wanted, crossed, drill>>
    BY <1>7, <2>2 DEF Command!CommitRevert
  <2>4. \A b \in Command!Actors : task'[b] = Command!Done
    BY <1>7, <2>1 DEF Command!CommitRevert, PolicyInv, RevertsActive
  <2>5. RevertsActive'
    BY <1>7, <2>4 DEF Command!CommitRevert, PolicyInv, RevertsActive, Command!Done
  <2>. QED  BY <1>6, <2>1, <2>2, <2>3, <2>5
<1>7a. ASSUME NEW S \in SUBSET Overrides, Command!ExpireOverrides(S) PROVE PolicyInv'
  <2>1. /\ policy' = Command!Restored(S, policy) /\ override' = Command!Ended(S, "expired")
        /\ UNCHANGED <<wanted, crossed, drill, task>> /\ Command!MayCome
        /\ \A o \in S : Command!Active(o)
    BY <1>7a DEF Command!ExpireOverrides
  <2>. QED  BY <1>3, <1>6, <2>1
<1>8. ASSUME NEW s \in Sessions, NEW d \in Drills, NEW m \in Command!Modes, NEW a \in CommandAdmins,
             Command!StartDrill(s, d, m, a)
      PROVE  PolicyInv'
  <2>. DEFINE new == [status |-> "running", session |-> s, mode |-> m,
                      admission |-> policy.admission, initiator |-> a]
  <2>1. /\ drill[d].status = "none" /\ Command!MayCome /\ UNCHANGED <<override, wanted, crossed, task>>
        /\ \A e \in Drills : ~(Command!Running(e) /\ drill[e].session = s)
        /\ m = "live_controlled" => \A o \in Overrides : ~(Command!Active(o) /\ override[o].type = "admission")
        /\ policy' = IF m = "live_controlled" THEN [policy EXCEPT !.admission = FALSE] ELSE policy
    BY <1>8 DEF Command!StartDrill, Command!NotOverridden
  <2>2. /\ \A e \in Drills : drill'[e] = IF e = d THEN new ELSE drill[e]
        /\ drill' = [e \in Drills |-> drill'[e]]
    BY <1>8 DEF Command!StartDrill, PolicyInv, ControlRows
  <2>3. /\ Command!Running(d)' /\ drill'[d].session = s /\ drill'[d].admission = policy["admission"]
        /\ drill'[d].mode = m
    BY <2>2 DEF Command!Running
  <2>. HIDE DEF new
  <2>4. /\ \A e \in Drills \ {d} :
             /\ drill'[e] = drill[e]
             /\ Command!Running(e)' <=> Command!Running(e)
             /\ Command!Stops(e)' <=> Command!Stops(e)
        /\ ~Command!Running(d) /\ ~Command!Stops(d) /\ (Command!Stops(d)' <=> m = "live_controlled")
    BY <2>1, <2>2, <2>3 DEF Command!Running, Command!Stops
  <2>5. /\ \A c \in Columns : c # "admission" \/ m # "live_controlled" => policy'[c] = policy[c]
        /\ policy' = [c \in Columns |-> policy'[c]]
    BY <2>1 DEF PolicyInv, ControlRows
  <2>6. Stopping => Stopping'  BY <2>4 DEF Stopping
  <2>7. \A c \in Columns : Command!Held(c) => Command!Held(c)'
    BY <2>1, <2>4 DEF Command!Held, Command!Active
  <2>8. m = "live_controlled" => Command!Held("admission")'  BY <2>4 DEF Command!Held
  <2>9. OverridesStack'
    <3>1. \A c \in Columns : Command!Held(c)' \/ policy'[c] = wanted'[c] \/ (c = "admission" /\ crossed')
      BY <2>1, <2>5, <2>7, <2>8 DEF PolicyInv, OverridesStack
    <3>. QED  BY <2>1, <2>6, <3>1 DEF PolicyInv, OverridesStack, Command!Active
  <2>10. ASSUME m = "live_controlled"
         PROVE  \/ crossed \/ policy["admission"] = wanted["admission"]
                \/ \E e \in Drills \ {d} : Command!Stops(e)
    <3>1. "admission" \in Columns  BY DEF Columns
    <3>2. ~Command!Held("admission") \/ \E e \in Drills \ {d} : Command!Stops(e)
      BY <2>1, <2>4, <2>10 DEF Command!Held
    <3>. QED  BY <3>1, <3>2 DEF PolicyInv, OverridesStack
  <2>11. DrillsStack'
    <3>1. ASSUME NEW e \in Drills, NEW f \in Drills, Command!Running(e)', Command!Running(f)',
                 drill'[e].session = drill'[f].session
          PROVE  e = f
      <4>1. CASE e = d \/ f = d
        <5>1. ASSUME NEW g \in Drills \ {d}, Command!Running(g)' PROVE drill'[g].session # s
          BY <2>1, <2>4, <5>1
        <5>. QED  BY <2>3, <3>1, <4>1, <5>1
      <4>2. CASE e # d /\ f # d
        <5>1. e \in Drills \ {d} /\ f \in Drills \ {d}  BY <4>2
        <5>. QED  BY <2>4, <3>1, <5>1 DEF PolicyInv, DrillsStack
      <4>. QED  BY <4>1, <4>2
    <3>2. ASSUME NEW e \in Drills, Command!Stops(e)'
          PROVE  \/ crossed' \/ drill'[e].admission = wanted'["admission"]
                 \/ \E f \in Drills \ {e} : Command!Stops(f)'
      <4>1. CASE e = d  BY <2>1, <2>3, <2>4, <2>10, <3>2, <4>1
      <4>2. CASE e # d
        <5>1. Command!Stops(e) /\ drill'[e] = drill[e]  BY <2>4, <3>2, <4>2
        <5>2. ASSUME NEW f \in Drills \ {e}, Command!Stops(f) PROVE Command!Stops(f)'
          BY <2>4, <5>2
        <5>. QED  BY <2>1, <5>1, <5>2 DEF PolicyInv, DrillsStack
      <4>. QED  BY <4>1, <4>2
    <3>. QED  BY <3>1, <3>2 DEF DrillsStack
  <2>. QED  BY <1>3, <2>1, <2>2, <2>5, <2>9, <2>11 DEF PolicyInv, ControlRows
<1>9. ASSUME NEW D \in SUBSET Drills, \A d \in D : Command!Running(d), \A d, e \in D : d = e,
             NEW ds \in {"aborted", "passed", "failed"}, drill' = Command!DrillsEnded(D, ds),
             policy' = Command!Recovered(D, policy), Command!Crossing(D),
             UNCHANGED <<override, wanted, task>>, Command!MayCome
      PROVE  PolicyInv'
  <2>1. PICK S \in SUBSET Overrides : S = {}  OBVIOUS
  <2>2. /\ override' = Command!Ended(S, "reverted") /\ Command!Restored(S, policy) = policy
        /\ \A o \in S : Command!Active(o)
    BY <1>9, <2>1 DEF Command!Ended, Command!Restored, PolicyInv, ControlRows
  <2>3. ControlRows' /\ OverridesStack' /\ DrillsStack'
    BY <1>9, <2>2, EndingGivesBack
  <2>. QED  BY <1>3, <1>9, <2>3 DEF PolicyInv
<1>10. ASSUME NEW d \in Drills,
              \/ Command!RecoverDrill(d)
              \/ \E b \in BOOLEAN, a \in CommandAdmins : Command!CompleteDrill(d, b, a)
       PROVE  PolicyInv'
  <2>1. PICK D \in SUBSET Drills : D = {d}  OBVIOUS
  <2>2. PICK ds \in {"aborted", "passed", "failed"} : drill' = Command!DrillsEnded(D, ds)
    BY <1>10, <2>1 DEF Command!RecoverDrill, Command!CompleteDrill
  <2>3. /\ \A e \in D : Command!Running(e)
        /\ policy' = Command!Recovered(D, policy) /\ Command!Crossing(D)
        /\ UNCHANGED <<override, wanted, task>> /\ Command!MayCome
    BY <1>10, <2>1 DEF Command!RecoverDrill, Command!CompleteDrill
  <2>. QED  BY <1>9, <2>1, <2>2, <2>3
<1>11. ASSUME NEW s \in Sessions, Command!AbortSession(s) PROVE PolicyInv'
  <2>. DEFINE mine == {o \in Overrides : Command!Active(o) /\ override[o].session = s}
              drills == {d \in Drills : Command!Running(d) /\ drill[d].session = s}
  <2>1. /\ policy' = Command!Recovered(drills, Command!Restored(mine, policy))
        /\ override' = Command!Ended(mine, "reverted")
        /\ drill' = Command!DrillsEnded(drills, "aborted")
        /\ Command!Crossing(drills)
        /\ UNCHANGED <<wanted, task>> /\ Command!MayCome
    BY <1>11 DEF Command!AbortSession
  <2>2. /\ mine \in SUBSET Overrides /\ drills \in SUBSET Drills
        /\ \A o \in mine : Command!Active(o)
        /\ \A d \in drills : Command!Running(d)
        /\ \A d, e \in drills : d = e
    BY DEF PolicyInv, DrillsStack
  <2>. HIDE DEF mine, drills
  <2>3. ControlRows' /\ OverridesStack' /\ DrillsStack'
    BY <2>1, <2>2, EndingGivesBack
  <2>. QED  BY <1>3, <2>1, <2>3 DEF PolicyInv
<1>12. ASSUME NEW a \in Command!Actors, NEW s \in Sessions, Command!ReadDay(a, s) PROVE PolicyInv'
  <2>. DEFINE new == [kind |-> "prepare", session |-> s, seen |-> close[s], figures |-> figures]
  <2>1. /\ task' = [task EXCEPT ![a] = new] /\ UNCHANGED Command!controls
        /\ \A b \in Command!Actors : task[b] = Command!Done
    BY <1>12 DEF Command!ReadDay, Command!MayCome
  <2>2. new.kind # "revert" /\ Command!Done.kind # "revert"  BY DEF Command!Done
  <2>3. \A b \in Command!Actors : task'[b] = IF b = a THEN new ELSE Command!Done
    BY <2>1 DEF PolicyInv, RevertsActive
  <2>. HIDE DEF new
  <2>4. RevertsActive'  BY <2>1, <2>2, <2>3 DEF PolicyInv, RevertsActive
  <2>. QED  BY <1>1, <2>1, <2>4
<1>13. ASSUME NEW a \in Command!Actors, Command!CommitDay(a) PROVE PolicyInv'
  <2>1. task' = [task EXCEPT ![a] = Command!Done] /\ UNCHANGED Command!controls
    BY <1>13 DEF Command!CommitDay
  <2>2. RevertsActive'
    BY <2>1 DEF PolicyInv, RevertsActive, Command!Done, Command!controls, Command!Active
  <2>. QED  BY <1>1, <2>1, <2>2
<1>14. CASE UNCHANGED commandVars  BY <1>2, <1>14 DEF commandVars, Command!controls
<1>15. ASSUME NEW s \in Sessions,
              \/ Command!CreateSession(s) \/ Command!StartSession(s) \/ Command!PauseSession(s)
              \/ Command!ResumeSession(s) \/ Command!CompleteSession(s) \/ Command!PrunePacks(s)
              \/ Command!ReopenDay(s)
              \/ \E b \in BOOLEAN : Command!DecideRunbook(s, b) \/ Command!GeneratePack(s, b)
              \/ \E a \in CommandAdmins : Command!CloseDay(s, a)
       PROVE  PolicyInv'
  BY <1>2, <1>15 DEF Command!CreateSession, Command!StartSession, Command!PauseSession,
         Command!ResumeSession, Command!MoveSession, Command!CompleteSession, Command!PrunePacks,
         Command!ReopenDay, Command!DecideRunbook, Command!GeneratePack, Command!CloseDay
<1>16. ASSUME NEW n \in Figures, Command!DayChanges(n) PROVE PolicyInv'
  BY <1>2, <1>16 DEF Command!DayChanges
<1>17. ASSUME NEW c \in Columns, NEW v, Command!EditPolicy(c, v) PROVE PolicyInv'
  <2>1. /\ Command!MayCome /\ UNCHANGED <<override, drill, task>>
        /\ policy' = [policy EXCEPT ![c] = v]
        /\ wanted' = IF Command!Held(c) THEN wanted ELSE [wanted EXCEPT ![c] = v]
        /\ crossed' = (crossed /\ (c = "admission" => Command!Held(c)))
    BY <1>17 DEF Command!EditPolicy
  <2>2. /\ ControlRows' /\ \A b \in Columns \ {c} : policy'[b] = policy[b] /\ wanted'[b] = wanted[b]
        /\ policy'[c] = v /\ (Command!Held(c) => wanted' = wanted) /\ (~Command!Held(c) => wanted'[c] = v)
        /\ c # "admission" \/ Command!Held(c) => crossed' = crossed
    BY <2>1 DEF PolicyInv, ControlRows
  <2>3. /\ \A o \in Overrides : Command!Active(o)' <=> Command!Active(o)
        /\ \A d \in Drills : Command!Stops(d)' <=> Command!Stops(d)
        /\ \A d \in Drills : Command!Running(d)' <=> Command!Running(d)
        /\ (Stopping' <=> Stopping) /\ \A b \in Columns : Command!Held(b)' <=> Command!Held(b)
    BY <2>1 DEF Command!Active, Command!Running, Command!Stops, Stopping, Command!Held
  <2>4. /\ \A o \in Overrides : Command!Active(o) /\ override[o].type = c => Command!Held(c)
        /\ c = "admission" /\ Stopping => Command!Held(c)
    BY DEF Command!Held, Stopping
  <2>5. OverridesStack'
    <3>1. ASSUME NEW o \in Overrides, Command!Active(o)
          PROVE  \/ override[o].previous = wanted'[override[o].type]
                 \/ override[o].type = "admission" /\ (crossed' \/ Stopping)
      <4>1. /\ override[o].type \in Columns
            /\ \/ override[o].previous = wanted[override[o].type]
               \/ override[o].type = "admission" /\ (crossed \/ Stopping)
        BY <3>1 DEF PolicyInv, OverridesStack
      <4>2. CASE override[o].type = c  BY <2>2, <2>4, <3>1, <4>1, <4>2
      <4>3. CASE override[o].type # c  BY <2>2, <4>1, <4>3
      <4>. QED  BY <4>2, <4>3
    <3>2. \A b \in Columns : Command!Held(b) \/ policy'[b] = wanted'[b] \/ (b = "admission" /\ crossed')
      BY <2>2 DEF PolicyInv, OverridesStack
    <3>. QED  BY <2>1, <2>3, <3>1, <3>2 DEF PolicyInv, OverridesStack
  <2>6. DrillsStack'
    <3>1. ASSUME NEW d \in Drills, Command!Stops(d)
          PROVE  \/ crossed' \/ drill[d].admission = wanted'["admission"]
                 \/ \E e \in Drills \ {d} : Command!Stops(e)
      <4>1. c = "admission" => Command!Held(c)  BY <2>4, <3>1 DEF Stopping
      <4>2. "admission" \in Columns  BY DEF Columns
      <4>3. wanted'["admission"] = wanted["admission"] /\ crossed' = crossed
        BY <2>2, <4>1, <4>2
      <4>. QED  BY <3>1, <4>3 DEF PolicyInv, DrillsStack
    <3>. QED  BY <2>1, <2>3, <3>1 DEF PolicyInv, DrillsStack
  <2>. QED  BY <1>3, <2>1, <2>2, <2>5, <2>6 DEF PolicyInv
<1>18. CASE \E s \in Sessions :
          \/ Command!AbortSession(s)
          \/ \E o \in Overrides, type \in Command!Types :
                \E v \in Command!Values(type) : Command!CreateOverride(s, o, type, v)
          \/ \E a \in CommandAdmins, d \in Drills, m \in Command!Modes : Command!StartDrill(s, d, m, a)
          \/ \E a \in Command!Actors : Command!ReadDay(a, s)
  <2>1. Command!Types = Columns  BY DEF Command!Types, Columns
  <2>. QED  BY <1>4, <1>8, <1>11, <1>12, <1>18, <2>1
<1>19. CASE \/ \E n \in Caps : Command!EditPolicy("cap", n)
            \/ \E b \in BOOLEAN : Command!EditPolicy("admission", b)
  BY <1>17, <1>19 DEF Columns
<1>20. CASE \/ \E a \in Command!Actors : Command!CommitDay(a) \/ Command!CommitRevert(a)
                                          \/ \E o \in Overrides : Command!ReadRevert(a, o)
            \/ \E S \in SUBSET Overrides : Command!ExpireOverrides(S)
            \/ \E d \in Drills :
                  \/ Command!RecoverDrill(d)
                  \/ \E b \in BOOLEAN, a \in CommandAdmins : Command!CompleteDrill(d, b, a)
            \/ \E n \in Figures : Command!DayChanges(n)
  BY <1>5, <1>7, <1>10, <1>13, <1>16, <1>20, <1>7a
<1>. QED  BY <1>14, <1>15, <1>18, <1>19, <1>20 DEF Command!Next

CommandSpec == Command!Init /\ [][Command!Next]_commandVars

\* One transaction at a time, for any number of sessions, overrides and drills, on paper
\* or live, and any edits in between: what nothing holds is as administrators made it, in
\* whatever order overrides and drills begin and end, by hand, by time or with their
\* session.  Only of admission this is not said after a live drill ended while an
\* override or another drill still stopped it, until administrators set it again.
THEOREM PolicyIsGivenBack == CommandSpec => []PolicyGivenBack
<1>1. PolicyInv => PolicyGivenBack
  <2>1. Command!Types = Columns  BY DEF Command!Types, Columns
  <2>. QED  BY <2>1 DEF PolicyInv, OverridesStack, PolicyGivenBack, Command!PolicyGivenBack
<1>. QED  BY <1>1, InitPolicy, StepPolicy, PTL DEF CommandSpec

-----------------------------------------------------------------------------
(* The close of the launch day.                                            *)

Sums == Figures \cup {0, 1}
CloseRow == [status : {"none", "ready", "blocked", "closed", "reopened"},
             preparer : Command!Actors, closer : Command!Actors, holds : Sums, sealed : Sums]

\* A preparation is alone, so the day is still what it read, and not closed.
CloseInv ==
    /\ close \in [Sessions -> CloseRow] /\ figures \in Sums
    /\ \A s \in Sessions : close[s].status = "closed" =>
          /\ close[s].sealed = close[s].holds
          /\ DualControl => close[s].closer # close[s].preparer
    /\ task = [a \in Command!Actors |-> task[a]]
    /\ \A a, b \in Command!Actors : task[a] # Command!Done /\ task[b] # Command!Done => a = b
    /\ \A a \in Command!Actors : task[a].kind = "prepare" =>
          /\ task[a].session \in Sessions /\ task[a].figures \in Sums
          /\ task[a].seen = close[task[a].session] /\ task[a].seen.status # "closed"

DayStands ==
    \A s \in Sessions : close[s].status = "closed" =>
        /\ close[s].sealed = close[s].holds
        /\ DualControl => close[s].closer # close[s].preparer
        /\ close'[s] # close[s] => close'[s].status = "reopened"

LEMMA InitClose == Command!Init => CloseInv
  BY DEF Command!Init, CloseInv, CloseRow, Command!NoClose, Command!Actors, Command!Done, Sums

LEMMA StepClose == CloseInv /\ [Command!Next]_commandVars => CloseInv' /\ DayStands
<1>. SUFFICES ASSUME CloseInv, [Command!Next]_commandVars PROVE CloseInv' /\ DayStands  OBVIOUS
<1>1. ASSUME UNCHANGED <<close, figures, task>> PROVE CloseInv' /\ DayStands
  BY <1>1 DEF CloseInv, DayStands
<1>2. ASSUME NEW n \in Figures, Command!DayChanges(n) PROVE CloseInv' /\ DayStands
  <2>1. UNCHANGED <<close, task>> /\ figures' \in Sums  BY <1>2 DEF Command!DayChanges, Sums
  <2>. QED  BY <2>1 DEF CloseInv, DayStands
<1>3. ASSUME NEW a \in Command!Actors, NEW s \in Sessions, Command!ReadDay(a, s)
      PROVE  CloseInv' /\ DayStands
  <2>. DEFINE new == [kind |-> "prepare", session |-> s, seen |-> close[s], figures |-> figures]
  <2>1. /\ task' = [task EXCEPT ![a] = new] /\ UNCHANGED Command!finance
        /\ close[s].status # "closed" /\ \A b \in Command!Actors : task[b] = Command!Done
    BY <1>3 DEF Command!ReadDay, Command!MayCome, Command!NotClosed
  <2>2. UNCHANGED <<close, figures>>  BY <2>1 DEF Command!finance
  <2>3. new.session = s /\ new.seen = close[s] /\ new.figures = figures /\ Command!Done.kind # "prepare"
    BY DEF Command!Done
  <2>4. \A b \in Command!Actors : task'[b] = IF b = a THEN new ELSE Command!Done
    BY <2>1 DEF CloseInv
  <2>. HIDE DEF new
  <2>. QED  BY <2>1, <2>2, <2>3, <2>4 DEF CloseInv, DayStands
<1>4. ASSUME NEW a \in Command!Actors, Command!CommitDay(a) PROVE CloseInv' /\ DayStands
  <2>. DEFINE t == task[a]
              new == [status |-> IF t.figures = 0 THEN "blocked" ELSE "ready", preparer |-> a,
                      closer |-> "worker", holds |-> t.figures, sealed |-> 0]
  <2>1. /\ t.kind = "prepare" /\ task' = [task EXCEPT ![a] = Command!Done]
        /\ UNCHANGED figures
        /\ close' = IF t.seen.status # "none"
                    THEN [close EXCEPT ![t.session] = Command!Written(@, t.seen, new)]
                    ELSE IF close[t.session].status = "none"
                         THEN [close EXCEPT ![t.session] = new] ELSE close
    BY <1>4 DEF Command!CommitDay
  <2>2. /\ t.session \in Sessions /\ t.figures \in Sums /\ t.seen = close[t.session]
        /\ t.seen.status # "closed" /\ t # Command!Done
    BY <2>1 DEF CloseInv, Command!Done
  <2>3. new \in CloseRow /\ new.status # "closed" /\ t.seen \in CloseRow
    <3>1. "worker" \in Command!Actors /\ 0 \in Sums  BY DEF Command!Actors, Sums
    <3>. QED  BY <2>2, <3>1 DEF CloseRow, CloseInv
  <2>. HIDE DEF new, t
  <2>4. Command!Written(t.seen, t.seen, new) = new
    <3>1. DOMAIN t.seen = DOMAIN new /\ new = [f \in DOMAIN new |-> new[f]]
      BY <2>3 DEF CloseRow
    <3>2. Command!Written(t.seen, t.seen, new) = [f \in DOMAIN new |-> new[f]]
      BY <3>1 DEF Command!Written
    <3>. QED  BY <3>1, <3>2
  <2>5. close' = [close EXCEPT ![t.session] = new]  BY <2>1, <2>2, <2>4
  <2>6. \A s \in Sessions : close'[s] = IF s = t.session THEN new ELSE close[s]
    BY <2>2, <2>5 DEF CloseInv
  <2>7. close' \in [Sessions -> CloseRow]  BY <2>2, <2>3, <2>5 DEF CloseInv
  <2>8. \A b \in Command!Actors : task'[b] = Command!Done
    BY <2>1, <2>2 DEF CloseInv, t
  <2>9. Command!Done.kind # "prepare"  BY DEF Command!Done
  <2>. QED  BY <2>1, <2>2, <2>3, <2>6, <2>7, <2>8, <2>9 DEF CloseInv, DayStands
<1>5. ASSUME NEW a \in Command!Actors, Command!CommitRevert(a) PROVE CloseInv' /\ DayStands
  <2>1. task' = [task EXCEPT ![a] = Command!Done] /\ UNCHANGED <<close, figures>>
    BY <1>5 DEF Command!CommitRevert, Command!finance
  <2>2. Command!Done.kind # "prepare"  BY DEF Command!Done
  <2>. QED  BY <2>1, <2>2 DEF CloseInv, DayStands
<1>6. ASSUME NEW a \in Command!Actors, NEW o \in Overrides, Command!ReadRevert(a, o)
      PROVE  CloseInv' /\ DayStands
  <2>. DEFINE new == [kind |-> "revert", override |-> o]
  <2>1. /\ task' = [task EXCEPT ![a] = new] /\ UNCHANGED <<close, figures>>
        /\ \A b \in Command!Actors : task[b] = Command!Done
    BY <1>6 DEF Command!ReadRevert, Command!MayCome, Command!finance
  <2>2. new.kind # "prepare" /\ Command!Done.kind # "prepare"  BY DEF Command!Done
  <2>3. \A b \in Command!Actors : task'[b] = IF b = a THEN new ELSE Command!Done
    BY <2>1 DEF CloseInv
  <2>. HIDE DEF new
  <2>. QED  BY <2>1, <2>2, <2>3 DEF CloseInv, DayStands
<1>7. ASSUME NEW s \in Sessions, NEW a \in CommandAdmins, Command!CloseDay(s, a)
      PROVE  CloseInv' /\ DayStands
  <2>. DEFINE new == [close[s] EXCEPT !.status = "closed", !.closer = a, !.sealed = close[s].holds]
  <2>1. close' = [close EXCEPT ![s] = new]  BY <1>7 DEF Command!CloseDay, CloseInv
  <2>2. /\ close[s].status = "ready" /\ (DualControl => close[s].preparer # a)
        /\ UNCHANGED <<figures, task>> /\ \A b \in Command!Actors : task[b] = Command!Done
    BY <1>7 DEF Command!CloseDay, Command!MayCome
  <2>3. close[s] \in CloseRow /\ a \in Command!Actors  BY DEF CloseInv, Command!Actors
  <2>4. /\ new \in CloseRow /\ new.sealed = new.holds /\ new.closer = a
        /\ new.preparer = close[s].preparer
    BY <2>3 DEF CloseRow
  <2>. HIDE DEF new
  <2>5. Command!Done.kind # "prepare"  BY DEF Command!Done
  <2>. QED  BY <2>1, <2>2, <2>4, <2>5 DEF CloseInv, DayStands
<1>8. ASSUME NEW s \in Sessions, Command!ReopenDay(s) PROVE CloseInv' /\ DayStands
  <2>. DEFINE new == [close[s] EXCEPT !.status = "reopened", !.closer = "worker", !.sealed = 0]
  <2>1. close' = [close EXCEPT ![s] = new]  BY <1>8 DEF Command!ReopenDay, CloseInv
  <2>2. UNCHANGED <<figures, task>> /\ \A b \in Command!Actors : task[b] = Command!Done
    BY <1>8 DEF Command!ReopenDay, Command!MayCome
  <2>3. close[s] \in CloseRow /\ "worker" \in Command!Actors /\ 0 \in Sums
    BY DEF CloseInv, Command!Actors, Sums
  <2>4. new \in CloseRow /\ new.status = "reopened"  BY <2>3 DEF CloseRow
  <2>. HIDE DEF new
  <2>5. Command!Done.kind # "prepare"  BY DEF Command!Done
  <2>. QED  BY <2>1, <2>2, <2>4, <2>5 DEF CloseInv, DayStands
<1>9. CASE UNCHANGED commandVars  BY <1>1, <1>9 DEF commandVars
<1>10. ASSUME NEW s \in Sessions,
              \/ Command!CreateSession(s) \/ Command!StartSession(s) \/ Command!PauseSession(s)
              \/ Command!ResumeSession(s) \/ Command!CompleteSession(s) \/ Command!AbortSession(s)
              \/ Command!PrunePacks(s)
              \/ \E b \in BOOLEAN : Command!DecideRunbook(s, b) \/ Command!GeneratePack(s, b)
              \/ \E o \in Overrides, type \in Command!Types :
                    \E v \in Command!Values(type) : Command!CreateOverride(s, o, type, v)
              \/ \E a \in CommandAdmins, d \in Drills, m \in Command!Modes : Command!StartDrill(s, d, m, a)
       PROVE  CloseInv' /\ DayStands
  BY <1>1, <1>10 DEF Command!CreateSession, Command!StartSession, Command!PauseSession,
         Command!ResumeSession, Command!MoveSession, Command!CompleteSession, Command!AbortSession,
         Command!PrunePacks, Command!DecideRunbook, Command!GeneratePack, Command!CreateOverride,
         Command!StartDrill, Command!finance
<1>11. ASSUME \/ \E S \in SUBSET Overrides : Command!ExpireOverrides(S)
              \/ \E d \in Drills :
                    \/ Command!RecoverDrill(d)
                    \/ \E b \in BOOLEAN, a \in CommandAdmins : Command!CompleteDrill(d, b, a)
       PROVE  CloseInv' /\ DayStands
  BY <1>1, <1>11 DEF Command!ExpireOverrides, Command!RecoverDrill, Command!CompleteDrill, Command!finance
<1>12. ASSUME NEW c, NEW v, Command!EditPolicy(c, v) PROVE CloseInv' /\ DayStands
  BY <1>1, <1>12 DEF Command!EditPolicy, Command!finance
<1>. QED
  BY <1>2, <1>3, <1>4, <1>5, <1>6, <1>7, <1>8, <1>9, <1>10, <1>11, <1>12 DEF Command!Next

\* One transaction at a time, for any number of sessions, administrators and figures: a
\* closed day keeps the figures its checksum was taken of, was closed by someone other
\* than its preparer, and changes only by being reopened.
THEOREM ClosedDaysStand == LoadsSpec => ClosedDayStands
<1>1. LoadsInit => CloseInv  BY InitClose DEF LoadsInit
<1>2. CloseInv /\ [LoadsNext]_<<load, taVars, rolloutVars, commandVars, alertVars, afterVars, pilotVars>>
        => CloseInv' /\ DayStands
  BY StepClose DEF LoadsNext
<1>. QED
  BY <1>1, <1>2, PTL DEF LoadsSpec, ClosedDayStands, Command!ClosedDayStands, DayStands

-----------------------------------------------------------------------------
(* Incidents.                                                              *)

IncidentRow == [status : {"none", "open", "acknowledged", "resolved"}, severity : 0..3, age : Int,
                escalated : Int, owner : IncidentAdmins \cup {Alerts!NoAdmin}]

\* No administrator commits during a scan, which writes what it made of the incidents.
IncidentInv ==
    /\ condition \in [Conditions -> -1..3] /\ incident \in [Conditions -> IncidentRow]
    /\ scan.on => scan.seen = incident /\ scan.conditions \in [Conditions -> -1..3]

NotLessSevere ==
    \A c \in Conditions : Alerts!Active(incident[c]) /\ incident'[c].severity < incident[c].severity =>
        incident'[c].status = "resolved"

LEMMA RefreshedRow ==
    ASSUME NEW i \in IncidentRow, NEW n \in -1..3
    PROVE  /\ Alerts!Refreshed(i, n) \in IncidentRow
           /\ Alerts!Active(i) => \/ Alerts!Refreshed(i, n).severity >= i.severity
                                  \/ Alerts!Refreshed(i, n).status = "resolved"
<1>. DEFINE j == IF n = -1 THEN Alerts!Cleared(i) ELSE Alerts!Detected(i, n)
            Later == j.severity >= i.severity \/ j.status = "resolved"
<1>1. j \in IncidentRow /\ (Alerts!Active(i) => Later)
  <2>1. CASE n = -1
    <3>1. j \in IncidentRow /\ (Alerts!Active(i) => j.status = "resolved")
      BY <2>1 DEF Alerts!Cleared, IncidentRow
    <3>. QED  BY <3>1
  <2>2. CASE n # -1 /\ i.status = "none"
    <3>1. j = [Alerts!NoIncident EXCEPT !.status = "open", !.severity = n]
      BY <2>2 DEF Alerts!Detected
    <3>2. ~Alerts!Active(i)  BY <2>2 DEF Alerts!Active
    <3>3. n \in 0..3  BY <2>2
    <3>. HIDE DEF j
    <3>4. j = [status |-> "open", severity |-> n, age |-> 0, escalated |-> -1, owner |-> Alerts!NoAdmin]
      BY <3>1 DEF Alerts!NoIncident
    <3>. QED  BY <3>2, <3>3, <3>4 DEF IncidentRow
  <2>3. CASE n # -1 /\ i.status = "resolved"
    <3>1. j = [i EXCEPT !.status = "open", !.severity = n, !.age = 0]
      BY <2>3 DEF Alerts!Detected
    <3>2. ~Alerts!Active(i)  BY <2>3 DEF Alerts!Active
    <3>3. n \in 0..3  BY <2>3
    <3>. HIDE DEF j
    <3>4. j = [status |-> "open", severity |-> n, age |-> 0, escalated |-> i.escalated, owner |-> i.owner]
      BY <3>1 DEF IncidentRow
    <3>5. i.escalated \in Int /\ i.owner \in IncidentAdmins \cup {Alerts!NoAdmin}  BY DEF IncidentRow
    <3>. QED  BY <3>2, <3>3, <3>4, <3>5 DEF IncidentRow
  <2>4. CASE n # -1 /\ i.status \notin {"none", "resolved"}
    <3>1. Alerts!Higher(i, n) \in 0..3 /\ Alerts!Higher(i, n) >= i.severity
      BY <2>4 DEF Alerts!Higher, IncidentRow
    <3>2. j = [i EXCEPT !.severity = Alerts!Higher(i, n)]  BY <2>4 DEF Alerts!Detected
    <3>. HIDE DEF j
    <3>3. j \in IncidentRow /\ j.severity = Alerts!Higher(i, n)  BY <3>1, <3>2 DEF IncidentRow
    <3>. QED  BY <3>1, <3>3
  <2>. QED  BY <2>1, <2>2, <2>3, <2>4
<1>. HIDE DEF j
<1>2. /\ Alerts!Escalated(j) \in IncidentRow
      /\ Alerts!Escalated(j).severity >= j.severity
      /\ Alerts!Escalated(j).status = j.status
  <2>1. j.severity \in 0..3  BY <1>1 DEF IncidentRow
  <2>2. CASE Alerts!Overdue(j)
    <3>1. j.severity + 1 \in 0..3  BY <2>1, <2>2 DEF Alerts!Overdue
    <3>2. Alerts!Escalated(j) = [j EXCEPT !.severity = j.severity + 1, !.escalated = 0]
      BY <1>1, <2>2 DEF Alerts!Escalated, IncidentRow
    <3>. DEFINE n1 == j.severity + 1
    <3>3. n1 \in 0..3 /\ n1 >= j.severity  BY <2>1, <3>1
    <3>. HIDE DEF n1
    <3>4. Alerts!Escalated(j) = [j EXCEPT !.severity = n1, !.escalated = 0]  BY <3>2 DEF n1
    <3>5. Alerts!Escalated(j) = [status |-> j.status, severity |-> n1, age |-> j.age,
                                escalated |-> 0, owner |-> j.owner]
      BY <1>1, <3>4 DEF IncidentRow
    <3>6. /\ j.status \in {"none", "open", "acknowledged", "resolved"} /\ j.age \in Int
          /\ j.owner \in IncidentAdmins \cup {Alerts!NoAdmin}
      BY <1>1 DEF IncidentRow
    <3>7. Alerts!Escalated(j) \in IncidentRow  BY <3>3, <3>5, <3>6 DEF IncidentRow
    <3>. QED  BY <3>3, <3>5, <3>7
  <2>3. CASE ~Alerts!Overdue(j)  BY <1>1, <2>1, <2>3 DEF Alerts!Escalated
  <2>. QED  BY <2>2, <2>3
<1>3. Alerts!Refreshed(i, n) = Alerts!Escalated(j)  BY DEF Alerts!Refreshed, j
<1>. QED
  <2>1. i.severity \in Int /\ j.severity \in Int /\ Alerts!Escalated(j).severity \in Int
    BY <1>1, <1>2 DEF IncidentRow
  <2>. QED  BY <1>1, <1>2, <1>3, <2>1

LEMMA InitIncidents == Alerts!Init => IncidentInv
  BY DEF Alerts!Init, IncidentInv, IncidentRow, Alerts!NoIncident, Alerts!Idle

LEMMA StepIncidents == IncidentInv /\ [Alerts!Next]_alertVars => IncidentInv' /\ NotLessSevere
<1>. SUFFICES ASSUME IncidentInv, [Alerts!Next]_alertVars PROVE IncidentInv' /\ NotLessSevere  OBVIOUS
<1>1. \A c \in Conditions : incident[c] \in IncidentRow  BY DEF IncidentInv
<1>2. ASSUME UNCHANGED incident PROVE NotLessSevere
  BY <1>1, <1>2 DEF NotLessSevere, IncidentRow
<1>3. CASE UNCHANGED alertVars  BY <1>2, <1>3 DEF alertVars, IncidentInv
<1>4. CASE Alerts!ReadScan  BY <1>2, <1>4 DEF Alerts!ReadScan, IncidentInv
<1>5. ASSUME NEW c \in Conditions, NEW s \in -1..3, Alerts!ConditionChanges(c, s)
      PROVE  IncidentInv' /\ NotLessSevere
  <2>1. UNCHANGED <<incident, scan>> /\ condition' \in [Conditions -> -1..3]
    BY <1>5 DEF Alerts!ConditionChanges, IncidentInv
  <2>. QED  BY <1>2, <2>1 DEF IncidentInv
<1>6. CASE Alerts!TimePasses
  <2>1. \A n \in Int : Alerts!AtMostWindow(n) \in Int  BY DEF Alerts!AtMostWindow
  <2>2. ASSUME NEW c \in Conditions
        PROVE  /\ incident'[c] \in IncidentRow
               /\ incident'[c].severity = incident[c].severity
    <3>1. PICK e \in Int, n \in Int :
             incident'[c] = [incident[c] EXCEPT !.age = n, !.escalated = e]
      BY <1>1, <1>6, <2>1 DEF Alerts!TimePasses, IncidentRow
    <3>. QED  BY <1>1, <3>1 DEF IncidentRow
  <2>3. incident' \in [Conditions -> IncidentRow]  BY <1>6, <2>2 DEF Alerts!TimePasses
  <2>4. NotLessSevere  BY <1>1, <2>2 DEF NotLessSevere, IncidentRow
  <2>. QED  BY <1>6, <2>3, <2>4 DEF Alerts!TimePasses, IncidentInv
<1>7. CASE Alerts!CommitScan
  <2>1. /\ scan.seen = incident /\ scan.conditions \in [Conditions -> -1..3]
    BY <1>7 DEF Alerts!CommitScan, IncidentInv
  <2>2. ASSUME NEW c \in Conditions
        PROVE  incident'[c] = Alerts!Refreshed(incident[c], scan.conditions[c])
    <3>. DEFINE new == Alerts!Refreshed(incident[c], scan.conditions[c])
    <3>1. incident'[c] = Alerts!Written(incident[c], incident[c], new)
      BY <1>7, <2>1 DEF Alerts!CommitScan
    <3>2. new \in IncidentRow  BY <1>1, <2>1, RefreshedRow
    <3>. HIDE DEF new
    <3>3. DOMAIN incident[c] = DOMAIN new /\ new = [f \in DOMAIN new |-> new[f]]
      BY <1>1, <3>2 DEF IncidentRow
    <3>4. incident'[c] = [f \in DOMAIN new |-> new[f]]  BY <3>1, <3>3 DEF Alerts!Written
    <3>5. incident'[c] = new  BY <3>3, <3>4
    <3>. QED  BY <3>5 DEF new
  <2>3. \A c \in Conditions : incident'[c] \in IncidentRow  BY <1>1, <2>1, <2>2, RefreshedRow
  <2>4. incident' \in [Conditions -> IncidentRow]  BY <1>7, <2>3 DEF Alerts!CommitScan
  <2>5. ASSUME NEW c \in Conditions, Alerts!Active(incident[c]),
               incident'[c].severity < incident[c].severity
        PROVE  incident'[c].status = "resolved"
    <3>1. \/ incident'[c].severity >= incident[c].severity
          \/ incident'[c].status = "resolved"
      BY <1>1, <2>1, <2>2, <2>5, RefreshedRow
    <3>2. incident'[c].severity \in Int /\ incident[c].severity \in Int
      BY <1>1, <2>3 DEF IncidentRow
    <3>. QED  BY <2>5, <3>1, <3>2
  <2>6. ~scan'.on /\ condition' = condition  BY <1>7 DEF Alerts!CommitScan, Alerts!Idle
  <2>. QED  BY <2>4, <2>5, <2>6 DEF IncidentInv, NotLessSevere
<1>8. ASSUME NEW c \in Conditions, NEW new \in IncidentRow, incident' = [incident EXCEPT ![c] = new],
             new.severity >= incident[c].severity \/ new.status = "resolved",
             UNCHANGED <<condition, scan>>, ~scan.on
      PROVE  IncidentInv' /\ NotLessSevere
  <2>1. new.severity \in Int /\ \A d \in Conditions : incident[d].severity \in Int
    BY <1>1 DEF IncidentRow
  <2>. QED  BY <1>8, <2>1 DEF IncidentInv, NotLessSevere
<1>9. ASSUME NEW c \in Conditions, NEW a \in IncidentAdmins, Alerts!Acknowledge(c, a)
      PROVE  IncidentInv' /\ NotLessSevere
  <2>. DEFINE new == [Alerts!Owned(incident[c], a) EXCEPT !.status = "acknowledged"]
  <2>1. new \in IncidentRow /\ new.severity = incident[c].severity /\ incident[c].severity \in Int
    BY <1>1 DEF Alerts!Owned, IncidentRow
  <2>2. incident' = [incident EXCEPT ![c] = new] /\ UNCHANGED <<condition, scan>> /\ ~scan.on
    BY <1>9 DEF Alerts!Acknowledge, Alerts!MayAct, IncidentInv
  <2>. HIDE DEF new
  <2>3. new.severity >= incident[c].severity  BY <2>1
  <2>. QED  BY <1>8, <2>1, <2>2, <2>3
<1>10. ASSUME NEW c \in Conditions, NEW a \in IncidentAdmins \cup {Alerts!NoAdmin}, Alerts!Assign(c, a)
       PROVE  IncidentInv' /\ NotLessSevere
  <2>. DEFINE new == [incident[c] EXCEPT !.owner = a]
  <2>1. new \in IncidentRow /\ new.severity = incident[c].severity /\ incident[c].severity \in Int
    BY <1>1 DEF IncidentRow
  <2>2. incident' = [incident EXCEPT ![c] = new] /\ UNCHANGED <<condition, scan>> /\ ~scan.on
    BY <1>10 DEF Alerts!Assign, Alerts!MayAct, IncidentInv
  <2>. HIDE DEF new
  <2>3. new.severity >= incident[c].severity  BY <2>1
  <2>. QED  BY <1>8, <2>1, <2>2, <2>3
<1>11. ASSUME NEW c \in Conditions, NEW a \in IncidentAdmins, Alerts!Escalate(c, a)
       PROVE  IncidentInv' /\ NotLessSevere
  <2>. DEFINE s == incident[c].severity
              up == IF s < 3 THEN s + 1 ELSE 3
              new == [Alerts!Owned(incident[c], a) EXCEPT !.severity = up]
  <2>1. incident' = [incident EXCEPT ![c] = new] /\ UNCHANGED <<condition, scan>> /\ ~scan.on
    BY <1>11 DEF Alerts!Escalate, Alerts!MayAct, IncidentInv
  <2>2. s \in 0..3 /\ up \in 0..3 /\ up >= s  BY <1>1 DEF IncidentRow
  <2>. HIDE DEF up
  <2>3. new \in IncidentRow /\ new.severity = up
    BY <1>1, <2>2 DEF Alerts!Owned, IncidentRow
  <2>. HIDE DEF new
  <2>4. new.severity >= incident[c].severity  BY <2>2, <2>3
  <2>. QED  BY <1>8, <2>1, <2>3, <2>4
<1>12. ASSUME NEW c \in Conditions, Alerts!Resolve(c) PROVE IncidentInv' /\ NotLessSevere
  <2>. DEFINE new == [incident[c] EXCEPT !.status = "resolved"]
  <2>1. new \in IncidentRow /\ new.status = "resolved"  BY <1>1 DEF IncidentRow
  <2>2. incident' = [incident EXCEPT ![c] = new] /\ UNCHANGED <<condition, scan>> /\ ~scan.on
    BY <1>12 DEF Alerts!Resolve, Alerts!MayAct, IncidentInv
  <2>. HIDE DEF new
  <2>. QED  BY <1>8, <2>1, <2>2
<1>. QED
  BY <1>3, <1>4, <1>5, <1>6, <1>7, <1>9, <1>10, <1>11, <1>12 DEF Alerts!Next

\* No administrator commits during a scan, for any number of incidents: one that stays
\* active never becomes less severe, however its detector and administrators disagree.
THEOREM SeverityIsKept == LoadsSpec => SeverityKept
<1>1. LoadsInit => IncidentInv  BY InitIncidents DEF LoadsInit
<1>2. IncidentInv /\ [LoadsNext]_<<load, taVars, rolloutVars, commandVars, alertVars, afterVars, pilotVars>>
        => IncidentInv' /\ NotLessSevere
  BY StepIncidents DEF LoadsNext
<1>. QED
  BY <1>1, <1>2, PTL DEF LoadsSpec, SeverityKept, Alerts!SeverityKept, NotLessSevere

-----------------------------------------------------------------------------
(* The post-launch review.                                                 *)

DayRow == [status : {"none", "ready", "blocked", "closed", "reopened"}, cadence : BOOLEAN,
           overdue : BOOLEAN]

ReviewInv ==
    /\ now \in 0..(2 * LastDay + 1)
    /\ daily \in [After!Days -> DayRow] /\ review = [d \in After!Days |-> review[d]]

BlocksUnclosed ==
    \A d \in After!Days : After!Written(d) /\ review'[d] # "blocked" =>
        After!Cardinality(After!Unclosed) <= (IF daily[After!Today].status = "closed" THEN 1 ELSE 0)

\* The instance of the review module counts its sets as this module does.
LEMMA SameCount ==
    ASSUME NEW S PROVE After!Cardinality(S) = Cardinality(S)
BY DEF After!Cardinality, Cardinality, After!IsFiniteSet, IsFiniteSet

\* A review that does not block counted as many closed days as it requires.  Before the
\* window has passed its first day, only today can be counted and not required; after
\* that the whole window was counted.
LEMMA CountedAreClosed ==
    ASSUME ReviewInv, ReviewWindow <= StabilizationDays, ~After!Blocked
    PROVE  Cardinality(After!Unclosed) <= (IF daily[After!Today].status = "closed" THEN 1 ELSE 0)
<1>. DEFINE T == After!Today
            R == After!RequiredCloses
            C == After!In({"closed"})
            U == After!Unclosed
            Q == C \ {T}
<1>1. T \in Nat /\ T <= LastDay
  BY SettingsAssumption DEF ReviewInv, After!Today
<1>2. R = {d \in 0..(StabilizationDays - 1) : d < T}
  BY DEF After!RequiredCloses, After!Cadence
<1>3. C = {d \in 0..LastDay : T - ReviewWindow + 1 <= d /\ d <= T /\ daily[d].status = "closed"}
  BY DEF After!In, After!Window, After!Days
<1>4. U = {d \in R : d \in 0..LastDay /\ T - ReviewWindow + 1 <= d /\ d <= T /\ daily[d].status # "closed"}
  BY DEF After!Unclosed, After!Window, After!Days
<1>. HIDE DEF T, C, R, U
<1>5. /\ IsFiniteSet(R) /\ IsFiniteSet(C) /\ Cardinality(R) \in Nat /\ Cardinality(C) \in Nat
      /\ R \subseteq 0..(T - 1) /\ C \subseteq 0..T
  <2>1. R \subseteq 0..(T - 1) /\ C \subseteq 0..T  BY <1>1, <1>2, <1>3
  <2>2. IsFiniteSet(0..(T - 1)) /\ IsFiniteSet(0..T)  BY <1>1, FS_Interval
  <2>. QED  BY <2>1, <2>2, FS_Subset, FS_CardinalityType
<1>6. Cardinality(R) <= Cardinality(C)
  <2>1. After!OverdueCloses = {} /\ After!In({"blocked"}) = {} /\ ~After!CadenceIncomplete
    BY DEF After!Blocked
  <2>2. Cardinality(After!OverdueCloses) = 0 /\ Cardinality(After!In({"blocked"})) = 0
    BY <2>1, FS_EmptySet
  <2>3. ~(Cardinality(After!RequiredCloses) >
            Cardinality(After!In({"closed"})) + Cardinality(After!In({"blocked"}))
            + Cardinality(After!OverdueCloses))
    BY <2>1, SameCount DEF After!CadenceIncomplete
  <2>4. ~(Cardinality(R) > Cardinality(C) + 0 + 0)  BY <2>2, <2>3, Zenon DEF R, C
  <2>. QED  BY <1>5, <2>4
<1>7. /\ IsFiniteSet(U) /\ Cardinality(U) \in Nat /\ Cardinality({}) = 0
      /\ IsFiniteSet(Q) /\ Cardinality(Q) \in Nat
      /\ Cardinality(Q) = IF T \in C THEN Cardinality(C) - 1 ELSE Cardinality(C)
  <2>1. U \subseteq R  BY <1>4
  <2>2. IsFiniteSet(U) /\ Cardinality(U) \in Nat /\ Cardinality({}) = 0
    BY <1>5, <2>1, FS_Subset, FS_CardinalityType, FS_EmptySet
  <2>3. IsFiniteSet(Q) /\ Cardinality(Q) = IF T \in C THEN Cardinality(C) - 1 ELSE Cardinality(C)
    BY <1>5, FS_RemoveElement
  <2>. QED  BY <2>2, <2>3, FS_CardinalityType
<1>8. CASE T < ReviewWindow
  <2>1. R = 0..(T - 1)  BY <1>1, <1>2, <1>8, SettingsAssumption
  <2>2. Q \subseteq R /\ U \subseteq R \ Q /\ (T \in C => daily[T].status = "closed")
    BY <1>1, <1>3, <1>4, <1>5, <2>1
  <2>3. /\ IsFiniteSet(R \ Q) /\ Cardinality(R \ Q) = Cardinality(R) - Cardinality(R \cap Q)
        /\ Cardinality(R \ Q) \in Nat
    BY <1>5, FS_Difference, FS_CardinalityType
  <2>4. R \cap Q = Q  BY <2>2
  <2>5. Cardinality(U) <= Cardinality(R \ Q)  BY <2>2, <2>3, FS_Subset
  <2>. HIDE DEF Q
  <2>6. Cardinality(U) <= Cardinality(R) - Cardinality(Q)  BY <2>3, <2>4, <2>5
  <2>7. CASE T \in C  BY <1>5, <1>6, <1>7, <2>2, <2>6, <2>7 DEF T, U
  <2>8. CASE T \notin C
    <3>1. Cardinality(U) <= 0  BY <1>5, <1>6, <1>7, <2>6, <2>8
    <3>. QED  BY <1>7, <3>1 DEF T, U
  <2>. QED  BY <2>7, <2>8
<1>9. CASE T >= ReviewWindow
  <2>. DEFINE lo == T - ReviewWindow + 1
              W == lo..T
  <2>1. /\ IsFiniteSet(W) /\ Cardinality(W) = ReviewWindow /\ C \subseteq W /\ U \subseteq W
    <3>1. lo \in Int /\ lo <= T + 1 /\ T - lo + 1 = ReviewWindow /\ T \in Int
      BY <1>1, SettingsAssumption
    <3>2. C \subseteq W /\ U \subseteq W  BY <1>1, <1>3, <1>4, SettingsAssumption
    <3>. HIDE DEF lo
    <3>3. IsFiniteSet(lo..T) /\ Cardinality(lo..T) = IF lo > T THEN 0 ELSE T - lo + 1
      BY <3>1, FS_Interval
    <3>. QED  BY <3>1, <3>2, <3>3, SettingsAssumption
  <2>2. Cardinality(R) >= ReviewWindow
    <3>1. 0..(ReviewWindow - 1) \subseteq R  BY <1>1, <1>2, <1>9, SettingsAssumption
    <3>2. Cardinality(0..(ReviewWindow - 1)) = ReviewWindow
      <4>. DEFINE hi == ReviewWindow - 1
      <4>1. hi \in Int /\ hi >= -1 /\ hi + 1 = ReviewWindow  BY SettingsAssumption
      <4>. HIDE DEF hi
      <4>2. Cardinality(0..hi) = IF 0 > hi THEN 0 ELSE hi - 0 + 1  BY <4>1, FS_Interval
      <4>3. Cardinality(0..hi) = ReviewWindow  BY <4>1, <4>2, SettingsAssumption
      <4>. QED  BY <4>3 DEF hi
    <3>3. Cardinality(0..(ReviewWindow - 1)) <= Cardinality(R)  BY <1>5, <3>1, FS_Subset
    <3>. QED  BY <1>5, <3>2, <3>3, SettingsAssumption
  <2>. HIDE DEF lo, W
  <2>3. C = W
    <3>1. Cardinality(C) <= Cardinality(W)  BY <2>1, FS_Subset
    <3>2. Cardinality(C) = Cardinality(W)
      BY <1>5, <1>6, <2>1, <2>2, <3>1, SettingsAssumption
    <3>. QED  BY <2>1, <3>2, FS_Subset
  <2>4. U = {}  BY <1>3, <1>4, <2>1, <2>3
  <2>5. Cardinality(U) = 0  BY <1>7, <2>4
  <2>. QED  BY <2>5 DEF U
<1>. QED  BY <1>1, <1>8, <1>9, SettingsAssumption

LEMMA InitReview == After!Init => ReviewInv
  BY SettingsAssumption DEF After!Init, ReviewInv, DayRow, After!NoClose

LEMMA StepReview ==
    ASSUME ReviewInv, [After!Next]_afterVars
    PROVE  ReviewInv' /\ (ReviewWindow <= StabilizationDays => BlocksUnclosed)
<1>. DEFINE Thm == ReviewInv' /\ (ReviewWindow <= StabilizationDays => BlocksUnclosed)
<1>1. ASSUME UNCHANGED <<now, review, daily>> PROVE Thm
  BY <1>1 DEF ReviewInv, BlocksUnclosed, After!Written
<1>2. ASSUME UNCHANGED <<now, review>>, daily' = [d \in After!Days |-> daily'[d]],
             \A d \in After!Days : daily'[d] \in DayRow
      PROVE  Thm
  BY <1>2 DEF ReviewInv, BlocksUnclosed, After!Written
<1>3. ASSUME NEW old, UNCHANGED <<now, daily>>,
             review' = [review EXCEPT ![After!Today] = IF old THEN @ ELSE After!ReviewStatus]
      PROVE  Thm
  <2>1. ASSUME NEW d \in After!Days, review'[d] # review[d], review'[d] # "blocked"
        PROVE  ~After!Blocked
    BY <1>3, <2>1 DEF ReviewInv, After!ReviewStatus
  <2>2. ReviewWindow <= StabilizationDays => BlocksUnclosed
    BY <2>1, CountedAreClosed, SameCount DEF BlocksUnclosed, After!Written
  <2>3. ReviewInv'  BY <1>3 DEF ReviewInv
  <2>. QED  BY <2>2, <2>3
<1>4. CASE After!Tick
  <2>1. now' = now + 1 /\ now < 2 * LastDay + 1 /\ UNCHANGED <<daily, review>>  BY <1>4 DEF After!Tick
  <2>2. now' \in 0..(2 * LastDay + 1)  BY <2>1, SettingsAssumption DEF ReviewInv
  <2>. QED  BY <2>1, <2>2 DEF ReviewInv, BlocksUnclosed, After!Written
<1>5. CASE After!RefreshReview  BY <1>3, <1>5 DEF After!RefreshReview
<1>6. CASE After!RefreshDueReviews
  BY <1>3, <1>6 DEF After!RefreshDueReviews
<1>7. CASE After!MonitorOverdueCloses
  <2>1. ASSUME NEW d \in After!Days
        PROVE  daily'[d] \in DayRow
    <3>1. After!Overdue(d) \in BOOLEAN  BY DEF After!Overdue, ReviewInv, DayRow
    <3>. DEFINE late == daily[d].overdue \/ After!Overdue(d)
    <3>2. daily'[d] = [daily[d] EXCEPT !.overdue = late]
      BY <1>7 DEF After!MonitorOverdueCloses
    <3>3. daily[d] \in DayRow /\ late \in BOOLEAN  BY DEF ReviewInv
    <3>. HIDE DEF late
    <3>. QED  BY <3>2, <3>3 DEF DayRow
  <2>. QED  BY <1>2, <1>7, <2>1 DEF After!MonitorOverdueCloses
<1>8. ASSUME NEW f \in [After!Days -> After!Prepared], After!PrepareDueCloses(f) PROVE Thm
  <2>1. daily' = [d \in After!Days |-> daily'[d]] /\ UNCHANGED <<now, review>>
    BY <1>8 DEF After!PrepareDueCloses
  <2>2. ASSUME NEW d \in After!Days
        PROVE  daily'[d] \in DayRow
    <3>1. daily[d] \in DayRow /\ f[d] \in {"ready", "blocked"}
      BY <1>8 DEF ReviewInv, After!Prepared
    <3>2. CASE d \notin After!Cadence \/ After!PrepareAt(d) > now
      <4>1. daily'[d] = daily[d]  BY <1>8, <3>2 DEF After!PrepareDueCloses
      <4>. QED  BY <3>1, <4>1
    <3>3. CASE ~(d \notin After!Cadence \/ After!PrepareAt(d) > now)
      <4>. DEFINE s == IF daily[d].status = "none" THEN f[d] ELSE daily[d].status
      <4>1. daily'[d] = [daily[d] EXCEPT !.status = s, !.cadence = TRUE]
        BY <1>8, <3>1, <3>3 DEF After!PrepareDueCloses, DayRow
      <4>2. s \in {"none", "ready", "blocked", "closed", "reopened"}  BY <3>1 DEF DayRow
      <4>. HIDE DEF s
      <4>. QED  BY <3>1, <4>1, <4>2 DEF DayRow
    <3>. QED  BY <3>2, <3>3
  <2>. QED  BY <1>2, <2>1, <2>2
<1>9. ASSUME NEW d \in After!Days, NEW s \in {"ready", "blocked", "closed", "reopened"}, UNCHANGED <<now, review>>,
             daily' = [daily EXCEPT ![d].status = s]
      PROVE  Thm
  <2>1. daily[d] \in DayRow  BY DEF ReviewInv
  <2>2. [daily[d] EXCEPT !.status = s] \in DayRow  BY <2>1 DEF DayRow
  <2>3. daily' = [x \in After!Days |-> daily'[x]] /\ \A x \in After!Days : daily'[x] \in DayRow
    BY <1>9, <2>2 DEF ReviewInv
  <2>4. \A x \in After!Days \ {d} : daily'[x] = daily[x]  BY <1>9 DEF ReviewInv
  <2>. QED  BY <1>2, <1>9, <2>3, <2>4
<1>10. ASSUME NEW d \in After!Days,
              \/ After!CloseFinancialDay(d) \/ After!ReopenFinancialDay(d)
              \/ \E s \in After!Prepared : After!PrepareFinancialClose(d, s)
       PROVE  Thm
  <2>1. CASE After!CloseFinancialDay(d)  BY <1>9, <2>1 DEF After!CloseFinancialDay
  <2>2. CASE After!ReopenFinancialDay(d)  BY <1>9, <2>2 DEF After!ReopenFinancialDay
  <2>3. ASSUME NEW s \in After!Prepared, After!PrepareFinancialClose(d, s) PROVE Thm
    BY <1>9, <2>3 DEF After!PrepareFinancialClose, After!Prepared
  <2>. QED  BY <1>10, <2>1, <2>2, <2>3
<1>11. CASE After!SignalsChange \/ After!CompleteSession \/ UNCHANGED afterVars
  BY <1>1, <1>11 DEF After!SignalsChange, After!CompleteSession, afterVars
<1>. QED
  BY <1>4, <1>5, <1>6, <1>7, <1>8, <1>10, <1>11 DEF After!Next

AfterSpec == After!Init /\ [][After!Next]_afterVars

\* For any stabilization period and any review window that is no longer than it, and
\* whichever days are closed when: a review that does not block was written when every
\* finished stabilization day it can see was closed, but for at most one, in whose place
\* the close of the current day was counted.
THEOREM UnclosedDaysBlock ==
    ASSUME ReviewWindow <= StabilizationDays PROVE AfterSpec => UnclosedDayBlocks
<1>1. ReviewInv /\ [After!Next]_afterVars => ReviewInv' /\ BlocksUnclosed  BY StepReview
<1>. QED
  BY <1>1, InitReview, PTL
     DEF AfterSpec, UnclosedDayBlocks, After!UnclosedDayBlocks, BlocksUnclosed, afterVars, After!plVars

-----------------------------------------------------------------------------
(* The pilot program.                                                      *)

LEMMA TimesKeepsOrder ==
    ASSUME NEW a \in Int, NEW b \in Int, NEW D \in Nat \ {0}
    PROVE  a * D <= b * D <=> a <= b
  OBVIOUS

LEMMA TimesIsInt ==
    ASSUME NEW a \in Int, NEW D \in Nat \ {0}
    PROVE  a * D \in Int /\ (a + 1) * D = a * D + D /\ (a - 1) * D = a * D - D
  OBVIOUS

LEMMA DivBounds ==
    ASSUME NEW n \in Int, NEW D \in Nat \ {0}
    PROVE  /\ n \div D \in Int
           /\ (n \div D) * D <= n /\ n < (n \div D) * D + D
  OBVIOUS

\* Of a run 1..K, those from which on all are good are at least R: then the last R are.
LEMMA LastOfRun ==
    ASSUME NEW K \in Int, NEW R \in Nat \ {0}, NEW good,
           Cardinality({w \in 1..K : \A v \in 1..K : v >= w => good[v]}) >= R
    PROVE  R <= K /\ \A v \in (K - R + 1)..K : good[v]
<1>. DEFINE T == {w \in 1..K : \A v \in 1..K : v >= w => good[v]}
<1>1. T \in SUBSET (1..K)  OBVIOUS
<1>2. ASSUME NEW a \in Int, NEW b \in Int, a <= b + 1
      PROVE  IsFiniteSet(a..b) /\ Cardinality(a..b) = b - a + 1
  <2>1. IsFiniteSet(a..b) /\ Cardinality(a..b) = IF a > b THEN 0 ELSE b - a + 1
    BY FS_Interval
  <2>. QED  BY <1>2, <2>1
<1>3. IsFiniteSet({}) /\ Cardinality({}) = 0  BY FS_EmptySet
<1>4. T # {}
  <2>1. Cardinality(T) # 0  OBVIOUS
  <2>. HIDE DEF T
  <2>. QED  BY <1>3, <2>1
<1>5. K >= 1  BY <1>1, <1>4
<1>6. IsFiniteSet(1..K) /\ Cardinality(1..K) = K  BY <1>2, <1>5
<1>7. Cardinality(T) <= K
  <2>. HIDE DEF T
  <2>1. Cardinality(T) <= Cardinality(1..K)  BY <1>1, <1>6, FS_Subset
  <2>. QED  BY <1>6, <2>1
<1>8. Cardinality(T) \in Nat
  <2>. HIDE DEF T
  <2>1. IsFiniteSet(T)  BY <1>1, <1>6, FS_Subset
  <2>. QED  BY <2>1, FS_CardinalityType
<1>9. Cardinality(T) >= R  OBVIOUS
<1>. HIDE DEF T
<1>10. R <= K  BY <1>7, <1>8, <1>9
<1>11. K - R + 1 \in T
  <2>. DEFINE first == K - R + 1
  <2>1. first \in 1..K  BY <1>10
  <2>2. ASSUME first \notin T PROVE FALSE
    <3>1. T \in SUBSET ((first + 1)..K)
      BY <2>1, <2>2 DEF T
    <3>2. IsFiniteSet((first + 1)..K) /\ Cardinality((first + 1)..K) = K - (first + 1) + 1
      <4>1. first + 1 \in Int /\ first + 1 <= K + 1  BY <2>1
      <4>. HIDE DEF first
      <4>. QED  BY <1>2, <4>1
    <3>3. Cardinality(T) <= Cardinality((first + 1)..K)
      <4>. HIDE DEF first
      <4>. QED  BY <3>1, <3>2, FS_Subset
    <3>. QED  BY <1>8, <1>9, <3>2, <3>3
  <2>. QED  BY <2>2
<1>12. \A v \in (K - R + 1)..K : good[v]  BY <1>10, <1>11 DEF T
<1>. QED  BY <1>10, <1>12

ProgramRow == [status : {"absent", "planned", "active", "completed"}, start : Int, end : Int]
WeekRow == [full : BOOLEAN, complete : BOOLEAN, passed : BOOLEAN]

\* Week w of program r has begun by day t, or by the program's end.
Begun(r, w, t) == Pilot!WeekStart(r, w) <= Pilot!Least(t, r.end)

\* A snapshot is of a week that has begun; a week that has begun stays so, as a program
\* can only be cut to the present day.
SnapshotsBegun(rows, r, t) ==
    /\ rows = [w \in Pilot!Weeks |-> rows[w]]
    /\ \A w \in Pilot!Weeks : rows[w] \in WeekRow /\ (rows[w].full => r.status # "absent" /\ Begun(r, w, t))

ProgramsFit ==
    /\ program \in [Programs -> ProgramRow]
    /\ \A p \in Programs : /\ program[p].start \in Pilot!Days \cup {0} /\ program[p].end <= Pilot!Open
                           /\ program[p].status = "completed" => program[p].end <= today

PilotInv ==
    /\ today \in Int /\ today <= LastPilotDay
    /\ ProgramsFit
    /\ day \in [Pilot!Days -> {"none", "good", "bad"}]
    /\ snapshot = [p \in Programs |-> snapshot[p]]
    /\ \A p \in Programs : SnapshotsBegun(snapshot[p], program[p], today)
    /\ refresh.on =>
         /\ refresh.program \in Programs /\ program[refresh.program].status # "absent"
         /\ \A w \in Pilot!Weeks :
               /\ refresh.new[w] \in WeekRow /\ refresh.old[w] \in WeekRow
               /\ refresh.new[w].full => Begun(program[refresh.program], w, today)

LEMMA InitPilot == Pilot!Init => PilotInv
<1>. SUFFICES ASSUME Pilot!Init PROVE PilotInv  OBVIOUS
<1>1. Pilot!NoSnapshot \in WeekRow /\ ~Pilot!NoSnapshot.full  BY DEF WeekRow, Pilot!NoSnapshot
<1>2. ASSUME NEW p \in Programs PROVE SnapshotsBegun(snapshot[p], program[p], today)
  BY <1>1 DEF Pilot!Init, SnapshotsBegun
<1>3. ProgramsFit
  BY SettingsAssumption DEF Pilot!Init, ProgramsFit, Pilot!NoProgram, ProgramRow, Pilot!Open
<1>. QED  BY <1>2, <1>3, SettingsAssumption DEF Pilot!Init, PilotInv, Pilot!Idle

LEMMA WeekIsInt ==
    ASSUME NEW r \in ProgramRow, NEW w \in Pilot!Weeks, NEW t \in Int
    PROVE  /\ w \in Int /\ Pilot!WeekStart(r, w) \in Int
           /\ Pilot!Least(t, r.end) \in Int
           /\ Pilot!WeekEnd(r, w) \in Int
<1>1. w \in Int /\ w - 1 \in Int  BY DEF Pilot!Weeks
<1>2. r.start \in Int /\ r.end \in Int  BY DEF ProgramRow
<1>3. (w - 1) * WeekDays \in Int  BY <1>1, SettingsAssumption, TimesIsInt
<1>. QED  BY <1>1, <1>2, <1>3, SettingsAssumption DEF Pilot!WeekStart, Pilot!Least, Pilot!WeekEnd

LEMMA BegunStays ==
    ASSUME NEW r \in ProgramRow, NEW s \in ProgramRow, NEW w \in Pilot!Weeks, NEW t \in Int, NEW u \in Int,
           Begun(r, w, t), t <= u, s.start = r.start, s.end = r.end \/ s.end = Pilot!Least(r.end, t)
    PROVE  Begun(s, w, u)
<1>1. r.end \in Int /\ s.end \in Int  BY DEF ProgramRow
<1>2. Pilot!WeekStart(s, w) = Pilot!WeekStart(r, w)  BY DEF Pilot!WeekStart
<1>3. Pilot!WeekStart(r, w) \in Int  BY WeekIsInt
<1>4. Pilot!Least(t, r.end) <= Pilot!Least(u, s.end)  BY <1>1 DEF Pilot!Least
<1>. QED  BY <1>1, <1>2, <1>3, <1>4 DEF Begun, Pilot!Least

LEMMA WeekValuesRow ==
    ASSUME NEW r, NEW w PROVE Pilot!WeekValues(r, w) \in WeekRow
  BY DEF Pilot!WeekValues, WeekRow

\* A refresh writes rows of weeks that have begun.
LEMMA RefreshedBegun ==
    ASSUME NEW r \in ProgramRow, r.status # "absent", today \in Int, NEW rows, SnapshotsBegun(rows, r, today)
    PROVE  SnapshotsBegun(Pilot!Refreshed(r, rows), r, today)
<1>. DEFINE new == Pilot!Refreshed(r, rows)
<1>1. new = [w \in Pilot!Weeks |-> IF w \in Pilot!Included(r) THEN Pilot!WeekValues(r, w) ELSE rows[w]]
  BY DEF Pilot!Refreshed
<1>2. ASSUME NEW w \in Pilot!Weeks PROVE new[w] \in WeekRow /\ (new[w].full => Begun(r, w, today))
  <2>1. CASE w \in Pilot!Included(r)
    <3>1. new[w] \in WeekRow  BY <1>1, <2>1, WeekValuesRow
    <3>. QED  BY <2>1, <3>1 DEF Pilot!Included, Begun
  <2>2. CASE w \notin Pilot!Included(r)
    <3>1. new[w] = rows[w]  BY <1>1, <2>2
    <3>. QED  BY <3>1 DEF SnapshotsBegun
  <2>. QED  BY <2>1, <2>2
<1>3. new = [w \in Pilot!Weeks |-> new[w]]  BY <1>1
<1>. HIDE DEF new
<1>4. SnapshotsBegun(new, r, today)  BY <1>2, <1>3 DEF SnapshotsBegun
<1>. QED  BY <1>4 DEF new

\* A handler that changes one program, keeps its weeks begun, and refreshes it or not.
LEMMA ProgramChanges ==
    ASSUME PilotInv, NEW p \in Programs, NEW r \in ProgramRow, r.status # "absent",
           r.start \in Pilot!Days \cup {0}, r.end <= Pilot!Open, r.status = "completed" => r.end <= today,
           program[p].status # "absent" =>
             r.start = program[p].start /\ (r.end = program[p].end \/ r.end = Pilot!Least(program[p].end, today)),
           program' = [program EXCEPT ![p] = r], UNCHANGED <<today, day, refresh>>,
           snapshot' = snapshot \/ snapshot' = [snapshot EXCEPT ![p] = Pilot!Refreshed(r, @)]
    PROVE  PilotInv'
<1>1. /\ program' \in [Programs -> ProgramRow] /\ program'[p] = r
      /\ \A x \in Programs : x # p => program'[x] = program[x]
  BY DEF PilotInv, ProgramsFit
<1>2. ProgramsFit'  BY <1>1 DEF PilotInv, ProgramsFit
<1>3. ASSUME NEW w \in Pilot!Weeks, program[p].status # "absent", Begun(program[p], w, today)
      PROVE  Begun(r, w, today)
  <2>1. program[p] \in ProgramRow /\ today \in Int  BY DEF PilotInv, ProgramsFit
  <2>. QED  BY <1>3, <2>1, BegunStays
<1>4. SnapshotsBegun(snapshot[p], r, today)
  <2>1. SnapshotsBegun(snapshot[p], program[p], today)  BY DEF PilotInv
  <2>. QED  BY <1>3, <2>1 DEF SnapshotsBegun
<1>5. SnapshotsBegun(Pilot!Refreshed(r, snapshot[p]), r, today)
  BY <1>4, RefreshedBegun DEF PilotInv
<1>6. snapshot' = [x \in Programs |-> snapshot'[x]] /\ \A x \in Programs : x # p => snapshot'[x] = snapshot[x]
  BY DEF PilotInv
<1>7. snapshot'[p] = snapshot[p] \/ snapshot'[p] = Pilot!Refreshed(r, snapshot[p])
  BY DEF PilotInv
<1>8. ASSUME NEW x \in Programs PROVE SnapshotsBegun(snapshot'[x], program'[x], today)
  BY <1>1, <1>4, <1>5, <1>6, <1>7 DEF PilotInv
<1>9. ASSUME refresh.on, NEW w \in Pilot!Weeks, refresh.new[w].full
      PROVE  Begun(program'[refresh.program], w, today)
  BY <1>1, <1>3, <1>9 DEF PilotInv
<1>10. refresh.on => refresh.program \in Programs /\ program'[refresh.program].status # "absent"
  BY <1>1 DEF PilotInv
<1>. QED  BY <1>2, <1>6, <1>8, <1>9, <1>10 DEF PilotInv

LEMMA SnapshotSaved ==
    ASSUME PilotInv, NEW p \in Programs, program[p].status # "absent", UNCHANGED <<today, program, day>>,
           NEW rows, SnapshotsBegun(rows, program[p], today), snapshot' = [snapshot EXCEPT ![p] = rows],
           refresh' = refresh \/ refresh' = Pilot!Idle
    PROVE  PilotInv'
<1>1. snapshot' = [x \in Programs |-> snapshot'[x]] /\ snapshot'[p] = rows
      /\ \A x \in Programs : x # p => snapshot'[x] = snapshot[x]
  BY DEF PilotInv
<1>2. ASSUME NEW x \in Programs PROVE SnapshotsBegun(snapshot'[x], program'[x], today')
  BY <1>1 DEF PilotInv
<1>3. ProgramsFit'  BY DEF PilotInv, ProgramsFit
<1>4. refresh'.on => refresh' = refresh  BY DEF Pilot!Idle
<1>. QED  BY <1>1, <1>2, <1>3, <1>4 DEF PilotInv

LEMMA StepPilot == PilotInv /\ [Pilot!Next]_pilotVars => PilotInv'
<1>. SUFFICES ASSUME PilotInv, [Pilot!Next]_pilotVars PROVE PilotInv'  OBVIOUS
<1>1. CASE Pilot!NextDay
  <2>1. today' = today + 1 /\ today < LastPilotDay /\ UNCHANGED <<program, day, snapshot, refresh>>
    BY <1>1 DEF Pilot!NextDay
  <2>2. today \in Int /\ today' \in Int /\ today' <= LastPilotDay
    BY <2>1, SettingsAssumption DEF PilotInv
  <2>3. ASSUME NEW p \in Programs, NEW w \in Pilot!Weeks, Begun(program[p], w, today)
        PROVE  Begun(program[p], w, today')
    <3>1. program[p] \in ProgramRow  BY DEF PilotInv, ProgramsFit
    <3>. QED  BY <2>1, <2>2, <2>3, <3>1, BegunStays
  <2>4. ProgramsFit'
    BY <2>1, <2>2 DEF PilotInv, ProgramsFit, ProgramRow
  <2>5. \A p \in Programs : SnapshotsBegun(snapshot[p], program[p], today')
    BY <2>3 DEF PilotInv, SnapshotsBegun
  <2>. QED  BY <2>1, <2>2, <2>3, <2>4, <2>5 DEF PilotInv
<1>2. CASE Pilot!HurdleChanges \/ \E type \in Pilot!Mandatory, passed \in BOOLEAN : Pilot!UpsertEvidence(type, passed)
  <2>1. UNCHANGED <<today, program, day, snapshot, refresh>>
    BY <1>2 DEF Pilot!HurdleChanges, Pilot!UpsertEvidence
  <2>. QED  BY <2>1 DEF PilotInv, ProgramsFit
<1>3. CASE UNCHANGED pilotVars
  BY <1>3 DEF pilotVars, PilotInv, ProgramsFit
<1>4. ASSUME NEW d \in Pilot!Days, NEW how \in {"good", "bad"}, Pilot!DayGoes(d, how) PROVE PilotInv'
  <2>1. UNCHANGED <<today, program, snapshot, refresh>> /\ day' = [day EXCEPT ![d] = how]
    BY <1>4 DEF Pilot!DayGoes
  <2>2. day' \in [Pilot!Days -> {"none", "good", "bad"}]  BY <2>1 DEF PilotInv
  <2>. QED  BY <2>1, <2>2 DEF PilotInv, ProgramsFit
<1>5. CASE Pilot!CommitWeeks
  <2>. DEFINE p == refresh.program
              rows == [w \in Pilot!Weeks |-> [f \in DOMAIN Pilot!NoSnapshot |->
                         IF refresh.new[w][f] = refresh.old[w][f] THEN snapshot[p][w][f] ELSE refresh.new[w][f]]]
  <2>1. /\ refresh.on /\ snapshot' = [snapshot EXCEPT ![p] = rows] /\ refresh' = Pilot!Idle
        /\ UNCHANGED <<today, program, day>>
    BY <1>5 DEF Pilot!CommitWeeks, PilotInv
  <2>2. p \in Programs /\ program[p].status # "absent" /\ SnapshotsBegun(snapshot[p], program[p], today)
    BY <2>1 DEF PilotInv
  <2>3. ASSUME NEW w \in Pilot!Weeks
        PROVE  rows[w] \in WeekRow /\ (rows[w].full => Begun(program[p], w, today))
    <3>1. /\ refresh.new[w] \in WeekRow /\ snapshot[p][w] \in WeekRow
          /\ (refresh.new[w].full => Begun(program[p], w, today))
          /\ (snapshot[p][w].full => Begun(program[p], w, today))
      BY <2>1, <2>2 DEF PilotInv, SnapshotsBegun
    <3>2. rows[w] = [f \in {"full", "complete", "passed"} |->
                       IF refresh.new[w][f] = refresh.old[w][f] THEN snapshot[p][w][f] ELSE refresh.new[w][f]]
      BY DEF Pilot!NoSnapshot
    <3>. HIDE DEF rows
    <3>3. rows[w] \in WeekRow  BY <3>1, <3>2 DEF WeekRow
    <3>4. rows[w].full = snapshot[p][w].full \/ rows[w].full = refresh.new[w].full  BY <3>2
    <3>. QED  BY <3>1, <3>3, <3>4
  <2>4. rows = [w \in Pilot!Weeks |-> rows[w]]  OBVIOUS
  <2>. HIDE DEF rows
  <2>5. SnapshotsBegun(rows, program[p], today)  BY <2>2, <2>3, <2>4 DEF SnapshotsBegun
  <2>. QED  BY <2>1, <2>2, <2>5, SnapshotSaved
<1>6. ASSUME NEW p \in Programs, NEW start \in Pilot!Days, NEW end \in Pilot!Days \cup {Pilot!Open},
             Pilot!CreateProgram(p, start, end)
      PROVE  PilotInv'
  <2>. DEFINE r == [status |-> "planned", start |-> start, end |-> end]
  <2>1. /\ program[p].status = "absent" /\ program' = [program EXCEPT ![p] = r]
        /\ UNCHANGED <<today, day, snapshot, refresh>>
    BY <1>6 DEF Pilot!CreateProgram
  <2>2. /\ r \in ProgramRow /\ r.status = "planned" /\ r.start \in Pilot!Days \cup {0}
        /\ r.end <= Pilot!Open
    BY SettingsAssumption DEF ProgramRow, Pilot!Days, Pilot!Open
  <2>. HIDE DEF r
  <2>. QED  BY <2>1, <2>2, ProgramChanges
<1>7. ASSUME NEW p \in Programs, Pilot!Activate(p) PROVE PilotInv'
  <2>. DEFINE r == [program[p] EXCEPT !.status = "active"]
  <2>1. /\ program[p].status = "planned" /\ program' = [program EXCEPT ![p] = r]
        /\ snapshot' = [snapshot EXCEPT ![p] = Pilot!Refreshed(r, @)] /\ UNCHANGED <<today, day, refresh>>
    BY <1>7 DEF Pilot!Activate, Pilot!Saved
  <2>2. /\ r \in ProgramRow /\ r.status = "active" /\ r.start \in Pilot!Days \cup {0}
        /\ r.end <= Pilot!Open /\ r.start = program[p].start /\ r.end = program[p].end
    BY DEF PilotInv, ProgramsFit, ProgramRow
  <2>. HIDE DEF r
  <2>. QED  BY <2>1, <2>2, ProgramChanges
<1>8. ASSUME NEW p \in Programs, Pilot!Complete(p) PROVE PilotInv'
  <2>. DEFINE r == [program[p] EXCEPT !.status = "completed", !.end = Pilot!Least(@, today)]
  <2>1. /\ program[p].status # "absent" /\ program' = [program EXCEPT ![p] = r]
        /\ snapshot' = [snapshot EXCEPT ![p] = Pilot!Refreshed(r, @)] /\ UNCHANGED <<today, day, refresh>>
    BY <1>8 DEF Pilot!Complete, Pilot!Saved
  <2>2. program[p] \in ProgramRow /\ program[p].start \in Pilot!Days \cup {0} /\ program[p].end <= Pilot!Open
        /\ today \in Int
    BY DEF PilotInv, ProgramsFit
  <2>3. /\ Pilot!Least(program[p].end, today) \in Int /\ Pilot!Least(program[p].end, today) <= today
        /\ Pilot!Least(program[p].end, today) <= program[p].end
    BY <2>2 DEF Pilot!Least, ProgramRow
  <2>4. /\ r \in ProgramRow /\ r.status = "completed" /\ r.start = program[p].start
        /\ r.end = Pilot!Least(program[p].end, today)
    BY <2>2, <2>3 DEF ProgramRow
  <2>5. r.end <= Pilot!Open /\ r.end <= today
    BY <2>2, <2>3, <2>4, SettingsAssumption DEF Pilot!Open, ProgramRow
  <2>. HIDE DEF r
  <2>. QED  BY <2>1, <2>2, <2>4, <2>5, ProgramChanges
<1>9. ASSUME NEW p \in Programs, Pilot!ReadWeeks(p) PROVE PilotInv'
  <2>. DEFINE new == Pilot!Refreshed(program[p], snapshot[p])
  <2>1. /\ program[p].status = "active" /\ UNCHANGED <<today, program, day, snapshot>>
        /\ refresh' = [on |-> TRUE, program |-> p, old |-> snapshot[p], new |-> new]
    BY <1>9 DEF Pilot!ReadWeeks
  <2>2. program[p] \in ProgramRow /\ today \in Int /\ SnapshotsBegun(snapshot[p], program[p], today)
    BY DEF PilotInv, ProgramsFit
  <2>3. SnapshotsBegun(new, program[p], today)  BY <2>1, <2>2, RefreshedBegun
  <2>. HIDE DEF new
  <2>4. refresh'.program = p /\ refresh'.new = new /\ refresh'.old = snapshot[p]  BY <2>1
  <2>. QED  BY <2>1, <2>2, <2>3, <2>4 DEF PilotInv, ProgramsFit, SnapshotsBegun
<1>10. ASSUME NEW p \in Programs, Pilot!PostPilotReport(p) PROVE PilotInv'
  <2>. DEFINE rows == Pilot!Refreshed(program[p], snapshot[p])
  <2>1. /\ program[p].status # "absent" /\ UNCHANGED <<today, program, day, refresh>>
        /\ snapshot' = [snapshot EXCEPT ![p] = rows]
    BY <1>10 DEF Pilot!PostPilotReport
  <2>2. program[p] \in ProgramRow /\ today \in Int /\ SnapshotsBegun(snapshot[p], program[p], today)
    BY DEF PilotInv, ProgramsFit
  <2>3. SnapshotsBegun(rows, program[p], today)  BY <2>1, <2>2, RefreshedBegun
  <2>. HIDE DEF rows
  <2>. QED  BY <2>1, <2>3, SnapshotSaved
<1>. QED
  BY <1>1, <1>2, <1>3, <1>4, <1>5, <1>6, <1>7, <1>8, <1>9, <1>10 DEF Pilot!Next

\* The whole weeks of a program that has ended are 1..K, and a refresh finds them full
\* and complete, and no other.
\* What the columns of a week's snapshot say.
LEMMA WeekFields ==
    ASSUME NEW r, NEW w
    PROVE  LET v == Pilot!WeekValues(r, w)
               days == {d \in Pilot!Days : Pilot!WeekStart(r, w) <= d /\ d <= Pilot!WeekEnd(r, w)}
           IN /\ v.full <=> Pilot!WeekEnd(r, w) - Pilot!WeekStart(r, w) = WeekDays - 1
              /\ v.complete <=> \/ today > Pilot!WeekEnd(r, w)
                                \/ r.status = "completed" /\ r.end >= Pilot!WeekEnd(r, w)
              /\ v.passed => (\E d \in days : day[d] # "none") /\ \A d \in days : day[d] # "bad"
<1>. DEFINE days == {d \in Pilot!Days : Pilot!WeekStart(r, w) <= d /\ d <= Pilot!WeekEnd(r, w)}
            full == Pilot!WeekEnd(r, w) - Pilot!WeekStart(r, w) = WeekDays - 1
            complete == \/ today > Pilot!WeekEnd(r, w)
                        \/ r.status = "completed" /\ r.end >= Pilot!WeekEnd(r, w)
            ran == \E d \in days : day[d] # "none"
            clean == \A d \in days : day[d] # "bad"
<1>1. Pilot!WeekValues(r, w) = [full |-> full, complete |-> complete,
                                passed |-> (full /\ complete /\ ran) /\ clean]
  BY Zenon DEF Pilot!WeekValues
<1>. HIDE DEF full, complete, ran, clean
<1>2. /\ Pilot!WeekValues(r, w).full = full /\ Pilot!WeekValues(r, w).complete = complete
      /\ Pilot!WeekValues(r, w).passed = ((full /\ complete /\ ran) /\ clean)
  BY <1>1
<1>. QED  BY Zenon, <1>2 DEF full, complete, ran, clean

LEMMA EligibleWeeks ==
    ASSUME PilotInv, NEW p \in Programs, program[p].status = "completed"
    PROVE  LET r == program[p]
               K == Pilot!WholeWeeks(r, r.end)
           IN /\ K \in Int /\ Pilot!Eligible(Pilot!Refreshed(r, snapshot[p])) = 1..K
              /\ \A w \in 1..K : /\ Pilot!Refreshed(r, snapshot[p])[w] = Pilot!WeekValues(r, w)
                                 /\ Pilot!WeekEnd(r, w) = Pilot!WeekStart(r, w) + WeekDays - 1
<1>. DEFINE r == program[p]
            n == r.end - r.start + 1
            K == Pilot!WholeWeeks(r, r.end)
            rows == Pilot!Refreshed(r, snapshot[p])
            top == LastPilotDay \div WeekDays + 1
<1>1. r \in ProgramRow /\ r.start \in Int /\ r.start >= 0 /\ r.end \in Int /\ r.end <= today /\ today \in Int
      /\ today <= LastPilotDay
  BY SettingsAssumption DEF PilotInv, ProgramsFit, ProgramRow, Pilot!Days
<1>2. n \in Int /\ n <= LastPilotDay + 1 /\ K = n \div WeekDays
  BY <1>1, SettingsAssumption DEF Pilot!WholeWeeks
<1>3. K \in Int /\ K * WeekDays <= n /\ n < K * WeekDays + WeekDays
  BY <1>2, SettingsAssumption, DivBounds
<1>4. top \in Int /\ LastPilotDay + 1 <= top * WeekDays
  <2>. DEFINE m == LastPilotDay \div WeekDays
  <2>1. m \in Int /\ LastPilotDay < m * WeekDays + WeekDays  BY SettingsAssumption, DivBounds
  <2>2. (m + 1) * WeekDays = m * WeekDays + WeekDays /\ m * WeekDays \in Int
    BY <2>1, SettingsAssumption, TimesIsInt
  <2>. HIDE DEF m
  <2>3. LastPilotDay + 1 <= (m + 1) * WeekDays  BY <2>1, <2>2, SettingsAssumption
  <2>. QED  BY <2>1, <2>3 DEF m
<1>5. Pilot!Weeks = 1..top  BY DEF Pilot!Weeks
<1>. HIDE DEF n, K, top
<1>6. K <= top
  <2>1. K * WeekDays \in Int /\ top * WeekDays \in Int  BY <1>3, <1>4, SettingsAssumption, TimesIsInt
  <2>2. K * WeekDays <= top * WeekDays  BY <1>2, <1>3, <1>4, <2>1, SettingsAssumption
  <2>. QED  BY <1>3, <1>4, <2>2, SettingsAssumption, TimesKeepsOrder
<1>7. ASSUME NEW w \in Pilot!Weeks
      PROVE  /\ w \in Int /\ w * WeekDays \in Int
             /\ Pilot!WeekStart(r, w) = r.start + w * WeekDays - WeekDays
             /\ (w <= K <=> w * WeekDays <= n)
  <2>1. w \in Int /\ w * WeekDays \in Int /\ (w - 1) * WeekDays = w * WeekDays - WeekDays
    BY <1>4, <1>5, SettingsAssumption, TimesIsInt
  <2>2. Pilot!WeekStart(r, w) = r.start + w * WeekDays - WeekDays
    BY <1>1, <2>1, SettingsAssumption DEF Pilot!WeekStart
  <2>3. K * WeekDays \in Int /\ (K + 1) * WeekDays = K * WeekDays + WeekDays
    BY <1>3, SettingsAssumption, TimesIsInt
  <2>4. w <= K => w * WeekDays <= n
    <3>1. w <= K => w * WeekDays <= K * WeekDays  BY <1>3, <2>1, SettingsAssumption, TimesKeepsOrder
    <3>. QED  BY <1>2, <1>3, <2>1, <2>3, <3>1
  <2>5. ~(w <= K) => ~(w * WeekDays <= n)
    <3>1. ~(w <= K) => K + 1 <= w  BY <1>3, <2>1
    <3>2. K + 1 <= w => (K + 1) * WeekDays <= w * WeekDays
      <4>1. K + 1 \in Int  BY <1>3
      <4>. QED  BY <2>1, <4>1, SettingsAssumption, TimesKeepsOrder
    <3>. QED  BY <1>2, <1>3, <2>1, <2>3, <3>1, <3>2, SettingsAssumption
  <2>. QED  BY <2>1, <2>2, <2>4, <2>5
<1>8. ASSUME NEW w \in Pilot!Weeks, w \in Pilot!Included(r)
      PROVE  /\ rows[w] = Pilot!WeekValues(r, w) /\ rows[w].complete
             /\ (rows[w].full <=> w <= K)
             /\ (w <= K => Pilot!WeekEnd(r, w) = Pilot!WeekStart(r, w) + WeekDays - 1)
  <2>1. rows[w] = Pilot!WeekValues(r, w)  BY <1>8 DEF Pilot!Refreshed
  <2>2. Pilot!WeekEnd(r, w) = (IF Pilot!WeekStart(r, w) + WeekDays - 1 < r.end
                               THEN Pilot!WeekStart(r, w) + WeekDays - 1 ELSE r.end)
    BY DEF Pilot!WeekEnd, Pilot!Least
  <2>3. Pilot!WeekStart(r, w) \in Int /\ Pilot!WeekStart(r, w) + WeekDays - 1 = r.start + w * WeekDays - 1
    BY <1>1, <1>7, SettingsAssumption
  <2>4. w <= K <=> Pilot!WeekStart(r, w) + WeekDays - 1 <= r.end
    BY <1>1, <1>7, <2>3 DEF n
  <2>5. Pilot!WeekEnd(r, w) <= r.end /\ Pilot!WeekEnd(r, w) \in Int  BY <1>1, <2>2, <2>3, SettingsAssumption
  <2>6. rows[w].complete  BY <1>1, <2>1, <2>5, WeekFields
  <2>7. rows[w].full <=> Pilot!WeekEnd(r, w) - Pilot!WeekStart(r, w) = WeekDays - 1
    BY <2>1, WeekFields
  <2>8. w <= K <=> Pilot!WeekEnd(r, w) = Pilot!WeekStart(r, w) + WeekDays - 1
    BY <1>1, <2>2, <2>3, <2>4, SettingsAssumption
  <2>9. rows[w].full <=> w <= K  BY <2>3, <2>5, <2>7, <2>8, SettingsAssumption
  <2>. QED  BY <2>1, <2>6, <2>8, <2>9
<1>9. ASSUME NEW w \in Pilot!Weeks, w <= K PROVE w \in Pilot!Included(r)
  <2>1. Pilot!WeekStart(r, w) <= r.end  BY <1>1, <1>7, <1>9, SettingsAssumption DEF n
  <2>2. Pilot!WeekStart(r, w) \in Int  BY <1>1, <1>7, SettingsAssumption
  <2>. QED  BY <1>1, <2>1, <2>2 DEF Pilot!Included, Pilot!Least
<1>10. ASSUME NEW w \in Pilot!Weeks, w \notin Pilot!Included(r) PROVE ~rows[w].full
  <2>1. rows[w] = snapshot[p][w]  BY <1>10 DEF Pilot!Refreshed
  <2>2. rows[w].full => Begun(r, w, today)  BY <2>1 DEF PilotInv, SnapshotsBegun
  <2>. QED  BY <1>10, <2>2 DEF Begun, Pilot!Included
<1>11. Pilot!Eligible(rows) = {w \in Pilot!Weeks : w <= K}
  BY <1>8, <1>9, <1>10 DEF Pilot!Eligible
<1>12. Pilot!Eligible(rows) = 1..K  BY <1>3, <1>4, <1>5, <1>6, <1>11
<1>13. \A w \in 1..K : w \in Pilot!Weeks /\ w <= K  BY <1>3, <1>4, <1>5, <1>6
<1>14. \A w \in 1..K : /\ rows[w] = Pilot!WeekValues(r, w)
                       /\ Pilot!WeekEnd(r, w) = Pilot!WeekStart(r, w) + WeekDays - 1
  BY <1>8, <1>9, <1>13
<1>. QED  BY <1>3, <1>12, <1>14 DEF K

LEMMA Between ==
    ASSUME NEW a \in Int, NEW b \in Int, NEW s \in Int, NEW d \in Int, s + a <= d, d < s + b
    PROVE  ~(b <= a)
  OBVIOUS

\* A report that says the service may scale.
LEMMA ReportOnWholeWeeks ==
    ASSUME PilotInv, NEW p \in Programs, Pilot!PostPilotReport(p), report'.scale
    PROVE  LET r == program[p]
           IN /\ r.status = "completed" /\ Pilot!WholeWeeks(r, r.end) >= RequiredWeeks
              /\ \A d \in Pilot!DaysOf(r, RequiredWeeks) : day[d] # "bad"
              /\ \E d \in Pilot!DaysOf(r, RequiredWeeks) : day[d] = "good"
<1>. DEFINE r == program[p]
            R == RequiredWeeks
            W == WeekDays
            K == Pilot!WholeWeeks(r, r.end)
            rows == Pilot!Refreshed(r, snapshot[p])
            good == [v \in 1..K |-> rows[v].passed]
            inWeek(w) == {d \in Pilot!Days : Pilot!WeekStart(r, w) <= d /\ d <= Pilot!WeekEnd(r, w)}
<1>1. r.status = "completed" /\ Pilot!Current(rows) >= R  BY DEF Pilot!PostPilotReport
<1>2. /\ K \in Int /\ Pilot!Eligible(rows) = 1..K
      /\ \A w \in 1..K : rows[w] = Pilot!WeekValues(r, w) /\ Pilot!WeekEnd(r, w) = Pilot!WeekStart(r, w) + W - 1
  BY <1>1, EligibleWeeks
<1>3. r.start \in Int /\ r.end \in Int /\ day \in [Pilot!Days -> {"none", "good", "bad"}]
  BY DEF PilotInv, ProgramsFit, ProgramRow
<1>4. ASSUME NEW S PROVE Pilot!Cardinality(S) = Cardinality(S)
  BY DEF Pilot!Cardinality, Cardinality, Pilot!IsFiniteSet, IsFiniteSet
<1>5. \A d \in Pilot!DaysOf(r, R) : d \in Pilot!Days /\ d \in Int
      /\ r.start + (K - R) * W <= d /\ d < r.start + K * W
  BY SettingsAssumption DEF Pilot!DaysOf, Pilot!Days
<1>6. \A d \in Pilot!Days : r.start + (K - R) * W <= d /\ d < r.start + K * W => d \in Pilot!DaysOf(r, R)
  BY DEF Pilot!DaysOf
<1>7. R \in Nat \ {0} /\ W \in Nat \ {0}  BY SettingsAssumption
<1>8. Pilot!Current(rows) = Cardinality({w \in 1..K : \A v \in 1..K : v >= w => good[v]})
  <2>1. Pilot!Current(rows) = Pilot!Cardinality({w \in 1..K : \A v \in 1..K : v >= w => rows[v].passed})
    BY Zenon, <1>2 DEF Pilot!Current
  <2>2. {w \in 1..K : \A v \in 1..K : v >= w => rows[v].passed}
          = {w \in 1..K : \A v \in 1..K : v >= w => good[v]}
    OBVIOUS
  <2>. HIDE DEF good, rows, K
  <2>. QED  BY <1>4, <2>1, <2>2
<1>9. R <= K /\ \A v \in (K - R + 1)..K : good[v]
  <2>. HIDE DEF good, rows, K, R
  <2>1. Cardinality({w \in 1..K : \A v \in 1..K : v >= w => good[v]}) >= R  BY <1>1, <1>8
  <2>. QED  BY <1>2, <1>7, <2>1, LastOfRun
<1>10. ASSUME NEW w \in (K - R + 1)..K
       PROVE  /\ \E d \in inWeek(w) : day[d] # "none"
              /\ \A d \in inWeek(w) : day[d] # "bad"
  <2>1. w \in 1..K  BY <1>2, <1>7, <1>9
  <2>2. rows[w].passed /\ rows[w] = Pilot!WeekValues(r, w)  BY <1>2, <1>9, <1>10, <2>1
  <2>3. Pilot!WeekValues(r, w).passed  BY <2>2
  <2>. HIDE DEF rows, K, R
  <2>. QED  BY <2>3, WeekFields
<1>11. ASSUME NEW w \in (K - R + 1)..K
       PROVE  /\ w \in Int /\ w * W \in Int
              /\ Pilot!WeekStart(r, w) = r.start + w * W - W /\ Pilot!WeekEnd(r, w) = r.start + w * W - 1
  <2>1. w \in 1..K /\ w \in Int  BY <1>2, <1>7, <1>9
  <2>2. w * W \in Int /\ (w - 1) * W = w * W - W  BY <1>7, <2>1, TimesIsInt
  <2>3. Pilot!WeekStart(r, w) = r.start + w * W - W  BY <1>3, <1>7, <2>2 DEF Pilot!WeekStart
  <2>4. Pilot!WeekEnd(r, w) = Pilot!WeekStart(r, w) + W - 1  BY <1>2, <2>1
  <2>. HIDE DEF K, R
  <2>. QED  BY <1>3, <1>7, <2>1, <2>2, <2>3, <2>4
<1>. HIDE DEF rows, good, K, R, W
<1>12. ASSUME NEW d \in Pilot!DaysOf(r, R) PROVE day[d] # "bad"
  <2>. DEFINE q == (d - r.start) \div W
  <2>1. q \in Int /\ q * W <= d - r.start /\ d - r.start < q * W + W
    <3>1. d - r.start \in Int  BY <1>3, <1>5
    <3>. HIDE DEF r
    <3>. QED  BY <1>7, <3>1, DivBounds
  <2>. HIDE DEF q
  <2>2. q * W \in Int /\ (q + 1) * W = q * W + W  BY <1>7, <2>1, TimesIsInt
  <2>3. K * W \in Int /\ (K - R) * W \in Int /\ K - R \in Int  BY <1>2, <1>7, TimesIsInt
  <2>4. q < K
    <3>1. K <= q => K * W <= q * W  BY <1>2, <1>7, <2>1, TimesKeepsOrder
    <3>. QED  BY <1>2, <1>3, <1>5, <2>1, <2>2, <2>3, <3>1
  <2>5. K - R < q + 1
    <3>1. q + 1 \in Int  BY <2>1
    <3>2. q + 1 <= K - R => (q + 1) * W <= (K - R) * W  BY <1>7, <2>3, <3>1, TimesKeepsOrder
    <3>3. d \in Int /\ r.start + (K - R) * W <= d /\ d < r.start + (q + 1) * W
      <4>1. d \in Int /\ r.start + (K - R) * W <= d  BY <1>5
      <4>2. d < r.start + (q * W + W)  BY <1>3, <1>7, <2>1, <2>2, <4>1
      <4>. QED  BY Zenon, <2>2, <4>1, <4>2
    <3>4. (q + 1) * W \in Int  BY <1>7, <3>1, TimesIsInt
    <3>5. ~((q + 1) * W <= (K - R) * W)  BY <1>3, <2>3, <3>3, <3>4, Between
    <3>. QED  BY <2>3, <3>1, <3>2, <3>5
  <2>6. q + 1 \in (K - R + 1)..K  BY <1>2, <1>7, <2>1, <2>3, <2>4, <2>5
  <2>7. (q + 1) * W - W = q * W  BY <1>7, <2>2
  <2>8. d \in inWeek(q + 1)
    <3>1. /\ Pilot!WeekStart(r, q + 1) = r.start + (q + 1) * W - W
          /\ Pilot!WeekEnd(r, q + 1) = r.start + (q + 1) * W - 1
      BY <1>11, <2>6
    <3>2. d \in Int /\ d \in Pilot!Days  BY <1>5
    <3>. QED  BY <1>3, <1>7, <2>1, <2>2, <3>1, <3>2
  <2>. QED  BY <1>10, <2>6, <2>8
<1>13. \E d \in Pilot!DaysOf(r, R) : day[d] = "good"
  <2>1. K \in (K - R + 1)..K  BY <1>2, <1>7
  <2>2. PICK d \in inWeek(K) : day[d] # "none"  BY <1>10, <2>1
  <2>3. day[d] # "bad"  BY <1>10, <2>1
  <2>4. d \in Pilot!Days /\ d \in Int  BY SettingsAssumption DEF Pilot!Days
  <2>5. day[d] = "good"  BY <1>3, <2>2, <2>3, <2>4
  <2>6. r.start + K * W - W <= d /\ d <= r.start + K * W - 1  BY <1>11, <2>1
  <2>7. (K - R) * W <= K * W - W
    <3>1. K - R \in Int /\ K - 1 \in Int /\ K - R <= K - 1  BY <1>2, <1>7
    <3>2. (K - R) * W <= (K - 1) * W  BY <1>7, <3>1, TimesKeepsOrder
    <3>3. (K - 1) * W = K * W - W  BY <1>2, <1>7, TimesIsInt
    <3>. QED  BY <3>2, <3>3
  <2>8. K * W \in Int /\ (K - R) * W \in Int  BY <1>2, <1>7, TimesIsInt
  <2>9. d \in Pilot!DaysOf(r, R)  BY <1>3, <1>6, <1>7, <2>4, <2>6, <2>7, <2>8
  <2>. QED  BY <2>5, <2>9
<1>14. K >= R  BY <1>2, <1>7, <1>9
<1>. QED  BY <1>1, <1>12, <1>13, <1>14 DEF K, R

EndedOnWholeWeeks ==
    report' # report /\ report'.scale =>
        LET r == program[report'.program]
        IN /\ r.status = "completed" /\ Pilot!WholeWeeks(r, r.end) >= RequiredWeeks
           /\ \A d \in Pilot!DaysOf(r, RequiredWeeks) : day[d] # "bad"
           /\ \E d \in Pilot!DaysOf(r, RequiredWeeks) : day[d] = "good"

LEMMA StepReport == PilotInv /\ [Pilot!Next]_pilotVars => EndedOnWholeWeeks
<1>1. ASSUME PilotInv, NEW p \in Programs, Pilot!PostPilotReport(p) PROVE EndedOnWholeWeeks
  <2>1. report'.program = p  BY <1>1 DEF Pilot!PostPilotReport
  <2>. QED  BY <1>1, <2>1, ReportOnWholeWeeks DEF EndedOnWholeWeeks
<1>2. ASSUME [Pilot!Next]_pilotVars, ~\E p \in Programs : Pilot!PostPilotReport(p) PROVE report' = report
  BY <1>2 DEF Pilot!Next, pilotVars, Pilot!NextDay, Pilot!HurdleChanges, Pilot!CommitWeeks, Pilot!DayGoes,
      Pilot!UpsertEvidence, Pilot!CreateProgram, Pilot!Activate, Pilot!Complete, Pilot!Saved, Pilot!ReadWeeks
<1>. QED  BY <1>1, <1>2 DEF EndedOnWholeWeeks

\* However late orders, reviews and refunds change the days gone by, a report that says
\* the service may scale is of a program that ended, whose last required whole weeks
\* have no bad day and some good one: what a saved snapshot says of a week no longer
\* in the program is never counted (pilot_stability/service.py).
THEOREM ScalesOnWholeWeeks == LoadsSpec => ScaleOnWholeWeeks
<1>1. LoadsInit => PilotInv  BY InitPilot DEF LoadsInit
<1>2. PilotInv /\ [LoadsNext]_<<load, taVars, rolloutVars, commandVars, alertVars, afterVars, pilotVars>>
        => PilotInv' /\ EndedOnWholeWeeks
  BY StepPilot, StepReport DEF LoadsNext
<1>. QED
  BY <1>1, <1>2, PTL DEF LoadsSpec, ScaleOnWholeWeeks, Pilot!ScaleOnWholeWeeks, EndedOnWholeWeeks
=============================================================================
