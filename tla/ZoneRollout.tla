---------------------------- MODULE ZoneRollout ----------------------------
(***************************************************************************)
(* The controlled rollout of an expansion zone: assessment, approval, the  *)
(* stages canary, limited and full, pausing by administrators and by the   *)
(* SLO monitor, and the explicit resume.                                   *)
(*                                                                         *)
(* start, advance and resume commit twice: first a new assessment, then    *)
(* the zone.  The monitor commits its snapshot before it pauses the zone.  *)
(* A task keeps the zone as it was read at its start, and its last commit  *)
(* writes only the columns it changed with respect to that.                *)
(***************************************************************************)
EXTENDS Integers

CONSTANTS
    Admins,             \* requests of two commits that may be open at once
    Interleaved,        \* do others come between the two commits of one?
    Gates,              \* what the gates can say: [economics, money, session : BOOLEAN]
    RolloutRequired,    \* settings.expansion_rollout_required
    RequiredReds        \* slo_consecutive_red_snapshots of the zone's policy

VARIABLES
    zone,           \* expansion_zones: status, rollout_stage, rollout_percent
    gates,          \* what the gates would say now: economics, money, command session
    assessment,     \* decision of the latest expansion_assessments row
    pausedFrom,     \* from_stage of the latest rollout event into `paused'
    stageBefore,    \* history: the stage when the zone was last paused
    health,         \* health of the latest monitoring snapshot
    reds,           \* red snapshots of a live stage since the last other one
    autoPause,      \* slo_auto_pause_enabled
    task            \* what each open request, and the monitor, is doing

zrVars == <<zone, gates, assessment, pausedFrom, stageBefore, health, reds, autoPause, task>>

LiveStages == {"canary", "limited", "full"}
Percent == [canary |-> 10, limited |-> 50, full |-> 100]
Done == [kind |-> "none"]
Actors == Admins \cup {"monitor"}

Init ==
    /\ zone = [status |-> "candidate", stage |-> "not_started", percent |-> 0]
    /\ gates \in Gates
    /\ assessment = "none"
    /\ pausedFrom = "none"
    /\ stageBefore = "none"
    /\ health = "none"
    /\ reds = 0
    /\ autoPause \in BOOLEAN
    /\ task = [a \in Actors |-> Done]

\* A request, or the monitor, may come now.
MayCome == Interleaved \/ \A a \in Actors : task[a] = Done

-----------------------------------------------------------------------------
\* The world outside: the pilot's figures, budgets, settlements and issues
\* change, a launch session starts or ends.
GatesChange(g) ==
    /\ gates' = g
    /\ UNCHANGED <<zone, assessment, pausedFrom, stageBefore, health, reds, autoPause, task>>

\* update_policy.
UpdatePolicy(enabled) ==
    /\ autoPause' = enabled
    /\ UNCHANGED <<zone, gates, assessment, pausedFrom, stageBefore, health, reds, task>>

Decision == IF gates.economics THEN "ready" ELSE "blocked"
StatusAssessed(s) ==
    CASE Decision = "ready" /\ s = "candidate" -> "ready"
      [] Decision = "blocked" /\ s = "ready" -> "candidate"
      [] OTHER -> s

\* assess_zone, by itself.
AssessZone ==
    /\ MayCome
    /\ assessment' = Decision
    /\ zone' = [zone EXCEPT !.status = StatusAssessed(@)]
    /\ UNCHANGED <<gates, pausedFrom, stageBefore, health, reds, autoPause, task>>

\* approve_zone looks at the assessment alone, whatever the status of the zone.
ApproveZone ==
    /\ MayCome
    /\ assessment = "ready"
    /\ zone' = [zone EXCEPT !.status = "approved"]
    /\ UNCHANGED <<gates, assessment, pausedFrom, stageBefore, health, reds, autoPause, task>>

-----------------------------------------------------------------------------
(* The tasks of two commits.                                               *)

StageAfter == [canary |-> "limited", limited |-> "full"]
ResumeStage == IF pausedFrom = "none" THEN "canary" ELSE pausedFrom
MayBegin(kind) ==
    CASE kind = "start"   -> zone.status = "approved" /\ gates.session
      [] kind = "advance" -> zone.status = "live" /\ zone.stage \in {"canary", "limited"} /\ gates.session
      [] kind = "resume"  -> zone.status = "paused" /\ zone.stage = "paused" /\ gates.session
      [] kind = "launch"  -> zone.status = "approved" /\ ~RolloutRequired

\* What the task will write if the gates hold; resume leaves the percentage.
Target(kind) ==
    CASE kind = "start"   -> [status |-> "live", stage |-> "canary", percent |-> Percent.canary]
      [] kind = "advance" -> [status |-> "live", stage |-> StageAfter[zone.stage],
                              percent |-> Percent[StageAfter[zone.stage]]]
      [] kind = "resume"  -> [status |-> "live", stage |-> ResumeStage, percent |-> zone.percent]
      [] kind = "launch"  -> [status |-> "live", stage |-> "full", percent |-> 100]

\* The first commit: the new assessment.
BeginTask(a, kind) ==
    /\ task[a] = Done /\ MayCome
    /\ MayBegin(kind)
    /\ assessment' = Decision
    /\ task' = [task EXCEPT ![a] =
          [kind |-> kind, seen |-> zone, to |-> Target(kind), decision |-> Decision]]
    /\ UNCHANGED <<zone, gates, pausedFrom, stageBefore, health, reds, autoPause>>

IsAdmin(a) == task[a].kind \in {"start", "advance", "resume", "launch"}
MoneyGate(a) == task[a].kind = "launch" \/ gates.money

\* The zone with the columns the task changed.
Flushed(a) ==
    [c \in DOMAIN zone |->
        IF task[a].to[c] # task[a].seen[c] THEN task[a].to[c] ELSE zone[c]]

FinishTask(a) ==
    /\ IsAdmin(a)
    /\ IF task[a].decision = "ready" /\ MoneyGate(a)
       THEN zone' = Flushed(a)
       ELSE UNCHANGED zone      \* 409, nothing more is written
    /\ task' = [task EXCEPT ![a] = Done]
    /\ UNCHANGED <<gates, assessment, pausedFrom, stageBefore, health, reds, autoPause>>

-----------------------------------------------------------------------------
(* Pausing.                                                                *)

OnlyStatus(z) == [z EXCEPT !.status = "paused"]     \* seeded fault
Paused(z) == [z EXCEPT !.status = "paused", !.stage = "paused"]

\* pause_rollout records the stage it leaves.
PauseRollout ==
    /\ MayCome
    /\ zone.status = "live" /\ zone.stage \in LiveStages
    /\ zone' = Paused(zone)
    /\ pausedFrom' = zone.stage
    /\ stageBefore' = zone.stage
    /\ UNCHANGED <<gates, assessment, health, reds, autoPause, task>>

\* pause_zone, the older endpoint, records no rollout event.
PauseZone ==
    /\ MayCome
    /\ zone.status = "live"
    /\ zone' = Paused(zone)
    /\ stageBefore' = zone.stage
    /\ UNCHANGED <<gates, assessment, pausedFrom, health, reds, autoPause, task>>

Signals == {"critical", "warning", "spike", "double_spike", "no_drivers", "no_chefs"}

\* Several signals weigh as much as the worst of them.
SignalSets == {{}} \cup {{s} : s \in Signals}

\* The health of a snapshot from the zone as the monitor read it and the signals
\* it measured.
HealthOf(z, S) ==
    IF \/ z.status = "paused" \/ z.stage = "paused"
       \/ S \cap {"critical", "double_spike"} # {}
       \/ z.status = "live" /\ "no_chefs" \in S
    THEN "red"
    ELSE IF S \cap {"warning", "spike", "no_drivers"} # {} THEN "amber" ELSE "green"

AtMostReds(n) == IF n > RequiredReds THEN RequiredReds ELSE n

\* refresh_monitoring: a snapshot, which the job refresh_all_live_zones goes on
\* to evaluate and the administrators' endpoint does not.
Snapshot(S) ==
    /\ health' = HealthOf(zone, S)
    /\ reds' = IF zone.stage \in LiveStages /\ health' = "red" THEN AtMostReds(reds + 1) ELSE 0
    /\ UNCHANGED <<zone, gates, assessment, pausedFrom, stageBefore, autoPause>>

RefreshMonitoring(S) ==
    /\ MayCome
    /\ Snapshot(S)
    /\ UNCHANGED task

RefreshAllLiveZones(S) ==
    /\ task["monitor"] = Done /\ MayCome
    /\ zone.status \in {"live", "paused"}
    /\ Snapshot(S)
    /\ task' = [task EXCEPT !["monitor"] = [kind |-> "watch", seen |-> zone, red |-> health' = "red"]]

\* _evaluate_slo_auto_pause and auto_pause_rollout.
NeverPauses(z) == FALSE     \* seeded fault
PauseDue(z) ==
    /\ z.status = "live" /\ z.stage \in LiveStages
    /\ autoPause /\ task["monitor"].red /\ reds >= RequiredReds
EvaluateSlo ==
    LET seen == task["monitor"].seen
    IN /\ task["monitor"].kind = "watch"
       /\ IF PauseDue(seen)
          THEN /\ zone' = Paused(zone)
               /\ pausedFrom' = seen.stage
               /\ stageBefore' = seen.stage
          ELSE UNCHANGED <<zone, pausedFrom, stageBefore>>
       /\ task' = [task EXCEPT !["monitor"] = Done]
       /\ UNCHANGED <<gates, assessment, health, reds, autoPause>>

Kinds == {"start", "advance", "resume", "launch"}

Next ==
    \/ \E g \in Gates : GatesChange(g)
    \/ \E b \in BOOLEAN : UpdatePolicy(b)
    \/ AssessZone
    \/ ApproveZone
    \/ \E a \in Admins, k \in Kinds : BeginTask(a, k)
    \/ \E a \in Admins : FinishTask(a)
    \/ PauseRollout
    \/ PauseZone
    \/ \E S \in SignalSets : RefreshMonitoring(S)
    \/ \E S \in SignalSets : RefreshAllLiveZones(S)
    \/ EvaluateSlo

\* The worker runs the monitor every minute.
ZrFairness ==
    /\ WF_zrVars(\E S \in SignalSets : RefreshAllLiveZones(S))
    /\ WF_zrVars(EvaluateSlo)

-----------------------------------------------------------------------------
\* One request at a time, whichever endpoint paused, approved or resumed the
\* zone, in whatever order: only a zone on a rollout stage is live, a paused one
\* is paused in both columns, and one that was never approved has no stage.
StatusFitsStage ==
    LET s == zone.status
    IN /\ s = "live" => zone.stage \in LiveStages
       /\ s = "paused" => zone.stage = "paused"
       /\ s \in {"candidate", "ready"} => zone.stage = "not_started"

\* Resume returns to the stage that was active before the pause
\* (docs/CONTROLLED_ROLLOUT.md:39).
ResumeRestoresStage ==
    [][zone.status = "paused" /\ zone'.status = "live" => zone'.stage = stageBefore]_zrVars

\* While every snapshot is red and the policy asks for it, the zone does not stay
\* live, whatever administrators do meanwhile (docs/SLO_AUTOMATION.md).
SloPausesZone ==
    <>[](health = "red" /\ autoPause) => []<>(zone.status # "live" \/ zone.stage \notin LiveStages)
=============================================================================
