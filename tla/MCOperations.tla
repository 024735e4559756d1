---------------------------- MODULE MCOperations ----------------------------
(***************************************************************************)
(* What administrators and the worker's watch keep the launch in bounds    *)
(* with: traffic admission at checkout, the rollout of a zone, the launch  *)
(* command with its overrides and its close of the day, incidents, the     *)
(* post-launch review and the pilot program.  Checkouts overlap; the       *)
(* others run one transaction at a time.  `load' is chosen first and never *)
(* changes.                                                                *)
(***************************************************************************)
EXTENDS TrafficAdmission, TLC

CONSTANTS r1, r2, o1, o2, o3, z1, v1, v2

\* What the instances below are given: the rollout, the launch command, incidents, the
\* post-launch review, the pilot.
CONSTANTS
    ZoneAdmins, RolloutRequired, RequiredReds,
    Sessions, Overrides, Drills, CommandAdmins, Caps, Figures, DualControl, MaxPacks,
    Conditions, Detector, EscalateAfter, Threshold, IncidentAdmins,
    StabilizationDays, ReviewWindow, LastDay,
    Programs, WeekDays, RequiredWeeks, LastPilotDay, LateDays

ASSUME SettingsAssumption ==
    /\ RequiredReds \in Nat /\ EscalateAfter \in Nat
    /\ StabilizationDays \in Nat /\ ReviewWindow \in Nat /\ LastDay \in Nat
    /\ WeekDays \in Nat \ {0} /\ RequiredWeeks \in Nat \ {0} /\ LastPilotDay \in Nat

VARIABLES
    load,
    rollout, gates, assessment, pausedFrom, stageBefore, health, reds, autoPause, watch,
    session, runbook, override, drill, policy, wanted, crossed, figures, close, packs, task,
    condition, incident, told, scan,
    now, launch, daily, signals, review, worker,
    today, program, day, snapshot, evidence, hurdle, report, refresh

Buckets == (o1 :> 50) @@ (o2 :> 5) @@ (o3 :> 5)
OneCap == (z1 :> 1)
TwoADay == (z1 :> 2)

OneDetector == [c1 |-> "chef_acceptance"]

Alike == Permutations({r1, r2}) \cup Permutations({v1, v2})

Rollout == INSTANCE ZoneRollout WITH
    Admins <- ZoneAdmins, Interleaved <- FALSE,
    Gates <- [economics : BOOLEAN, money : BOOLEAN, session : BOOLEAN],
    zone <- rollout, task <- watch

Command == INSTANCE LaunchCommand WITH
    Admins <- CommandAdmins, Interleaved <- FALSE

Alerts == INSTANCE Incidents WITH
    Window <- EscalateAfter, Admins <- IncidentAdmins, Interleaved <- FALSE

After == INSTANCE PostLaunchReview WITH
    CadenceEnabled <- TRUE, session <- launch, close <- daily

Pilot == INSTANCE PilotProgram WITH LastDay <- LastPilotDay

rolloutVars == <<rollout, gates, assessment, pausedFrom, stageBefore, health, reds, autoPause, watch>>
commandVars == <<session, runbook, override, drill, policy, wanted, crossed, figures, close, packs, task>>
alertVars == <<condition, incident, told, scan>>
afterVars == <<now, launch, daily, signals, review, worker>>
pilotVars == <<today, program, day, snapshot, evidence, hurdle, report, refresh>>

LoadsInit ==
    /\ Init /\ Rollout!Init /\ Command!Init /\ Alerts!Init /\ After!Init /\ Pilot!Init
    /\ load \in {"traffic", "rollout", "controls", "closing", "alerts", "after", "pilot"}
    /\ load # "rollout" => autoPause /\ \A g \in DOMAIN gates : gates[g]

\* The launch command has two loads: in one its overrides, drills and edits meet, in the
\* other the close of its day, with drills on paper, evidence and completion.  The load of
\* the review has no signals but the closes and a missing snapshot, the load of the pilot
\* no hurdle but its days and its evidence.
Calm == ~signals.incident /\ ~signals.caution /\ signals.health # "red"

\* The parts a load is not about stay as they start.
LoadsNext ==
    \/ /\ load = "traffic" /\ Next
       /\ UNCHANGED <<load, rolloutVars, commandVars, alertVars, afterVars, pilotVars>>
    \/ /\ load = "rollout" /\ Rollout!Next
       /\ UNCHANGED <<load, taVars, commandVars, alertVars, afterVars, pilotVars>>
    \/ /\ load = "controls" /\ Command!Next /\ UNCHANGED <<runbook, figures, close, packs>>
       /\ UNCHANGED <<load, taVars, rolloutVars, alertVars, afterVars, pilotVars>>
    \/ /\ load = "closing" /\ Command!Next /\ UNCHANGED <<override, policy, wanted>>
       /\ UNCHANGED <<load, taVars, rolloutVars, alertVars, afterVars, pilotVars>>
    \/ /\ load = "alerts" /\ Alerts!Next
       /\ UNCHANGED <<load, taVars, rolloutVars, commandVars, afterVars, pilotVars>>
    \/ /\ load = "after" /\ After!Next /\ Calm'
       /\ UNCHANGED <<load, taVars, rolloutVars, commandVars, alertVars, pilotVars>>
    \/ /\ load = "pilot" /\ Pilot!Next /\ ~hurdle'
       /\ UNCHANGED <<load, taVars, rolloutVars, commandVars, alertVars, afterVars>>

LoadsSpec ==
    LoadsInit /\ [][LoadsNext]_<<load, taVars, rolloutVars, commandVars, alertVars, afterVars, pilotVars>>

\* One request at a time, whichever endpoint paused, approved or resumed the zone,
\* in whatever order, the two columns of its state agree
\* (operational_economics/service.py).
StatusFitsStage == Rollout!StatusFitsStage

\* When nothing holds a column of the traffic policy, it is as administrators last set it
\* while nothing held it: overrides and drills, on paper or live, put back what they took,
\* in whatever order they begin and end, by hand, by time or with the session
\* (docs/ROLLBACK_DRILLS.md:29).  An edit made under a hold is not counted: the end of
\* the hold writes over it.  The one exception is admission, after a live drill ended
\* while an override still stopped it.
PolicyGivenBack == Command!PolicyGivenBack

\* A closed day keeps the figures its checksum was taken of, was closed by someone
\* other than its preparer, and changes only by being reopened
\* (docs/DAILY_FINANCIAL_CLOSE.md:46).
ClosedDayStands == Command!ClosedDayStands

\* An incident that stays active never becomes less severe, however its detector
\* and administrators disagree (operations_control/service.py:666).
SeverityKept == Alerts!SeverityKept

\* A review that does not block was written when every finished stabilization day it
\* can see was closed, but for at most one, and that only if today is closed already
\* (docs/POST_LAUNCH_STABILIZATION.md:34-39).
UnclosedDayBlocks == After!UnclosedDayBlocks

\* A report says that the service may scale only of a program that ended, whose last
\* weeks had orders and no bad day (docs/PILOT_STABILITY_GATE.md).
ScaleOnWholeWeeks == Pilot!ScaleOnWholeWeeks
=============================================================================
