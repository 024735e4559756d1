------------------------------ MODULE Incidents ------------------------------
(***************************************************************************)
(* Operations incidents: a scan every minute turns the conditions found in *)
(* the database into incidents, one per fingerprint, resolves the ones     *)
(* whose condition is gone, reopens and escalates, and tells the           *)
(* administrators; administrators acknowledge, assign, escalate and        *)
(* resolve.                                                                *)
(*                                                                         *)
(* refresh_incidents reads everything first and commits once at the end,   *)
(* the columns it changed; no row is locked.                               *)
(***************************************************************************)
EXTENDS Integers, FiniteSets, TLC

CONSTANTS
    Conditions,     \* fingerprints
    Detector,       \* the detector that reports each of them
    Window,         \* ops_incident_auto_escalate_minutes, in scans
    Threshold,      \* ops_notification_min_severity
    Admins,
    Interleaved     \* may an administrator commit during a scan?

VARIABLES
    condition,  \* what the detectors see now: -1 nothing, else a severity
    incident,   \* operations_incidents
    told,       \* ops_incident notifications, by their dedupe key
    scan        \* what a scan read, until it commits

inVars == <<condition, incident, told, scan>>

Idle == [on |-> FALSE]
NoAdmin == "nobody"
NoIncident == [status |-> "none", severity |-> 0, age |-> 0, escalated |-> -1, owner |-> NoAdmin]

Init ==
    /\ condition = [c \in Conditions |-> -1]
    /\ incident = [c \in Conditions |-> NoIncident]
    /\ told = {}
    /\ scan = Idle

MayAct == Interleaved \/ ~scan.on

\* detect_candidates: the severities each detector may report, by the lateness,
\* the priority or the health it finds; 0 info, 1 warning, 2 high, 3 critical.
LatenessDetectors == [chef_acceptance |-> {2, 3}, delivery_assignment |-> {2, 3}]
PromiseDetectors == [delivery_promise |-> {2, 3}, delivery_issue |-> {2}]
SupportAndMoneyDetectors ==
    [support_sla |-> {1, 2, 3}, payment_reconciliation |-> {3},
     provider_settlement_blocked |-> {3}, expansion_traffic_health |-> {2, 3}]
ReliabilityDetectors ==
    [outbox_dead |-> {3}, job_dead |-> {3}, worker_stale |-> {3}, notification_dead |-> {2}]
Reports == LatenessDetectors @@ PromiseDetectors @@ SupportAndMoneyDetectors @@ ReliabilityDetectors

\* What a detector sees changes: its severity, or that it sees nothing any more.
ConditionChanges(c, severity) ==
    /\ severity \in Reports[Detector[c]] \cup {-1}
    /\ condition[c] # severity
    /\ condition' = [condition EXCEPT ![c] = severity]
    /\ UNCHANGED <<incident, told, scan>>

AtMostWindow(n) == IF n < Window THEN n + 1 ELSE n
TimePasses ==
    /\ ~scan.on
    /\ incident' = [c \in Conditions |->
          [incident[c] EXCEPT !.age = AtMostWindow(@),
                              !.escalated = IF @ = -1 THEN @ ELSE AtMostWindow(@)]]
    /\ incident' # incident
    /\ UNCHANGED <<condition, told, scan>>

-----------------------------------------------------------------------------
(* The scan.  "escalated" is the time since the last automatic escalation, *)
(* which _merge_incident_details keeps also when the incident reopens.     *)

Active(i) == i.status \in {"open", "acknowledged"}

LatestDetected(i, severity) == severity     \* seeded fault
Higher(i, severity) == IF severity > i.severity THEN severity ELSE i.severity

Detected(i, severity) ==
    CASE i.status = "none" -> [NoIncident EXCEPT !.status = "open", !.severity = severity]
      [] i.status = "resolved" -> [i EXCEPT !.status = "open", !.severity = severity, !.age = 0]
      [] OTHER -> [i EXCEPT !.severity = Higher(i, severity)]

Cleared(i) == IF Active(i) THEN [i EXCEPT !.status = "resolved"] ELSE i

SinceAcknowledged(i) == FALSE       \* seeded fault
Overdue(i) ==
    /\ i.status = "open" /\ i.severity < 3
    /\ (IF i.escalated = -1 THEN i.age ELSE i.escalated) >= Window
Escalated(i) == IF Overdue(i) THEN [i EXCEPT !.severity = @ + 1, !.escalated = 0] ELSE i

Refreshed(i, severity) == Escalated(IF severity = -1 THEN Cleared(i) ELSE Detected(i, severity))

ReadScan ==
    /\ ~scan.on
    /\ scan' = [on |-> TRUE, seen |-> incident, conditions |-> condition]
    /\ UNCHANGED <<condition, incident, told>>

Events(c, old, new) ==
    {e \in {"created", "reopened", "severity_increased", "auto_escalated"} :
        CASE e = "created" -> old.status = "none" /\ new.status # "none"
          [] e = "reopened" -> old.status = "resolved" /\ new.status = "open"
          [] e = "auto_escalated" -> new.escalated = 0 /\ new.escalated # old.escalated
          [] OTHER -> Active(old) /\ scan.conditions[c] > old.severity}

Keys(c, events, severity) ==
    IF severity >= Threshold THEN {<<c, e, severity>> : e \in events} ELSE {}

\* Only columns that differ from what was read are written.
Written(now, seen, new) == [f \in DOMAIN now |-> IF new[f] = seen[f] THEN now[f] ELSE new[f]]

CommitScan ==
    LET new == [c \in Conditions |-> Refreshed(scan.seen[c], scan.conditions[c])]
    IN /\ scan.on
       /\ incident' = [c \in Conditions |-> Written(incident[c], scan.seen[c], new[c])]
       /\ told' = told \cup UNION {Keys(c, Events(c, scan.seen[c], new[c]), new[c].severity) : c \in Conditions}
       /\ scan' = Idle
       /\ UNCHANGED condition

-----------------------------------------------------------------------------
(* Administrators.                                                         *)

Owned(i, a) == IF i.owner = NoAdmin THEN [i EXCEPT !.owner = a] ELSE i

Acknowledge(c, a) ==
    /\ MayAct
    /\ Active(incident[c])
    /\ incident' = [incident EXCEPT ![c] = [Owned(@, a) EXCEPT !.status = "acknowledged"]]
    /\ UNCHANGED <<condition, told, scan>>

Assign(c, owner) ==
    /\ MayAct
    /\ Active(incident[c])
    /\ incident' = [incident EXCEPT ![c].owner = owner]
    /\ UNCHANGED <<condition, told, scan>>

Escalate(c, a) ==
    /\ MayAct
    /\ Active(incident[c])
    /\ LET s == incident[c].severity
           up == IF s < 3 THEN s + 1 ELSE 3
       IN /\ incident' = [incident EXCEPT ![c] = [Owned(@, a) EXCEPT !.severity = up]]
          /\ told' = told \cup (IF up # s THEN Keys(c, {"manual_escalated"}, up) ELSE {})
    /\ UNCHANGED <<condition, scan>>

Resolve(c) ==
    /\ MayAct
    /\ Active(incident[c])
    /\ incident' = [incident EXCEPT ![c].status = "resolved"]
    /\ UNCHANGED <<condition, told, scan>>

Next ==
    \/ ReadScan \/ CommitScan \/ TimePasses
    \/ \E c \in Conditions :
          \/ \E s \in -1..3 : ConditionChanges(c, s)
          \/ \E a \in Admins : Acknowledge(c, a) \/ Escalate(c, a) \/ Assign(c, a)
          \/ Assign(c, NoAdmin) \/ Resolve(c)

\* operations.scan runs every minute, and minutes pass between scans.
InFairness == WF_inVars(ReadScan) /\ WF_inVars(CommitScan) /\ SF_inVars(TimePasses)

-----------------------------------------------------------------------------
\* An incident that stays active never becomes less severe, however its detector
\* and administrators disagree (operations_control/service.py:666).
SeverityKept ==
    [][\A c \in Conditions : Active(incident[c]) /\ incident'[c].severity < incident[c].severity =>
          incident'[c].status = "resolved"]_inVars

\* An incident whose condition lasts becomes critical unless an administrator
\* acknowledges or resolves it (docs/ESCALATION_AUTOMATION.md:39).
UnattendedEscalates ==
    \A c \in Conditions :
        <>[](condition[c] # -1) =>
            \/ <>[](incident[c].severity = 3)
            \/ []<>(incident[c].status \in {"acknowledged", "resolved"})

\* Administrators are told when a severe incident comes back
\* (docs/ESCALATION_AUTOMATION.md:79).
ReturnIsTold ==
    [][\A c \in Conditions :
          incident[c].status = "resolved" /\ incident'[c].status = "open"
                /\ incident'[c].severity >= Threshold =>
             \E n \in told' \ told : n[1] = c]_inVars

\* An incident that just came back waits for an administrator before it escalates
\* (docs/ESCALATION_AUTOMATION.md:39).
ReturnWaits ==
    [][\A c \in Conditions :
          incident[c].status = "resolved" /\ incident'[c].status = "open" =>
             incident'[c].escalated = incident[c].escalated]_inVars
=============================================================================
