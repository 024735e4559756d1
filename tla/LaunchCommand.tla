---------------------------- MODULE LaunchCommand ----------------------------
(***************************************************************************)
(* The launch command of one zone: the session with its runbook, emergency *)
(* traffic overrides and rollback drills, which both change the zone's     *)
(* traffic policy and put it back later, the financial close of the launch *)
(* day under maker-checker, and the evidence pack that lets the session    *)
(* complete.                                                               *)
(*                                                                         *)
(* The session and the policy row are read FOR UPDATE; the override, drill *)
(* and close rows are not.  prepare_financial_close and revert_override    *)
(* are therefore two steps, what they read and what they commit.           *)
(***************************************************************************)
EXTENDS Integers, Sequences, FiniteSets, SequencesExt

CONSTANTS
    Sessions, Overrides, Drills, Admins,
    Caps,           \* order caps
    Figures,        \* what a day can add up to; 0 has a blocker
    DualControl,    \* launch_command_require_dual_control
    Interleaved,    \* do transactions overlap?
    MaxPacks        \* bound on the evidence packs of a session

VARIABLES
    session,    \* launch_command_sessions.status
    runbook,    \* have the session's required steps passed?
    override,   \* launch_traffic_overrides
    drill,      \* launch_rollback_drills
    policy,     \* caps and is_enabled of the zone's policy
    wanted,     \* history: what administrators last made of the policy while
                \* nothing else held it
    crossed,    \* history: since then, did a live drill end while something else
                \* still stopped admission?
    figures,    \* what orders, payments, costs and files of the day add up to
    close,      \* daily_financial_closes of the launch day
    packs,      \* launch_evidence_packs of each session, oldest first
    task        \* the transactions that read and did not commit yet

controls == <<override, drill, policy, wanted, crossed>>
finance == <<figures, close>>
lcVars == <<session, runbook, controls, finance, packs, task>>

Actors == Admins \cup {"worker"}
Types == {"cap", "admission"}   \* "cap" is one of the three caps
Modes == {"live_controlled", "tabletop"}
Done == [kind |-> "none"]
NoClose == [status |-> "none", preparer |-> "worker", closer |-> "worker", holds |-> 0, sealed |-> 0]
Top == CHOOSE n \in Caps : \A m \in Caps : m <= n

Init ==
    /\ session = [s \in Sessions |-> "none"]
    /\ runbook = [s \in Sessions |-> FALSE]
    /\ override = [o \in Overrides |-> [status |-> "none"]]
    /\ drill = [d \in Drills |-> [status |-> "none"]]
    /\ policy = [cap |-> Top, admission |-> TRUE]
    /\ wanted = policy
    /\ crossed = FALSE
    /\ figures = 1
    /\ close = [s \in Sessions |-> NoClose]
    /\ packs = [s \in Sessions |-> <<>>]
    /\ task = [a \in Actors |-> Done]

MayCome == Interleaved \/ \A a \in Actors : task[a] = Done

-----------------------------------------------------------------------------
(* The session.                                                            *)

Open(s) == session[s] \in {"planned", "active", "paused"}

CreateSession(s) ==
    /\ MayCome
    /\ session[s] = "none"
    /\ \A other \in Sessions : ~Open(other)
    /\ session' = [session EXCEPT ![s] = "planned"]
    /\ UNCHANGED <<runbook, controls, finance, packs, task>>

MoveSession(s, from, to) ==
    /\ MayCome
    /\ session[s] = from
    /\ session' = [session EXCEPT ![s] = to]
    /\ UNCHANGED <<runbook, controls, finance, packs, task>>
StartSession(s) == MoveSession(s, "planned", "active")
PauseSession(s) == MoveSession(s, "active", "paused")
ResumeSession(s) == MoveSession(s, "paused", "active")

DecideRunbook(s, passed) ==
    /\ MayCome
    /\ session[s] \in {"active", "paused"}
    /\ runbook' = [runbook EXCEPT ![s] = passed]
    /\ UNCHANGED <<session, controls, finance, packs, task>>

CompleteSession(s) ==
    /\ MayCome
    /\ session[s] \in {"active", "paused"}
    /\ packs[s] # <<>> /\ Last(packs[s]) = "complete"
    /\ session' = [session EXCEPT ![s] = "completed"]
    /\ UNCHANGED <<runbook, controls, finance, packs, task>>

-----------------------------------------------------------------------------
(* Traffic overrides and rollback drills.                                  *)

Active(o) == override[o].status = "active"
Running(d) == drill[d].status = "running"

Stops(d) == Running(d) /\ drill[d].mode = "live_controlled"
Held(type) ==
    \/ \E o \in Overrides : Active(o) /\ override[o].type = type
    \/ type = "admission" /\ \E d \in Drills : Stops(d)

\* Administrators edit the policy and the caps in launch governance, held or not.
EditPolicy(type, value) ==
    /\ MayCome
    /\ policy' = [policy EXCEPT ![type] = value]
    /\ wanted' = IF Held(type) THEN wanted ELSE [wanted EXCEPT ![type] = value]
    /\ crossed' = (crossed /\ (type = "admission" => Held(type)))
    /\ UNCHANGED <<session, runbook, override, drill, finance, packs, task>>

\* An override only lowers a cap, or stops admission.
Values(type) == IF type = "cap" THEN {n \in Caps : n <= policy.cap} ELSE {FALSE}

Unchecked(type) == TRUE     \* seeded fault
NotOverridden(type) == \A o \in Overrides : ~(Active(o) /\ override[o].type = type)

CreateOverride(s, o, type, value) ==
    /\ MayCome
    /\ session[s] = "active"
    /\ override[o].status = "none"
    /\ NotOverridden(type)
    /\ override' = [override EXCEPT ![o] =
          [status |-> "active", session |-> s, type |-> type, previous |-> policy[type]]]
    /\ policy' = [policy EXCEPT ![type] = value]
    /\ UNCHANGED <<session, runbook, drill, wanted, crossed, finance, packs, task>>

\* _restore_override of a set of rows, which are of different types.
Restored(S, p) ==
    [type \in DOMAIN p |->
        IF \E o \in S : override[o].type = type
        THEN override[CHOOSE o \in S : override[o].type = type].previous ELSE p[type]]
Ended(S, status) == [o \in Overrides |-> IF o \in S THEN [override[o] EXCEPT !.status = status] ELSE override[o]]

\* revert_override looks at the status before it waits for the policy row.
ReadRevert(a, o) ==
    /\ MayCome /\ task[a] = Done
    /\ Active(o)
    /\ task' = [task EXCEPT ![a] = [kind |-> "revert", override |-> o]]
    /\ UNCHANGED <<session, runbook, controls, finance, packs>>
CommitRevert(a) ==
    /\ task[a].kind = "revert"
    /\ policy' = Restored({task[a].override}, policy)
    /\ override' = Ended({task[a].override}, "reverted")
    /\ task' = [task EXCEPT ![a] = Done]
    /\ UNCHANGED <<session, runbook, drill, wanted, crossed, finance, packs>>

\* The worker ends the overrides whose time is over, any of the active ones.
ExpireOverrides(S) ==
    /\ MayCome
    /\ S # {} /\ \A o \in S : Active(o)
    /\ policy' = Restored(S, policy)
    /\ override' = Ended(S, "expired")
    /\ UNCHANGED <<session, runbook, drill, wanted, crossed, finance, packs, task>>

StartDrill(s, d, mode, a) ==
    /\ MayCome
    /\ session[s] = "active"
    /\ drill[d].status = "none"
    /\ \A other \in Drills : ~(Running(other) /\ drill[other].session = s)
    /\ mode = "live_controlled" => NotOverridden("admission")
    /\ drill' = [drill EXCEPT ![d] = [status |-> "running", session |-> s, mode |-> mode,
                                      admission |-> policy.admission, initiator |-> a]]
    /\ policy' = IF mode = "live_controlled" THEN [policy EXCEPT !.admission = FALSE] ELSE policy
    /\ UNCHANGED <<session, runbook, override, wanted, crossed, finance, packs, task>>

Live(S) == {d \in S : drill[d].mode = "live_controlled"}

\* _restore_drill_policy of the drills in S, at most one of them a live one.
Recovered(S, p) ==
    IF Live(S) = {} THEN p ELSE [p EXCEPT !.admission = drill[CHOOSE d \in Live(S) : TRUE].admission]
Crossing(S) == crossed' = (crossed \/ (Live(S) # {} /\ Held("admission")'))
DrillsEnded(S, status) == [d \in Drills |-> IF d \in S THEN [drill[d] EXCEPT !.status = status] ELSE drill[d]]

CompleteDrill(d, passed, a) ==
    /\ MayCome
    /\ Running(d)
    /\ DualControl => drill[d].initiator # a
    /\ policy' = Recovered({d}, policy)
    /\ drill' = DrillsEnded({d}, IF passed THEN "passed" ELSE "failed")
    /\ UNCHANGED <<session, runbook, override, wanted, finance, packs, task>>
    /\ Crossing({d})

\* The worker aborts a drill past its target.
RecoverDrill(d) ==
    /\ MayCome
    /\ Running(d)
    /\ policy' = Recovered({d}, policy)
    /\ drill' = DrillsEnded({d}, "aborted")
    /\ UNCHANGED <<session, runbook, override, wanted, finance, packs, task>>
    /\ Crossing({d})

AbortSession(s) ==
    /\ MayCome
    /\ Open(s)
    /\ LET mine == {o \in Overrides : Active(o) /\ override[o].session = s}
           drills == {d \in Drills : Running(d) /\ drill[d].session = s}
       IN /\ policy' = Recovered(drills, Restored(mine, policy))
          /\ override' = Ended(mine, "reverted")
          /\ drill' = DrillsEnded(drills, "aborted")
          /\ Crossing(drills)
    /\ session' = [session EXCEPT ![s] = "aborted"]
    /\ UNCHANGED <<runbook, wanted, finance, packs, task>>

-----------------------------------------------------------------------------
(* The financial close of the launch day.                                  *)

\* Orders, refunds, costs, imports, settlements and issues of the day change;
\* figures 0 have a blocker.
DayChanges(n) ==
    /\ figures' = n
    /\ UNCHANGED <<session, runbook, controls, close, packs, task>>

\* The system prepares the close of a day that has none.
Operational(s, a) == session[s] \in {"active", "paused"} \cup (IF a = "worker" THEN {"completed"} ELSE {})

Preparable(s) == TRUE       \* seeded fault
NotClosed(s) == close[s].status # "closed"

ReadDay(a, s) ==
    /\ MayCome /\ task[a] = Done
    /\ Operational(s, a)
    /\ NotClosed(s)
    /\ a = "worker" => close[s].status = "none"
    /\ task' = [task EXCEPT ![a] = [kind |-> "prepare", session |-> s, seen |-> close[s], figures |-> figures]]
    /\ UNCHANGED <<session, runbook, controls, finance, packs>>

\* A column is written where the new value differs from the one read; a second
\* first close of the day breaks the unique key.
Written(now, seen, new) == [f \in DOMAIN now |-> IF new[f] = seen[f] THEN now[f] ELSE new[f]]
CommitDay(a) ==
    LET t == task[a]
        new == [status |-> IF t.figures = 0 THEN "blocked" ELSE "ready", preparer |-> a,
                closer |-> "worker", holds |-> t.figures, sealed |-> 0]
    IN /\ t.kind = "prepare"
       /\ close' = IF t.seen.status # "none"
                   THEN [close EXCEPT ![t.session] = Written(@, t.seen, new)]
                   ELSE IF close[t.session].status = "none"
                        THEN [close EXCEPT ![t.session] = new] ELSE close
       /\ task' = [task EXCEPT ![a] = Done]
       /\ UNCHANGED <<session, runbook, controls, figures, packs>>

CloseDay(s, a) ==
    /\ MayCome
    /\ close[s].status = "ready"
    /\ DualControl => close[s].preparer # a
    /\ close' = [close EXCEPT ![s].status = "closed", ![s].closer = a, ![s].sealed = close[s].holds]
    /\ UNCHANGED <<session, runbook, controls, figures, packs, task>>

ReopenDay(s) ==
    /\ MayCome
    /\ close[s].status = "closed"
    /\ close' = [close EXCEPT ![s].status = "reopened", ![s].closer = "worker", ![s].sealed = 0]
    /\ UNCHANGED <<session, runbook, controls, figures, packs, task>>

-----------------------------------------------------------------------------
(* Evidence packs.  Monitoring, incidents, imports, settlements and the    *)
(* zone belong to other modules: "others" says whether they are clean.     *)

Clean(s, others) ==
    /\ others
    /\ session[s] \in {"active", "paused", "completed"}
    /\ runbook[s]
    /\ close[s].status = "closed"
    /\ \E d \in Drills : drill[d].status = "passed" /\ drill[d].session = s
    /\ \A o \in Overrides : ~(Active(o) /\ override[o].session = s)
    /\ policy.admission

GeneratePack(s, others) ==
    /\ MayCome
    /\ session[s] # "none"
    /\ Len(packs[s]) < MaxPacks
    /\ packs' = [packs EXCEPT ![s] = Append(@, IF Clean(s, others) THEN "complete" ELSE "incomplete")]
    /\ UNCHANGED <<session, runbook, controls, finance, task>>

\* Incomplete packs past their retention go, except the newest.
PrunePacks(s) ==
    /\ MayCome
    /\ packs[s] # <<>>
    /\ packs' = [packs EXCEPT ![s] =
          Append(SelectSeq(Front(@), LAMBDA p : p = "complete"), Last(@))]
    /\ UNCHANGED <<session, runbook, controls, finance, task>>

Next ==
    \/ \E s \in Sessions :
          \/ CreateSession(s) \/ StartSession(s) \/ PauseSession(s) \/ ResumeSession(s)
          \/ CompleteSession(s) \/ AbortSession(s) \/ PrunePacks(s) \/ ReopenDay(s)
          \/ \E b \in BOOLEAN : DecideRunbook(s, b) \/ GeneratePack(s, b)
          \/ \E o \in Overrides, type \in Types : \E v \in Values(type) : CreateOverride(s, o, type, v)
          \/ \E a \in Admins : CloseDay(s, a) \/ \E d \in Drills, m \in Modes : StartDrill(s, d, m, a)
          \/ \E a \in Actors : ReadDay(a, s)
    \/ \E a \in Actors : CommitDay(a) \/ CommitRevert(a) \/ \E o \in Overrides : ReadRevert(a, o)
    \/ \E S \in SUBSET Overrides : ExpireOverrides(S)
    \/ \E d \in Drills : RecoverDrill(d) \/ \E b \in BOOLEAN, a \in Admins : CompleteDrill(d, b, a)
    \/ \E n \in Caps : EditPolicy("cap", n)
    \/ \E b \in BOOLEAN : EditPolicy("admission", b)
    \/ \E n \in Figures : DayChanges(n)

-----------------------------------------------------------------------------
\* When nothing holds a column of the traffic policy, it is as administrators last set it
\* while nothing held it: overrides and drills put back what they took, in whatever order
\* they begin and end, by hand, by time or with the session (docs/ROLLBACK_DRILLS.md:29).
\* An edit made under a hold is not counted: the end of the hold writes over it.  The one
\* exception is admission, after a live drill ended while something else still stopped it.
PolicyGivenBack ==
    \A type \in Types :
        Held(type) \/ policy[type] = wanted[type] \/ (type = "admission" /\ crossed)

\* The same without the exception.
AdmissionGivenBack == ~Held("admission") => policy.admission = wanted.admission

\* A closed day keeps the figures its checksum was taken of, was closed by someone
\* other than its preparer, and changes only by being reopened
\* (docs/DAILY_FINANCIAL_CLOSE.md:46).
ClosedDayStands ==
    [][\A s \in Sessions : close[s].status = "closed" =>
          /\ close[s].sealed = close[s].holds
          /\ DualControl => close[s].closer # close[s].preparer
          /\ close'[s] # close[s] => close'[s].status = "reopened"]_lcVars

\* Admission stays closed while an override stops it
\* (docs/SPRINT_49.md:41).
StopHolds == \A o \in Overrides : Active(o) /\ override[o].type = "admission" => ~policy.admission

\* A completed session left no override of its own active.
CompletedLeavesNoOverride ==
    [][\A s \in Sessions : session[s] # "completed" /\ session'[s] = "completed" =>
          \A o \in Overrides : ~(Active(o) /\ override[o].session = s)]_lcVars
=============================================================================
