---------------------------- MODULE PilotProgram ----------------------------
(***************************************************************************)
(* Pilot programs: their life from plan to completion, the weekly          *)
(* snapshots that every refresh recomputes from orders, deliveries and     *)
(* reviews, and the report that says whether the service may scale.        *)
(*                                                                         *)
(* A day is what its orders made of it: nothing to evaluate, good (every   *)
(* target met) or bad.  Late deliveries, reviews and refunds change the    *)
(* days gone by as well.  The worker's refresh reads first and commits     *)
(* later; a report answers with the values it has just computed.           *)
(***************************************************************************)
EXTENDS Integers, FiniteSets

CONSTANTS
    Programs,
    WeekDays,       \* days of a week
    RequiredWeeks,  \* required_stability_weeks
    LastDay,        \* the last day the run looks at
    LateDays        \* how long a day may still change

VARIABLES
    today,
    program,    \* pilot_programs: status, start_date, end_date
    day,        \* what orders, deliveries and reviews say of each day
    snapshot,   \* pilot_weekly_snapshots, by program and week
    evidence,   \* pilot_qa_evidence: the mandatory ones that passed
    hurdle,     \* a critical incident, an open payment issue, or no operational profit
    report,     \* the last report: program, gate, scale_ready
    refresh     \* the worker's refresh until it commits

ppVars == <<today, program, day, snapshot, evidence, hurdle, report, refresh>>

Days == 0..LastDay
Weeks == 1..(LastDay \div WeekDays + 1)
Open == LastDay + 1                 \* end_date NULL
Idle == [on |-> FALSE]
NoReport == [made |-> FALSE]
NoProgram == [status |-> "absent", start |-> 0, end |-> Open]
NoSnapshot == [full |-> FALSE, complete |-> FALSE, passed |-> FALSE]
Mandatory == {"pilot_qa_exit", "operations_signoff"}

Init ==
    /\ today = 0
    /\ program = [p \in Programs |-> NoProgram]
    /\ day = [d \in Days |-> "none"]
    /\ snapshot = [p \in Programs |-> [w \in Weeks |-> NoSnapshot]]
    /\ evidence = {}
    /\ hurdle = FALSE
    /\ report = NoReport
    /\ refresh = Idle

NextDay ==
    /\ today < LastDay
    /\ today' = today + 1
    /\ UNCHANGED <<program, day, snapshot, evidence, hurdle, report, refresh>>

DayGoes(d, how) ==
    /\ d <= today /\ today - d <= LateDays
    /\ day' = [day EXCEPT ![d] = how]
    /\ UNCHANGED <<today, program, snapshot, evidence, hurdle, report, refresh>>

HurdleChanges ==
    /\ hurdle' = ~hurdle
    /\ UNCHANGED <<today, program, day, snapshot, evidence, report, refresh>>

-----------------------------------------------------------------------------
(* Weeks of a program r, as refresh_program and _week_values see them.     *)

Least(a, b) == IF a < b THEN a ELSE b
WeekStart(r, w) == r.start + (w - 1) * WeekDays
WeekEnd(r, w) == Least(WeekStart(r, w) + WeekDays - 1, r.end)
Included(r) == {w \in Weeks : WeekStart(r, w) <= Least(today, r.end)}

WeekValues(r, w) ==
    LET days == {d \in Days : WeekStart(r, w) <= d /\ d <= WeekEnd(r, w)}
        full == WeekEnd(r, w) - WeekStart(r, w) = WeekDays - 1
        complete == today > WeekEnd(r, w) \/ (r.status = "completed" /\ r.end >= WeekEnd(r, w))
        evaluable == full /\ complete /\ \E d \in days : day[d] # "none"
    IN [full |-> full, complete |-> complete,
        passed |-> evaluable /\ \A d \in days : day[d] # "bad"]

Refreshed(r, old) == [w \in Weeks |-> IF w \in Included(r) THEN WeekValues(r, w) ELSE old[w]]

-----------------------------------------------------------------------------
(* The life of a program; activate and complete refresh it at their end.   *)

CreateProgram(p, start, end) ==
    /\ program[p].status = "absent" /\ start <= end
    /\ program' = [program EXCEPT ![p] = [status |-> "planned", start |-> start, end |-> end]]
    /\ UNCHANGED <<today, day, snapshot, evidence, hurdle, report, refresh>>

\* What activate and complete commit, with the refresh that ends them.
Saved(p, r) ==
    /\ program' = [program EXCEPT ![p] = r]
    /\ snapshot' = [snapshot EXCEPT ![p] = Refreshed(r, @)]
    /\ UNCHANGED <<today, day, evidence, hurdle, report, refresh>>

NoOtherActive(p) == \A q \in Programs \ {p} : program[q].status # "active"

Activate(p) ==
    /\ program[p].status = "planned"
    /\ NoOtherActive(p)
    /\ Saved(p, [program[p] EXCEPT !.status = "active"])

Complete(p) ==
    /\ program[p].status \in {"planned", "active"}
    /\ Saved(p, [program[p] EXCEPT !.status = "completed", !.end = Least(@, today)])

UpsertEvidence(type, passed) ==
    /\ evidence' = IF passed THEN evidence \cup {type} ELSE evidence \ {type}
    /\ UNCHANGED <<today, program, day, snapshot, hurdle, report, refresh>>

\* refresh_active_programs, in the background job.
ReadWeeks(p) ==
    /\ ~refresh.on /\ program[p].status = "active"
    /\ refresh' = [on |-> TRUE, program |-> p, old |-> snapshot[p], new |-> Refreshed(program[p], snapshot[p])]
    /\ UNCHANGED <<today, program, day, snapshot, evidence, hurdle, report>>

CommitWeeks ==
    /\ refresh.on
    /\ snapshot' = [snapshot EXCEPT ![refresh.program] =
          [w \in Weeks |-> [f \in DOMAIN NoSnapshot |->
              IF refresh.new[w][f] = refresh.old[w][f] THEN @[w][f] ELSE refresh.new[w][f]]]]
    /\ refresh' = Idle
    /\ UNCHANGED <<today, program, day, evidence, hurdle, report>>

-----------------------------------------------------------------------------
(* stability_report and post_pilot_report.                                 *)

Eligible(rows) == {w \in Weeks : rows[w].full /\ rows[w].complete}

PassedWeeks(rows) == Cardinality({w \in Eligible(rows) : rows[w].passed})      \* seeded fault

\* The consecutive passed weeks at the end of the eligible ones.
Current(rows) ==
    Cardinality({w \in Eligible(rows) : \A v \in Eligible(rows) : v >= w => rows[v].passed})

PostPilotReport(p) ==
    LET rows == Refreshed(program[p], snapshot[p])
        gate == Current(rows) >= RequiredWeeks
    IN /\ program[p].status # "absent"
       /\ snapshot' = [snapshot EXCEPT ![p] = rows]
       /\ report' = [made |-> TRUE, program |-> p, gate |-> gate,
                     scale |-> gate /\ program[p].status = "completed" /\ evidence = Mandatory /\ ~hurdle]
       /\ UNCHANGED <<today, program, day, evidence, hurdle, refresh>>

Next ==
    \/ NextDay \/ HurdleChanges \/ CommitWeeks
    \/ \E d \in Days, how \in {"good", "bad"} : DayGoes(d, how)
    \/ \E type \in Mandatory, passed \in BOOLEAN : UpsertEvidence(type, passed)
    \/ \E p \in Programs :
          \/ \E start \in Days, end \in Days \cup {Open} : CreateProgram(p, start, end)
          \/ Activate(p) \/ Complete(p) \/ ReadWeeks(p) \/ PostPilotReport(p)

-----------------------------------------------------------------------------
WholeWeeks(r, last) == (last - r.start + 1) \div WeekDays
DaysOf(r, weeks) == {d \in Days : r.start + (WholeWeeks(r, r.end) - weeks) * WeekDays <= d
                                    /\ d < r.start + WholeWeeks(r, r.end) * WeekDays}

\* A report says that the service may scale only of a program that ended, whose last
\* RequiredWeeks whole weeks had orders and no bad day (docs/PILOT_STABILITY_GATE.md).
ScaleOnWholeWeeks ==
    [][report' # report /\ report'.scale =>
          LET r == program[report'.program]
          IN /\ r.status = "completed" /\ WholeWeeks(r, r.end) >= RequiredWeeks
             /\ \A d \in DaysOf(r, RequiredWeeks) : day[d] # "bad"
             /\ \E d \in DaysOf(r, RequiredWeeks) : day[d] = "good"]_ppVars

\* One pilot at a time, while administrators act one after the other.
OneActiveProgram ==
    Cardinality({p \in Programs : program[p].status = "active"}) <= 1

\* A service that may scale has seen the end of the weeks that say so
\* (docs/PILOT_STABILITY_GATE.md:17).
ScaleAfterLastDay ==
    [][report' # report /\ report'.scale => today > program[report'.program].end]_ppVars
=============================================================================
