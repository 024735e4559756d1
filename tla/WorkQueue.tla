----------------------------- MODULE WorkQueue -----------------------------
(***************************************************************************)
(* The transactional outbox (reliability/outbox.py) and the durable        *)
(* background jobs (reliability/jobs.py): two tables driven by the same    *)
(* state machine, here with the names of the jobs (an outbox row is        *)
(* pending, processing, published where a job is queued, running,          *)
(* succeeded).                                                             *)
(*                                                                         *)
(* A worker claims a row and commits, carries out its effect outside that  *)
(* transaction, and marks the row in another.  Nothing ties the mark to    *)
(* the claim: the row is found by its id and written whoever holds it.     *)
(* Backoff only delays a claim, so an item that waits may be claimed at    *)
(* any time; the age of a lock is one bit.                                 *)
(***************************************************************************)
EXTENDS Integers, FiniteSets

CONSTANTS
    Items,          \* deduplication keys
    Workers,        \* worker processes, and the administrator's run-once
    NoWorker,
    MaxAttempts,    \* max_attempts of every row
    Rereads,        \* mark_failed reads the row again: TRUE for a job that has
                    \* used the database, FALSE for an outbox row
    SlowWorkers,    \* a worker may take longer than worker_stale_seconds
    RetriedStatuses,   \* the statuses an administrator's retry is used on
    MaxCrashes, MaxRetries   \* bounds on crashes and on administrator's retries

Statuses == {"none", "queued", "running", "retry", "succeeded", "dead_letter"}

ASSUME ConstantsAssumption ==
    /\ NoWorker \notin Workers
    /\ MaxAttempts \in Nat \ {0}
    /\ Rereads \in BOOLEAN /\ SlowWorkers \in BOOLEAN
    /\ RetriedStatuses \subseteq Statuses \ {"none"}
    /\ MaxCrashes \in Nat /\ MaxRetries \in Nat

VARIABLES
    status, attempts, lockedBy,   \* the committed row of each item
    stale,        \* its lock is older than worker_stale_seconds
    happened,     \* history: its effect has happened since it was last asked for
    phase,        \* what each worker does: "idle", "claimed", "done" or "failed"
    job,          \* the item it does it for
    count,        \* the attempts of that item as the worker has them in memory
    crashes, retries    \* how much of the bounds is used

row == <<status, attempts, lockedBy, stale>>
worker == <<phase, job, count>>
vars == <<row, happened, worker, crashes, retries>>

Phases == {"idle", "claimed", "done", "failed"}

TypeOK ==
    /\ status \in [Items -> Statuses]
    /\ attempts \in [Items -> Nat]
    /\ lockedBy \in [Items -> Workers \cup {NoWorker}]
    /\ stale \in [Items -> BOOLEAN]
    /\ happened \in [Items -> BOOLEAN]
    /\ phase \in [Workers -> Phases]
    /\ job \in [Workers -> Items]
    /\ count \in [Workers -> Nat]
    /\ crashes \in Nat /\ retries \in Nat

Init ==
    /\ status = [i \in Items |-> "none"]
    /\ attempts = [i \in Items |-> 0]
    /\ lockedBy = [i \in Items |-> NoWorker]
    /\ stale = [i \in Items |-> FALSE]
    /\ happened = [i \in Items |-> FALSE]
    /\ phase = [w \in Workers |-> "idle"]
    /\ job \in [Workers -> Items]
    /\ count = [w \in Workers |-> 0]
    /\ crashes = 0 /\ retries = 0

-----------------------------------------------------------------------------
\* The row is unlocked and gets status s.
Release(i, s) ==
    /\ status' = [status EXCEPT ![i] = s]
    /\ lockedBy' = [lockedBy EXCEPT ![i] = NoWorker]
    /\ stale' = [stale EXCEPT ![i] = FALSE]

Rest(w) == phase' = [phase EXCEPT ![w] = "idle"] /\ UNCHANGED <<job, count>>

\* The domain transaction inserts the row; a known key changes nothing.
Enqueue(i) ==
    /\ status[i] = "none"
    /\ status' = [status EXCEPT ![i] = "queued"]
    /\ UNCHANGED <<attempts, lockedBy, stale, happened, worker, crashes, retries>>

\* SELECT ... FOR UPDATE SKIP LOCKED makes the claim atomic.
Unfinished == {"queued", "running", "retry"}     \* seeded fault
Claimable == {"queued", "retry"}

NextAttempt(i) == attempts[i] + 1

Claim(w, i) ==
    /\ phase[w] = "idle"
    /\ status[i] \in Claimable
    /\ status' = [status EXCEPT ![i] = "running"]
    /\ attempts' = [attempts EXCEPT ![i] = NextAttempt(i)]
    /\ lockedBy' = [lockedBy EXCEPT ![i] = w]
    /\ stale' = [stale EXCEPT ![i] = FALSE]
    /\ phase' = [phase EXCEPT ![w] = "claimed"]
    /\ job' = [job EXCEPT ![w] = i]
    /\ count' = [count EXCEPT ![w] = NextAttempt(i)]
    /\ UNCHANGED <<happened, crashes, retries>>

\* publish or execute.
Execute(w) ==
    /\ phase[w] = "claimed"
    /\ phase' = [phase EXCEPT ![w] = "done"]
    /\ happened' = [happened EXCEPT ![job[w]] = TRUE]
    /\ UNCHANGED <<row, job, count, crashes, retries>>

\* It raises, perhaps after the effect.
ExecuteFails(w) ==
    /\ phase[w] = "claimed"
    /\ phase' = [phase EXCEPT ![w] = "failed"]
    /\ happened' \in {happened, [happened EXCEPT ![job[w]] = TRUE]}
    /\ UNCHANGED <<row, job, count, crashes, retries>>

MarkSucceeded(w) ==
    /\ phase[w] = "done"
    /\ Release(job[w], "succeeded")
    /\ Rest(w)
    /\ UNCHANGED <<attempts, happened, crashes, retries>>

\* The commit of mark_succeeded fails and the item is treated as failed.
MarkSucceededFails(w) ==
    /\ phase[w] = "done"
    /\ phase' = [phase EXCEPT ![w] = "failed"]
    /\ UNCHANGED <<row, happened, job, count, crashes, retries>>

ExhaustedEarly(n) == n + 1 >= MaxAttempts     \* seeded fault
Exhausted(n) == n >= MaxAttempts
SkipsFailure(w) == "succeeded"     \* seeded fault
StatusAfterFailure(w) ==
    IF Exhausted(IF Rereads THEN attempts[job[w]] ELSE count[w])
    THEN "dead_letter" ELSE "retry"

MarkFailed(w) ==
    /\ phase[w] = "failed"
    /\ Release(job[w], StatusAfterFailure(w))
    /\ Rest(w)
    /\ UNCHANGED <<attempts, happened, crashes, retries>>

\* A worker process dies and is started again; its claims stay locked.
Crash(w) ==
    /\ phase[w] # "idle"
    /\ crashes < MaxCrashes
    /\ crashes' = crashes + 1
    /\ Rest(w)
    /\ UNCHANGED <<row, happened, retries>>

Working(w, i) == phase[w] # "idle" /\ job[w] = i

\* worker_stale_seconds pass.
LockGetsStale(i) ==
    /\ status[i] = "running" /\ ~stale[i]
    /\ SlowWorkers \/ \A w \in Workers : ~Working(w, i)
    /\ stale' = [stale EXCEPT ![i] = TRUE]
    /\ UNCHANGED <<status, attempts, lockedBy, happened, worker, crashes, retries>>

AnyLock(i) == status[i] = "running"     \* seeded fault
NoLock(i) == FALSE     \* seeded fault
IsStale(i) == status[i] = "running" /\ stale[i]

\* Each worker's tick starts with it.
RecoverStale ==
    LET S == {i \in Items : IsStale(i)}
    IN /\ S # {}
       /\ status' = [i \in Items |-> IF i \in S THEN "retry" ELSE status[i]]
       /\ lockedBy' = [i \in Items |-> IF i \in S THEN NoWorker ELSE lockedBy[i]]
       /\ stale' = [i \in Items |-> IF i \in S THEN FALSE ELSE stale[i]]
       /\ UNCHANGED <<attempts, happened, worker, crashes, retries>>

\* The administrator's retry looks at no status.
AdminRetry(i) ==
    /\ status[i] \in RetriedStatuses
    /\ retries < MaxRetries
    /\ retries' = retries + 1
    /\ Release(i, "queued")
    /\ attempts' = [attempts EXCEPT ![i] = 0]
    /\ happened' = [happened EXCEPT ![i] = FALSE]
    /\ UNCHANGED <<worker, crashes>>

Next ==
    \/ \E i \in Items : Enqueue(i) \/ LockGetsStale(i) \/ AdminRetry(i)
    \/ \E w \in Workers, i \in Items : Claim(w, i)
    \/ \E w \in Workers : Execute(w) \/ ExecuteFails(w) \/ MarkSucceeded(w)
                             \/ MarkSucceededFails(w) \/ MarkFailed(w) \/ Crash(w)
    \/ RecoverStale

Spec == Init /\ [][Next]_vars

\* A started worker goes on, ticks again and again, and takes what is due.
Fairness ==
    /\ \A w \in Workers : WF_vars(Execute(w) \/ ExecuteFails(w))
                       /\ WF_vars(MarkSucceeded(w) \/ MarkSucceededFails(w))
                       /\ WF_vars(MarkFailed(w))
    /\ \A i \in Items : WF_vars(\E w \in Workers : Claim(w, i)) /\ WF_vars(LockGetsStale(i))
    /\ WF_vars(RecoverStale)

FairSpec == Spec /\ Fairness

-----------------------------------------------------------------------------
(* Properties.                                                             *)

\* Without the same item being claimed by two workers (docs/RELIABILITY_DOMAIN.md,
\* Concurrency): no two workers ever carry out one item, crashes, stale-lock
\* recovery and retries of closed items included.
OneWorkerPerItem ==
    \A v, w \in Workers, i \in Items : Working(v, i) /\ Working(w, i) => v = w

SucceededHappened == \A i \in Items : status[i] = "succeeded" => happened[i]

DeadLetterExhausted == \A i \in Items : status[i] = "dead_letter" => attempts[i] >= MaxAttempts

\* A closed row says the truth: one that is marked done has had its effect since it
\* was last asked for, whatever crashed in between, and one that is given up has had
\* all the attempts it was allowed.
ClosedTruthfully == SucceededHappened /\ DeadLetterExhausted

\* After max_attempts the item becomes dead_letter (docs/RELIABILITY_DOMAIN.md,
\* Retry policy): it is not tried again.
AttemptsBounded == \A i \in Items : attempts[i] <= MaxAttempts

Closed == {"succeeded", "dead_letter"}

\* The state machine of docs/RELIABILITY_DOMAIN.md has no way out of published: no
\* row leaves it without an administrator's retry.
SucceededIsFinal ==
    [][\A i \in Items : status[i] = "succeeded" =>
          status'[i] = "succeeded" \/ retries' = retries + 1]_vars

\* Every item that was asked for is done or given up in the end, and stays so.
EveryItemCloses == \A i \in Items : status[i] \notin Closed \cup {"none"} ~> status[i] \in Closed

StateOf(s) ==
    IF s = "succeeded" THEN "done"
    ELSE IF s = "dead_letter" THEN "dead"
    ELSE IF s = "none" THEN "none" ELSE "open"

Contract == INSTANCE AtLeastOnce WITH
    state <- [i \in Items |-> StateOf(status[i])],
    happened <- happened

\* The queue is an at-least-once queue.
DeliversAtLeastOnce == Contract!Spec
=============================================================================
