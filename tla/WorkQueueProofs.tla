-------------------------- MODULE WorkQueueProofs --------------------------
(***************************************************************************)
(* What WorkQueue guarantees for any number of items, workers, crashes and *)
(* retries, provided that no worker outlives worker_stale_seconds and that *)
(* the administrator's retry is used on closed items only.                 *)
(***************************************************************************)
EXTENDS WorkQueue, TLAPS

Disciplined == ~SlowWorkers /\ RetriedStatuses \subseteq Closed

\* A worker that works on an item holds its lock, which is not old, and knows
\* how often the item has been tried.
Holding ==
    \A w \in Workers : phase[w] # "idle" =>
        /\ status[job[w]] = "running" /\ lockedBy[job[w]] = w /\ ~stale[job[w]]
        /\ count[w] = attempts[job[w]]

\* An effect that a worker takes for done has happened.
DoneHappened == \A w \in Workers : phase[w] = "done" => happened[job[w]]

\* An item that nobody has asked for has had no effect.
Unasked == \A i \in Items : status[i] = "none" => ~happened[i]

QueueInv == TypeOK /\ Holding /\ DoneHappened /\ SucceededHappened /\ DeadLetterExhausted /\ Unasked

-----------------------------------------------------------------------------
\* Types need no discipline.
LEMMA StepType == TypeOK /\ [Next]_vars => TypeOK'
<1>. SUFFICES ASSUME TypeOK, [Next]_vars PROVE TypeOK'  OBVIOUS
<1>. USE DEF TypeOK, Statuses, Phases, row, worker
<1>1. CASE \E i \in Items : Enqueue(i) \/ LockGetsStale(i)
  BY <1>1 DEF Enqueue, LockGetsStale
<1>2. CASE \E i \in Items : AdminRetry(i)
  BY <1>2 DEF AdminRetry, Release
<1>3. CASE \E w \in Workers, i \in Items : Claim(w, i)
  BY <1>3 DEF Claim, NextAttempt
<1>4. ASSUME NEW w \in Workers, Execute(w) \/ ExecuteFails(w) PROVE TypeOK'
  BY <1>4 DEF Execute, ExecuteFails
<1>5. ASSUME NEW w \in Workers, MarkSucceeded(w) \/ MarkSucceededFails(w) PROVE TypeOK'
  BY <1>5 DEF MarkSucceeded, MarkSucceededFails, Release, Rest
<1>6. ASSUME NEW w \in Workers, MarkFailed(w) PROVE TypeOK'
  <2>1. StatusAfterFailure(w) \in Statuses  BY DEF StatusAfterFailure
  <2>. QED  BY <1>6, <2>1 DEF MarkFailed, Release, Rest
<1>7. ASSUME NEW w \in Workers, Crash(w) PROVE TypeOK'
  BY <1>7, ConstantsAssumption DEF Crash, Rest
<1>8. CASE RecoverStale
  BY <1>8 DEF RecoverStale
<1>9. CASE UNCHANGED vars
  BY <1>9 DEF vars
<1>. QED
  BY <1>1, <1>2, <1>3, <1>4, <1>5, <1>6, <1>7, <1>8, <1>9 DEF Next

\* Every row, worker and counter keeps its range (TypeOK).
THEOREM TypeCorrect == Spec => []TypeOK
<1>1. Init => TypeOK
  BY DEF Init, TypeOK, Statuses, Phases
<1>. QED  BY <1>1, StepType, PTL DEF Spec

-----------------------------------------------------------------------------
\* The invariant holds at first: nobody works and nothing is closed.
LEMMA InitQueue == Init => QueueInv
  BY DEF Init, QueueInv, TypeOK, Statuses, Phases, Holding, DoneHappened,
         SucceededHappened, DeadLetterExhausted, Unasked

\* A worker's step and everybody else's keep each worker's lock its own.
LEMMA StepQueue ==
    ASSUME Disciplined
    PROVE  QueueInv /\ [Next]_vars => QueueInv'
<1>. SUFFICES ASSUME QueueInv, [Next]_vars
              PROVE  Holding' /\ DoneHappened' /\ SucceededHappened' /\ DeadLetterExhausted' /\ Unasked'
  BY StepType DEF QueueInv
<1>. USE DEF QueueInv, TypeOK, Statuses, Phases, row, worker,
             Holding, DoneHappened, SucceededHappened, DeadLetterExhausted, Unasked
<1>1. CASE \E i \in Items : Enqueue(i)
  BY <1>1 DEF Enqueue
<1>2. CASE \E i \in Items : LockGetsStale(i)
  BY <1>2 DEF LockGetsStale, Working, Disciplined
<1>3. ASSUME NEW i \in Items, AdminRetry(i)
      PROVE  Holding' /\ DoneHappened' /\ SucceededHappened' /\ DeadLetterExhausted' /\ Unasked'
  <2>1. status[i] # "running"  BY <1>3 DEF AdminRetry, Disciplined, Closed
  <2>. QED  BY <1>3, <2>1 DEF AdminRetry, Release
<1>4. ASSUME NEW w \in Workers, NEW i \in Items, Claim(w, i)
      PROVE  Holding' /\ DoneHappened' /\ SucceededHappened' /\ DeadLetterExhausted' /\ Unasked'
  <2>1. status[i] # "running"  BY <1>4 DEF Claim, Claimable
  <2>2. \A v \in Workers : phase[v] # "idle" => job[v] # i  BY <2>1
  <2>3. Holding'  BY <1>4, <2>2 DEF Claim, NextAttempt
  <2>4. DoneHappened'  BY <1>4 DEF Claim
  <2>5. SucceededHappened' /\ DeadLetterExhausted' /\ Unasked'  BY <1>4 DEF Claim, NextAttempt
  <2>. QED  BY <2>3, <2>4, <2>5
<1>5. CASE \E w \in Workers : Execute(w)
  BY <1>5 DEF Execute
<1>6. CASE \E w \in Workers : ExecuteFails(w)
  BY <1>6 DEF ExecuteFails
<1>7. ASSUME NEW w \in Workers, MarkSucceeded(w)
      PROVE  Holding' /\ DoneHappened' /\ SucceededHappened' /\ DeadLetterExhausted' /\ Unasked'
  <2>1. \A v \in Workers : phase[v] # "idle" /\ job[v] = job[w] => v = w
    BY <1>7 DEF MarkSucceeded
  <2>2. happened[job[w]]  BY <1>7 DEF MarkSucceeded
  <2>3. Holding' /\ DoneHappened'  BY <1>7, <2>1 DEF MarkSucceeded, Release, Rest
  <2>4. SucceededHappened' /\ DeadLetterExhausted' /\ Unasked'
    BY <1>7, <2>2 DEF MarkSucceeded, Release, Rest
  <2>. QED  BY <2>3, <2>4
<1>8. CASE \E w \in Workers : MarkSucceededFails(w)
  BY <1>8 DEF MarkSucceededFails
<1>9. ASSUME NEW w \in Workers, MarkFailed(w)
      PROVE  Holding' /\ DoneHappened' /\ SucceededHappened' /\ DeadLetterExhausted' /\ Unasked'
  <2>1. \A v \in Workers : phase[v] # "idle" /\ job[v] = job[w] => v = w
    BY <1>9 DEF MarkFailed
  <2>2. /\ StatusAfterFailure(w) \in {"dead_letter", "retry"}
        /\ StatusAfterFailure(w) = "dead_letter" => attempts[job[w]] >= MaxAttempts
    BY <1>9 DEF MarkFailed, StatusAfterFailure, Exhausted
  <2>3. Holding' /\ DoneHappened'  BY <1>9, <2>1 DEF MarkFailed, Release, Rest
  <2>4. SucceededHappened' /\ DeadLetterExhausted' /\ Unasked'
    BY <1>9, <2>2 DEF MarkFailed, Release, Rest
  <2>. QED  BY <2>3, <2>4
<1>10. CASE \E w \in Workers : Crash(w)
  BY <1>10 DEF Crash, Rest
<1>11. CASE RecoverStale
  BY <1>11 DEF RecoverStale, IsStale
<1>12. CASE UNCHANGED vars
  BY <1>12 DEF vars
<1>. QED
  BY <1>1, <1>2, <1>3, <1>4, <1>5, <1>6, <1>7, <1>8, <1>9, <1>10, <1>11, <1>12 DEF Next

LEMMA QueueInvariant ==
    ASSUME Disciplined
    PROVE  Spec => []QueueInv
<1>1. QueueInv /\ [Next]_vars => QueueInv'  BY StepQueue
<1>. QED  BY <1>1, InitQueue, PTL DEF Spec

\* No two workers ever carry out one item (OneWorkerPerItem).
THEOREM WorkersExclusive ==
    ASSUME Disciplined
    PROVE  Spec => []OneWorkerPerItem
<1>1. QueueInv => OneWorkerPerItem
  BY DEF QueueInv, Holding, OneWorkerPerItem, Working
<1>. QED  BY <1>1, QueueInvariant, PTL

\* A closed item says the truth (ClosedTruthfully): a succeeded one has had its
\* effect, a dead one has used up its attempts.
THEOREM ClosedTruthful ==
    ASSUME Disciplined
    PROVE  Spec => []ClosedTruthfully
<1>1. QueueInv => ClosedTruthfully  BY DEF QueueInv, ClosedTruthfully
<1>. QED  BY <1>1, QueueInvariant, PTL

\* No step but an administrator's retry takes a row out of succeeded
\* (SucceededIsFinal).
THEOREM SucceededStays ==
    ASSUME Disciplined
    PROVE  Spec => SucceededIsFinal
<1>. DEFINE Stays == \A i \in Items : status[i] = "succeeded" =>
                        status'[i] = "succeeded" \/ retries' = retries + 1
<1>1. ASSUME QueueInv, Next PROVE Stays
  <2>. USE DEF QueueInv, TypeOK, row, worker
  <2>1. CASE \E i \in Items : Enqueue(i) \/ LockGetsStale(i) \/ AdminRetry(i)
    BY <1>1, <2>1 DEF Enqueue, LockGetsStale, AdminRetry
  <2>2. CASE \E w \in Workers, i \in Items : Claim(w, i)
    BY <1>1, <2>2 DEF Claim, Claimable
  <2>3. CASE \E w \in Workers : Execute(w) \/ ExecuteFails(w) \/ MarkSucceededFails(w) \/ Crash(w)
    BY <1>1, <2>3 DEF Execute, ExecuteFails, MarkSucceededFails, Crash
  <2>4. CASE \E w \in Workers : MarkSucceeded(w) \/ MarkFailed(w)
    BY <1>1, <2>4 DEF MarkSucceeded, MarkFailed, Release, Holding
  <2>5. CASE RecoverStale
    BY <1>1, <2>5 DEF RecoverStale, IsStale
  <2>. QED  BY <1>1, <2>1, <2>2, <2>3, <2>4, <2>5 DEF Next
<1>2. QueueInv /\ [Next]_vars => [Stays]_vars  BY <1>1
<1>. QED  BY <1>2, QueueInvariant, PTL DEF Spec, SucceededIsFinal

-----------------------------------------------------------------------------
\* Every step of the queue is a step of the at-least-once contract or changes
\* nothing in it.
LEMMA StepContract ==
    ASSUME Disciplined, QueueInv, [Next]_vars
    PROVE  [Contract!Next]_(Contract!vars)
<1>. DEFINE St == [i \in Items |-> StateOf(status[i])]
<1>. USE DEF QueueInv, TypeOK, Statuses, row, worker, Contract!vars
<1>1. ASSUME UNCHANGED <<status, happened>> PROVE UNCHANGED Contract!vars
  BY <1>1
<1>2. ASSUME NEW i \in Items, NEW s \in Statuses, status' = [status EXCEPT ![i] = s]
      PROVE  St' = [St EXCEPT ![i] = StateOf(s)]
  BY <1>2
<1>3. ASSUME NEW i \in Items, NEW s \in Statuses, status' = [status EXCEPT ![i] = s],
             StateOf(s) = StateOf(status[i])
      PROVE  St' = St
  BY <1>3
<1>4. ASSUME NEW i \in Items, Enqueue(i) PROVE Contract!Ask(i)
  <2>1. happened[i] = FALSE  BY <1>4 DEF Enqueue, Unasked
  <2>2. happened' = [happened EXCEPT ![i] = FALSE]  BY <1>4, <2>1 DEF Enqueue
  <2>3. St' = [St EXCEPT ![i] = "open"]  BY <1>2, <1>4 DEF Enqueue, StateOf
  <2>. QED  BY <1>4, <2>2, <2>3 DEF Enqueue, StateOf, Contract!Ask
<1>5. ASSUME NEW i \in Items, AdminRetry(i) PROVE Contract!Ask(i)
  <2>1. St' = [St EXCEPT ![i] = "open"]  BY <1>2, <1>5 DEF AdminRetry, Release, StateOf
  <2>. QED  BY <1>5, <2>1 DEF AdminRetry, StateOf, Contract!Ask, Disciplined, Closed
<1>6. ASSUME NEW w \in Workers, Execute(w) \/ ExecuteFails(w)
      PROVE  Contract!Happen(job[w]) \/ UNCHANGED Contract!vars
  BY <1>1, <1>6 DEF Execute, ExecuteFails, Holding, StateOf, Contract!Happen
<1>7. ASSUME NEW w \in Workers, MarkSucceeded(w) PROVE Contract!Close(job[w])
  <2>1. St' = [St EXCEPT ![job[w]] = "done"]  BY <1>2, <1>7 DEF MarkSucceeded, Release, StateOf
  <2>. QED  BY <1>7, <2>1 DEF MarkSucceeded, Holding, DoneHappened, StateOf, Contract!Close
<1>8. ASSUME NEW w \in Workers, MarkFailed(w)
      PROVE  Contract!GiveUp(job[w]) \/ UNCHANGED Contract!vars
  <2>1. status[job[w]] = "running"  BY <1>8 DEF MarkFailed, Holding
  <2>2. CASE StatusAfterFailure(w) = "retry"
    <3>1. St' = St  BY <1>3, <1>8, <2>1, <2>2 DEF MarkFailed, Release, StateOf
    <3>. QED  BY <1>8, <3>1 DEF MarkFailed
  <2>3. CASE StatusAfterFailure(w) = "dead_letter"
    <3>1. St' = [St EXCEPT ![job[w]] = "dead"]
      BY <1>2, <1>8, <2>3 DEF MarkFailed, Release, StateOf
    <3>. QED  BY <1>8, <2>1, <3>1 DEF MarkFailed, StateOf, Contract!GiveUp
  <2>. QED  BY <2>2, <2>3 DEF StatusAfterFailure
<1>9. ASSUME NEW w \in Workers, NEW i \in Items, Claim(w, i)
      PROVE  UNCHANGED Contract!vars
  <2>1. St' = St  BY <1>3, <1>9 DEF Claim, Claimable, StateOf
  <2>. QED  BY <1>9, <2>1 DEF Claim
<1>10. CASE RecoverStale
  <2>1. \A i \in Items : StateOf(status[i])' = StateOf(status[i])
    BY <1>10 DEF RecoverStale, IsStale, StateOf
  <2>2. St' = St  BY <2>1
  <2>. QED  BY <1>10, <2>2 DEF RecoverStale
<1>11. CASE \/ \E i \in Items : LockGetsStale(i)
            \/ \E w \in Workers : MarkSucceededFails(w) \/ Crash(w)
            \/ UNCHANGED vars
  BY <1>1, <1>11 DEF LockGetsStale, MarkSucceededFails, Crash, vars
<1>12. job \in [Workers -> Items]  OBVIOUS
<1>. QED
  BY <1>4, <1>5, <1>6, <1>7, <1>8, <1>9, <1>10, <1>11, <1>12 DEF Next, Contract!Next

\* The queue implements the at-least-once contract (DeliversAtLeastOnce).
THEOREM ImplementsContract ==
    ASSUME Disciplined
    PROVE  Spec => DeliversAtLeastOnce
<1>1. Init => Contract!Init
  BY DEF Init, StateOf, Contract!Init
<1>2. QueueInv /\ [Next]_vars => [Contract!Next]_(Contract!vars)
  BY StepContract
<1>. QED  BY <1>1, <1>2, QueueInvariant, PTL DEF Spec, DeliversAtLeastOnce, Contract!Spec
=============================================================================
