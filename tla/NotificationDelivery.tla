------------------------ MODULE NotificationDelivery ------------------------
(***************************************************************************)
(* External delivery of notifications: the workers that send push and SMS  *)
(* messages, the provider's receipts, which may come before the send is    *)
(* committed, and the job that replays unmatched receipts.                 *)
(*                                                                         *)
(* A worker commits its claim, calls the provider outside any transaction  *)
(* and commits the outcome on the row, whatever the row says by then.  The *)
(* backoff of a retry is left out: a row in `retry' may be claimed at any  *)
(* time.                                                                   *)
(***************************************************************************)
EXTENDS Integers, FiniteSets

CONSTANTS
    Deliveries,     \* notification_deliveries rows: a notification, a channel, a target
    Workers,
    Messages,       \* messages the provider may accept
    MaxAttempts,    \* notification_delivery_max_attempts
    SlowWorkers,    \* may a send outlast worker_stale_seconds?
    Bounces,        \* does a message that failed bounce as well?
    MaxCrashes,
    MaxRetries,     \* bound on retries by administrators
    Nothing

VARIABLES
    delivery,   \* rows: status, attempts, provider_message_id, delivered_at
    target,     \* is the target of a delivery active and wanted by its user?
    worker,     \* what each worker is doing
    message,    \* the provider's messages: of which delivery, their fate
    receipt,    \* notification_provider_events by message and status
    crashes, retries

ndVars == <<delivery, target, worker, message, receipt, crashes, retries>>

Receipts == {"accepted", "delivered", "failed", "bounced"}
Idle == [step |-> "idle"]
Unplanned == [status |-> "none", attempts |-> 0, msg |-> Nothing, delivered |-> FALSE]

Init ==
    /\ delivery = [d \in Deliveries |-> Unplanned]
    /\ target = [d \in Deliveries |-> TRUE]
    /\ worker = [w \in Workers |-> Idle]
    /\ message = [m \in Messages |-> [of |-> Nothing, fate |-> "none"]]
    /\ receipt = [m \in Messages |-> [r \in Receipts |-> "none"]]
    /\ crashes = 0
    /\ retries = 0

-----------------------------------------------------------------------------
\* emit and plan_for_notification: a row per active target, once.
Plan(d) ==
    /\ delivery[d].status = "none" /\ target[d]
    /\ delivery' = [delivery EXCEPT ![d].status = "pending"]
    /\ UNCHANGED <<target, worker, message, receipt, crashes, retries>>

\* register_device, deactivate_device, update_preferences.
SetTarget(d, active) ==
    /\ target' = [target EXCEPT ![d] = active]
    /\ UNCHANGED <<delivery, worker, message, receipt, crashes, retries>>

\* claim_one.
Claim(w, d) ==
    /\ worker[w] = Idle
    /\ delivery[d].status \in {"pending", "retry"}
    /\ delivery' = [delivery EXCEPT ![d].status = "processing", ![d].attempts = @ + 1]
    /\ worker' = [worker EXCEPT ![w] = [step |-> "claimed", delivery |-> d]]
    /\ UNCHANGED <<target, message, receipt, crashes, retries>>

\* _mark_skipped: the device or the preference is gone.
Skip(w) ==
    LET d == worker[w].delivery
    IN /\ worker[w].step = "claimed"
       /\ ~target[d]
       /\ delivery' = [delivery EXCEPT ![d].status = "skipped"]
       /\ worker' = [worker EXCEPT ![w] = Idle]
       /\ UNCHANGED <<target, message, receipt, crashes, retries>>

\* The provider accepts the message.
Send(w, m) ==
    LET d == worker[w].delivery
    IN /\ worker[w].step = "claimed"
       /\ target[d]
       /\ message[m].of = Nothing
       /\ message' = [message EXCEPT ![m] = [of |-> d, fate |-> "accepted"]]
       /\ worker' = [worker EXCEPT ![w] = [step |-> "sent", delivery |-> d, msg |-> m]]
       /\ UNCHANGED <<delivery, target, receipt, crashes, retries>>

\* The commit of the message's identity.
MarkSucceeded(w) ==
    LET d == worker[w].delivery
    IN /\ worker[w].step = "sent"
       /\ delivery' = [delivery EXCEPT ![d].status = "succeeded", ![d].msg = worker[w].msg]
       /\ worker' = [worker EXCEPT ![w] = Idle]
       /\ UNCHANGED <<target, message, receipt, crashes, retries>>

Exhausted(d) == delivery[d].attempts >= MaxAttempts

\* What the adapters make of an error: FCM's UNREGISTERED and SENDER_ID_MISMATCH end the
\* device as well; Twilio's errors, and those of the transport, never do.
PushRefusals == {r \in [permanent : BOOLEAN, deactivate : BOOLEAN] : r.deactivate => r.permanent}
SmsRefusals == [permanent : BOOLEAN, deactivate : {FALSE}]

\* _mark_failed: the provider refused.
MarkFailed(w, refusal) ==
    LET d == worker[w].delivery
    IN /\ worker[w].step = "claimed"
       /\ target[d]
       /\ delivery' = [delivery EXCEPT ![d].status =
             IF refusal.permanent \/ Exhausted(d) THEN "dead_letter" ELSE "retry"]
       /\ target' = [target EXCEPT ![d] = @ /\ ~refusal.deactivate]
       /\ worker' = [worker EXCEPT ![w] = Idle]
       /\ UNCHANGED <<message, receipt, crashes, retries>>

Crash(w) ==
    /\ worker[w] # Idle
    /\ crashes < MaxCrashes
    /\ crashes' = crashes + 1
    /\ worker' = [worker EXCEPT ![w] = Idle]
    /\ UNCHANGED <<delivery, target, message, receipt, retries>>

At(w, d) == worker[w] # Idle /\ worker[w].delivery = d

\* recover_stale.
RecoverStale(d) ==
    /\ delivery[d].status = "processing"
    /\ SlowWorkers \/ \A w \in Workers : ~At(w, d)
    /\ delivery' = [delivery EXCEPT ![d].status = "retry"]
    /\ UNCHANGED <<target, worker, message, receipt, crashes, retries>>

\* retry, by an administrator.
Retry(d) ==
    /\ retries < MaxRetries
    /\ delivery[d].status \in {"dead_letter", "retry"}
    /\ delivery' = [delivery EXCEPT ![d].status = "retry", ![d].attempts = 0]
    /\ retries' = retries + 1
    /\ UNCHANGED <<target, worker, message, receipt, crashes>>

-----------------------------------------------------------------------------
(* Receipts.                                                               *)

\* The provider learns what became of a message.
ProviderLearns(m, fate) ==
    /\ message[m].fate = "accepted"
    /\ message' = [message EXCEPT ![m].fate = fate]
    /\ UNCHANGED <<delivery, target, worker, receipt, crashes, retries>>

\* Receipts come in any order.
Signed(m, r) ==
    /\ message[m].of # Nothing
    /\ r \in {"accepted", message[m].fate} \/ (Bounces /\ r = "bounced" /\ message[m].fate = "failed")

\* The delivery a receipt is about, as far as the table knows.
MatchesDelivery(m) == {d \in Deliveries : message[m].of = d /\ delivery[d].msg # Nothing}     \* seeded fault
Matches(m) == {d \in Deliveries : delivery[d].msg = m}

\* _apply_provider_event, by the status of the row alone.
Applied(row, r) ==
    CASE r = "accepted"  -> [row EXCEPT !.status = "succeeded"]
      [] r = "delivered" -> [row EXCEPT !.status = "succeeded", !.delivered = TRUE]
      [] OTHER           -> [row EXCEPT !.status =
                                IF row.attempts >= MaxAttempts THEN "dead_letter" ELSE "retry"]

\* ingest_provider_event: the receipt is stored, and applied if it matches.
Ingest(m, r) ==
    /\ Signed(m, r)
    /\ receipt[m][r] = "none"
    /\ receipt' = [receipt EXCEPT ![m][r] = IF Matches(m) = {} THEN "unmatched" ELSE "processed"]
    /\ delivery' = [d \in Deliveries |-> IF d \in Matches(m) THEN Applied(delivery[d], r) ELSE delivery[d]]
    /\ UNCHANGED <<target, worker, message, crashes, retries>>

\* reconcile: a receipt that came before its message was committed.  Its other
\* half repairs rows that succeeded without a message, which no provider leaves.
NeverReplayed(m, r) == FALSE     \* seeded fault
Replayable(m, r) == receipt[m][r] = "unmatched" /\ Matches(m) # {}
Replay(m, r) ==
    /\ Replayable(m, r)
    /\ receipt' = [receipt EXCEPT ![m][r] = "processed"]
    /\ delivery' = [d \in Deliveries |-> IF d \in Matches(m) THEN Applied(delivery[d], r) ELSE delivery[d]]
    /\ UNCHANGED <<target, worker, message, crashes, retries>>

WorkerStep(w) ==
    \/ \E d \in Deliveries : Claim(w, d)
    \/ \E m \in Messages : Send(w, m)
    \/ Skip(w) \/ MarkSucceeded(w)
    \/ \E refusal \in PushRefusals \cup SmsRefusals : MarkFailed(w, refusal)

Next ==
    \/ \E d \in Deliveries : Plan(d) \/ RecoverStale(d) \/ Retry(d)
    \/ \E d \in Deliveries, b \in BOOLEAN : SetTarget(d, b)
    \/ \E w \in Workers : WorkerStep(w) \/ Crash(w)
    \/ \E m \in Messages, fate \in {"delivered", "failed"} : ProviderLearns(m, fate)
    \/ \E m \in Messages, r \in Receipts : Ingest(m, r) \/ Replay(m, r)

\* The worker loop dispatches and runs notifications.reconcile every minute,
\* which goes through the oldest 100 unmatched receipts.
NdFairness ==
    /\ \A w \in Workers : WF_ndVars(WorkerStep(w))
    /\ \A d \in Deliveries : WF_ndVars(RecoverStale(d))
    /\ \A m \in Messages, r \in Receipts : WF_ndVars(Replay(m, r))

-----------------------------------------------------------------------------
\* What a receipt reported delivered is not sent again, while workers crash and
\* retry and receipts come early, late and in any order.
DeliveredNotResent ==
    [][\A d \in Deliveries, m \in Messages :
          delivery[d].delivered /\ message[m].of = Nothing => message'[m].of # d]_ndVars

\* A receipt that came before the commit of its message is applied once the
\* delivery knows the message, unless a later message takes its place
\* (docs/INTEGRATION_RECONCILIATION.md:4).
EarlyReceiptApplied ==
    \A d \in Deliveries, m \in Messages, r \in Receipts :
        receipt[m][r] = "unmatched" /\ delivery[d].msg = m
            ~> receipt[m][r] = "processed" \/ delivery[d].msg # m

\* A delivery whose message failed, all its receipts processed, is retried or
\* given up on.
FailureNotForgotten ==
    \A d \in Deliveries :
        LET m == delivery[d].msg
        IN m # Nothing /\ receipt[m]["accepted"] = "processed" /\ receipt[m]["failed"] = "processed"
           /\ (\A w \in Workers : ~At(w, d)) => delivery[d].status # "succeeded"
=============================================================================
