---------------------------- MODULE SupportDesk ----------------------------
(***************************************************************************)
(* A support ticket between a customer and administrators.  A handler      *)
(* reads the ticket, adds a message or moves the status, and commits the   *)
(* columns it changed; nothing is locked.                                  *)
(***************************************************************************)
EXTENDS Integers, FiniteSets

CONSTANTS
    Admins,
    Requests    \* requests that may be open at once

VARIABLES
    ticket,     \* support_tickets: status, assigned_admin_id
    answered,   \* history: has the customer written since the ticket began to wait for it?
    noticed,    \* support_status notifications, by their dedupe key
    pending     \* what each request has read and will write

sdVars == <<ticket, answered, noticed, pending>>

Nobody == "nobody"
Idle == [kind |-> "none"]

Init ==
    /\ ticket = [status |-> "absent", admin |-> Nobody]
    /\ answered = FALSE
    /\ noticed = {}
    /\ pending = [q \in Requests |-> Idle]

\* create_ticket.
CreateTicket ==
    /\ ticket.status = "absent"
    /\ ticket' = [ticket EXCEPT !.status = "new"]
    /\ UNCHANGED <<answered, noticed, pending>>

Allowed == [
    new |-> {"assigned", "investigating", "closed"},
    assigned |-> {"investigating", "awaiting_customer", "awaiting_internal", "resolved", "closed"},
    investigating |-> {"awaiting_customer", "awaiting_internal", "resolved", "closed"},
    awaiting_customer |-> {"investigating", "resolved", "closed"},
    awaiting_internal |-> {"investigating", "resolved", "closed"},
    resolved |-> {"closed", "investigating"},
    closed |-> {}]

Owned(a) == IF ticket.admin = Nobody THEN a ELSE ticket.admin

Begin(q, kind, status, admin) ==
    /\ pending[q] = Idle
    /\ pending' = [pending EXCEPT ![q] = [kind |-> kind, old |-> ticket, new |-> [status |-> status, admin |-> admin]]]
    /\ UNCHANGED <<ticket, answered, noticed>>

StatusKept(s) == s      \* seeded fault
StatusAnswered(s) == IF s = "awaiting_customer" THEN "investigating" ELSE s

CustomerMessage(q) ==
    /\ ticket.status \notin {"absent", "closed"}
    /\ Begin(q, "customer", StatusAnswered(ticket.status), ticket.admin)

AdminMessage(q, a) ==
    /\ ticket.status \notin {"absent", "closed"}
    /\ Begin(q, "admin", IF ticket.status \in {"new", "assigned"} THEN "investigating" ELSE ticket.status, Owned(a))

Assign(q, a) ==
    /\ ticket.status # "absent"
    /\ Begin(q, "assign", IF ticket.status = "new" THEN "assigned" ELSE ticket.status, a)

UpdateStatus(q, a, status) ==
    /\ ticket.status # "absent"
    /\ status \in Allowed[ticket.status]
    /\ Begin(q, "status", status, Owned(a))

\* A notification of a status is sent once per ticket.
Commit(q) ==
    LET p == pending[q]
    IN /\ p.kind # "none"
       /\ ticket' = [f \in DOMAIN ticket |-> IF p.new[f] = p.old[f] THEN ticket[f] ELSE p.new[f]]
       /\ answered' = IF p.kind = "customer" THEN TRUE
                      ELSE answered /\ ~(p.kind = "status" /\ p.new.status = "awaiting_customer")
       /\ noticed' = IF p.kind = "status" THEN noticed \cup ({p.new.status} \cap {"resolved", "closed"}) ELSE noticed
       /\ pending' = [pending EXCEPT ![q] = Idle]

Next ==
    \/ CreateTicket
    \/ \E q \in Requests :
          \/ CustomerMessage(q) \/ Commit(q)
          \/ \E a \in Admins :
                \/ AdminMessage(q, a) \/ Assign(q, a)
                \/ \E s \in DOMAIN Allowed : UpdateStatus(q, a, s)

-----------------------------------------------------------------------------
\* A ticket waits for the customer only as long as the customer has not written
\* (docs/POST_ORDER_DOMAIN.md:36-50).
WaitsOnlyForCustomer == ticket.status = "awaiting_customer" => ~answered

\* A closed ticket stays closed (docs/POST_ORDER_DOMAIN.md:49).
ClosedStays == [][ticket.status = "closed" => ticket'.status = "closed"]_sdVars
=============================================================================
