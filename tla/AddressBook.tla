---------------------------- MODULE AddressBook ----------------------------
(***************************************************************************)
(* The addresses of one customer, one of which is the default, edited by   *)
(* requests that may overlap.  A request reads, then clears the other      *)
(* defaults with one UPDATE, which locks the rows it finds, and commits.   *)
(***************************************************************************)
EXTENDS Integers, FiniteSets, FiniteSetsExt

CONSTANTS
    Addresses,  \* numbers, in the order of created_at
    Requests    \* requests that may be open at once

VARIABLES
    book,       \* the addresses there are, each with its is_default
    request     \* what each request is doing

abVars == <<book, request>>

Idle == [step |-> "none"]

Init ==
    /\ book = [a \in {} |-> FALSE]
    /\ request = [q \in Requests |-> Idle]

Created(a) == \A b \in DOMAIN book : b < a
Unclaimed(a) == \A q \in Requests : request[q].step # "none" => request[q].address # a

Begin(q, kind, a, default) ==
    /\ request[q].step = "none"
    /\ request' = [request EXCEPT ![q] =
          [step |-> "read", kind |-> kind, address |-> a, default |-> default,
           was |-> a \in DOMAIN book /\ book[a], cleared |-> {}]]
    /\ UNCHANGED book

\* create_address: the first address is the default whatever the customer says.
CreateAddress(q, a, default) ==
    /\ Created(a) /\ Unclaimed(a)
    /\ Begin(q, "create", a, default \/ book = <<>>)

UpdateAddress(q, a, default) == a \in DOMAIN book /\ Begin(q, "update", a, default)
SetDefault(q, a) == a \in DOMAIN book /\ Begin(q, "set_default", a, TRUE)
DeleteAddress(q, a) == a \in DOMAIN book /\ Begin(q, "delete", a, FALSE)

\* Rows that an open request has updated are locked until it commits.
Locked == UNION {request[q].cleared : q \in {x \in Requests : request[x].step = "cleared"}}

Clears(r) == IF r.kind = "update" THEN DOMAIN book \ {r.address} ELSE DOMAIN book

ClearDefaults(q) ==
    /\ request[q].step = "read" /\ request[q].default
    /\ Clears(request[q]) \cap Locked = {}
    /\ request' = [request EXCEPT ![q].step = "cleared", ![q].cleared = Clears(request[q])]
    /\ UNCHANGED book

Without(a) == [b \in DOMAIN book \ {a} |-> book[b]]
NoReplacement(rest) == {}     \* seeded fault
Replacement(rest) == IF rest = <<>> THEN {} ELSE {Min(DOMAIN rest)}

\* The rows as they are after the commit.
AfterDelete(r) ==
    LET rest == Without(r.address)
    IN [b \in DOMAIN rest |-> rest[b] \/ (r.was /\ b \in Replacement(rest))]

\* update_address writes is_default only when it read FALSE; set_default cleared it first.
Sets(r) == r.default /\ (r.kind = "update" => ~r.was)
AfterEdit(r) ==
    [b \in DOMAIN book \cup {r.address} |->
        IF b = r.address /\ (Sets(r) \/ b \notin DOMAIN book) THEN Sets(r)
        ELSE b \notin r.cleared /\ book[b]]

\* A request whose row was deleted meanwhile fails.
AfterRequest(r) ==
    IF r.kind # "create" /\ r.address \notin DOMAIN book THEN book
    ELSE IF r.kind = "delete" THEN AfterDelete(r) ELSE AfterEdit(r)

Commit(q) ==
    LET r == request[q]
    IN /\ r.step = (IF r.step # "none" /\ r.default THEN "cleared" ELSE "read")
       /\ r.address \notin UNION {request[p].cleared : p \in {x \in Requests \ {q} : request[x].step = "cleared"}}
       /\ book' = AfterRequest(r)
       /\ request' = [request EXCEPT ![q] = Idle]

Next ==
    \E q \in Requests :
        \/ ClearDefaults(q) \/ Commit(q)
        \/ \E a \in Addresses :
              \/ SetDefault(q, a) \/ DeleteAddress(q, a)
              \/ \E default \in BOOLEAN : CreateAddress(q, a, default) \/ UpdateAddress(q, a, default)

-----------------------------------------------------------------------------
\* A customer with addresses has exactly one default, between two requests: a
\* checkout that names no address finds it.
OneDefault ==
    (book # <<>> /\ \A q \in Requests : request[q].step = "none") =>
        Cardinality({a \in DOMAIN book : book[a]}) = 1
=============================================================================
