---------------------------- MODULE MediaAssets ----------------------------
(***************************************************************************)
(* Media assets: a row in the database and an object in the store.  The    *)
(* client uploads through a signed link, asks the server to complete the   *)
(* asset, and attaches it to a dish, a support message or a delivery.      *)
(* The store takes no part in transactions: an object is looked at or      *)
(* erased at once, the row is written at the commit.                       *)
(***************************************************************************)
EXTENDS Integers, FiniteSets

CONSTANTS
    Assets,
    Requests,   \* requests that may be open at once
    Reuploads,  \* do clients use a link again once they have asked to complete the asset?
    Crashes     \* can a server stop in the middle of a request?

VARIABLES
    row,        \* media_assets.status, and whether the size recorded is the one announced
    link,       \* does the upload link still work?
    object,     \* the object in the store: none, or of the announced size or another one
    cutOff,     \* history: assets whose deletion stopped between the store and the row
    attached,   \* dishes, support_message_attachments and delivery_tasks that refer to it
    request

maVars == <<row, link, object, cutOff, attached, request>>

Idle == [kind |-> "none"]
Absent == [status |-> "absent", sized |-> FALSE]

Init ==
    /\ row = [a \in Assets |-> Absent]
    /\ link = [a \in Assets |-> FALSE]
    /\ object = [a \in Assets |-> "none"]
    /\ cutOff = {}
    /\ attached = {}
    /\ request = [q \in Requests |-> Idle]

CreateUpload(a) ==
    /\ row[a].status = "absent"
    /\ row' = [row EXCEPT ![a].status = "pending"]
    /\ link' = [link EXCEPT ![a] = TRUE]
    /\ UNCHANGED <<object, cutOff, attached, request>>

Settled(a) == \A q \in Requests : request[q] # Idle => request[q].asset # a

Upload(a, size) ==
    /\ link[a] /\ (Reuploads \/ (row[a].status = "pending" /\ Settled(a)))
    /\ object' = [object EXCEPT ![a] = size]
    /\ UNCHANGED <<row, link, cutOff, attached, request>>

LinkExpires(a) ==
    /\ link' = [link EXCEPT ![a] = FALSE]
    /\ UNCHANGED <<row, object, cutOff, attached, request>>

Asks(q, r) ==
    /\ request[q] = Idle
    /\ request' = [request EXCEPT ![q] = r]
    /\ UNCHANGED <<row, link, object, cutOff, attached>>

\* complete: an asset whose link has expired fails, whatever was uploaded.
BeginComplete(q, a) ==
    /\ row[a].status = "pending"
    /\ Asks(q, [kind |-> IF link[a] THEN "complete" ELSE "expired", asset |-> a])

BeginDelete(q, a) == row[a].status \notin {"absent", "deleted"} /\ Asks(q, [kind |-> "delete", asset |-> a])

\* set_dish_media, _attach_media and mark_delivered take assets that are ready.
BeginAttach(q, a) == row[a].status = "ready" /\ Asks(q, [kind |-> "attach", asset |-> a])

\* head: a missing object is an error that changes nothing.
AnySize(a) == TRUE      \* seeded fault
RightSize(a) == object[a] = "announced"

Head(q) ==
    LET r == request[q]
    IN /\ r.kind = "complete"
       /\ request' = [request EXCEPT ![q] =
             IF object[r.asset] = "none" THEN Idle
             ELSE [r EXCEPT !.kind = IF RightSize(r.asset) THEN "ready" ELSE "failed"]]
       /\ UNCHANGED <<row, link, object, cutOff, attached>>

Erase(q) ==
    /\ request[q].kind = "delete"
    /\ object' = [object EXCEPT ![request[q].asset] = "none"]
    /\ request' = [request EXCEPT ![q].kind = "erased"]
    /\ UNCHANGED <<row, link, cutOff, attached>>

Writes(q, a, new) ==
    /\ row' = [row EXCEPT ![a] = new]
    /\ request' = [request EXCEPT ![q] = Idle]
    /\ UNCHANGED <<link, object, cutOff>>

Commit(q) ==
    LET r == request[q]
        a == r.asset
    IN \/ r.kind = "ready" /\ Writes(q, a, [status |-> "ready", sized |-> TRUE]) /\ UNCHANGED attached
       \/ r.kind \in {"failed", "expired"} /\ Writes(q, a, [row[a] EXCEPT !.status = "failed"]) /\ UNCHANGED attached
       \/ r.kind = "erased" /\ Writes(q, a, [row[a] EXCEPT !.status = "deleted"]) /\ UNCHANGED attached
       \/ r.kind = "attach" /\ Writes(q, a, row[a]) /\ attached' = attached \cup {a}

Crash(q) ==
    /\ Crashes /\ request[q] # Idle
    /\ cutOff' = IF request[q].kind = "erased" THEN cutOff \cup {request[q].asset} ELSE cutOff
    /\ request' = [request EXCEPT ![q] = Idle]
    /\ UNCHANGED <<row, link, object, attached>>

Next ==
    \/ \E a \in Assets :
          \/ CreateUpload(a) \/ LinkExpires(a)
          \/ \E size \in {"announced", "other"} : Upload(a, size)
    \/ \E q \in Requests :
          \/ Head(q) \/ Erase(q) \/ Commit(q) \/ Crash(q)
          \/ \E a \in Assets : BeginComplete(q, a) \/ BeginDelete(q, a) \/ BeginAttach(q, a)

-----------------------------------------------------------------------------
\* An asset that is ready, and that no request is at, has its object in the store, of the
\* size announced, unless a deletion of it was cut off; one that is deleted has none
\* (docs/MEDIA_STORAGE.md, "Verification").
ReadyHasObject ==
    \A a \in Assets : Settled(a) =>
        /\ row[a].status = "ready" /\ a \notin cutOff => object[a] = "announced"
        /\ row[a].status = "deleted" => object[a] = "none"

\* What a dish, a ticket or a delivery refers to can be downloaded.
AttachedIsReady == \A a \in attached : row[a].status = "ready"
=============================================================================
