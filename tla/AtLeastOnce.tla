---------------------------- MODULE AtLeastOnce ----------------------------
(***************************************************************************)
(* What the transactional outbox and the job table promise of one item:    *)
(* once it is asked for, it is open until its effect has happened or the   *)
(* system has given it up; then it stays closed, unless an administrator   *)
(* asks for it again.                                                      *)
(***************************************************************************)
CONSTANT Items

VARIABLES state,      \* "none", "open", "done" or "dead"
          happened    \* the effect has happened since the item was last asked for

vars == <<state, happened>>

TypeOK ==
    /\ state \in [Items -> {"none", "open", "done", "dead"}]
    /\ happened \in [Items -> BOOLEAN]

Init ==
    /\ state = [i \in Items |-> "none"]
    /\ happened = [i \in Items |-> FALSE]

Ask(i) ==
    /\ state[i] # "open"
    /\ state' = [state EXCEPT ![i] = "open"]
    /\ happened' = [happened EXCEPT ![i] = FALSE]

\* The effect can happen again: at least once, not exactly once.
Happen(i) ==
    /\ state[i] = "open"
    /\ happened' = [happened EXCEPT ![i] = TRUE]
    /\ UNCHANGED state

Close(i) ==
    /\ state[i] = "open" /\ happened[i]
    /\ state' = [state EXCEPT ![i] = "done"]
    /\ UNCHANGED happened

GiveUp(i) ==
    /\ state[i] = "open"
    /\ state' = [state EXCEPT ![i] = "dead"]
    /\ UNCHANGED happened

Next == \E i \in Items : Ask(i) \/ Happen(i) \/ Close(i) \/ GiveUp(i)

Spec == Init /\ [][Next]_vars
=============================================================================
