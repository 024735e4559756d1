---------------------------- MODULE MCPostLaunch ----------------------------
(***************************************************************************)
(* A launch whose stabilization and whose review window are equally long,  *)
(* as the settings have them, seen one day past the last of its days.      *)
(* The clock goes on, and the worker runs the three parts of maintain.     *)
(***************************************************************************)
EXTENDS PostLaunchReview

Maintain ==
    \/ \E figures \in [Days -> Prepared] : PrepareDueCloses(figures)
    \/ MonitorOverdueCloses \/ RefreshDueReviews

Spec == Init /\ [][Next]_plVars /\ WF_plVars(Tick) /\ WF_plVars(Maintain)
=============================================================================
