-------------------------- MODULE MCDeliveryLoads --------------------------
(***************************************************************************)
(* The loads under which Delivery keeps what the documents promise: every  *)
(* handler, one request at a time (the constants of the .cfg), and two     *)
(* requests at a time of all handlers but `resume'.  `load' is chosen      *)
(* first and never changes.                                                *)
(***************************************************************************)
EXTENDS Delivery, TLC

CONSTANTS o1, o2, d1, d2, r1, r2

VARIABLE load

\* Two reachable states that differ by a permutation of the requests are both of
\* the second load, which has both requests: the first has r1 only.
Symmetry == Permutations(Orders) \cup Permutations(Drivers) \cup Permutations({r1, r2})

Races == INSTANCE Delivery WITH
    Requests <- {r1, r2}, Handlers <- AllHandlers \ {"resume"}

LoadsInit ==
    \/ load = "serial" /\ Init
    \/ load = "races" /\ Races!Init

LoadsNext ==
    \/ load = "serial" /\ Next /\ UNCHANGED load
    \/ load = "races" /\ Races!Next /\ UNCHANGED load

LoadsSpec == LoadsInit /\ [][LoadsNext]_<<vars, load>>

\* One request at a time, a driver never has two missions
\* (docs/DELIVERY_DOMAIN.md, "One Mission Per Driver"), the driver's profile says
\* on_mission exactly while the driver has one, one with an open issue included,
\* and the fulfillment row agrees with the order (docs/FULFILLMENT_DOMAIN.md:45).
SerialMissionsAgree ==
    load = "serial" => OneMissionPerDriver /\ DriverStatusTruthful /\ StageFollowsOrder
============================================================================
