---------------------------- MODULE MCScheduler ----------------------------
(* Bounds for model checking the scheduler. *)
EXTENDS SchedulerRefinement, SchedulerClaims

(* Look no further once critical sections have overlapped, for properties  *)
(* that say nothing of what comes after. *)
NotOverlapped == ~overlapped

(* Nor when another passenger than the first is about to make a second trip. *)
OneReturns == NotOverlapped /\ \A p \in Passengers \ {0} : trips[p] >= TRIPS_PER_PASSENGER - 1
=============================================================================
