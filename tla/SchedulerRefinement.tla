------------------------ MODULE SchedulerRefinement ------------------------
(***************************************************************************)
(* The scheduler implements Building: the mapping from the variables of    *)
(* main.c and hw7.c to the building's.                                     *)
(***************************************************************************)
EXTENDS SchedulerSafety

TripOf(p) ==
  CASE ppc[p] \in {"idle", "done"} -> "none"
    [] ppc[p] \in Before           -> "waiting"
    [] ppc[p] \in Aboard           -> "riding"
    [] OTHER                       -> "delivered"

(* Somebody has gone through the door of e since it opened: a passenger    *)
(* between the callback and its signal, the signal, or the elevator that   *)
(* has seen it. *)
Passed == {"load_in", "store_in", "add_find", "add_link", "signal_in",
           "load_out", "store_out", "rm_find", "rm_link", "signal_out"}

ServedAt(e) ==
  \/ overlapped
  \/ epc[e] \in {"close", "closing"}
  \/ is_passenger_ready[e]
  \/ \E p \in Passengers : Assigned(p) = e /\ ppc[p] \in Passed

Abstract == INSTANCE Building WITH
  Seats  <- SEATS,
  cab    <- floor,
  door   <- [e \in Elevators |-> IF open[e] THEN "open" ELSE "closed"],
  served <- [e \in Elevators |-> ServedAt(e)],
  trip   <- [p \in Passengers |-> TripOf(p)],
  place  <- in_elevator,
  at     <- at_floor,
  to     <- to_floor,
  broken <- overlapped

(* Until critical sections overlap, the threads of hw7.c serve exactly one *)
(* passenger per opening of a door, on the right floor, with a free seat;  *)
(* at all times cabins and doors move as promised and passenger_request    *)
(* returns only to a passenger on the requested floor (elevator.h:43-55).  *)
ImplementsBuilding == Abstract!BuildingSpec
=============================================================================
