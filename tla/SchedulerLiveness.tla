------------------------- MODULE SchedulerLiveness -------------------------
(***************************************************************************)
(* What eventually happens in the scheduler of hw7.c, under the fairness   *)
(* of threads that are never held up for ever (FairSpec).                  *)
(***************************************************************************)
EXTENDS SchedulerSafety

AllDone == \A p \in Passengers : ppc[p] = "done"

(* Conditions do not wake up by themselves for ever. *)
FewSpuriousWakeups == <>[][~SpuriousWakeup]_vars

(* No elevator's start counter stays short of what line 293 spins for:     *)
(* lost updates of start++ (line 196) can keep it there. *)
Started == \A e \in Elevators : <>[](start[e] >= START)

(* An elevator that stays in the wait of line 397, at an open door, for    *)
(* ever. *)
Parked(e) == <>[](epc[e] = "wait")

(* All trips complete unless an elevator ends up waiting for ever behind   *)
(* its open door for a passenger to go through, or critical sections       *)
(* overlap: nothing else in the scheduler can hold anybody up, neither the *)
(* lock that changes hands between six places of the code, nor a missed    *)
(* broadcast, nor a passenger the choice of the next stop overlooks        *)
(* (main.c:361-364, hw7.c:197-285, 293-412). *)
TripsCompleteUnlessParked ==
  FewSpuriousWakeups /\ Started =>
    \/ <>AllDone
    \/ \E e \in Elevators : Parked(e)
    \/ <>overlapped

(* main.c:361: "wait for all trips to complete", and line 371 reports that *)
(* "All ... passengers finished". *)
AllTripsComplete == FewSpuriousWakeups /\ Started => <>AllDone \/ <>overlapped
=============================================================================
