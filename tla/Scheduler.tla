----------------------------- MODULE Scheduler -----------------------------
(***************************************************************************)
(* The elevator scheduler (hw7-jli230-main/C/hw7.c) with the threads of    *)
(* main.c that run it: one thread per passenger (start_passenger calling   *)
(* passenger_request), one per elevator (start_elevator calling            *)
(* elevator_ready) and the main thread, which joins the passengers and     *)
(* then asks the elevators to stop.                                        *)
(*                                                                         *)
(* One step is one access, or one run of accesses that no other thread can *)
(* tell from a single one, to the shared structs, a lock or a condition.   *)
(* hw7.c takes elevator_lock in the passengers only: an elevator thread    *)
(* unlocks it at every floor it passes (line 406) and lets go of it in     *)
(* pthread_cond_wait (line 397) whether or not it holds it.  The mutexes   *)
(* are of glibc's default kind, whose unlock frees the mutex no matter     *)
(* who owns it, and that is what unlocking means below.                    *)
(***************************************************************************)
EXTENDS Enforcement

CONSTANTS
  TRIPS_PER_PASSENGER,  (* elevator.h:23                                   *)
  START,                (* the 3 of hw7.c:293, requests before it moves    *)
  SEATS                 (* the 3 of hw7.c:215, hw7's idea of the capacity  *)

ASSUME SchedulerAssumption ==
  /\ TRIPS_PER_PASSENGER \in Nat \ {0}
  /\ START \in Nat
  /\ SEATS \in Nat \ {0}
  /\ SEATS <= MAX_CAPACITY

(* hw7.c:180.  The literal 4 of lines 89 and 180 is ELEVATORS in the       *)
(* configuration that is shipped (elevator.h:11), and is scaled with it.   *)
Assigned(p) == p % ELEVATORS

NONE == -1

(* The holder of a lock other than a passenger. *)
FREE     == -1
MAIN     == -2
ELEVATOR == -3

VARIABLES
  (* struct Elevator_info elevators[], the fields that are ever read       *)
  elevator_floor, elevator_direction, passenger_count, wait_at,
  is_elevator_ready, is_passenger_ready, riding, start, elevator_lock,
  (* struct Passenger_info passengers[]                                    *)
  info_from, info_to, elenumber, status, next,
  (* the threads: program counters, the argument at_floor, a passenger's   *)
  (* register (a counter or list cell it has read), trips left, main's     *)
  (* stop flag                                                             *)
  epc, ppc, arg_floor, tmp, trips, stop,
  (* history: two passengers have been between lock and unlock of the same *)
  (* elevator_lock at the same time                                        *)
  overlapped

info     == <<info_from, info_to, elenumber, status>>
rideList == <<riding, next>>
drive    == <<elevator_floor, elevator_direction, arg_floor>>
ready    == <<is_elevator_ready, is_passenger_ready>>

vars == <<cars, people, violation, drive, ready, passenger_count, wait_at, start,
          elevator_lock, info, rideList, epc, ppc, tmp, trips, stop, overlapped>>

(* What no elevator thread writes, and what no passenger thread writes. *)
passengerSide == <<people, occupants, info, rideList, start, passenger_count,
                   tmp, trips, stop, overlapped>>
elevatorSide  == <<floor, open, drive, stop>>

Init ==
  /\ EnforcementInit
  /\ elevator_floor = [e \in Elevators |-> 0]
  /\ elevator_direction = [e \in Elevators |-> 1]
  /\ passenger_count = [e \in Elevators |-> 0]
  /\ wait_at = [e \in Elevators |-> -1]
  /\ is_elevator_ready = [e \in Elevators |-> FALSE]
  /\ is_passenger_ready = [e \in Elevators |-> FALSE]
  /\ riding = [e \in Elevators |-> NONE]
  /\ start = [e \in Elevators |-> 0]
  /\ elevator_lock = [e \in Elevators |-> MAIN]
  /\ info_from = [p \in Passengers |-> 0]
  /\ info_to = [p \in Passengers |-> 0]
  /\ elenumber = [p \in Passengers |-> 0]
  /\ status = [p \in Passengers |-> 0]
  /\ next = [p \in Passengers |-> NONE]
  /\ epc = [e \in Elevators |-> "loop"]
  /\ ppc = [p \in Passengers |-> "idle"]
  /\ arg_floor = [e \in Elevators |-> 0]
  /\ tmp = [p \in Passengers |-> 0]
  /\ trips = [p \in Passengers |-> TRIPS_PER_PASSENGER]
  /\ stop = FALSE
  /\ overlapped = FALSE
-----------------------------------------------------------------------------
(* The ride list: the cells reachable from a cell along next, and those of *)
(* an elevator.                                                            *)

ReachableFrom(p) ==
  {q \in Passengers :
     \A S \in SUBSET Passengers :
        (p \in S /\ \A r \in S : next[r] # NONE => next[r] \in S) => q \in S}

Riders(e) == IF riding[e] = NONE THEN {} ELSE ReachableFrom(riding[e])

(* A walk along the list ends: it has a cell without a successor. *)
ListEnds(e) == Riders(e) = {} \/ \E q \in Riders(e) : next[q] = NONE

Distance(f, g) == IF f < g THEN g - f ELSE f - g

(* Lines 314-321: the rider whose destination is closest to floor f, the   *)
(* first on the list among equals.                                         *)
IsNearestRider(q, e, f) ==
  /\ q \in Riders(e)
  /\ \A r \in Riders(e) :
       \/ Distance(info_to[q], f) < Distance(info_to[r], f)
       \/ Distance(info_to[q], f) = Distance(info_to[r], f) /\ r \in ReachableFrom(q)

(* Lines 336-346: the passengers that look like waiting for elevator e,    *)
(* and the closest of them, lowest number first.                           *)
Waiting(e) == {q \in Passengers : status[q] = 0 /\ elenumber[q] = e}

IsNearestWaiting(q, e, f) ==
  /\ q \in Waiting(e)
  /\ \A r \in Waiting(e) :
       \/ Distance(info_from[q], f) < Distance(info_from[r], f)
       \/ Distance(info_from[q], f) = Distance(info_from[r], f) /\ q <= r
-----------------------------------------------------------------------------
(* Threads. *)

EGoto(e, at, then) == epc[e] = at /\ epc' = [epc EXCEPT ![e] = then]
PGoto(p, at, then) == ppc[p] = at /\ ppc' = [ppc EXCEPT ![p] = then]

(* One of main.c's checks: go on, or end the program. *)
ECheck(e, at, then, faults) ==
  /\ epc[e] = at
  /\ violation' = faults
  /\ epc' = IF faults = {} THEN [epc EXCEPT ![e] = then] ELSE epc
  /\ UNCHANGED <<floor, open, drive, ready, wait_at, elevator_lock, ppc, passengerSide>>

PCheck(p, at, then, faults) ==
  /\ ppc[p] = at
  /\ violation' = faults
  /\ ppc' = IF faults = {} THEN [ppc EXCEPT ![p] = then] ELSE ppc
  /\ UNCHANGED <<elevatorSide, ready, wait_at, elevator_lock, epc, people, occupants,
                 info, rideList, start, passenger_count, tmp, trips, overlapped>>

(* pthread_cond_broadcast on one of the two conditions all elevators share. *)
BroadcastElevatorSignal ==
  ppc' = [p \in Passengers |-> CASE ppc[p] = "wait_in"  -> "lock_in"
                                 [] ppc[p] = "wait_out" -> "lock_out"
                                 [] OTHER -> ppc[p]]

BroadcastPassengerSignal ==
  epc' = [e \in Elevators |-> IF epc[e] = "wait" THEN "relock" ELSE epc[e]]

(* Where a passenger is between locking and unlocking its elevator_lock. *)
Section == {"check_in", "sleep_in", "claim_in", "enter_1", "enter_2", "entering",
            "load_in", "store_in", "add_find", "add_link", "signal_in", "unlock_in",
            "check_out", "sleep_out", "claim_out", "exit_1", "exit_2", "exiting",
            "load_out", "store_out", "rm_find", "rm_link", "signal_out", "unlock_out"}

PLock(p, at, then) ==
  /\ PGoto(p, at, then)
  /\ elevator_lock[Assigned(p)] = FREE
  /\ elevator_lock' = [elevator_lock EXCEPT ![Assigned(p)] = p]
  /\ overlapped' = (overlapped \/ \E q \in Passengers \ {p} :
                      Assigned(q) = Assigned(p) /\ ppc[q] \in Section)
  /\ UNCHANGED <<elevatorSide, ready, wait_at, epc, people, occupants, info, rideList,
                 start, passenger_count, tmp, trips, violation>>

PUnlock(p, at, then) ==
  /\ PGoto(p, at, then)
  /\ elevator_lock' = [elevator_lock EXCEPT ![Assigned(p)] = FREE]
  /\ UNCHANGED <<elevatorSide, ready, wait_at, epc, people, occupants, info, rideList,
                 start, passenger_count, tmp, trips, violation, overlapped>>
-----------------------------------------------------------------------------
(* passenger_request up to the lock: nothing is locked here, and start++   *)
(* is a read and a write.                                                  *)

(* start_passenger's loop head, main.c:249-259.  (Definitions whose        *)
(* comment says "faulty" are variants no action uses: the properties are   *)
(* tried against them.) *)
TripLeftOffByOne(p) == trips[p] >= 0  (* faulty: one trip too many *)
TripLeft(p) == trips[p] > 0

PRequest(p) ==
  /\ PGoto(p, "idle", "post")
  /\ TripLeft(p)
  /\ trips' = [trips EXCEPT ![p] = @ - 1]
  /\ \E destination \in Floors : NewTrip(p, destination)
  /\ UNCHANGED <<elevatorSide, ready, wait_at, elevator_lock, epc, info, rideList, start,
                 passenger_count, tmp, overlapped>>

PFinish(p) ==
  /\ PGoto(p, "idle", "done")
  /\ trips[p] = 0
  /\ UNCHANGED <<elevatorSide, ready, wait_at, elevator_lock, epc, people, occupants, info,
                 rideList, start, passenger_count, tmp, trips, violation, overlapped>>

PPost(p) ==
  /\ PGoto(p, "post", "record")
  /\ wait_at' = [wait_at EXCEPT ![Assigned(p)] = from_floor[p]]
  /\ UNCHANGED <<elevatorSide, ready, elevator_lock, epc, people, occupants, info, rideList,
                 start, passenger_count, tmp, trips, violation, overlapped>>

PRecord(p) ==
  /\ PGoto(p, "record", "enlist")
  /\ info_from' = [info_from EXCEPT ![p] = from_floor[p]]
  /\ info_to' = [info_to EXCEPT ![p] = to_floor[p]]
  /\ UNCHANGED <<elevatorSide, ready, wait_at, elevator_lock, epc, people, occupants,
                 elenumber, status, rideList, start, passenger_count, tmp, trips, violation,
                 overlapped>>

PEnlist(p) ==
  /\ PGoto(p, "enlist", "start_load")
  /\ elenumber' = [elenumber EXCEPT ![p] = Assigned(p)]
  /\ status' = [status EXCEPT ![p] = 0]
  /\ UNCHANGED <<elevatorSide, ready, wait_at, elevator_lock, epc, people, occupants,
                 info_from, info_to, rideList, start, passenger_count, tmp, trips, violation,
                 overlapped>>

PStartLoad(p) ==
  /\ PGoto(p, "start_load", "start_store")
  /\ tmp' = [tmp EXCEPT ![p] = start[Assigned(p)]]
  /\ UNCHANGED <<elevatorSide, ready, wait_at, elevator_lock, epc, people, occupants, info,
                 rideList, start, passenger_count, trips, violation, overlapped>>

PStartStore(p) ==
  /\ PGoto(p, "start_store", "lock_in")
  /\ start' = [start EXCEPT ![Assigned(p)] = tmp[p] + 1]
  /\ tmp' = [tmp EXCEPT ![p] = 0]
  /\ UNCHANGED <<elevatorSide, ready, wait_at, elevator_lock, epc, people, occupants, info,
                 rideList, passenger_count, trips, violation, overlapped>>
-----------------------------------------------------------------------------
(* passenger_request from the first lock to its unlock: boarding. *)

(* Line 215's loop condition, and the wait it leads to: pthread_cond_wait  *)
(* lets go of the lock and sleeps in one step, and the check before it is  *)
(* another. *)
MayEnterAnywhere(p, e) ==  (* faulty: on any floor *)
  is_elevator_ready[e] /\ passenger_count[e] < SEATS
MayEnter(p, e) ==
  /\ is_elevator_ready[e]
  /\ elevator_floor[e] = from_floor[p]
  /\ passenger_count[e] < SEATS

MayExit(p, e) == is_elevator_ready[e] /\ elevator_floor[e] = to_floor[p]

PTest(p, at, mayGo, claim, sleep) ==
  /\ PGoto(p, at, IF mayGo THEN claim ELSE sleep)
  /\ UNCHANGED <<elevatorSide, ready, wait_at, elevator_lock, epc, people, occupants, info,
                 rideList, start, passenger_count, tmp, trips, violation, overlapped>>

(* Lines 229 and 275: nobody else may use this opening of the door. *)
KeepTurn(e) == UNCHANGED is_elevator_ready  (* faulty: others still may *)
TakeTurn(e) == is_elevator_ready' = [is_elevator_ready EXCEPT ![e] = FALSE]

PClaimIn(p) ==
  /\ PGoto(p, "claim_in", "enter_1")
  /\ wait_at' = [wait_at EXCEPT ![Assigned(p)] = from_floor[p]]
  /\ TakeTurn(Assigned(p))
  /\ UNCHANGED <<elevatorSide, is_passenger_ready, elevator_lock, epc, people, occupants,
                 info, rideList, start, passenger_count, tmp, trips, violation, overlapped>>

PEnter(p) ==
  /\ PGoto(p, "entering", "load_in")
  /\ EnterCommit(p, Assigned(p))
  /\ UNCHANGED <<elevatorSide, ready, wait_at, elevator_lock, epc, info, rideList, start,
                 passenger_count, tmp, trips, overlapped>>

(* passenger_count++ and passenger_count-- are a read and a write. *)
PCountLoad(p, at, then, newStatus) ==
  /\ PGoto(p, at, then)
  /\ status' = [status EXCEPT ![p] = newStatus]
  /\ tmp' = [tmp EXCEPT ![p] = passenger_count[Assigned(p)]]
  /\ UNCHANGED <<elevatorSide, ready, wait_at, elevator_lock, epc, people, occupants,
                 info_from, info_to, elenumber, rideList, start, passenger_count, trips,
                 violation, overlapped>>

PCountStore(p, at, then, change) ==
  /\ PGoto(p, at, then)
  /\ passenger_count' = [passenger_count EXCEPT ![Assigned(p)] = tmp[p] + change]
  /\ tmp' = [tmp EXCEPT ![p] = 0]
  /\ UNCHANGED <<elevatorSide, ready, wait_at, elevator_lock, epc, people, occupants, info,
                 rideList, start, trips, violation, overlapped>>

(* add_to_list: find the last cell, then hang the passenger on it. *)
PAddFindNothing(p) ==  (* faulty: takes every list for an empty one *)
  /\ PGoto(p, "add_find", "add_link")
  /\ tmp' = [tmp EXCEPT ![p] = NONE]
  /\ UNCHANGED <<elevatorSide, ready, wait_at, elevator_lock, epc, people, occupants, info,
                 rideList, start, passenger_count, trips, violation, overlapped>>

PAddFind(p) ==
  /\ PGoto(p, "add_find", "add_link")
  /\ IF riding[Assigned(p)] = NONE
     THEN tmp' = [tmp EXCEPT ![p] = NONE]
     ELSE \E last \in Riders(Assigned(p)) :
            next[last] = NONE /\ tmp' = [tmp EXCEPT ![p] = last]
  /\ UNCHANGED <<elevatorSide, ready, wait_at, elevator_lock, epc, people, occupants, info,
                 rideList, start, passenger_count, trips, violation, overlapped>>

PAddLink(p) ==
  /\ PGoto(p, "add_link", "signal_in")
  /\ IF tmp[p] = NONE
     THEN riding' = [riding EXCEPT ![Assigned(p)] = p] /\ UNCHANGED next
     ELSE next' = [next EXCEPT ![tmp[p]] = p] /\ UNCHANGED riding
  /\ tmp' = [tmp EXCEPT ![p] = 0]
  /\ UNCHANGED <<elevatorSide, ready, wait_at, elevator_lock, epc, people, occupants, info,
                 start, passenger_count, trips, violation, overlapped>>

(* Lines 248-249: is_passenger_ready and the broadcast. *)
PSignalIn(p) ==
  /\ PGoto(p, "signal_in", "unlock_in")
  /\ is_passenger_ready' = [is_passenger_ready EXCEPT ![Assigned(p)] = TRUE]
  /\ BroadcastPassengerSignal
  /\ UNCHANGED <<elevatorSide, is_elevator_ready, wait_at, elevator_lock, people, occupants,
                 info, rideList, start, passenger_count, tmp, trips, violation, overlapped>>

PBoard(p) ==
  LET e == Assigned(p) IN
  \/ PLock(p, "lock_in", "check_in")
  \/ PTest(p, "check_in", MayEnter(p, e), "claim_in", "sleep_in")
  \/ PUnlock(p, "sleep_in", "wait_in")
  \/ PClaimIn(p)
  \/ PCheck(p, "enter_1", "enter_2", EnterFaults(p, e))
  \/ PCheck(p, "enter_2", "entering", EnterFaults(p, e))
  \/ PEnter(p)
  \/ PCountLoad(p, "load_in", "store_in", 1)
  \/ PCountStore(p, "store_in", "add_find", 1)
  \/ PAddFind(p)
  \/ PAddLink(p)
  \/ PSignalIn(p)
  \/ PUnlock(p, "unlock_in", "lock_out")
-----------------------------------------------------------------------------
(* passenger_request from the second lock to its return: leaving. *)

PClaimOut(p) ==
  /\ PGoto(p, "claim_out", "exit_1")
  /\ TakeTurn(Assigned(p))
  /\ UNCHANGED <<elevatorSide, is_passenger_ready, wait_at, elevator_lock, epc, people,
                 occupants, info, rideList, start, passenger_count, tmp, trips, violation,
                 overlapped>>

PExit(p) ==
  /\ PGoto(p, "exiting", "load_out")
  /\ ExitCommit(p, Assigned(p))
  /\ UNCHANGED <<elevatorSide, ready, wait_at, elevator_lock, epc, info, rideList, start,
                 passenger_count, tmp, trips, overlapped>>

(* remove_from_list: find the cell before the passenger's, then unhook it. *)
(* Walking off the end of the list ends the program (the assert of line 75 *)
(* or, on an empty list, the access before it). *)
PRemoveFind(p) ==
  LET e == Assigned(p)
      before == {q \in Riders(e) : next[q] = p} IN
  /\ ppc[p] = "rm_find"
  /\ IF p \notin Riders(e)
     THEN /\ ListEnds(e)
          /\ violation' = {"not on ride list"}
          /\ UNCHANGED <<ppc, tmp>>
     ELSE /\ PGoto(p, "rm_find", "rm_link")
          /\ IF riding[e] = p
             THEN tmp' = [tmp EXCEPT ![p] = NONE]
             ELSE \E q \in before : /\ q \in ReachableFrom(p) => before = {q}
                                    /\ tmp' = [tmp EXCEPT ![p] = q]
          /\ UNCHANGED violation
  /\ UNCHANGED <<elevatorSide, ready, wait_at, elevator_lock, epc, people, occupants, info,
                 rideList, start, passenger_count, trips, overlapped>>

(* The rest of the list, which takes the passenger's place on it. *)
RestLost(p) == NONE  (* faulty: the list ends where it is unhooked *)
Rest(p) == next[p]

PRemoveLink(p) ==
  LET e == Assigned(p) IN
  /\ PGoto(p, "rm_link", "signal_out")
  /\ IF tmp[p] = NONE
     THEN /\ riding' = [riding EXCEPT ![e] = Rest(p)]
          /\ next' = [next EXCEPT ![p] = NONE]
     ELSE /\ next' = [next EXCEPT ![tmp[p]] = Rest(p), ![p] = NONE]
          /\ UNCHANGED riding
  /\ tmp' = [tmp EXCEPT ![p] = 0]
  /\ UNCHANGED <<elevatorSide, ready, wait_at, elevator_lock, epc, people, occupants, info,
                 start, passenger_count, trips, violation, overlapped>>

PSignalOut(p) ==
  /\ PGoto(p, "signal_out", "unlock_out")
  /\ is_passenger_ready' = [is_passenger_ready EXCEPT ![Assigned(p)] = TRUE]
  /\ UNCHANGED <<elevatorSide, is_elevator_ready, wait_at, elevator_lock, epc, people,
                 occupants, info, rideList, start, passenger_count, tmp, trips, violation,
                 overlapped>>

(* Line 285: the broadcast, here after the unlock. *)
PWakeOut(p) ==
  /\ PGoto(p, "wake_out", "arrived")
  /\ BroadcastPassengerSignal
  /\ UNCHANGED <<elevatorSide, ready, wait_at, elevator_lock, people, occupants, info,
                 rideList, start, passenger_count, tmp, trips, violation, overlapped>>

(* main.c:262-273, back in start_passenger. *)
PArrive(p) ==
  /\ ppc[p] = "arrived"
  /\ IF DeliveryFaults(p) = {}
     THEN PGoto(p, "arrived", "idle") /\ EndTrip(p)
     ELSE /\ violation' = DeliveryFaults(p)
          /\ UNCHANGED <<ppc, cars, people>>
  /\ UNCHANGED <<elevatorSide, ready, wait_at, elevator_lock, epc, info, rideList, start,
                 passenger_count, tmp, trips, overlapped>>

PLeave(p) ==
  LET e == Assigned(p) IN
  \/ PLock(p, "lock_out", "check_out")
  \/ PTest(p, "check_out", MayExit(p, e), "claim_out", "sleep_out")
  \/ PUnlock(p, "sleep_out", "wait_out")
  \/ PClaimOut(p)
  \/ PCheck(p, "exit_1", "exit_2", ExitFaults(p, e))
  \/ PCheck(p, "exit_2", "exiting", ExitFaults(p, e))
  \/ PExit(p)
  \/ PCountLoad(p, "load_out", "store_out", status[p])
  \/ PCountStore(p, "store_out", "rm_find", -1)
  \/ PRemoveFind(p)
  \/ PRemoveLink(p)
  \/ PSignalOut(p)
  \/ PUnlock(p, "unlock_out", "wake_out")
  \/ PWakeOut(p)
  \/ PArrive(p)

PStep(p) ==
  \/ PRequest(p) \/ PFinish(p) \/ PPost(p) \/ PRecord(p) \/ PEnlist(p)
  \/ PStartLoad(p) \/ PStartStore(p)
  \/ PBoard(p) \/ PLeave(p)
-----------------------------------------------------------------------------
(* elevator_ready, called in a loop by start_elevator (main.c:131-134). *)

ELoop(e) ==
  /\ EGoto(e, "loop", IF stop THEN "done" ELSE "start")
  /\ arg_floor' = [arg_floor EXCEPT ![e] = floor[e]]
  /\ UNCHANGED <<floor, open, elevator_floor, elevator_direction, ready, wait_at,
                 elevator_lock, ppc, violation, passengerSide>>

(* Line 293: spin until enough requests have been counted. *)
EStart(e) ==
  /\ EGoto(e, "start", "pick")
  /\ start[e] >= START
  /\ UNCHANGED <<floor, open, drive, ready, wait_at, elevator_lock, ppc, violation,
                 passengerSide>>

(* Lines 298-301: the direction at the ends of the shaft. *)
TurnRoundLate(f, d) ==  (* faulty: off by one at the top *)
  IF f = 0 THEN 1 ELSE IF f = FLOORS THEN -1 ELSE d
TurnRound(f, d) == IF f = 0 THEN 1 ELSE IF f = FLOORS - 1 THEN -1 ELSE d

(* Line 307. *)
NoRiders(e)  == FALSE  (* faulty: only those who wait are thought of *)
HasRiders(e) == riding[e] # NONE

(* Lines 298-355: turn round at the ends of the shaft, choose the next     *)
(* stop.  next_wait (line 324) is never anything but -1 and is left out.   *)
EPick(e) ==
  LET f == arg_floor[e] IN
  /\ EGoto(e, "pick", "steer")
  /\ elevator_direction' = [elevator_direction EXCEPT ![e] = TurnRound(f, @)]
  /\ \/ /\ HasRiders(e)
        /\ ListEnds(e)
        /\ \E q \in Passengers :
             IsNearestRider(q, e, f) /\ wait_at' = [wait_at EXCEPT ![e] = info_to[q]]
     \/ /\ ~HasRiders(e)
        /\ \E q \in Passengers :
             IsNearestWaiting(q, e, f) /\ wait_at' = [wait_at EXCEPT ![e] = info_from[q]]
     \/ /\ ~HasRiders(e)
        /\ Waiting(e) = {}
        /\ wait_at' = [wait_at EXCEPT ![e] = -1]
  /\ UNCHANGED <<floor, open, elevator_floor, arg_floor, ready, elevator_lock, ppc, violation,
                 passengerSide>>

(* Lines 368-373.  A passenger may have overwritten wait_at since. *)
ESteer(e) ==
  LET f == arg_floor[e] IN
  /\ EGoto(e, "steer", "test")
  /\ elevator_direction' = [elevator_direction EXCEPT
       ![e] = IF wait_at[e] > f THEN 1
              ELSE IF wait_at[e] # -1 /\ wait_at[e] < f THEN -1 ELSE @]
  /\ UNCHANGED <<floor, open, elevator_floor, arg_floor, ready, wait_at, elevator_lock, ppc,
                 violation, passengerSide>>

(* Line 375, and line 406 on the way past. *)
EStop(e) ==
  /\ EGoto(e, "test", "open_1")
  /\ wait_at[e] = arg_floor[e]
  /\ UNCHANGED <<floor, open, drive, ready, wait_at, elevator_lock, ppc, violation,
                 passengerSide>>

EPass(e) ==
  /\ EGoto(e, "test", "move_1")
  /\ wait_at[e] # arg_floor[e]
  /\ elevator_lock' = [elevator_lock EXCEPT ![e] = FREE]
  /\ UNCHANGED <<floor, open, drive, ready, wait_at, ppc, violation, passengerSide>>

EDoor(e, at, then, isOpen) ==
  /\ EGoto(e, at, then)
  /\ DoorCommit(e, isOpen)
  /\ UNCHANGED <<drive, ready, wait_at, elevator_lock, ppc, passengerSide>>

(* Lines 379-390. *)
EAnnounce(e) ==
  /\ EGoto(e, "announce", "await")
  /\ wait_at' = [wait_at EXCEPT ![e] = -1]
  /\ is_elevator_ready' = [is_elevator_ready EXCEPT ![e] = TRUE]
  /\ BroadcastElevatorSignal
  /\ UNCHANGED <<floor, open, drive, is_passenger_ready, elevator_lock, violation,
                 passengerSide>>

(* Lines 396-399: the loop around pthread_cond_wait and its exit. *)
EAwait(e) ==
  /\ EGoto(e, "await", IF is_passenger_ready[e] THEN "close" ELSE "sleep")
  /\ is_passenger_ready' = [is_passenger_ready EXCEPT ![e] = FALSE]
  /\ UNCHANGED <<floor, open, drive, is_elevator_ready, wait_at, elevator_lock, ppc,
                 violation, passengerSide>>

ESleep(e) ==
  /\ EGoto(e, "sleep", "wait")
  /\ elevator_lock' = [elevator_lock EXCEPT ![e] = FREE]
  /\ UNCHANGED <<floor, open, drive, ready, wait_at, ppc, violation, passengerSide>>

ERelock(e) ==
  /\ EGoto(e, "relock", "await")
  /\ elevator_lock[e] = FREE
  /\ elevator_lock' = [elevator_lock EXCEPT ![e] = ELEVATOR]
  /\ UNCHANGED <<floor, open, drive, ready, wait_at, ppc, violation, passengerSide>>

EMove(e) ==
  /\ EGoto(e, "moving", "mirror")
  /\ MoveCommit(e, elevator_direction[e])
  /\ UNCHANGED <<drive, ready, wait_at, elevator_lock, ppc, passengerSide>>

(* Line 410. *)
EMirror(e) ==
  /\ EGoto(e, "mirror", "loop")
  /\ elevator_floor' = [elevator_floor EXCEPT ![e] = arg_floor[e] + elevator_direction[e]]
  /\ UNCHANGED <<floor, open, elevator_direction, arg_floor, ready, wait_at, elevator_lock,
                 ppc, violation, passengerSide>>

EStep(e) ==
  \/ ELoop(e) \/ EStart(e) \/ EPick(e) \/ ESteer(e) \/ EStop(e) \/ EPass(e)
  \/ ECheck(e, "open_1", "open_2", OpenFaults(e))
  \/ ECheck(e, "open_2", "opening", OpenFaults(e))
  \/ EDoor(e, "opening", "announce", TRUE)
  \/ EAnnounce(e) \/ EAwait(e) \/ ESleep(e) \/ ERelock(e)
  \/ ECheck(e, "close", "closing", CloseFaults(e))
  \/ EDoor(e, "closing", "move_1", FALSE)
  \/ ECheck(e, "move_1", "move_2", MoveFaults(e))
  \/ ECheck(e, "move_2", "moving", MoveFaults(e))
  \/ EMove(e) \/ EMirror(e)
-----------------------------------------------------------------------------
(* main.c:362-364. *)
MainStop ==
  /\ ~stop
  /\ \A p \in Passengers : ppc[p] = "done"
  /\ stop' = TRUE
  /\ UNCHANGED <<cars, people, violation, drive, ready, passenger_count, wait_at, start,
                 elevator_lock, info, rideList, epc, ppc, tmp, trips, overlapped>>

(* pthread_cond_wait may return without a broadcast. *)
PSpuriousWakeup(p) ==
  /\ \/ PGoto(p, "wait_in", "lock_in")
     \/ PGoto(p, "wait_out", "lock_out")
  /\ UNCHANGED <<elevatorSide, ready, wait_at, elevator_lock, epc, people, occupants, info,
                 rideList, start, passenger_count, tmp, trips, violation, overlapped>>

ESpuriousWakeup(e) ==
  /\ EGoto(e, "wait", "relock")
  /\ UNCHANGED <<floor, open, drive, ready, wait_at, elevator_lock, ppc, violation,
                 passengerSide>>

SpuriousWakeup == \/ \E p \in Passengers : PSpuriousWakeup(p)
                  \/ \E e \in Elevators : ESpuriousWakeup(e)

(* Nothing runs after an exit(1). *)
Next ==
  /\ violation = {}
  /\ \/ \E p \in Passengers : PStep(p)
     \/ \E e \in Elevators : EStep(e)
     \/ MainStop
     \/ SpuriousWakeup

Spec == Init /\ [][Next]_vars

(* Every thread that can run keeps running; nothing makes a condition wake *)
(* up by itself. *)
Fairness ==
  /\ \A p \in Passengers : WF_vars(violation = {} /\ PStep(p))
  /\ \A e \in Elevators : WF_vars(violation = {} /\ EStep(e))
  /\ WF_vars(violation = {} /\ MainStop)

FairSpec == Spec /\ Fairness
=============================================================================
