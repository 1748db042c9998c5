--------------------- MODULE SchedulerRefinementProofs ---------------------
(***************************************************************************)
(* The scheduler implements Building, for every number of elevators,       *)
(* floors, passengers, seats and trips: under SafetyInv each step is a     *)
(* step of the building or leaves it alone.                                *)
(***************************************************************************)
EXTENDS SchedulerSafetyProofs, SchedulerRefinement

LEMMA BuildingStart == Init => Abstract!BuildingInit
<1> SUFFICES ASSUME Init PROVE Abstract!BuildingInit
  OBVIOUS
<1>1. ASSUME NEW e \in Elevators PROVE ServedAt(e) = FALSE
  <2>1. /\ overlapped = FALSE /\ epc[e] = "loop" /\ is_passenger_ready[e] = FALSE
        /\ \A p \in Passengers : ppc[p] = "idle"
    BY DEF Init
  <2>2. QED
    BY <2>1 DEF ServedAt, Passed
<1>2. \A p \in Passengers : TripOf(p) = "none"
  BY DEF Init, TripOf, Before, Aboard
<1>3. QED
  BY <1>1, <1>2 DEF Init, EnforcementInit, Abstract!BuildingInit

LEMMA BuildingSame ==
  ASSUME UNCHANGED <<floor, open, in_elevator, at_floor, to_floor, overlapped>>,
         \A p \in Passengers : TripOf(p)' = TripOf(p),
         \A e \in Elevators : ServedAt(e)' = ServedAt(e)
  PROVE  UNCHANGED Abstract!buildingVars
  BY DEF Abstract!buildingVars

(* Passengers other than p, and elevators other than p's, look the same    *)
(* after a step of p that does not break the building. *)
LEMMA OthersSame ==
  ASSUME TypeOK, NEW p \in Passengers, PassengerFrame(p), overlapped' = overlapped
  PROVE  /\ \A q \in Passengers : q # p => TripOf(q)' = TripOf(q)
         /\ \A e \in Elevators : e # Assigned(p) => ServedAt(e)' = ServedAt(e)
<1>1. \A q \in Passengers : q # p => TripOf(q)' = TripOf(q)
  BY DEF PassengerFrame, TripOf
<1>2. ASSUME NEW e \in Elevators, e # Assigned(p) PROVE ServedAt(e)' = ServedAt(e)
  <2>1. \A q \in Passengers : Assigned(q) = e => ppc'[q] = ppc[q]
    BY <1>2 DEF PassengerFrame
  <2>2. /\ is_passenger_ready'[e] = is_passenger_ready[e]
        /\ epc'[e] \in {"close", "closing"} <=> epc[e] \in {"close", "closing"}
    BY <1>2 DEF PassengerFrame
  <2>3. QED
    BY <2>1, <2>2 DEF ServedAt, Assigned
<1>3. QED
  BY <1>1, <1>2

(* A step of a passenger that is neither at a callback nor at a signal. *)
LEMMA QuietPassenger ==
  ASSUME TypeOK, NEW p \in Passengers, PassengerFrame(p),
         UNCHANGED <<in_elevator, at_floor, to_floor, overlapped, is_passenger_ready>>,
         TripOf(p)' = TripOf(p),
         ppc'[p] \in Passed <=> ppc[p] \in Passed
  PROVE  UNCHANGED Abstract!buildingVars
<1> DEFINE e == Assigned(p)
<1>1. \A q \in Passengers : ppc'[q] \in Passed <=> ppc[q] \in Passed
  BY DEF PassengerFrame
<1>2. e \in Elevators
  BY AssignedType
<1>3. epc'[e] \in {"close", "closing"} <=> epc[e] \in {"close", "closing"}
  BY <1>2 DEF PassengerFrame
<1>4. ServedAt(e)' = ServedAt(e)
  BY <1>1, <1>3 DEF ServedAt, Assigned
<1>5. QED
  BY <1>4, OthersSame, BuildingSame DEF PassengerFrame

(* The signals hand over to the elevator: the door has served somebody     *)
(* before and after. *)
LEMMA SignalSame ==
  ASSUME TypeOK, NEW p \in Passengers, PassengerFrame(p),
         UNCHANGED <<in_elevator, at_floor, to_floor, overlapped>>,
         TripOf(p)' = TripOf(p),
         ppc[p] \in Passed, is_passenger_ready'[Assigned(p)]
  PROVE  UNCHANGED Abstract!buildingVars
<1>1. ServedAt(Assigned(p)) = TRUE /\ ServedAt(Assigned(p))' = TRUE
  BY DEF ServedAt, Assigned
<1>2. QED
  BY <1>1, OthersSame, BuildingSame DEF PassengerFrame
LEMMA BoardIsBoard ==
  ASSUME SafetyInv, violation = {}, NEW p \in Passengers, PEnter(p), PassengerFrame(p)
  PROVE  Abstract!Board(p, Assigned(p))
<1> DEFINE e == Assigned(p)
<1> USE DEF SafetyInv, TypeOK, EnforcementTypeOK
<1>1. e \in Elevators /\ ppc[p] = "entering" /\ ppc'[p] = "load_in"
  BY AssignedType DEF PEnter, PGoto
<1>2. /\ UNCHANGED <<floor, open, at_floor, to_floor, overlapped>>
      /\ in_elevator' = [in_elevator EXCEPT ![p] = e]
  BY DEF PEnter, EnterCommit
<1>3. /\ \A q \in Passengers : TripOf(q)' = IF q = p THEN "riding" ELSE TripOf(q)
      /\ \A f \in Elevators : ServedAt(f)' = IF f = e THEN TRUE ELSE ServedAt(f)
  <2>1. TripOf(p)' = "riding"
    BY <1>1 DEF TripOf, Aboard, Before
  <2>2. ServedAt(e)' = TRUE
    BY <1>1 DEF ServedAt, Assigned, Passed
  <2>3. QED
    BY <2>1, <2>2, <1>2, OthersSame
<1>4. TripOf(p) = "waiting"
  BY <1>1 DEF TripOf, Before, Aboard
<1>5. ASSUME overlapped = FALSE
      PROVE  open[e] /\ ServedAt(e) = FALSE /\ floor[e] = at_floor[p]
             /\ Cardinality(Inside(e)) < SEATS
  <2>1. Exclusive /\ Token(e) /\ RightFloor(e) /\ Counts(e)
    BY <1>1, <1>5 DEF HandshakeInv
  <2>2. \A q \in Passengers : Assigned(q) = e /\ q # p => ppc[q] \notin Section
    BY <1>1, <2>1 DEF Exclusive, Section
  <2>3. epc[e] \in AtDoor /\ ~is_passenger_ready[e]
    BY <1>1, <2>1 DEF Token, Working, Boarding
  <2>4. ServedAt(e) = FALSE
    BY <1>1, <1>5, <2>2, <2>3 DEF ServedAt, Passed, Section, AtDoor
  <2>5. open[e]
    BY <1>1, <2>3 DEF DriveInv, DoorMatchesPc, AtDoor, DoorOpen
  <2>6. from_floor[p] = floor[e] /\ passenger_count[e] < SEATS
    BY <1>1, <2>1 DEF RightFloor
  <2>7. at_floor[p] = from_floor[p]
    BY <1>1 DEF StateMatchesPc, Before
  <2>8. occupants[e] = passenger_count[e]
    BY <1>1, <2>1, <2>2 DEF Counts, Section
  <2>9. QED
    BY <1>1, <2>4, <2>5, <2>6, <2>7, <2>8 DEF OccupantsExact
<1>6. /\ [q \in Passengers |-> TripOf(q)]' = [[q \in Passengers |-> TripOf(q)] EXCEPT ![p] = "riding"]
      /\ [f \in Elevators |-> ServedAt(f)]' = [[f \in Elevators |-> ServedAt(f)] EXCEPT ![e] = TRUE]
  BY <1>1, <1>3
<1>7. overlapped \/ (Abstract!Admits(e) /\ floor[e] = at_floor[p] /\ Abstract!Load(e) < SEATS)
  <2>1. Abstract!Load(e) = Cardinality(Inside(e))
    BY DEF Abstract!Load, Inside, Cardinality, Abstract!Cardinality
  <2>2. overlapped = FALSE => Abstract!Admits(e)
    BY <1>1, <1>5 DEF Abstract!Admits
  <2>3. QED
    BY <1>5, <2>1, <2>2
<1>8. QED
  BY <1>1, <1>2, <1>4, <1>6, <1>7 DEF Abstract!Board

LEMMA AlightIsAlight ==
  ASSUME SafetyInv, violation = {}, NEW p \in Passengers, PExit(p), PassengerFrame(p)
  PROVE  Abstract!Alight(p, Assigned(p))
<1> DEFINE e == Assigned(p)
<1> USE DEF SafetyInv, TypeOK, EnforcementTypeOK
<1>1. e \in Elevators /\ ppc[p] = "exiting" /\ ppc'[p] = "load_out"
  BY AssignedType DEF PExit, PGoto
<1>2. /\ UNCHANGED <<floor, open, to_floor, overlapped>>
      /\ in_elevator' = [in_elevator EXCEPT ![p] = -1]
      /\ at_floor' = [at_floor EXCEPT ![p] = floor[e]]
  BY DEF PExit, ExitCommit
<1>3. /\ \A q \in Passengers : TripOf(q)' = IF q = p THEN "delivered" ELSE TripOf(q)
      /\ \A f \in Elevators : ServedAt(f)' = IF f = e THEN TRUE ELSE ServedAt(f)
  <2>1. TripOf(p)' = "delivered"
    BY <1>1 DEF TripOf, Aboard, Before
  <2>2. ServedAt(e)' = TRUE
    BY <1>1 DEF ServedAt, Assigned, Passed
  <2>3. QED
    BY <2>1, <2>2, <1>2, OthersSame
<1>4. TripOf(p) = "riding" /\ in_elevator[p] = e
  BY <1>1 DEF TripOf, Before, Aboard, StateMatchesPc
<1>5. ASSUME overlapped = FALSE
      PROVE  open[e] /\ ServedAt(e) = FALSE /\ floor[e] = to_floor[p]
  <2>1. Exclusive /\ Token(e) /\ RightFloor(e)
    BY <1>1, <1>5 DEF HandshakeInv
  <2>2. \A q \in Passengers : Assigned(q) = e /\ q # p => ppc[q] \notin Section
    BY <1>1, <2>1 DEF Exclusive, Section
  <2>3. epc[e] \in AtDoor /\ ~is_passenger_ready[e]
    BY <1>1, <2>1 DEF Token, Working, Alighting
  <2>4. ServedAt(e) = FALSE
    BY <1>1, <1>5, <2>2, <2>3 DEF ServedAt, Passed, Section, AtDoor
  <2>5. open[e]
    BY <1>1, <2>3 DEF DriveInv, DoorMatchesPc, AtDoor, DoorOpen
  <2>6. QED
    BY <1>1, <2>1, <2>4, <2>5 DEF RightFloor
<1>6. QED
  BY <1>1, <1>2, <1>3, <1>4, <1>5, ZenonT(40) DEF Abstract!Alight, Abstract!Admits
(* passenger_request returns to start_passenger, or main.c stops. *)
LEMMA ArriveReturns ==
  ASSUME SafetyInv, violation = {}, NEW p \in Passengers, PArrive(p), PassengerFrame(p)
  PROVE  Abstract!Return(p) \/ UNCHANGED Abstract!buildingVars
<1> USE DEF SafetyInv, TypeOK, EnforcementTypeOK
<1>1. CASE DeliveryFaults(p) = {}
  <2>1. ppc[p] = "arrived" /\ ppc'[p] = "idle" /\ at_floor[p] = to_floor[p]
    BY <1>1 DEF PArrive, PGoto, DeliveryFaults, Raise
  <2>2. UNCHANGED <<floor, open, in_elevator, at_floor, to_floor, overlapped, is_passenger_ready>>
    BY <1>1 DEF PArrive, EndTrip, cars, elevatorSide, ready
  <2>3. TripOf(p) = "delivered" /\ TripOf(p)' = "none"
    BY <2>1 DEF TripOf, Before, Aboard
  <2>4. /\ \A q \in Passengers : TripOf(q)' = IF q = p THEN "none" ELSE TripOf(q)
        /\ \A f \in Elevators : ServedAt(f)' = ServedAt(f)
    <3>1. \A q \in Passengers : ppc'[q] \in Passed <=> ppc[q] \in Passed
      BY <2>1 DEF PassengerFrame, Passed
    <3>2. \A f \in Elevators : epc'[f] = epc[f]
      BY DEF PArrive
    <3>3. \A f \in Elevators : ServedAt(f)' = ServedAt(f)
      BY <2>2, <3>1, <3>2 DEF ServedAt, Assigned
    <3>4. QED
      BY <2>2, <2>3, <3>3, OthersSame
  <2>5. Abstract!Return(p)
    BY <2>1, <2>2, <2>3, <2>4 DEF Abstract!Return
  <2>6. QED
    BY <2>5
<1>2. CASE DeliveryFaults(p) # {}
  <2>1. /\ UNCHANGED <<in_elevator, at_floor, to_floor, overlapped, is_passenger_ready>>
        /\ ppc' = ppc
    BY <1>2 DEF PArrive, people, ready
  <2>2. TripOf(p)' = TripOf(p)
    BY <2>1 DEF TripOf
  <2>3. QED
    BY <2>1, <2>2, QuietPassenger
<1>3. QED
  BY <1>1, <1>2

LEMMA RequestIsRequest ==
  ASSUME SafetyInv, NEW p \in Passengers, PRequest(p), PassengerFrame(p)
  PROVE  Abstract!Request(p)
<1> USE DEF SafetyInv, TypeOK, EnforcementTypeOK
<1>1. ppc[p] = "idle" /\ ppc'[p] = "post"
  BY DEF PRequest, PGoto
<1>2. UNCHANGED <<floor, open, in_elevator, at_floor, overlapped, is_passenger_ready, epc>>
  BY DEF PRequest, NewTrip, cars, elevatorSide, ready
<1>3. \E destination \in Floors : to_floor' = [to_floor EXCEPT ![p] = destination]
  BY DEF PRequest, NewTrip
<1>4. TripOf(p) = "none" /\ TripOf(p)' = "waiting"
  BY <1>1 DEF TripOf, Before, Aboard
<1>5. \A q \in Passengers : ppc'[q] \in Passed <=> ppc[q] \in Passed
  BY <1>1 DEF PassengerFrame, Passed
<1>6. \A f \in Elevators : ServedAt(f)' = ServedAt(f)
  BY <1>2, <1>5 DEF ServedAt, Assigned
<1>7. \A q \in Passengers : TripOf(q)' = IF q = p THEN "waiting" ELSE TripOf(q)
  BY <1>2, <1>4, OthersSame
<1>8. QED
  BY <1>2, <1>3, <1>4, <1>6, <1>7 DEF Abstract!Request

(* Taking the lock is no step of the building, or breaks it. *)
LEMMA LockBreaks ==
  ASSUME SafetyInv, NEW p \in Passengers, PassengerFrame(p),
         PLock(p, "lock_in", "check_in") \/ PLock(p, "lock_out", "check_out")
  PROVE  Abstract!Break \/ UNCHANGED Abstract!buildingVars
<1> USE DEF SafetyInv, TypeOK
<1>1. /\ UNCHANGED <<floor, open, in_elevator, at_floor, to_floor, epc, is_passenger_ready>>
      /\ overlapped => overlapped'
      /\ overlapped' \in BOOLEAN
      /\ \/ ppc[p] = "lock_in" /\ ppc'[p] = "check_in"
         \/ ppc[p] = "lock_out" /\ ppc'[p] = "check_out"
  BY DEF PLock, PGoto, elevatorSide, people, ready
<1>2. TripOf(p)' = TripOf(p)
  BY <1>1 DEF TripOf, Before, Aboard
<1>3. CASE overlapped' = overlapped
  <2>1. ppc'[p] \in Passed <=> ppc[p] \in Passed
    BY <1>1 DEF Passed
  <2>2. QED
    BY <1>1, <1>2, <1>3, <2>1, QuietPassenger
<1>4. CASE overlapped' # overlapped
  <2>1. overlapped' = TRUE
    BY <1>1, <1>4
  <2>2. \A f \in Elevators : ServedAt(f)' = TRUE
    BY <2>1 DEF ServedAt
  <2>3. \A q \in Passengers : TripOf(q)' = TripOf(q)
    BY <1>2 DEF PassengerFrame, TripOf
  <2>4. QED
    BY <1>1, <2>1, <2>2, <2>3 DEF Abstract!Break
<1>5. QED
  BY <1>3, <1>4
LEMMA BoardingBuilds ==
  ASSUME SafetyInv, violation = {}, NEW p \in Passengers, PBoard(p), PassengerFrame(p)
  PROVE  [Abstract!BuildingNext]_(Abstract!buildingVars)
<1> DEFINE e == Assigned(p)
           Still == UNCHANGED <<in_elevator, at_floor, to_floor, overlapped>>
<1> USE DEF SafetyInv, TypeOK, PGoto, people, ready
<1>1. CASE PEnter(p)
  BY <1>1, BoardIsBoard, AssignedType DEF Abstract!BuildingNext
<1>2. CASE PLock(p, "lock_in", "check_in")
  BY <1>2, LockBreaks DEF Abstract!BuildingNext
<1>3. CASE PSignalIn(p)
  <2>1. Still /\ ppc[p] = "signal_in" /\ ppc'[p] = "unlock_in" /\ is_passenger_ready'[e]
    BY <1>3, AssignedType DEF PSignalIn
  <2>2. QED
    BY <2>1, SignalSame DEF TripOf, Before, Aboard, Passed
<1>4. CASE ~(PEnter(p) \/ PLock(p, "lock_in", "check_in") \/ PSignalIn(p))
  <2>1. Still /\ UNCHANGED is_passenger_ready
    BY <1>4 DEF PBoard, PTest, PUnlock, PClaimIn, PCheck, PCountLoad, PCountStore, PAddFind,
                PAddLink
  <2>2. \/ ppc'[p] = ppc[p]
        \/ ppc[p] \in {"check_in", "sleep_in", "claim_in", "enter_1", "enter_2"}
           /\ ppc'[p] \in Before
        \/ ppc[p] \in {"load_in", "store_in", "add_find", "add_link"}
           /\ ppc'[p] \in {"store_in", "add_find", "add_link", "signal_in"}
        \/ ppc[p] = "unlock_in" /\ ppc'[p] = "lock_out"
    BY <1>4 DEF PBoard, PTest, PUnlock, PClaimIn, PCheck, PCountLoad, PCountStore, PAddFind,
                PAddLink, Before
  <2>3. TripOf(p)' = TripOf(p) /\ (ppc'[p] \in Passed <=> ppc[p] \in Passed)
    BY <2>2 DEF TripOf, Before, Aboard, Passed
  <2>4. QED
    BY <2>1, <2>3, QuietPassenger
<1>5. QED
  BY <1>1, <1>2, <1>3, <1>4

LEMMA LeavingBuilds ==
  ASSUME SafetyInv, violation = {}, NEW p \in Passengers, PLeave(p), PassengerFrame(p)
  PROVE  [Abstract!BuildingNext]_(Abstract!buildingVars)
<1> DEFINE e == Assigned(p)
           Still == UNCHANGED <<in_elevator, at_floor, to_floor, overlapped>>
<1> USE DEF SafetyInv, TypeOK, PGoto, people, ready
<1>1. CASE PExit(p)
  BY <1>1, AlightIsAlight, AssignedType DEF Abstract!BuildingNext
<1>2. CASE PLock(p, "lock_out", "check_out")
  BY <1>2, LockBreaks DEF Abstract!BuildingNext
<1>3. CASE PSignalOut(p)
  <2>1. Still /\ ppc[p] = "signal_out" /\ ppc'[p] = "unlock_out" /\ is_passenger_ready'[e]
    BY <1>3, AssignedType DEF PSignalOut
  <2>2. QED
    BY <2>1, SignalSame DEF TripOf, Before, Aboard, Passed
<1>4. CASE PArrive(p)
  BY <1>4, ArriveReturns DEF Abstract!BuildingNext
<1>5. CASE ~(PExit(p) \/ PLock(p, "lock_out", "check_out") \/ PSignalOut(p) \/ PArrive(p))
  <2>1. Still /\ UNCHANGED is_passenger_ready
    BY <1>5 DEF PLeave, PTest, PUnlock, PClaimOut, PCheck, PCountLoad, PCountStore,
                PRemoveFind, PRemoveLink, PWakeOut
  <2>2. \/ ppc'[p] = ppc[p]
        \/ ppc[p] \in {"check_out", "sleep_out", "claim_out", "exit_1", "exit_2"}
           /\ ppc'[p] \in {"claim_out", "sleep_out", "wait_out", "exit_1", "exit_2", "exiting"}
        \/ ppc[p] \in {"load_out", "store_out", "rm_find", "rm_link"}
           /\ ppc'[p] \in {"store_out", "rm_find", "rm_link", "signal_out"}
        \/ ppc[p] \in {"unlock_out", "wake_out"} /\ ppc'[p] \in {"wake_out", "arrived"}
    BY <1>5, ZenonT(40) DEF PLeave, PTest, PUnlock, PClaimOut, PCheck, PCountLoad, PCountStore,
                PRemoveFind, PRemoveLink, PWakeOut
  <2>3. TripOf(p)' = TripOf(p) /\ (ppc'[p] \in Passed <=> ppc[p] \in Passed)
    BY <2>2 DEF TripOf, Before, Aboard, Passed
  <2>4. QED
    BY <2>1, <2>3, QuietPassenger
<1>6. QED
  BY <1>1, <1>2, <1>3, <1>4, <1>5

LEMMA PassengerBuilds ==
  ASSUME SafetyInv, violation = {}, NEW p \in Passengers, PStep(p)
  PROVE  [Abstract!BuildingNext]_(Abstract!buildingVars)
<1>1. PassengerFrame(p)
  BY PassengerStepFrame DEF SafetyInv
<1>2. CASE PRequest(p)
  BY <1>1, <1>2, RequestIsRequest DEF Abstract!BuildingNext
<1>3. CASE PFinish(p) \/ PPost(p) \/ PRecord(p) \/ PEnlist(p) \/ PStartLoad(p) \/ PStartStore(p)
  <2> USE DEF SafetyInv, TypeOK, PGoto, people, ready
  <2>1. UNCHANGED <<in_elevator, at_floor, to_floor, overlapped, is_passenger_ready>>
    BY <1>3 DEF PFinish, PPost, PRecord, PEnlist, PStartLoad, PStartStore
  <2>2. \/ ppc[p] = "idle" /\ ppc'[p] = "done"
        \/ ppc[p] \in {"post", "record", "enlist", "start_load", "start_store"}
           /\ ppc'[p] \in {"record", "enlist", "start_load", "start_store", "lock_in"}
    BY <1>3 DEF PFinish, PPost, PRecord, PEnlist, PStartLoad, PStartStore
  <2>3. TripOf(p)' = TripOf(p) /\ (ppc'[p] \in Passed <=> ppc[p] \in Passed)
    BY <2>2 DEF TripOf, Before, Aboard, Passed
  <2>4. QED
    BY <1>1, <2>1, <2>3, QuietPassenger
<1>4. CASE PBoard(p) \/ PLeave(p)
  BY <1>1, <1>4, BoardingBuilds, LeavingBuilds
<1>5. QED
  BY <1>2, <1>3, <1>4 DEF PStep
-----------------------------------------------------------------------------
(* Elevators. *)

(* What passengers and other elevators look like after a step of e. *)
LEMMA ElevatorOthers ==
  ASSUME TypeOK, NEW e \in Elevators, ElevatorFrame(e)
  PROVE  /\ UNCHANGED <<in_elevator, at_floor, to_floor, overlapped>>
         /\ \A q \in Passengers : /\ TripOf(q)' = TripOf(q)
                                  /\ ppc'[q] \in Passed <=> ppc[q] \in Passed
         /\ \A f \in Elevators : f # e => ServedAt(f)' = ServedAt(f)
<1>1. UNCHANGED <<in_elevator, at_floor, to_floor, overlapped>>
  BY DEF ElevatorFrame, people
<1>2. ASSUME NEW q \in Passengers
      PROVE  TripOf(q)' = TripOf(q) /\ (ppc'[q] \in Passed <=> ppc[q] \in Passed)
  <2>1. \/ ppc'[q] = ppc[q]
        \/ ppc[q] = "wait_in" /\ ppc'[q] = "lock_in"
        \/ ppc[q] = "wait_out" /\ ppc'[q] = "lock_out"
    BY DEF ElevatorFrame
  <2>2. QED
    BY <2>1 DEF TripOf, Before, Aboard, Passed
<1>3. \A f \in Elevators : f # e => ServedAt(f)' = ServedAt(f)
  BY <1>1, <1>2 DEF ServedAt, ElevatorFrame, Assigned
<1>4. QED
  BY <1>1, <1>2, <1>3

(* A step of an elevator that moves neither door nor cabin and neither     *)
(* forgets nor invents that somebody has passed the door. *)
LEMMA QuietElevator ==
  ASSUME TypeOK, NEW e \in Elevators, ElevatorFrame(e), UNCHANGED <<floor, open>>,
         (is_passenger_ready'[e] \/ epc'[e] \in {"close", "closing"})
           <=> (is_passenger_ready[e] \/ epc[e] \in {"close", "closing"})
  PROVE  UNCHANGED Abstract!buildingVars
<1>1. ServedAt(e)' = ServedAt(e)
  BY ElevatorOthers DEF ServedAt, Assigned
<1>2. QED
  BY <1>1, ElevatorOthers, BuildingSame

(* After a step that leaves the elevator away from the wait at the door,    *)
(* and not about to close it, the next opening has served nobody. *)
LEMMA NobodyPassed ==
  ASSUME TypeOK', HandshakeInv', NEW e \in Elevators,
         epc'[e] \notin AtDoor \cup {"close", "closing"}
  PROVE  ServedAt(e)' = overlapped'
<1>1. CASE overlapped'
  BY <1>1 DEF ServedAt, TypeOK
<1>2. CASE ~overlapped'
  <2>1. Token(e)'
    BY <1>2 DEF HandshakeInv
  <2>2. \A q \in Passengers : Assigned(q) = e => ppc'[q] \notin Passed
    BY <2>1 DEF Token, Working, Boarding, Alighting, Passed, Assigned
  <2>3. ~is_passenger_ready'[e]
    BY <2>1 DEF Token
  <2>4. QED
    BY <1>2, <2>2, <2>3 DEF ServedAt, TypeOK, Assigned
<1>3. QED
  BY <1>1, <1>2

LEMMA DoorOpens ==
  ASSUME SafetyInv, SafetyInv', NEW e \in Elevators, ElevatorFrame(e),
         EDoor(e, "opening", "announce", TRUE)
  PROVE  Abstract!OpenDoor(e)
<1> USE DEF SafetyInv, TypeOK, EnforcementTypeOK
<1>1. /\ epc[e] = "opening" /\ epc'[e] = "announce"
      /\ open' = [open EXCEPT ![e] = TRUE] /\ floor' = floor
  BY DEF EDoor, EGoto, DoorCommit
<1>2. ~open[e]
  BY <1>1 DEF DriveInv, DoorMatchesPc, DoorOpen
<1>3. \A f \in Elevators : ServedAt(f)' = IF f = e THEN overlapped ELSE ServedAt(f)
  <2>1. ServedAt(e)' = overlapped'
    BY <1>1, NobodyPassed DEF AtDoor
  <2>2. QED
    BY <2>1, ElevatorOthers
<1>4. [f \in Elevators |-> ServedAt(f)]'
        = [[f \in Elevators |-> ServedAt(f)] EXCEPT ![e] = overlapped]
  BY <1>3
<1>5. [f \in Elevators |-> IF open[f] THEN "open" ELSE "closed"]'
        = [[f \in Elevators |-> IF open[f] THEN "open" ELSE "closed"] EXCEPT ![e] = "open"]
  BY <1>1
<1>6. [q \in Passengers |-> TripOf(q)]' = [q \in Passengers |-> TripOf(q)]
  BY ElevatorOthers
<1>7. QED
  BY <1>1, <1>2, <1>4, <1>5, <1>6, ElevatorOthers DEF Abstract!OpenDoor

LEMMA DoorCloses ==
  ASSUME SafetyInv, SafetyInv', NEW e \in Elevators, ElevatorFrame(e),
         EDoor(e, "closing", "move_1", FALSE)
  PROVE  Abstract!CloseDoor(e)
<1> USE DEF SafetyInv, TypeOK, EnforcementTypeOK
<1>1. /\ epc[e] = "closing" /\ epc'[e] = "move_1"
      /\ open' = [open EXCEPT ![e] = FALSE] /\ floor' = floor
  BY DEF EDoor, EGoto, DoorCommit
<1>2. open[e] /\ ServedAt(e) = TRUE
  BY <1>1 DEF DriveInv, DoorMatchesPc, DoorOpen, ServedAt
<1>3. \A f \in Elevators : ServedAt(f)' = IF f = e THEN overlapped ELSE ServedAt(f)
  <2>1. ServedAt(e)' = overlapped'
    BY <1>1, NobodyPassed DEF AtDoor
  <2>2. QED
    BY <2>1, ElevatorOthers
<1>4. [f \in Elevators |-> ServedAt(f)]'
        = [[f \in Elevators |-> ServedAt(f)] EXCEPT ![e] = overlapped]
  BY <1>3
<1>5. [f \in Elevators |-> IF open[f] THEN "open" ELSE "closed"]'
        = [[f \in Elevators |-> IF open[f] THEN "open" ELSE "closed"] EXCEPT ![e] = "closed"]
  BY <1>1
<1>6. [q \in Passengers |-> TripOf(q)]' = [q \in Passengers |-> TripOf(q)]
  BY ElevatorOthers
<1>7. QED
  BY <1>1, <1>2, <1>4, <1>5, <1>6, ElevatorOthers DEF Abstract!CloseDoor

LEMMA CabinMoves ==
  ASSUME SafetyInv, NEW e \in Elevators, ElevatorFrame(e), EMove(e)
  PROVE  Abstract!Move(e)
<1> USE DEF SafetyInv, TypeOK, EnforcementTypeOK
<1>1. /\ epc[e] = "moving" /\ epc'[e] = "mirror" /\ open' = open
      /\ is_passenger_ready' = is_passenger_ready
      /\ floor' = [floor EXCEPT ![e] = @ + elevator_direction[e]]
  BY DEF EMove, EGoto, MoveCommit, ready
<1>2. elevator_direction[e] \in {-1, 1} /\ floor[e] + elevator_direction[e] \in Floors /\ ~open[e]
  BY <1>1, NextFloor, ZenonT(40)
     DEF DriveInv, DoorMatchesPc, InBuilding, FloorsAgree, DirectionFits, Driving, Aimed, DoorOpen
<1>3. \A f \in Elevators : ServedAt(f)' = ServedAt(f)
  <2>1. ServedAt(e)' = ServedAt(e)
    BY <1>1, ElevatorOthers DEF ServedAt, Assigned
  <2>2. QED
    BY <2>1, ElevatorOthers
<1>4. QED
  BY <1>1, <1>2, <1>3, ElevatorOthers DEF Abstract!Move

LEMMA ElevatorBuilds ==
  ASSUME SafetyInv, SafetyInv', NEW e \in Elevators, EStep(e)
  PROVE  [Abstract!BuildingNext]_(Abstract!buildingVars)
<1> DEFINE Doorways == \/ EDoor(e, "opening", "announce", TRUE)
                       \/ EDoor(e, "closing", "move_1", FALSE)
<1>1. ElevatorFrame(e)
  BY ElevatorStepFrame DEF SafetyInv
<1>2. CASE Doorways
  BY <1>1, <1>2, DoorOpens, DoorCloses DEF Abstract!BuildingNext
<1>3. CASE EMove(e)
  BY <1>1, <1>3, CabinMoves DEF Abstract!BuildingNext
<1>4. CASE EAwait(e)
  BY <1>1, <1>4, QuietElevator DEF EAwait, EGoto, SafetyInv, TypeOK
<1>5. CASE ~(Doorways \/ EMove(e) \/ EAwait(e))
  <2>1. UNCHANGED <<floor, open, is_passenger_ready>>
    BY <1>5 DEF EStep, ELoop, EStart, EPick, ESteer, EStop, EPass, ECheck, EAnnounce, ESleep,
                ERelock, EMirror, ready
  <2>2. epc'[e] \in {"close", "closing"} <=> epc[e] \in {"close", "closing"}
    <3> USE DEF EGoto, SafetyInv, TypeOK
    <3>1. CASE ELoop(e) \/ EStart(e) \/ EPick(e) \/ ESteer(e) \/ EStop(e) \/ EPass(e)
      BY <3>1 DEF ELoop, EStart, EPick, ESteer, EStop, EPass
    <3>2. CASE EAnnounce(e) \/ ESleep(e) \/ ERelock(e) \/ EMirror(e)
      BY <3>2 DEF EAnnounce, ESleep, ERelock, EMirror
    <3>3. CASE \/ ECheck(e, "open_1", "open_2", OpenFaults(e))
               \/ ECheck(e, "open_2", "opening", OpenFaults(e))
               \/ ECheck(e, "close", "closing", CloseFaults(e))
               \/ ECheck(e, "move_1", "move_2", MoveFaults(e))
               \/ ECheck(e, "move_2", "moving", MoveFaults(e))
      BY <3>3 DEF ECheck
    <3>4. QED
      BY <1>5, <3>1, <3>2, <3>3 DEF EStep
  <2>3. QED
    BY <1>1, <2>1, <2>2, QuietElevator DEF SafetyInv
<1>6. QED
  BY <1>2, <1>3, <1>4, <1>5
-----------------------------------------------------------------------------
LEMMA IdleBuilds ==
  ASSUME SafetyInv, MainStop \/ SpuriousWakeup \/ UNCHANGED vars
  PROVE  UNCHANGED Abstract!buildingVars
<1> USE DEF SafetyInv, TypeOK
<1>1. CASE MainStop \/ UNCHANGED vars
  <2>1. UNCHANGED <<floor, open, people, overlapped, ppc, epc, ready>>
    BY <1>1 DEF MainStop, vars, cars
  <2>2. QED
    BY <2>1, BuildingSame DEF people, ready, TripOf, ServedAt
<1>2. ASSUME NEW p \in Passengers, PSpuriousWakeup(p) PROVE UNCHANGED Abstract!buildingVars
  <2>1. /\ UNCHANGED <<floor, open, in_elevator, at_floor, to_floor, overlapped, epc,
                       is_passenger_ready>>
        /\ \A q \in Passengers : \/ ppc'[q] = ppc[q]
                                 \/ ppc[q] = "wait_in" /\ ppc'[q] = "lock_in"
                                 \/ ppc[q] = "wait_out" /\ ppc'[q] = "lock_out"
    BY <1>2 DEF PSpuriousWakeup, PGoto, elevatorSide, people, ready
  <2>2. \A q \in Passengers : /\ TripOf(q)' = TripOf(q)
                              /\ ppc'[q] \in Passed <=> ppc[q] \in Passed
    BY <2>1 DEF TripOf, Before, Aboard, Passed
  <2>3. \A f \in Elevators : ServedAt(f)' = ServedAt(f)
    BY <2>1, <2>2 DEF ServedAt, Assigned
  <2>4. QED
    BY <2>1, <2>2, <2>3, BuildingSame
<1>3. ASSUME NEW e \in Elevators, ESpuriousWakeup(e) PROVE UNCHANGED Abstract!buildingVars
  <2>1. /\ UNCHANGED <<floor, open, in_elevator, at_floor, to_floor, overlapped, ppc,
                       is_passenger_ready>>
        /\ \A f \in Elevators : epc'[f] \in {"close", "closing"} <=> epc[f] \in {"close", "closing"}
    BY <1>3 DEF ESpuriousWakeup, EGoto, passengerSide, people, ready
  <2>2. QED
    BY <2>1, BuildingSame DEF TripOf, ServedAt
<1>4. QED
  BY <1>1, <1>2, <1>3 DEF SpuriousWakeup

LEMMA StepBuilds ==
  SafetyInv /\ SafetyInv' /\ [Next]_vars => [Abstract!BuildingNext]_(Abstract!buildingVars)
<1> SUFFICES ASSUME SafetyInv, SafetyInv', [Next]_vars
             PROVE  [Abstract!BuildingNext]_(Abstract!buildingVars)
  OBVIOUS
<1>1. CASE MainStop \/ SpuriousWakeup \/ UNCHANGED vars
  BY <1>1, IdleBuilds
<1>2. ASSUME violation = {}, NEW p \in Passengers, PStep(p)
      PROVE  [Abstract!BuildingNext]_(Abstract!buildingVars)
  BY <1>2, PassengerBuilds
<1>3. ASSUME NEW e \in Elevators, EStep(e)
      PROVE  [Abstract!BuildingNext]_(Abstract!buildingVars)
  BY <1>3, ElevatorBuilds
<1>4. QED
  BY <1>1, <1>2, <1>3 DEF Next

(* The threads of hw7.c implement Building: doors, cabins and passengers    *)
(* move as elevator.h promises, one passenger per opening of a door until   *)
(* critical sections overlap. *)
THEOREM SchedulerImplementsBuilding == Spec => ImplementsBuilding
  BY BuildingStart, StepBuilds, SafetyHolds, PTL
  DEF Spec, ImplementsBuilding, Abstract!BuildingSpec
=============================================================================
