----------------------- MODULE SchedulerSafetyProofs -----------------------
(***************************************************************************)
(* Safety of the scheduler, for every number of elevators, floors,         *)
(* passengers, seats and trips: SafetyInv is inductive.                    *)
(***************************************************************************)
EXTENDS SchedulerSafety, FiniteSetTheorems, TLAPS

(* Every passenger has an elevator (hw7.c:180). *)
LEMMA AssignedType == \A p \in Passengers : Assigned(p) \in Elevators
  BY SizesAssumption DEF Assigned, Passengers, Elevators

LEMMA FloorsType == 0 \in Floors /\ \A f \in Floors : f \in Int
  BY SizesAssumption DEF Floors

-----------------------------------------------------------------------------
(* Type correctness.  One lemma for the steps of a passenger, one for      *)
(* those of an elevator.                                                   *)

LEMMA TypeInit == Init => TypeOK
<1> SUFFICES ASSUME Init PROVE TypeOK
  OBVIOUS
<1> USE FloorsType
<1>1. EnforcementTypeOK
  BY DEF Init, EnforcementInit, EnforcementTypeOK
<1>2. /\ elenumber \in [Passengers -> Elevators]
      /\ trips \in [Passengers -> Nat]
  BY SizesAssumption, SchedulerAssumption DEF Init, Elevators
<1>3. QED
  BY <1>1, <1>2 DEF Init, TypeOK, EPcs, PPcs, NONE, FREE, MAIN, ELEVATOR

LEMMA PassengersType == \A p \in Passengers : p \in Int /\ p >= 0
  BY DEF Passengers

LEMMA RidersType ==
  \A e \in Elevators : Riders(e) \subseteq Passengers
  BY DEF Riders, ReachableFrom

LEMMA FaultsType ==
  /\ \A e : /\ OpenFaults(e) \in SUBSET Violations
            /\ CloseFaults(e) \in SUBSET Violations
            /\ MoveFaults(e) \in SUBSET Violations
  /\ \A p, e : /\ EnterFaults(p, e) \in SUBSET Violations
               /\ ExitFaults(p, e) \in SUBSET Violations
  /\ \A p : DeliveryFaults(p) \in SUBSET Violations
  /\ {"not on ride list"} \in SUBSET Violations
  BY DEF OpenFaults, CloseFaults, MoveFaults, CabinFaults, EnterFaults, ExitFaults,
         DeliveryFaults, Raise, Violations, DriveFaults, RideFaults

LEMMA TypePassenger ==
  ASSUME TypeOK, NEW p \in Passengers, PStep(p) PROVE TypeOK'
<1> USE AssignedType, FloorsType
    DEF TypeOK, EnforcementTypeOK, PPcs, Section, NONE, FREE, PGoto, elevatorSide, people,
        cars, info, rideList, ready, drive
<1>1. CASE PRequest(p)
  BY <1>1 DEF PRequest, TripLeft, NewTrip
<1>2. CASE PFinish(p)
  BY <1>2 DEF PFinish
<1>3. CASE PPost(p)
  BY <1>3 DEF PPost
<1>4. CASE PRecord(p)
  BY <1>4 DEF PRecord
<1>5. CASE PEnlist(p)
  BY <1>5 DEF PEnlist
<1>6. CASE PStartLoad(p)
  BY <1>6 DEF PStartLoad
<1>7. CASE PStartStore(p)
  BY <1>7 DEF PStartStore
<1>8. CASE PBoard(p)
  <2> DEFINE e == Assigned(p)
  <2>1. CASE PLock(p, "lock_in", "check_in")
    BY <2>1 DEF PLock
  <2>2. CASE PTest(p, "check_in", MayEnter(p, e), "claim_in", "sleep_in")
    BY <2>2 DEF PTest
  <2>3. CASE PUnlock(p, "sleep_in", "wait_in")
    BY <2>3 DEF PUnlock
  <2>4. CASE PClaimIn(p)
    BY <2>4 DEF PClaimIn, TakeTurn
  <2>5. CASE PCheck(p, "enter_1", "enter_2", EnterFaults(p, e))
    BY <2>5, FaultsType DEF PCheck
  <2>6. CASE PCheck(p, "enter_2", "entering", EnterFaults(p, e))
    BY <2>6, FaultsType DEF PCheck
  <2>7. CASE PEnter(p)
    BY <2>7 DEF PEnter, EnterCommit
  <2>8. CASE PCountLoad(p, "load_in", "store_in", 1)
    BY <2>8 DEF PCountLoad
  <2>9. CASE PCountStore(p, "store_in", "add_find", 1)
    BY <2>9 DEF PCountStore
  <2>10. CASE PAddFind(p)
    <3>1. e \in Elevators
      OBVIOUS
    <3>2. PICK c \in Passengers \cup {NONE} : tmp' = [tmp EXCEPT ![p] = c]
      BY <2>10, <3>1, RidersType DEF PAddFind
    <3>3. c \in Int
      BY PassengersType
    <3>4. ppc' = [ppc EXCEPT ![p] = "add_link"]
      BY <2>10 DEF PAddFind
    <3>5. /\ tmp' \in [Passengers -> Int]
          /\ \A q \in Passengers :
               ppc'[q] \in {"add_link", "rm_link"} => tmp'[q] \in Passengers \cup {NONE}
      BY <3>2, <3>3, <3>4
    <3>6. QED
      BY <2>10, <3>4, <3>5 DEF PAddFind
  <2>11. CASE PAddLink(p)
    BY <2>11, ZenonT(40) DEF PAddLink
  <2>12. CASE PSignalIn(p)
    BY <2>12 DEF PSignalIn, BroadcastPassengerSignal, EPcs
  <2>13. CASE PUnlock(p, "unlock_in", "lock_out")
    BY <2>13 DEF PUnlock
  <2>14. QED
    BY <1>8, <2>1, <2>2, <2>3, <2>4, <2>5, <2>6, <2>7, <2>8, <2>9, <2>10, <2>11, <2>12, <2>13
    DEF PBoard
<1>9. CASE PLeave(p)
  <2> DEFINE e == Assigned(p)
  <2>1. CASE PLock(p, "lock_out", "check_out")
    BY <2>1 DEF PLock
  <2>2. CASE PTest(p, "check_out", MayExit(p, e), "claim_out", "sleep_out")
    BY <2>2 DEF PTest
  <2>3. CASE PUnlock(p, "sleep_out", "wait_out")
    BY <2>3 DEF PUnlock
  <2>4. CASE PClaimOut(p)
    BY <2>4 DEF PClaimOut, TakeTurn
  <2>5. CASE PCheck(p, "exit_1", "exit_2", ExitFaults(p, e))
    BY <2>5, FaultsType DEF PCheck
  <2>6. CASE PCheck(p, "exit_2", "exiting", ExitFaults(p, e))
    BY <2>6, FaultsType DEF PCheck
  <2>7. CASE PExit(p)
    BY <2>7 DEF PExit, ExitCommit
  <2>8. CASE PCountLoad(p, "load_out", "store_out", status[p])
    BY <2>8 DEF PCountLoad
  <2>9. CASE PCountStore(p, "store_out", "rm_find", -1)
    BY <2>9 DEF PCountStore
  <2>10. CASE PRemoveFind(p)
    <3>1. CASE p \notin Riders(e)
      BY <2>10, <3>1, FaultsType DEF PRemoveFind
    <3>2. CASE p \in Riders(e)
      <4>1. e \in Elevators
        OBVIOUS
      <4>2. PICK c \in Passengers \cup {NONE} : tmp' = [tmp EXCEPT ![p] = c]
        BY <2>10, <3>2, <4>1, RidersType DEF PRemoveFind
      <4>3. c \in Int
        BY PassengersType
      <4>4. ppc' = [ppc EXCEPT ![p] = "rm_link"]
        BY <2>10, <3>2 DEF PRemoveFind
      <4>5. /\ tmp' \in [Passengers -> Int]
            /\ \A q \in Passengers :
                 ppc'[q] \in {"add_link", "rm_link"} => tmp'[q] \in Passengers \cup {NONE}
        BY <4>2, <4>3, <4>4
      <4>6. QED
        BY <2>10, <3>2, <4>4, <4>5 DEF PRemoveFind
    <3>3. QED
      BY <3>1, <3>2
  <2>11. CASE PRemoveLink(p)
    BY <2>11, ZenonT(40) DEF PRemoveLink, Rest
  <2>12. CASE PSignalOut(p)
    BY <2>12 DEF PSignalOut
  <2>13. CASE PUnlock(p, "unlock_out", "wake_out")
    BY <2>13 DEF PUnlock
  <2>14. CASE PWakeOut(p)
    BY <2>14 DEF PWakeOut, BroadcastPassengerSignal, EPcs
  <2>15. CASE PArrive(p)
    <3>0. UNCHANGED <<elevatorSide, ready, wait_at, elevator_lock, epc, info, rideList, start,
                      passenger_count, tmp, trips, overlapped, cars, to_floor, at_floor,
                      in_elevator, state>>
      BY <2>15 DEF PArrive, EndTrip
    <3>1. CASE DeliveryFaults(p) = {}
      <4>1. /\ ppc' = [ppc EXCEPT ![p] = "idle"]
            /\ from_floor' = [from_floor EXCEPT ![p] = to_floor[p]]
            /\ violation' = violation
        BY <2>15, <3>1 DEF PArrive, EndTrip
      <4>2. QED
        BY <3>0, <4>1
    <3>2. CASE DeliveryFaults(p) # {}
      <4>1. ppc' = ppc /\ from_floor' = from_floor /\ violation' = DeliveryFaults(p)
        BY <2>15, <3>2 DEF PArrive
      <4>2. QED
        BY <3>0, <4>1, FaultsType
    <3>3. QED
      BY <3>1, <3>2
  <2>16. QED
    BY <1>9, <2>1, <2>2, <2>3, <2>4, <2>5, <2>6, <2>7, <2>8, <2>9, <2>10, <2>11, <2>12, <2>13,
       <2>14, <2>15
    DEF PLeave
<1>10. QED
  BY <1>1, <1>2, <1>3, <1>4, <1>5, <1>6, <1>7, <1>8, <1>9 DEF PStep

LEMMA TypeElevator ==
  ASSUME TypeOK, NEW e \in Elevators, EStep(e) PROVE TypeOK'
<1> USE FloorsType
    DEF TypeOK, EnforcementTypeOK, EPcs, PPcs, FREE, ELEVATOR, EGoto, passengerSide, people,
        cars, info, rideList, ready, drive
<1>1. CASE ELoop(e)
  BY <1>1 DEF ELoop
<1>2. CASE EStart(e)
  BY <1>2 DEF EStart
<1>3. CASE EPick(e)
  BY <1>3, SizesAssumption, SMTT(30) DEF EPick, TurnRound
<1>4. CASE ESteer(e)
  BY <1>4 DEF ESteer
<1>5. CASE EStop(e)
  BY <1>5 DEF EStop
<1>6. CASE EPass(e)
  BY <1>6 DEF EPass
<1>7. CASE ECheck(e, "open_1", "open_2", OpenFaults(e))
  BY <1>7, FaultsType DEF ECheck
<1>8. CASE ECheck(e, "open_2", "opening", OpenFaults(e))
  BY <1>8, FaultsType DEF ECheck
<1>9. CASE EDoor(e, "opening", "announce", TRUE)
  BY <1>9 DEF EDoor, DoorCommit
<1>10. CASE EAnnounce(e)
  BY <1>10 DEF EAnnounce, BroadcastElevatorSignal
<1>11. CASE EAwait(e)
  BY <1>11 DEF EAwait
<1>12. CASE ESleep(e)
  BY <1>12 DEF ESleep
<1>13. CASE ERelock(e)
  BY <1>13 DEF ERelock
<1>14. CASE ECheck(e, "close", "closing", CloseFaults(e))
  BY <1>14, FaultsType DEF ECheck
<1>15. CASE EDoor(e, "closing", "move_1", FALSE)
  BY <1>15 DEF EDoor, DoorCommit
<1>16. CASE ECheck(e, "move_1", "move_2", MoveFaults(e))
  BY <1>16, FaultsType DEF ECheck
<1>17. CASE ECheck(e, "move_2", "moving", MoveFaults(e))
  BY <1>17, FaultsType DEF ECheck
<1>18. CASE EMove(e)
  <2>1. elevator_direction[e] \in Int
    OBVIOUS
  <2>2. QED
    BY <1>18, <2>1 DEF EMove, MoveCommit
<1>19. CASE EMirror(e)
  <2>1. elevator_direction[e] \in Int
    OBVIOUS
  <2>2. QED
    BY <1>19, <2>1 DEF EMirror
<1>20. QED
  BY <1>1, <1>2, <1>3, <1>4, <1>5, <1>6, <1>7, <1>8, <1>9, <1>10, <1>11, <1>12, <1>13,
     <1>14, <1>15, <1>16, <1>17, <1>18, <1>19
     DEF EStep

LEMMA TypeNext == TypeOK /\ [Next]_vars => TypeOK'
<1> SUFFICES ASSUME TypeOK, [Next]_vars PROVE TypeOK'
  OBVIOUS
<1>1. CASE \E p \in Passengers : PStep(p)
  BY <1>1, TypePassenger
<1>2. CASE \E e \in Elevators : EStep(e)
  BY <1>2, TypeElevator
<1>3. CASE MainStop
  BY <1>3 DEF MainStop, TypeOK, EnforcementTypeOK, cars, people, drive, ready, info, rideList
<1>4. CASE SpuriousWakeup
  <2> USE DEF TypeOK, EnforcementTypeOK, PGoto, EGoto, PPcs, EPcs, elevatorSide, passengerSide,
              cars, people, drive, ready, info, rideList
  <2>1. ASSUME NEW p \in Passengers, PSpuriousWakeup(p) PROVE TypeOK'
    BY <2>1 DEF PSpuriousWakeup
  <2>2. ASSUME NEW e \in Elevators, ESpuriousWakeup(e) PROVE TypeOK'
    BY <2>2 DEF ESpuriousWakeup
  <2>3. QED
    BY <1>4, <2>1, <2>2 DEF SpuriousWakeup
<1>5. CASE UNCHANGED vars
  BY <1>5 DEF vars, TypeOK, EnforcementTypeOK, cars, people, drive, ready, info, rideList
<1>6. QED
  BY <1>1, <1>2, <1>3, <1>4, <1>5 DEF Next

(* Every variable keeps to its type in every run. *)
THEOREM TypeCorrect == Spec => []TypeOK
  BY TypeInit, TypeNext, PTL DEF Spec
-----------------------------------------------------------------------------
(* The safety properties, which need one another: SafetyInv. *)

(* What a step of a passenger leaves alone: the elevators but for a        *)
(* wakeup, everybody else, and every elevator but its own. *)
PassengerFrame(p) ==
  /\ UNCHANGED <<floor, open, elevator_floor, elevator_direction, arg_floor>>
  /\ \A e \in Elevators : \/ epc'[e] = epc[e]
                          \/ epc[e] = "wait" /\ epc'[e] = "relock"
  /\ \A q \in Passengers : q # p =>
       /\ ppc'[q] = ppc[q] /\ tmp'[q] = tmp[q]
       /\ from_floor'[q] = from_floor[q] /\ to_floor'[q] = to_floor[q]
       /\ at_floor'[q] = at_floor[q] /\ in_elevator'[q] = in_elevator[q]
       /\ state'[q] = state[q]
  /\ \A e \in Elevators : e # Assigned(p) =>
       /\ occupants'[e] = occupants[e] /\ passenger_count'[e] = passenger_count[e]
       /\ is_elevator_ready'[e] = is_elevator_ready[e]
       /\ is_passenger_ready'[e] = is_passenger_ready[e]

LEMMA PassengerStepFrame ==
  ASSUME TypeOK, NEW p \in Passengers, PStep(p) PROVE PassengerFrame(p)
<1> DEFINE e == Assigned(p)
<1> USE DEF PassengerFrame, TypeOK, EnforcementTypeOK, PGoto, elevatorSide, people, cars, ready,
            drive
<1>1. CASE PRequest(p)
  BY <1>1 DEF PRequest, TripLeft, NewTrip
<1>2. CASE PFinish(p)
  BY <1>2 DEF PFinish
<1>3. CASE PPost(p)
  BY <1>3 DEF PPost
<1>4. CASE PRecord(p)
  BY <1>4 DEF PRecord
<1>5. CASE PEnlist(p)
  BY <1>5 DEF PEnlist
<1>6. CASE PStartLoad(p)
  BY <1>6 DEF PStartLoad
<1>7. CASE PStartStore(p)
  BY <1>7 DEF PStartStore
<1>8. CASE PBoard(p)
  <2>1. CASE PLock(p, "lock_in", "check_in")
    BY <2>1 DEF PLock
  <2>2. CASE PTest(p, "check_in", MayEnter(p, e), "claim_in", "sleep_in")
    BY <2>2 DEF PTest
  <2>3. CASE PUnlock(p, "sleep_in", "wait_in")
    BY <2>3 DEF PUnlock
  <2>4. CASE PClaimIn(p)
    BY <2>4 DEF PClaimIn, TakeTurn
  <2>5. CASE PCheck(p, "enter_1", "enter_2", EnterFaults(p, e))
    BY <2>5 DEF PCheck
  <2>6. CASE PCheck(p, "enter_2", "entering", EnterFaults(p, e))
    BY <2>6 DEF PCheck
  <2>7. CASE PEnter(p)
    BY <2>7 DEF PEnter, EnterCommit
  <2>8. CASE PCountLoad(p, "load_in", "store_in", 1)
    BY <2>8 DEF PCountLoad
  <2>9. CASE PCountStore(p, "store_in", "add_find", 1)
    BY <2>9 DEF PCountStore
  <2>10. CASE PAddFind(p)
    BY <2>10 DEF PAddFind
  <2>11. CASE PAddLink(p)
    BY <2>11 DEF PAddLink
  <2>12. CASE PSignalIn(p)
    BY <2>12 DEF PSignalIn, BroadcastPassengerSignal
  <2>13. CASE PUnlock(p, "unlock_in", "lock_out")
    BY <2>13 DEF PUnlock
  <2>14. QED
    BY <1>8, <2>1, <2>2, <2>3, <2>4, <2>5, <2>6, <2>7, <2>8, <2>9, <2>10, <2>11, <2>12,
       <2>13
    DEF PBoard
<1>9. CASE PLeave(p)
  <2>1. CASE PLock(p, "lock_out", "check_out")
    BY <2>1 DEF PLock
  <2>2. CASE PTest(p, "check_out", MayExit(p, e), "claim_out", "sleep_out")
    BY <2>2 DEF PTest
  <2>3. CASE PUnlock(p, "sleep_out", "wait_out")
    BY <2>3 DEF PUnlock
  <2>4. CASE PClaimOut(p)
    BY <2>4 DEF PClaimOut, TakeTurn
  <2>5. CASE PCheck(p, "exit_1", "exit_2", ExitFaults(p, e))
    BY <2>5 DEF PCheck
  <2>6. CASE PCheck(p, "exit_2", "exiting", ExitFaults(p, e))
    BY <2>6 DEF PCheck
  <2>7. CASE PExit(p)
    BY <2>7 DEF PExit, ExitCommit
  <2>8. CASE PCountLoad(p, "load_out", "store_out", status[p])
    BY <2>8 DEF PCountLoad
  <2>9. CASE PCountStore(p, "store_out", "rm_find", -1)
    BY <2>9 DEF PCountStore
  <2>10. CASE PRemoveFind(p)
    BY <2>10 DEF PRemoveFind
  <2>11. CASE PRemoveLink(p)
    BY <2>11 DEF PRemoveLink, Rest
  <2>12. CASE PSignalOut(p)
    BY <2>12 DEF PSignalOut
  <2>13. CASE PUnlock(p, "unlock_out", "wake_out")
    BY <2>13 DEF PUnlock
  <2>14. CASE PWakeOut(p)
    BY <2>14 DEF PWakeOut, BroadcastPassengerSignal
  <2>15. CASE PArrive(p)
    BY <2>15 DEF PArrive, EndTrip
  <2>16. QED
    BY <1>9, <2>1, <2>2, <2>3, <2>4, <2>5, <2>6, <2>7, <2>8, <2>9, <2>10, <2>11, <2>12,
       <2>13, <2>14, <2>15
    DEF PLeave
<1>10. QED
  BY <1>1, <1>2, <1>3, <1>4, <1>5, <1>6, <1>7, <1>8, <1>9
     DEF PStep

(* What a step of an elevator leaves alone: the passengers but for a       *)
(* wakeup, and every other elevator. *)
ElevatorFrame(e) ==
  /\ UNCHANGED <<people, occupants, passenger_count, tmp, overlapped>>
  /\ \A p \in Passengers : \/ ppc'[p] = ppc[p]
                           \/ ppc[p] = "wait_in" /\ ppc'[p] = "lock_in"
                           \/ ppc[p] = "wait_out" /\ ppc'[p] = "lock_out"
  /\ \A f \in Elevators : f # e =>
       /\ epc'[f] = epc[f] /\ floor'[f] = floor[f] /\ open'[f] = open[f]
       /\ elevator_floor'[f] = elevator_floor[f] /\ arg_floor'[f] = arg_floor[f]
       /\ elevator_direction'[f] = elevator_direction[f]
       /\ is_elevator_ready'[f] = is_elevator_ready[f]
       /\ is_passenger_ready'[f] = is_passenger_ready[f]

LEMMA ElevatorStepFrame ==
  ASSUME TypeOK, NEW e \in Elevators, EStep(e) PROVE ElevatorFrame(e)
<1> USE DEF ElevatorFrame, TypeOK, EnforcementTypeOK, EGoto, passengerSide, people, cars, ready,
            drive
<1>1. CASE ELoop(e)
  BY <1>1 DEF ELoop
<1>2. CASE EStart(e)
  BY <1>2 DEF EStart
<1>3. CASE EPick(e)
  BY <1>3 DEF EPick, TurnRound
<1>4. CASE ESteer(e)
  BY <1>4 DEF ESteer
<1>5. CASE EStop(e)
  BY <1>5 DEF EStop
<1>6. CASE EPass(e)
  BY <1>6 DEF EPass
<1>7. CASE ECheck(e, "open_1", "open_2", OpenFaults(e))
  BY <1>7 DEF ECheck
<1>8. CASE ECheck(e, "open_2", "opening", OpenFaults(e))
  BY <1>8 DEF ECheck
<1>9. CASE EDoor(e, "opening", "announce", TRUE)
  BY <1>9 DEF EDoor, DoorCommit
<1>10. CASE EAnnounce(e)
  BY <1>10 DEF EAnnounce, BroadcastElevatorSignal
<1>11. CASE EAwait(e)
  BY <1>11 DEF EAwait
<1>12. CASE ESleep(e)
  BY <1>12 DEF ESleep
<1>13. CASE ERelock(e)
  BY <1>13 DEF ERelock
<1>14. CASE ECheck(e, "close", "closing", CloseFaults(e))
  BY <1>14 DEF ECheck
<1>15. CASE EDoor(e, "closing", "move_1", FALSE)
  BY <1>15 DEF EDoor, DoorCommit
<1>16. CASE ECheck(e, "move_1", "move_2", MoveFaults(e))
  BY <1>16 DEF ECheck
<1>17. CASE ECheck(e, "move_2", "moving", MoveFaults(e))
  BY <1>17 DEF ECheck
<1>18. CASE EMove(e)
  BY <1>18 DEF EMove, MoveCommit
<1>19. CASE EMirror(e)
  BY <1>19 DEF EMirror
<1>20. QED
  BY <1>1, <1>2, <1>3, <1>4, <1>5, <1>6, <1>7, <1>8, <1>9, <1>10, <1>11, <1>12, <1>13,
     <1>14, <1>15, <1>16, <1>17, <1>18, <1>19
     DEF EStep
-----------------------------------------------------------------------------
(* The elevator by itself. *)

LEMMA PassengerFaults ==
  ASSUME NEW p, NEW e
  PROVE  /\ EnterFaults(p, e) \cap DriveFaults = {}
         /\ ExitFaults(p, e) \cap DriveFaults = {}
         /\ DeliveryFaults(p) \cap DriveFaults = {}
         /\ {"not on ride list"} \cap DriveFaults = {}
  BY DEF EnterFaults, ExitFaults, DeliveryFaults, DriveFaults, Raise

LEMMA DriveInit == Init => DriveInv
  BY FloorsType
     DEF Init, EnforcementInit, DriveInv, DoorMatchesPc, InBuilding, FloorsAgree, DirectionFits,
      DriveIsSafe, DoorOpen, Driving, Aimed

LEMMA PassengerViolation ==
  ASSUME TypeOK, DriveIsSafe, NEW p \in Passengers, PStep(p) PROVE DriveIsSafe'
<1> DEFINE e == Assigned(p)
<1> USE PassengerFaults DEF DriveIsSafe
<1>1. CASE PRequest(p)
  BY <1>1 DEF PRequest, TripLeft, NewTrip
<1>2. CASE PFinish(p)
  BY <1>2 DEF PFinish
<1>3. CASE PPost(p)
  BY <1>3 DEF PPost
<1>4. CASE PRecord(p)
  BY <1>4 DEF PRecord
<1>5. CASE PEnlist(p)
  BY <1>5 DEF PEnlist
<1>6. CASE PStartLoad(p)
  BY <1>6 DEF PStartLoad
<1>7. CASE PStartStore(p)
  BY <1>7 DEF PStartStore
<1>8. CASE PBoard(p)
  <2>1. CASE PLock(p, "lock_in", "check_in")
    BY <2>1 DEF PLock
  <2>2. CASE PTest(p, "check_in", MayEnter(p, e), "claim_in", "sleep_in")
    BY <2>2 DEF PTest
  <2>3. CASE PUnlock(p, "sleep_in", "wait_in")
    BY <2>3 DEF PUnlock
  <2>4. CASE PClaimIn(p)
    BY <2>4 DEF PClaimIn, TakeTurn
  <2>5. CASE PCheck(p, "enter_1", "enter_2", EnterFaults(p, e))
    BY <2>5 DEF PCheck
  <2>6. CASE PCheck(p, "enter_2", "entering", EnterFaults(p, e))
    BY <2>6 DEF PCheck
  <2>7. CASE PEnter(p)
    BY <2>7 DEF PEnter, EnterCommit
  <2>8. CASE PCountLoad(p, "load_in", "store_in", 1)
    BY <2>8 DEF PCountLoad
  <2>9. CASE PCountStore(p, "store_in", "add_find", 1)
    BY <2>9 DEF PCountStore
  <2>10. CASE PAddFind(p)
    BY <2>10 DEF PAddFind
  <2>11. CASE PAddLink(p)
    BY <2>11 DEF PAddLink
  <2>12. CASE PSignalIn(p)
    BY <2>12 DEF PSignalIn, BroadcastPassengerSignal
  <2>13. CASE PUnlock(p, "unlock_in", "lock_out")
    BY <2>13 DEF PUnlock
  <2>14. QED
    BY <1>8, <2>1, <2>2, <2>3, <2>4, <2>5, <2>6, <2>7, <2>8, <2>9, <2>10, <2>11, <2>12,
       <2>13
    DEF PBoard
<1>9. CASE PLeave(p)
  <2>1. CASE PLock(p, "lock_out", "check_out")
    BY <2>1 DEF PLock
  <2>2. CASE PTest(p, "check_out", MayExit(p, e), "claim_out", "sleep_out")
    BY <2>2 DEF PTest
  <2>3. CASE PUnlock(p, "sleep_out", "wait_out")
    BY <2>3 DEF PUnlock
  <2>4. CASE PClaimOut(p)
    BY <2>4 DEF PClaimOut, TakeTurn
  <2>5. CASE PCheck(p, "exit_1", "exit_2", ExitFaults(p, e))
    BY <2>5 DEF PCheck
  <2>6. CASE PCheck(p, "exit_2", "exiting", ExitFaults(p, e))
    BY <2>6 DEF PCheck
  <2>7. CASE PExit(p)
    BY <2>7 DEF PExit, ExitCommit
  <2>8. CASE PCountLoad(p, "load_out", "store_out", status[p])
    BY <2>8 DEF PCountLoad
  <2>9. CASE PCountStore(p, "store_out", "rm_find", -1)
    BY <2>9 DEF PCountStore
  <2>10. CASE PRemoveFind(p)
    BY <2>10 DEF PRemoveFind
  <2>11. CASE PRemoveLink(p)
    BY <2>11 DEF PRemoveLink, Rest
  <2>12. CASE PSignalOut(p)
    BY <2>12 DEF PSignalOut
  <2>13. CASE PUnlock(p, "unlock_out", "wake_out")
    BY <2>13 DEF PUnlock
  <2>14. CASE PWakeOut(p)
    BY <2>14 DEF PWakeOut, BroadcastPassengerSignal
  <2>15. CASE PArrive(p)
    BY <2>15 DEF PArrive, EndTrip
  <2>16. QED
    BY <1>9, <2>1, <2>2, <2>3, <2>4, <2>5, <2>6, <2>7, <2>8, <2>9, <2>10, <2>11, <2>12,
       <2>13, <2>14, <2>15
    DEF PLeave
<1>10. QED
  BY <1>1, <1>2, <1>3, <1>4, <1>5, <1>6, <1>7, <1>8, <1>9
     DEF PStep

LEMMA DrivePassenger ==
  ASSUME TypeOK, DriveInv, NEW p \in Passengers, PStep(p) PROVE DriveInv'
<1>1. PassengerFrame(p)
  BY PassengerStepFrame
<1>2. DriveIsSafe'
  BY PassengerViolation DEF DriveInv
<1>3. (DoorMatchesPc /\ InBuilding /\ FloorsAgree /\ DirectionFits)'
  BY <1>1
     DEF PassengerFrame, DriveInv, DoorMatchesPc, InBuilding, FloorsAgree, DirectionFits, Driving,
      Aimed, DoorOpen
<1>4. QED
  BY <1>2, <1>3 DEF DriveInv

(* A move that turns round at the ends of the shaft stays in the building. *)
LEMMA NextFloor ==
  ASSUME NEW f \in Floors, NEW d \in {-1, 1},
         f = 0 => d = 1, f = FLOORS - 1 => d = -1
  PROVE  f + d \in Floors
  BY SizesAssumption DEF Floors

LEMMA DriveElevator ==
  ASSUME TypeOK, DriveInv, violation = {}, NEW e \in Elevators, EStep(e) PROVE DriveInv'
<1>1. ElevatorFrame(e)
  BY ElevatorStepFrame
<1> DEFINE Own == /\ open[e] <=> epc[e] \in DoorOpen
                  /\ floor[e] \in Floors
                  /\ epc[e] \in Driving => arg_floor[e] = floor[e]
                  /\ epc[e] = "mirror" => floor[e] = arg_floor[e] + elevator_direction[e]
                  /\ epc[e] # "mirror" => elevator_floor[e] = floor[e]
                  /\ epc[e] \in Aimed =>
                       /\ arg_floor[e] = 0 => elevator_direction[e] = 1
                       /\ arg_floor[e] = FLOORS - 1 => elevator_direction[e] = -1
<1>2. Own
  BY DEF DriveInv, DoorMatchesPc, InBuilding, FloorsAgree, DirectionFits
<1>3. Own' /\ DriveIsSafe'
  <2> USE DEF TypeOK, EnforcementTypeOK, EGoto, passengerSide, people, cars, ready, drive, DoorOpen,
              Driving, Aimed, DriveIsSafe
  <2>1. CASE ELoop(e)
    BY <2>1, <1>2 DEF ELoop
  <2>2. CASE EStart(e)
    BY <2>2, <1>2 DEF EStart
  <2>3. CASE EPick(e)
    BY <2>3, <1>2, SizesAssumption DEF EPick, TurnRound, Floors
  <2>4. CASE ESteer(e)
    BY <2>4, <1>2, SizesAssumption DEF ESteer, Floors
  <2>5. CASE EStop(e)
    BY <2>5, <1>2 DEF EStop
  <2>6. CASE EPass(e)
    BY <2>6, <1>2 DEF EPass
  <2>7. CASE ECheck(e, "open_1", "open_2", OpenFaults(e))
    BY <2>7, <1>2 DEF ECheck, OpenFaults, CloseFaults, MoveFaults, CabinFaults, Raise, DriveFaults
  <2>8. CASE ECheck(e, "open_2", "opening", OpenFaults(e))
    BY <2>8, <1>2 DEF ECheck, OpenFaults, CloseFaults, MoveFaults, CabinFaults, Raise, DriveFaults
  <2>9. CASE EDoor(e, "opening", "announce", TRUE)
    BY <2>9, <1>2 DEF EDoor, DoorCommit
  <2>10. CASE EAnnounce(e)
    BY <2>10, <1>2 DEF EAnnounce, BroadcastElevatorSignal
  <2>11. CASE EAwait(e)
    BY <2>11, <1>2 DEF EAwait
  <2>12. CASE ESleep(e)
    BY <2>12, <1>2 DEF ESleep
  <2>13. CASE ERelock(e)
    BY <2>13, <1>2 DEF ERelock
  <2>14. CASE ECheck(e, "close", "closing", CloseFaults(e))
    BY <2>14, <1>2 DEF ECheck, OpenFaults, CloseFaults, MoveFaults, CabinFaults, Raise, DriveFaults
  <2>15. CASE EDoor(e, "closing", "move_1", FALSE)
    BY <2>15, <1>2 DEF EDoor, DoorCommit
  <2>16. CASE ECheck(e, "move_1", "move_2", MoveFaults(e))
    BY <2>16, <1>2 DEF ECheck, OpenFaults, CloseFaults, MoveFaults, CabinFaults, Raise, DriveFaults
  <2>17. CASE ECheck(e, "move_2", "moving", MoveFaults(e))
    BY <2>17, <1>2 DEF ECheck, OpenFaults, CloseFaults, MoveFaults, CabinFaults, Raise, DriveFaults
  <2>18. CASE EMove(e)
    <3>1. /\ floor[e] \in Floors /\ elevator_direction[e] \in {-1, 1}
          /\ floor[e] = 0 => elevator_direction[e] = 1
          /\ floor[e] = FLOORS - 1 => elevator_direction[e] = -1
      BY <2>18, <1>2 DEF EMove
    <3>2. floor[e] + elevator_direction[e] \in Floors
      BY <3>1, NextFloor
    <3>3. /\ floor' = [floor EXCEPT ![e] = floor[e] + elevator_direction[e]]
          /\ epc' = [epc EXCEPT ![e] = "mirror"] /\ epc[e] = "moving"
          /\ UNCHANGED <<open, elevator_floor, elevator_direction, arg_floor, violation>>
      BY <2>18 DEF EMove, MoveCommit
    <3>4. QED
      BY <1>2, <3>1, <3>2, <3>3
  <2>19. CASE EMirror(e)
    BY <2>19, <1>2, SizesAssumption DEF EMirror, Floors
  <2>20. QED
    BY <2>1, <2>2, <2>3, <2>4, <2>5, <2>6, <2>7, <2>8, <2>9, <2>10, <2>11, <2>12, <2>13,
       <2>14, <2>15, <2>16, <2>17, <2>18, <2>19
    DEF EStep
<1>4. QED
  BY <1>1, <1>3
     DEF ElevatorFrame, DriveInv, DoorMatchesPc, InBuilding, FloorsAgree, DirectionFits
-----------------------------------------------------------------------------
(* Passengers as main.c records them. *)

LEMMA RidesInit == Init => StateMatchesPc /\ RidesInOrder
  BY DEF Init, EnforcementInit, StateMatchesPc, RidesInOrder, Before, Aboard

LEMMA RidesElevator ==
  ASSUME TypeOK, StateMatchesPc, RidesInOrder, NEW e \in Elevators, EStep(e)
  PROVE  (StateMatchesPc /\ RidesInOrder)'
<1>1. ElevatorFrame(e)
  BY ElevatorStepFrame
<1>2. StateMatchesPc'
  BY <1>1 DEF ElevatorFrame, StateMatchesPc, Before, Aboard, people
<1>3. RidesInOrder'
  <2> USE DEF passengerSide, RidesInOrder
  <2>1. CASE ELoop(e)
    BY <2>1 DEF ELoop
  <2>2. CASE EStart(e)
    BY <2>2 DEF EStart
  <2>3. CASE EPick(e)
    BY <2>3 DEF EPick, TurnRound
  <2>4. CASE ESteer(e)
    BY <2>4 DEF ESteer
  <2>5. CASE EStop(e)
    BY <2>5 DEF EStop
  <2>6. CASE EPass(e)
    BY <2>6 DEF EPass
  <2>7. CASE ECheck(e, "open_1", "open_2", OpenFaults(e))
    BY <2>7 DEF ECheck, OpenFaults, CloseFaults, MoveFaults, CabinFaults, Raise, RideFaults
  <2>8. CASE ECheck(e, "open_2", "opening", OpenFaults(e))
    BY <2>8 DEF ECheck, OpenFaults, CloseFaults, MoveFaults, CabinFaults, Raise, RideFaults
  <2>9. CASE EDoor(e, "opening", "announce", TRUE)
    BY <2>9 DEF EDoor, DoorCommit
  <2>10. CASE EAnnounce(e)
    BY <2>10 DEF EAnnounce, BroadcastElevatorSignal
  <2>11. CASE EAwait(e)
    BY <2>11 DEF EAwait
  <2>12. CASE ESleep(e)
    BY <2>12 DEF ESleep
  <2>13. CASE ERelock(e)
    BY <2>13 DEF ERelock
  <2>14. CASE ECheck(e, "close", "closing", CloseFaults(e))
    BY <2>14 DEF ECheck, OpenFaults, CloseFaults, MoveFaults, CabinFaults, Raise, RideFaults
  <2>15. CASE EDoor(e, "closing", "move_1", FALSE)
    BY <2>15 DEF EDoor, DoorCommit
  <2>16. CASE ECheck(e, "move_1", "move_2", MoveFaults(e))
    BY <2>16 DEF ECheck, OpenFaults, CloseFaults, MoveFaults, CabinFaults, Raise, RideFaults
  <2>17. CASE ECheck(e, "move_2", "moving", MoveFaults(e))
    BY <2>17 DEF ECheck, OpenFaults, CloseFaults, MoveFaults, CabinFaults, Raise, RideFaults
  <2>18. CASE EMove(e)
    BY <2>18 DEF EMove, MoveCommit
  <2>19. CASE EMirror(e)
    BY <2>19 DEF EMirror
  <2>20. QED
    BY <2>1, <2>2, <2>3, <2>4, <2>5, <2>6, <2>7, <2>8, <2>9, <2>10, <2>11, <2>12, <2>13,
       <2>14, <2>15, <2>16, <2>17, <2>18, <2>19
    DEF EStep
<1>4. QED
  BY <1>2, <1>3

LEMMA RidesPassenger ==
  ASSUME TypeOK, StateMatchesPc, RidesInOrder, NEW p \in Passengers, PStep(p)
  PROVE  (StateMatchesPc /\ RidesInOrder)'
<1> DEFINE e == Assigned(p)
<1> DEFINE Own == /\ ppc[p] \in Before => state[p] = "WAITING"
                  /\ state[p] = "ENTERED" <=> ppc[p] \in Aboard
                  /\ in_elevator[p] = IF ppc[p] \in Aboard THEN e ELSE -1
                  /\ ppc[p] \in Before \cup {"idle", "done"} => at_floor[p] = from_floor[p]
<1>1. PassengerFrame(p)
  BY PassengerStepFrame
<1>2. Own
  BY DEF StateMatchesPc
<1>3. Own' /\ RidesInOrder'
  <2> USE DEF TypeOK, EnforcementTypeOK, PGoto, people, info, cars, Before, Aboard, RidesInOrder
  <2>1. CASE PRequest(p)
    BY <2>1, <1>2 DEF PRequest, TripLeft, NewTrip
  <2>2. CASE PFinish(p)
    BY <2>2, <1>2 DEF PFinish
  <2>3. CASE PPost(p)
    BY <2>3, <1>2 DEF PPost
  <2>4. CASE PRecord(p)
    BY <2>4, <1>2 DEF PRecord
  <2>5. CASE PEnlist(p)
    BY <2>5, <1>2 DEF PEnlist
  <2>6. CASE PStartLoad(p)
    BY <2>6, <1>2 DEF PStartLoad
  <2>7. CASE PStartStore(p)
    BY <2>7, <1>2 DEF PStartStore
  <2>8. CASE PBoard(p)
    <3>1. CASE PLock(p, "lock_in", "check_in")
      BY <3>1, <1>2 DEF PLock
    <3>2. CASE PTest(p, "check_in", MayEnter(p, e), "claim_in", "sleep_in")
      BY <3>2, <1>2 DEF PTest
    <3>3. CASE PUnlock(p, "sleep_in", "wait_in")
      BY <3>3, <1>2 DEF PUnlock
    <3>4. CASE PClaimIn(p)
      BY <3>4, <1>2 DEF PClaimIn, TakeTurn
    <3>5. CASE PCheck(p, "enter_1", "enter_2", EnterFaults(p, e))
      BY <3>5, <1>2 DEF PCheck, EnterFaults, ExitFaults, Raise, RideFaults
    <3>6. CASE PCheck(p, "enter_2", "entering", EnterFaults(p, e))
      BY <3>6, <1>2 DEF PCheck, EnterFaults, ExitFaults, Raise, RideFaults
    <3>7. CASE PEnter(p)
      BY <3>7, <1>2 DEF PEnter, EnterCommit
    <3>8. CASE PCountLoad(p, "load_in", "store_in", 1)
      BY <3>8, <1>2 DEF PCountLoad
    <3>9. CASE PCountStore(p, "store_in", "add_find", 1)
      BY <3>9, <1>2 DEF PCountStore
    <3>10. CASE PAddFind(p)
      BY <3>10, <1>2 DEF PAddFind
    <3>11. CASE PAddLink(p)
      BY <3>11, <1>2 DEF PAddLink
    <3>12. CASE PSignalIn(p)
      BY <3>12, <1>2 DEF PSignalIn, BroadcastPassengerSignal
    <3>13. CASE PUnlock(p, "unlock_in", "lock_out")
      BY <3>13, <1>2 DEF PUnlock
    <3>14. QED
      BY <2>8, <3>1, <3>2, <3>3, <3>4, <3>5, <3>6, <3>7, <3>8, <3>9, <3>10, <3>11,
         <3>12, <3>13
      DEF PBoard
  <2>9. CASE PLeave(p)
    <3>1. CASE PLock(p, "lock_out", "check_out")
      BY <3>1, <1>2 DEF PLock
    <3>2. CASE PTest(p, "check_out", MayExit(p, e), "claim_out", "sleep_out")
      BY <3>2, <1>2 DEF PTest
    <3>3. CASE PUnlock(p, "sleep_out", "wait_out")
      BY <3>3, <1>2 DEF PUnlock
    <3>4. CASE PClaimOut(p)
      BY <3>4, <1>2 DEF PClaimOut, TakeTurn
    <3>5. CASE PCheck(p, "exit_1", "exit_2", ExitFaults(p, e))
      BY <3>5, <1>2 DEF PCheck, EnterFaults, ExitFaults, Raise, RideFaults
    <3>6. CASE PCheck(p, "exit_2", "exiting", ExitFaults(p, e))
      BY <3>6, <1>2 DEF PCheck, EnterFaults, ExitFaults, Raise, RideFaults
    <3>7. CASE PExit(p)
      BY <3>7, <1>2 DEF PExit, ExitCommit
    <3>8. CASE PCountLoad(p, "load_out", "store_out", status[p])
      BY <3>8, <1>2 DEF PCountLoad
    <3>9. CASE PCountStore(p, "store_out", "rm_find", -1)
      BY <3>9, <1>2 DEF PCountStore
    <3>10. CASE PRemoveFind(p)
      <4>1. /\ ppc[p] = "rm_find"
            /\ ppc' = ppc \/ ppc' = [ppc EXCEPT ![p] = "rm_link"]
            /\ violation' = violation \/ violation' = {"not on ride list"}
            /\ UNCHANGED people
        BY <3>10 DEF PRemoveFind
      <4>2. Own'
        BY <4>1, <1>2, ZenonT(40)
      <4>3. QED
        BY <4>1, <4>2 DEF RideFaults
    <3>11. CASE PRemoveLink(p)
      BY <3>11, <1>2 DEF PRemoveLink, Rest
    <3>12. CASE PSignalOut(p)
      BY <3>12, <1>2 DEF PSignalOut
    <3>13. CASE PUnlock(p, "unlock_out", "wake_out")
      BY <3>13, <1>2 DEF PUnlock
    <3>14. CASE PWakeOut(p)
      BY <3>14, <1>2 DEF PWakeOut, BroadcastPassengerSignal
    <3>15. CASE PArrive(p)
      <4>1. /\ ppc[p] = "arrived"
            /\ UNCHANGED <<to_floor, at_floor, in_elevator, state>>
        BY <3>15 DEF PArrive, EndTrip
      <4>2. CASE DeliveryFaults(p) = {}
        <5>1. /\ ppc' = [ppc EXCEPT ![p] = "idle"]
              /\ from_floor' = [from_floor EXCEPT ![p] = to_floor[p]]
              /\ violation' = violation
          BY <3>15, <4>2 DEF PArrive, EndTrip
        <5>2. at_floor[p] = to_floor[p]
          BY <4>2 DEF DeliveryFaults, Raise
        <5>3. QED
          BY <1>2, <4>1, <5>1, <5>2
      <4>3. CASE DeliveryFaults(p) # {}
        <5>1. ppc' = ppc /\ from_floor' = from_floor /\ violation' = DeliveryFaults(p)
          BY <3>15, <4>3 DEF PArrive
        <5>2. QED
          BY <1>2, <4>1, <5>1 DEF DeliveryFaults, Raise, RideFaults
      <4>4. QED
        BY <4>2, <4>3
    <3>16. QED
      BY <2>9, <3>1, <3>2, <3>3, <3>4, <3>5, <3>6, <3>7, <3>8, <3>9, <3>10, <3>11,
         <3>12, <3>13, <3>14, <3>15
      DEF PLeave
  <2>10. QED
    BY <2>1, <2>2, <2>3, <2>4, <2>5, <2>6, <2>7, <2>8, <2>9
    DEF PStep
<1>4. QED
  BY <1>1, <1>3 DEF PassengerFrame, StateMatchesPc
-----------------------------------------------------------------------------
(* The number of passengers in a cabin. *)

LEMMA InsideFinite == \A e : IsFiniteSet(Inside(e)) /\ Cardinality(Inside(e)) \in Nat
<1> SUFFICES ASSUME NEW e PROVE IsFiniteSet(Inside(e)) /\ Cardinality(Inside(e)) \in Nat
  OBVIOUS
<1>1. IsFiniteSet(Passengers)
  BY FS_Interval, SizesAssumption DEF Passengers
<1>2. IsFiniteSet(Inside(e))
  BY <1>1, FS_Subset DEF Inside
<1>3. QED
  BY <1>2, FS_CardinalityType

LEMMA OccupantsInit == Init => OccupantsExact
<1> SUFFICES ASSUME Init, NEW e \in Elevators PROVE occupants[e] = Cardinality(Inside(e))
  BY DEF OccupantsExact
<1>1. Inside(e) = {}
  BY DEF Inside, Init, EnforcementInit, Elevators
<1>2. QED
  BY <1>1, FS_EmptySet DEF Init, EnforcementInit

LEMMA OnlyEnterAndExitCount ==
  ASSUME NEW p, PStep(p)
  PROVE  PEnter(p) \/ PExit(p) \/ UNCHANGED <<occupants, in_elevator>>
  BY DEF PStep, PBoard, PLeave, PRequest, NewTrip, PFinish, PPost, PRecord, PEnlist, PStartLoad,
         PStartStore, PLock, PTest, PUnlock, PClaimIn, PCheck, PCountLoad, PCountStore, PAddFind,
         PAddLink, PSignalIn, PClaimOut, PRemoveFind, PRemoveLink, PSignalOut, PWakeOut, PArrive,
         EndTrip, people, cars

LEMMA OccupantsPassenger ==
  ASSUME TypeOK, StateMatchesPc, OccupantsExact, NEW p \in Passengers, PStep(p)
  PROVE  OccupantsExact'
<1> SUFFICES ASSUME NEW e \in Elevators PROVE occupants'[e] = Cardinality(Inside(e)')
  BY DEF OccupantsExact
<1>0. occupants[e] = Cardinality(Inside(e)) /\ occupants \in [Elevators -> Int]
      /\ in_elevator \in [Passengers -> Elevators \cup {-1}] /\ -1 \notin Elevators
  BY DEF OccupantsExact, TypeOK, EnforcementTypeOK, Elevators
<1>1. CASE UNCHANGED <<occupants, in_elevator>>
  BY <1>0, <1>1 DEF Inside
<1>2. CASE PEnter(p)
  <2>1. /\ in_elevator[p] = -1
        /\ in_elevator' = [in_elevator EXCEPT ![p] = Assigned(p)]
        /\ occupants' = [occupants EXCEPT ![Assigned(p)] = @ + 1]
    BY <1>2 DEF PEnter, EnterCommit, PGoto, StateMatchesPc, Aboard
  <2>2. CASE e = Assigned(p)
    <3>1. Inside(e)' = Inside(e) \cup {p} /\ p \notin Inside(e)
      BY <1>0, <2>1, <2>2 DEF Inside
    <3>2. Cardinality(Inside(e) \cup {p}) = Cardinality(Inside(e)) + 1
      BY <3>1, InsideFinite, FS_AddElement
    <3>3. QED
      BY <1>0, <2>1, <2>2, <3>1, <3>2
  <2>3. CASE e # Assigned(p)
    BY <1>0, <2>1, <2>3 DEF Inside
  <2>4. QED
    BY <2>2, <2>3
<1>3. CASE PExit(p)
  <2>1. /\ in_elevator[p] = Assigned(p)
        /\ in_elevator' = [in_elevator EXCEPT ![p] = -1]
        /\ occupants' = [occupants EXCEPT ![Assigned(p)] = @ - 1]
    BY <1>3 DEF PExit, ExitCommit, PGoto, StateMatchesPc, Aboard
  <2>2. CASE e = Assigned(p)
    <3>1. Inside(e)' = Inside(e) \ {p} /\ p \in Inside(e)
      BY <1>0, <2>1, <2>2 DEF Inside
    <3>2. Cardinality(Inside(e) \ {p}) = Cardinality(Inside(e)) - 1
      BY <3>1, InsideFinite, FS_RemoveElement
    <3>3. QED
      BY <1>0, <2>1, <2>2, <3>1, <3>2
  <2>3. CASE e # Assigned(p)
    <3>1. Inside(e)' = Inside(e)
      BY <1>0, <2>1, <2>3 DEF Inside
    <3>2. QED
      BY <1>0, <2>1, <2>3, <3>1
  <2>4. QED
    BY <2>2, <2>3
<1>4. QED
  BY <1>1, <1>2, <1>3, OnlyEnterAndExitCount

LEMMA OccupantsElevator ==
  ASSUME TypeOK, OccupantsExact, NEW e \in Elevators, EStep(e) PROVE OccupantsExact'
<1>1. UNCHANGED <<occupants, in_elevator>>
  BY ElevatorStepFrame DEF ElevatorFrame, people
<1>2. QED
  BY <1>1 DEF OccupantsExact, Inside
-----------------------------------------------------------------------------
(* The handshake: what one passenger does to its own elevator. *)

LEMMA EnterSection ==
  ASSUME TypeOK, NEW p \in Passengers, PStep(p)
  PROVE  /\ overlapped => overlapped'
         /\ ppc[p] \notin Section /\ ppc'[p] \in Section =>
              overlapped' \/ \A q \in Passengers \ {p} :
                                Assigned(q) = Assigned(p) => ppc[q] \notin Section
<1> DEFINE e == Assigned(p)
<1> USE DEF TypeOK, PGoto, Section
<1>1. CASE PRequest(p)
  BY <1>1 DEF PRequest, TripLeft, NewTrip
<1>2. CASE PFinish(p)
  BY <1>2 DEF PFinish
<1>3. CASE PPost(p)
  BY <1>3 DEF PPost
<1>4. CASE PRecord(p)
  BY <1>4 DEF PRecord
<1>5. CASE PEnlist(p)
  BY <1>5 DEF PEnlist
<1>6. CASE PStartLoad(p)
  BY <1>6 DEF PStartLoad
<1>7. CASE PStartStore(p)
  BY <1>7 DEF PStartStore
<1>8. CASE PBoard(p)
  <2>1. CASE PLock(p, "lock_in", "check_in")
    BY <2>1 DEF PLock
  <2>2. CASE PTest(p, "check_in", MayEnter(p, e), "claim_in", "sleep_in")
    BY <2>2 DEF PTest
  <2>3. CASE PUnlock(p, "sleep_in", "wait_in")
    BY <2>3 DEF PUnlock
  <2>4. CASE PClaimIn(p)
    BY <2>4 DEF PClaimIn, TakeTurn
  <2>5. CASE PCheck(p, "enter_1", "enter_2", EnterFaults(p, e))
    BY <2>5 DEF PCheck
  <2>6. CASE PCheck(p, "enter_2", "entering", EnterFaults(p, e))
    BY <2>6 DEF PCheck
  <2>7. CASE PEnter(p)
    BY <2>7 DEF PEnter, EnterCommit
  <2>8. CASE PCountLoad(p, "load_in", "store_in", 1)
    BY <2>8 DEF PCountLoad
  <2>9. CASE PCountStore(p, "store_in", "add_find", 1)
    BY <2>9 DEF PCountStore
  <2>10. CASE PAddFind(p)
    BY <2>10 DEF PAddFind
  <2>11. CASE PAddLink(p)
    BY <2>11 DEF PAddLink
  <2>12. CASE PSignalIn(p)
    BY <2>12 DEF PSignalIn, BroadcastPassengerSignal
  <2>13. CASE PUnlock(p, "unlock_in", "lock_out")
    BY <2>13 DEF PUnlock
  <2>14. QED
    BY <1>8, <2>1, <2>2, <2>3, <2>4, <2>5, <2>6, <2>7, <2>8, <2>9, <2>10, <2>11, <2>12,
       <2>13
    DEF PBoard
<1>9. CASE PLeave(p)
  <2>1. CASE PLock(p, "lock_out", "check_out")
    BY <2>1 DEF PLock
  <2>2. CASE PTest(p, "check_out", MayExit(p, e), "claim_out", "sleep_out")
    BY <2>2 DEF PTest
  <2>3. CASE PUnlock(p, "sleep_out", "wait_out")
    BY <2>3 DEF PUnlock
  <2>4. CASE PClaimOut(p)
    BY <2>4 DEF PClaimOut, TakeTurn
  <2>5. CASE PCheck(p, "exit_1", "exit_2", ExitFaults(p, e))
    BY <2>5 DEF PCheck
  <2>6. CASE PCheck(p, "exit_2", "exiting", ExitFaults(p, e))
    BY <2>6 DEF PCheck
  <2>7. CASE PExit(p)
    BY <2>7 DEF PExit, ExitCommit
  <2>8. CASE PCountLoad(p, "load_out", "store_out", status[p])
    BY <2>8 DEF PCountLoad
  <2>9. CASE PCountStore(p, "store_out", "rm_find", -1)
    BY <2>9 DEF PCountStore
  <2>10. CASE PRemoveFind(p)
    BY <2>10 DEF PRemoveFind
  <2>11. CASE PRemoveLink(p)
    BY <2>11 DEF PRemoveLink, Rest
  <2>12. CASE PSignalOut(p)
    BY <2>12 DEF PSignalOut
  <2>13. CASE PUnlock(p, "unlock_out", "wake_out")
    BY <2>13 DEF PUnlock
  <2>14. CASE PWakeOut(p)
    BY <2>14 DEF PWakeOut, BroadcastPassengerSignal
  <2>15. CASE PArrive(p)
    BY <2>15 DEF PArrive, EndTrip
  <2>16. QED
    BY <1>9, <2>1, <2>2, <2>3, <2>4, <2>5, <2>6, <2>7, <2>8, <2>9, <2>10, <2>11, <2>12,
       <2>13, <2>14, <2>15
    DEF PLeave
<1>10. QED
  BY <1>1, <1>2, <1>3, <1>4, <1>5, <1>6, <1>7, <1>8, <1>9
     DEF PStep

(* Looking for the cell before the passenger's changes only the passenger's *)
(* own program counter and register, or ends the program. *)
LEMMA RemoveFindEffect ==
  ASSUME TypeOK, NEW p \in Passengers, PRemoveFind(p)
  PROVE  /\ ppc[p] = "rm_find"
         /\ ppc' = ppc \/ ppc' = [ppc EXCEPT ![p] = "rm_link"]
         /\ \A q \in Passengers : q # p => tmp'[q] = tmp[q]
         /\ UNCHANGED <<floor, people, occupants, passenger_count, epc, is_elevator_ready,
                        is_passenger_ready>>
<1>1. /\ ppc[p] = "rm_find"
      /\ UNCHANGED <<floor, people, occupants, passenger_count, epc, is_elevator_ready,
                     is_passenger_ready>>
  BY DEF PRemoveFind, elevatorSide, ready, PGoto
<1>2. CASE p \notin Riders(Assigned(p))
  BY <1>1, <1>2 DEF PRemoveFind
<1>3. CASE p \in Riders(Assigned(p))
  <2>1. ppc' = [ppc EXCEPT ![p] = "rm_link"]
    BY <1>3 DEF PRemoveFind, PGoto
  <2>2. PICK c : tmp' = [tmp EXCEPT ![p] = c]
    BY <1>3 DEF PRemoveFind
  <2>3. QED
    BY <1>1, <2>1, <2>2 DEF TypeOK
<1>4. QED
  BY <1>2, <1>3

LEMMA HandshakeOwn ==
  ASSUME SafetyInv, NEW p \in Passengers, PStep(p), ~overlapped, ~overlapped'
  PROVE  Token(Assigned(p))' /\ RightFloor(Assigned(p))' /\ Counts(Assigned(p))'
<1> DEFINE e == Assigned(p)
<1>1. e \in Elevators
  BY AssignedType
<1>2. Token(e) /\ RightFloor(e) /\ Counts(e)
  BY <1>1 DEF SafetyInv, HandshakeInv
<1>3. ppc[p] \in Section =>
        \A q \in Passengers : Assigned(q) = e => q = p \/ ppc[q] \notin Section
  BY DEF SafetyInv, HandshakeInv, Exclusive
<1>4. epc[e] # "mirror" => elevator_floor[e] = floor[e]
  BY <1>1 DEF SafetyInv, DriveInv, FloorsAgree
<1>5. /\ TypeOK /\ SEATS \in Int
  BY SchedulerAssumption DEF SafetyInv
<1> USE DEF TypeOK, EnforcementTypeOK, PGoto, elevatorSide, people, cars, ready, drive, Token,
            RightFloor, Counts, AtDoor, Claiming, Boarding, Alighting, Working, Section
<1>6. CASE PRequest(p)
  BY <1>6, <1>1, <1>2, <1>3, <1>4, <1>5 DEF PRequest, TripLeft, NewTrip
<1>7. CASE PFinish(p)
  BY <1>7, <1>1, <1>2, <1>3, <1>4, <1>5 DEF PFinish
<1>8. CASE PPost(p)
  BY <1>8, <1>1, <1>2, <1>3, <1>4, <1>5 DEF PPost
<1>9. CASE PRecord(p)
  BY <1>9, <1>1, <1>2, <1>3, <1>4, <1>5 DEF PRecord
<1>10. CASE PEnlist(p)
  BY <1>10, <1>1, <1>2, <1>3, <1>4, <1>5 DEF PEnlist
<1>11. CASE PStartLoad(p)
  BY <1>11, <1>1, <1>2, <1>3, <1>4, <1>5 DEF PStartLoad
<1>12. CASE PStartStore(p)
  BY <1>12, <1>1, <1>2, <1>3, <1>4, <1>5 DEF PStartStore
<1>13. CASE PBoard(p)
  <2>1. CASE PLock(p, "lock_in", "check_in")
    BY <2>1, <1>1, <1>2, <1>3, <1>4, <1>5 DEF PLock
  <2>2. CASE PTest(p, "check_in", MayEnter(p, e), "claim_in", "sleep_in")
    BY <2>2, <1>1, <1>2, <1>3, <1>4, <1>5 DEF PTest, MayEnter, MayExit
  <2>3. CASE PUnlock(p, "sleep_in", "wait_in")
    BY <2>3, <1>1, <1>2, <1>3, <1>4, <1>5 DEF PUnlock
  <2>4. CASE PClaimIn(p)
    BY <2>4, <1>1, <1>2, <1>3, <1>4, <1>5 DEF PClaimIn, TakeTurn
  <2>5. CASE PCheck(p, "enter_1", "enter_2", EnterFaults(p, e))
    BY <2>5, <1>1, <1>2, <1>3, <1>4, <1>5 DEF PCheck
  <2>6. CASE PCheck(p, "enter_2", "entering", EnterFaults(p, e))
    BY <2>6, <1>1, <1>2, <1>3, <1>4, <1>5 DEF PCheck
  <2>7. CASE PEnter(p)
    BY <2>7, <1>1, <1>2, <1>3, <1>4, <1>5 DEF PEnter, EnterCommit
  <2>8. CASE PCountLoad(p, "load_in", "store_in", 1)
    BY <2>8, <1>1, <1>2, <1>3, <1>4, <1>5 DEF PCountLoad
  <2>9. CASE PCountStore(p, "store_in", "add_find", 1)
    BY <2>9, <1>1, <1>2, <1>3, <1>4, <1>5 DEF PCountStore
  <2>10. CASE PAddFind(p)
    BY <2>10, <1>1, <1>2, <1>3, <1>4, <1>5 DEF PAddFind
  <2>11. CASE PAddLink(p)
    BY <2>11, <1>1, <1>2, <1>3, <1>4, <1>5 DEF PAddLink
  <2>12. CASE PSignalIn(p)
    BY <2>12, <1>1, <1>2, <1>3, <1>4, <1>5 DEF PSignalIn, BroadcastPassengerSignal
  <2>13. CASE PUnlock(p, "unlock_in", "lock_out")
    BY <2>13, <1>1, <1>2, <1>3, <1>4, <1>5 DEF PUnlock
  <2>14. QED
    BY <1>13, <2>1, <2>2, <2>3, <2>4, <2>5, <2>6, <2>7, <2>8, <2>9, <2>10, <2>11, <2>12,
       <2>13
    DEF PBoard
<1>14. CASE PLeave(p)
  <2>1. CASE PLock(p, "lock_out", "check_out")
    BY <2>1, <1>1, <1>2, <1>3, <1>4, <1>5 DEF PLock
  <2>2. CASE PTest(p, "check_out", MayExit(p, e), "claim_out", "sleep_out")
    BY <2>2, <1>1, <1>2, <1>3, <1>4, <1>5 DEF PTest, MayEnter, MayExit
  <2>3. CASE PUnlock(p, "sleep_out", "wait_out")
    BY <2>3, <1>1, <1>2, <1>3, <1>4, <1>5 DEF PUnlock
  <2>4. CASE PClaimOut(p)
    BY <2>4, <1>1, <1>2, <1>3, <1>4, <1>5 DEF PClaimOut, TakeTurn
  <2>5. CASE PCheck(p, "exit_1", "exit_2", ExitFaults(p, e))
    BY <2>5, <1>1, <1>2, <1>3, <1>4, <1>5 DEF PCheck
  <2>6. CASE PCheck(p, "exit_2", "exiting", ExitFaults(p, e))
    BY <2>6, <1>1, <1>2, <1>3, <1>4, <1>5 DEF PCheck
  <2>7. CASE PExit(p)
    BY <2>7, <1>1, <1>2, <1>3, <1>4, <1>5 DEF PExit, ExitCommit
  <2>8. CASE PCountLoad(p, "load_out", "store_out", status[p])
    BY <2>8, <1>1, <1>2, <1>3, <1>4, <1>5 DEF PCountLoad
  <2>9. CASE PCountStore(p, "store_out", "rm_find", -1)
    BY <2>9, <1>1, <1>2, <1>3, <1>4, <1>5 DEF PCountStore
  <2>10. CASE PRemoveFind(p)
    <3>1. /\ ppc[p] = "rm_find"
          /\ \A q \in Passengers : q # p => tmp'[q] = tmp[q]
          /\ UNCHANGED <<floor, occupants, from_floor, to_floor, at_floor, passenger_count, epc,
                         is_elevator_ready, is_passenger_ready>>
      BY <2>10, <1>5, RemoveFindEffect DEF people
    <3>2. CASE ppc' = ppc
      BY <3>1, <3>2, <1>1, <1>2
    <3>3. CASE ppc' = [ppc EXCEPT ![p] = "rm_link"]
      BY <3>1, <3>3, <1>1, <1>2
    <3>4. QED
      BY <2>10, <1>5, <3>2, <3>3, RemoveFindEffect
  <2>11. CASE PRemoveLink(p)
    BY <2>11, <1>1, <1>2, <1>3, <1>4, <1>5 DEF PRemoveLink, Rest
  <2>12. CASE PSignalOut(p)
    BY <2>12, <1>1, <1>2, <1>3, <1>4, <1>5 DEF PSignalOut
  <2>13. CASE PUnlock(p, "unlock_out", "wake_out")
    BY <2>13, <1>1, <1>2, <1>3, <1>4, <1>5 DEF PUnlock
  <2>14. CASE PWakeOut(p)
    BY <2>14, <1>1, <1>2, <1>3, <1>4, <1>5 DEF PWakeOut, BroadcastPassengerSignal
  <2>15. CASE PArrive(p)
    BY <2>15, <1>1, <1>2, <1>3, <1>4, <1>5 DEF PArrive, EndTrip
  <2>16. QED
    BY <1>14, <2>1, <2>2, <2>3, <2>4, <2>5, <2>6, <2>7, <2>8, <2>9, <2>10, <2>11, <2>12,
       <2>13, <2>14, <2>15
    DEF PLeave
<1>15. QED
  BY <1>6, <1>7, <1>8, <1>9, <1>10, <1>11, <1>12, <1>13, <1>14
     DEF PStep

LEMMA HandshakePassenger ==
  ASSUME SafetyInv, NEW p \in Passengers, PStep(p) PROVE HandshakeInv'
<1> SUFFICES ASSUME ~overlapped'
             PROVE  Exclusive' /\ \A e \in Elevators : (Token(e) /\ RightFloor(e) /\ Counts(e))'
  BY DEF HandshakeInv
<1>1. TypeOK /\ PassengerFrame(p) /\ Assigned(p) \in Elevators
  BY PassengerStepFrame, AssignedType DEF SafetyInv
<1>2. ~overlapped /\ (ppc[p] \notin Section /\ ppc'[p] \in Section =>
         \A q \in Passengers \ {p} : Assigned(q) = Assigned(p) => ppc[q] \notin Section)
  BY <1>1, EnterSection
<1>3. Exclusive /\ \A e \in Elevators : Token(e) /\ RightFloor(e) /\ Counts(e)
  BY <1>2 DEF SafetyInv, HandshakeInv
<1>4. Exclusive'
  BY <1>1, <1>2, <1>3 DEF Exclusive, PassengerFrame, Assigned
<1>5. ASSUME NEW e \in Elevators, e # Assigned(p)
      PROVE  (Token(e) /\ RightFloor(e) /\ Counts(e))'
  <2>1. /\ floor'[e] = floor[e] /\ occupants'[e] = occupants[e]
        /\ passenger_count'[e] = passenger_count[e]
        /\ is_elevator_ready'[e] = is_elevator_ready[e]
        /\ is_passenger_ready'[e] = is_passenger_ready[e]
        /\ epc[e] \in AtDoor => epc'[e] \in AtDoor
    BY <1>1, <1>5 DEF PassengerFrame, AtDoor
  <2>2. \A q \in Passengers : Assigned(q) = e =>
          /\ ppc'[q] = ppc[q] /\ tmp'[q] = tmp[q] /\ from_floor'[q] = from_floor[q]
          /\ to_floor'[q] = to_floor[q] /\ at_floor'[q] = at_floor[q]
    BY <1>1, <1>5 DEF PassengerFrame
  <2>3. Token(e)'
    BY <1>3, <2>1, <2>2 DEF Token, Assigned
  <2>4. RightFloor(e)'
    BY <1>3, <2>1, <2>2 DEF RightFloor, Assigned
  <2>5. Counts(e)'
    BY <1>3, <2>1, <2>2 DEF Counts, Assigned
  <2>6. QED
    BY <2>3, <2>4, <2>5
<1>6. Token(Assigned(p))' /\ RightFloor(Assigned(p))' /\ Counts(Assigned(p))'
  BY <1>2, HandshakeOwn
<1>7. QED
  BY <1>4, <1>5, <1>6 DEF Assigned
-----------------------------------------------------------------------------
(* The handshake: what an elevator does. *)

LEMMA HandshakeElevator ==
  ASSUME SafetyInv, NEW e \in Elevators, EStep(e) PROVE HandshakeInv'
<1>1. TypeOK /\ ElevatorFrame(e)
  BY ElevatorStepFrame DEF SafetyInv
<1> SUFFICES ASSUME ~overlapped'
             PROVE  Exclusive' /\ \A f \in Elevators : (Token(f) /\ RightFloor(f) /\ Counts(f))'
  BY DEF HandshakeInv
<1>2. Exclusive /\ \A f \in Elevators : Token(f) /\ RightFloor(f) /\ Counts(f)
  BY <1>1 DEF ElevatorFrame, SafetyInv, HandshakeInv
<1>3. \A p \in Passengers : ppc'[p] \in Section \cup {"wake_out", "arrived"} => ppc'[p] = ppc[p]
  BY <1>1 DEF ElevatorFrame, Section
<1>4. Exclusive'
  BY <1>2, <1>3 DEF Exclusive, Assigned
<1>5. \A f \in Elevators : Counts(f)'
  <2>1. \A p \in Passengers : ppc'[p] = ppc[p] \/ (/\ ppc[p] \notin Section
                                                    /\ ppc'[p] \notin Section)
    BY <1>1 DEF ElevatorFrame, Section
  <2>2. QED
    BY <1>1, <1>2, <2>1 DEF Counts, ElevatorFrame, Section, Assigned
<1>6. ASSUME NEW f \in Elevators, f # e PROVE (Token(f) /\ RightFloor(f))'
  <2>1. /\ floor'[f] = floor[f] /\ passenger_count'[f] = passenger_count[f]
        /\ is_elevator_ready'[f] = is_elevator_ready[f]
        /\ is_passenger_ready'[f] = is_passenger_ready[f] /\ epc'[f] = epc[f]
    BY <1>1, <1>6 DEF ElevatorFrame
  <2>2. Token(f)'
    BY <1>2, <1>3, <2>1 DEF Token, Claiming, Working, Boarding, Alighting, Section, Assigned
  <2>3. RightFloor(f)'
    BY <1>1, <1>2, <1>3, <2>1 DEF RightFloor, ElevatorFrame, people, Section, Assigned
  <2>4. QED
    BY <2>2, <2>3
<1>7. Token(e)'
  <2>1. \A p \in Passengers : ppc'[p] \in Claiming \cup Working => ppc'[p] = ppc[p]
    BY <1>3 DEF Claiming, Working, Boarding, Alighting, Section
  <2>2. Token(e)
    BY <1>2
  <2>3. TypeOK
    BY <1>1
  <2> USE DEF Token, AtDoor, TypeOK, EGoto, ready, passengerSide, Assigned
  <2>4. CASE ELoop(e)
    BY <2>4, <2>1, <2>2, <2>3 DEF ELoop
  <2>5. CASE EStart(e)
    BY <2>5, <2>1, <2>2, <2>3 DEF EStart
  <2>6. CASE EPick(e)
    BY <2>6, <2>1, <2>2, <2>3 DEF EPick, TurnRound
  <2>7. CASE ESteer(e)
    BY <2>7, <2>1, <2>2, <2>3 DEF ESteer
  <2>8. CASE EStop(e)
    BY <2>8, <2>1, <2>2, <2>3 DEF EStop
  <2>9. CASE EPass(e)
    BY <2>9, <2>1, <2>2, <2>3 DEF EPass
  <2>10. CASE ECheck(e, "open_1", "open_2", OpenFaults(e))
    BY <2>10, <2>1, <2>2, <2>3 DEF ECheck
  <2>11. CASE ECheck(e, "open_2", "opening", OpenFaults(e))
    BY <2>11, <2>1, <2>2, <2>3 DEF ECheck
  <2>12. CASE EDoor(e, "opening", "announce", TRUE)
    BY <2>12, <2>1, <2>2, <2>3 DEF EDoor, DoorCommit
  <2>13. CASE EAnnounce(e)
    BY <2>13, <2>1, <2>2, <2>3 DEF EAnnounce, BroadcastElevatorSignal
  <2>14. CASE EAwait(e)
    BY <2>14, <2>1, <2>2, <2>3 DEF EAwait
  <2>15. CASE ESleep(e)
    BY <2>15, <2>1, <2>2, <2>3 DEF ESleep
  <2>16. CASE ERelock(e)
    BY <2>16, <2>1, <2>2, <2>3 DEF ERelock
  <2>17. CASE ECheck(e, "close", "closing", CloseFaults(e))
    BY <2>17, <2>1, <2>2, <2>3 DEF ECheck
  <2>18. CASE EDoor(e, "closing", "move_1", FALSE)
    BY <2>18, <2>1, <2>2, <2>3 DEF EDoor, DoorCommit
  <2>19. CASE ECheck(e, "move_1", "move_2", MoveFaults(e))
    BY <2>19, <2>1, <2>2, <2>3 DEF ECheck
  <2>20. CASE ECheck(e, "move_2", "moving", MoveFaults(e))
    BY <2>20, <2>1, <2>2, <2>3 DEF ECheck
  <2>21. CASE EMove(e)
    BY <2>21, <2>1, <2>2, <2>3 DEF EMove, MoveCommit
  <2>22. CASE EMirror(e)
    BY <2>22, <2>1, <2>2, <2>3 DEF EMirror
  <2>23. QED
    BY <2>4, <2>5, <2>6, <2>7, <2>8, <2>9, <2>10, <2>11, <2>12, <2>13, <2>14, <2>15, <2>16,
       <2>17, <2>18, <2>19, <2>20, <2>21, <2>22
    DEF EStep
<1>8. RightFloor(e)'
  <2>1. /\ UNCHANGED <<from_floor, to_floor, at_floor, passenger_count>>
        /\ floor'[e] = floor[e] \/ epc[e] \notin AtDoor
    BY <1>1
    DEF EStep, ELoop, EStart, EPick, ESteer, EStop, EPass, ECheck, EDoor, DoorCommit, EAnnounce,
        EAwait, ESleep, ERelock, EMove, MoveCommit, EMirror, EGoto, AtDoor, ElevatorFrame, people
  <2>2. CASE floor'[e] = floor[e]
    BY <1>2, <1>3, <2>1, <2>2 DEF RightFloor, Section, Assigned
  <2>3. CASE epc[e] \notin AtDoor
    <3>1. \A p \in Passengers : Assigned(p) = e => ppc[p] \notin Claiming \cup Working
      BY <1>2, <2>3 DEF Token
    <3>2. QED
      BY <1>2, <1>3, <2>1, <3>1
      DEF RightFloor, Section, Assigned, Claiming, Working, Boarding, Alighting
  <2>4. QED
    BY <2>1, <2>2, <2>3
<1>9. QED
  BY <1>4, <1>5, <1>6, <1>7, <1>8
-----------------------------------------------------------------------------
(* main.c's checks. *)

LEMMA ViolationPassenger ==
  ASSUME NEW p \in Passengers, PStep(p)
  PROVE  \/ violation' \in {violation, {"not on ride list"}}
         \/ ppc[p] \in {"enter_1", "enter_2"} /\ violation' = EnterFaults(p, Assigned(p))
         \/ ppc[p] \in {"exit_1", "exit_2"} /\ violation' = ExitFaults(p, Assigned(p))
         \/ ppc[p] = "arrived" /\ violation' = DeliveryFaults(p)
  BY DEF PStep, PBoard, PLeave, PRequest, NewTrip, PFinish, PPost, PRecord, PEnlist, PStartLoad,
         PStartStore, PLock, PTest, PUnlock, PClaimIn, PCheck, PEnter, EnterCommit, PCountLoad,
         PCountStore, PAddFind, PAddLink, PSignalIn, PClaimOut, PExit, ExitCommit, PRemoveFind,
         PRemoveLink, PSignalOut, PWakeOut, PArrive, EndTrip

LEMMA ChecksPassenger ==
  ASSUME SafetyInv, violation = {}, NEW p \in Passengers, PStep(p)
  PROVE  ChecksFailOnlyAfterOverlap'
<1> DEFINE e == Assigned(p)
<1> SUFFICES ASSUME ~overlapped' PROVE violation' \ {"not on ride list"} = {}
  BY DEF ChecksFailOnlyAfterOverlap
<1>1. TypeOK /\ StateMatchesPc /\ DoorMatchesPc /\ e \in Elevators
  BY AssignedType DEF SafetyInv, DriveInv
<1>2. Exclusive /\ Token(e) /\ RightFloor(e) /\ Counts(e)
  BY <1>1, EnterSection DEF SafetyInv, HandshakeInv
<1>3. SEATS <= MAX_CAPACITY /\ SEATS \in Int /\ MAX_CAPACITY \in Int
      /\ occupants[e] \in Int /\ passenger_count[e] \in Int
  BY <1>1, SizesAssumption, SchedulerAssumption DEF TypeOK, EnforcementTypeOK
<1>4. ppc[p] \in {"enter_1", "enter_2", "exit_1", "exit_2"} => open[e]
  BY <1>1, <1>2 DEF Token, Working, Boarding, Alighting, DoorMatchesPc, AtDoor, DoorOpen
<1>5. ASSUME ppc[p] \in {"enter_1", "enter_2"} PROVE EnterFaults(p, e) = {}
  <2>1. from_floor[p] = floor[e] /\ passenger_count[e] < SEATS
    BY <1>2, <1>5 DEF RightFloor
  <2>2. occupants[e] = passenger_count[e]
    BY <1>2, <1>5 DEF Counts, Exclusive, Section
  <2>3. state[p] = "WAITING"
    BY <1>1, <1>5 DEF StateMatchesPc, Before
  <2>4. occupants[e] # MAX_CAPACITY
    BY <1>3, <2>1, <2>2
  <2>5. QED
    BY <1>4, <1>5, <2>1, <2>3, <2>4 DEF EnterFaults, Raise
<1>6. ASSUME ppc[p] \in {"exit_1", "exit_2"} PROVE ExitFaults(p, e) = {}
  <2>1. to_floor[p] = floor[e]
    BY <1>2, <1>6 DEF RightFloor
  <2>2. in_elevator[p] = e /\ state[p] = "ENTERED"
    BY <1>1, <1>6 DEF StateMatchesPc, Aboard
  <2>3. QED
    BY <1>4, <1>6, <2>1, <2>2 DEF ExitFaults, Raise
<1>7. ASSUME ppc[p] = "arrived" PROVE DeliveryFaults(p) = {}
  BY <1>2, <1>7 DEF RightFloor, DeliveryFaults, Raise
<1>8. QED
  BY <1>5, <1>6, <1>7, ViolationPassenger

LEMMA ViolationElevator ==
  ASSUME NEW e \in Elevators, EStep(e)
  PROVE  \/ violation' = violation
         \/ epc[e] \in {"open_1", "open_2"} /\ violation' = OpenFaults(e)
         \/ epc[e] = "close" /\ violation' = CloseFaults(e)
         \/ epc[e] \in {"move_1", "move_2"} /\ violation' = MoveFaults(e)
  BY DEF EStep, ELoop, EStart, EPick, ESteer, EStop, EPass, ECheck, EDoor, DoorCommit, EAnnounce,
         EAwait, ESleep, ERelock, EMove, MoveCommit, EMirror

LEMMA ChecksElevator ==
  ASSUME SafetyInv, violation = {}, NEW e \in Elevators, EStep(e)
  PROVE  ChecksFailOnlyAfterOverlap'
<1> SUFFICES ASSUME ~overlapped' PROVE violation' = {}
  BY DEF ChecksFailOnlyAfterOverlap
<1>1. ~overlapped /\ TypeOK /\ DriveInv
  BY ElevatorStepFrame DEF ElevatorFrame, SafetyInv
<1>2. CabinFaults(e) = {}
  <2>1. occupants[e] <= SEATS
    BY <1>1 DEF SafetyInv, HandshakeInv, Counts
  <2>2. occupants[e] >= 0 /\ occupants[e] \in Int
    <3>1. occupants[e] \in Nat
      BY InsideFinite DEF SafetyInv, OccupantsExact
    <3>2. QED
      BY <3>1
  <2>3. SEATS <= MAX_CAPACITY /\ SEATS \in Int /\ MAX_CAPACITY \in Int
    BY SizesAssumption, SchedulerAssumption
  <2>4. ~(occupants[e] > MAX_CAPACITY \/ occupants[e] < 0)
    BY <2>1, <2>2, <2>3
  <2>5. QED
    BY <2>4 DEF CabinFaults, Raise
<1>3. epc[e] \in {"open_1", "open_2"} => OpenFaults(e) = {}
  BY <1>1, <1>2 DEF OpenFaults, Raise, DriveInv, DoorMatchesPc, DoorOpen
<1>4. epc[e] = "close" => CloseFaults(e) = {}
  BY <1>1, <1>2 DEF CloseFaults, Raise, DriveInv, DoorMatchesPc, DoorOpen
<1>5. epc[e] \in {"move_1", "move_2"} => MoveFaults(e) = {}
  BY <1>1, <1>2 DEF MoveFaults, Raise, DriveInv, DoorMatchesPc, DoorOpen, InBuilding
<1>6. QED
  BY <1>3, <1>4, <1>5, ViolationElevator
-----------------------------------------------------------------------------
(* The theorems. *)

LEMMA SafetyInit == Init => SafetyInv
<1> SUFFICES ASSUME Init PROVE SafetyInv
  OBVIOUS
<1>1. TypeOK /\ DriveInv /\ StateMatchesPc /\ RidesInOrder /\ OccupantsExact
  BY TypeInit, DriveInit, RidesInit, OccupantsInit
<1>2. HandshakeInv
  BY SchedulerAssumption
     DEF Init, EnforcementInit, HandshakeInv, Exclusive, Token, RightFloor, Counts, Claiming,
      Working, Boarding, Alighting, Section
<1>3. ChecksFailOnlyAfterOverlap
  BY DEF Init, EnforcementInit, ChecksFailOnlyAfterOverlap
<1>4. QED
  BY <1>1, <1>2, <1>3 DEF SafetyInv

LEMMA SafetyIdle ==
  ASSUME SafetyInv, [Next]_vars, MainStop \/ SpuriousWakeup \/ UNCHANGED vars
  PROVE  SafetyInv'
<1>1. /\ UNCHANGED <<cars, people, violation, drive, ready, passenger_count, tmp, overlapped>>
      /\ \A p \in Passengers : \/ ppc'[p] = ppc[p]
                               \/ ppc[p] = "wait_in" /\ ppc'[p] = "lock_in"
                               \/ ppc[p] = "wait_out" /\ ppc'[p] = "lock_out"
      /\ \A e \in Elevators : \/ epc'[e] = epc[e]
                              \/ epc[e] = "wait" /\ epc'[e] = "relock"
  <2> USE DEF passengerSide, elevatorSide, cars, people, drive, ready
  <2>1. CASE MainStop \/ UNCHANGED vars
    BY <2>1 DEF MainStop, vars
  <2>2. ASSUME NEW q \in Passengers, PSpuriousWakeup(q)
        PROVE  /\ UNCHANGED <<cars, people, violation, drive, ready, passenger_count, tmp, overlapped>>
               /\ epc' = epc
               /\ \A p \in Passengers : \/ ppc'[p] = ppc[p]
                                        \/ ppc[p] = "wait_in" /\ ppc'[p] = "lock_in"
                                        \/ ppc[p] = "wait_out" /\ ppc'[p] = "lock_out"
    BY <2>2 DEF PSpuriousWakeup, PGoto, SafetyInv, TypeOK
  <2>3. ASSUME NEW f \in Elevators, ESpuriousWakeup(f)
        PROVE  /\ UNCHANGED <<cars, people, violation, drive, ready, passenger_count, tmp, overlapped>>
               /\ ppc' = ppc
               /\ \A e \in Elevators : \/ epc'[e] = epc[e]
                                       \/ epc[e] = "wait" /\ epc'[e] = "relock"
    BY <2>3 DEF ESpuriousWakeup, EGoto, SafetyInv, TypeOK
  <2>4. QED
    BY <2>1, <2>2, <2>3 DEF SpuriousWakeup
<1>2. TypeOK'
  BY TypeNext DEF SafetyInv
<1>3. DriveInv'
  BY <1>1 DEF SafetyInv, DriveInv, DoorMatchesPc, InBuilding, FloorsAgree, DirectionFits,
              DriveIsSafe, DoorOpen, Driving, Aimed, cars, drive
<1>4. (StateMatchesPc /\ RidesInOrder /\ OccupantsExact /\ ChecksFailOnlyAfterOverlap)'
  <2>1. StateMatchesPc'
    BY <1>1 DEF SafetyInv, StateMatchesPc, Before, Aboard, people, Assigned
  <2>2. OccupantsExact'
    BY <1>1 DEF SafetyInv, OccupantsExact, Inside, cars, people
  <2>3. (RidesInOrder /\ ChecksFailOnlyAfterOverlap)'
    BY <1>1 DEF SafetyInv, RidesInOrder, ChecksFailOnlyAfterOverlap
  <2>4. QED
    BY <2>1, <2>2, <2>3
<1>5. HandshakeInv'
  BY <1>1 DEF SafetyInv, HandshakeInv, Exclusive, Token, RightFloor, Counts, Claiming, Working,
              Boarding, Alighting, Section, AtDoor, cars, people, ready, Assigned
<1>6. QED
  BY <1>2, <1>3, <1>4, <1>5 DEF SafetyInv

LEMMA SafetyNext == SafetyInv /\ [Next]_vars => SafetyInv'
<1> SUFFICES ASSUME SafetyInv, [Next]_vars PROVE SafetyInv'
  OBVIOUS
<1> USE DEF SafetyInv
<1>1. ASSUME violation = {}, NEW p \in Passengers, PStep(p) PROVE SafetyInv'
  BY <1>1, TypePassenger, DrivePassenger, RidesPassenger, OccupantsPassenger,
     HandshakePassenger, ChecksPassenger
<1>2. ASSUME violation = {}, NEW e \in Elevators, EStep(e) PROVE SafetyInv'
  BY <1>2, TypeElevator, DriveElevator, RidesElevator, OccupantsElevator, HandshakeElevator,
     ChecksElevator
<1>3. CASE MainStop \/ SpuriousWakeup \/ UNCHANGED vars
  BY <1>3, SafetyIdle
<1>4. QED
  BY <1>1, <1>2, <1>3 DEF Next

LEMMA SafetyHolds == Spec => []SafetyInv
  BY SafetyInit, SafetyNext, PTL DEF Spec

(* Until critical sections overlap, no check of main.c ends the program. *)
THEOREM ChecksHoldUntilOverlap == Spec => []ChecksFailOnlyAfterOverlap
<1>1. SafetyInv => ChecksFailOnlyAfterOverlap
  BY DEF SafetyInv
<1>2. QED
  BY <1>1, SafetyHolds, PTL

(* Until critical sections overlap, the handshake of elevator and          *)
(* passenger, and hw7.c's passenger counts, are as intended. *)
THEOREM HandshakeHolds == Spec => []HandshakeInv
<1>1. SafetyInv => HandshakeInv
  BY DEF SafetyInv
<1>2. QED
  BY <1>1, SafetyHolds, PTL

(* Whatever the passengers' interleaving, doors and cabins move as they    *)
(* should and nobody leaves a cabin they are not in. *)
THEOREM CallOrderHolds == Spec => []CallOrderIsSafe
<1>1. SafetyInv => CallOrderIsSafe
  BY DEF SafetyInv, DriveInv, CallOrderIsSafe
<1>2. QED
  BY <1>1, SafetyHolds, PTL

(* main.c's count of an elevator is the number of passengers inside. *)
THEOREM OccupantsHold == Spec => []OccupantsExact
<1>1. SafetyInv => OccupantsExact
  BY DEF SafetyInv
<1>2. QED
  BY <1>1, SafetyHolds, PTL

(* Doors open and close, and cabins move, in step with the elevator's      *)
(* thread and within the building, whatever the passengers do. *)
THEOREM DriveHolds == Spec => []DriveInv
<1>1. SafetyInv => DriveInv
  BY DEF SafetyInv
<1>2. QED
  BY <1>1, SafetyHolds, PTL
=============================================================================
