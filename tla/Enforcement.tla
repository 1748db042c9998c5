---------------------------- MODULE Enforcement ----------------------------
(***************************************************************************)
(* The enforcement system of hw7 (hw7-jli230-main/C/main.c): the floors,   *)
(* doors and passengers as the driver program records them, and the        *)
(* callbacks door_open, door_close, move_direction, enter and exit through *)
(* which the scheduler of hw7.c changes them.                              *)
(*                                                                         *)
(* Every callback first checks, under state_lock, that the call is legal   *)
(* and ends the whole program with exit(1) when it is not; most of them    *)
(* check twice with a usleep in between and then take state_lock once more *)
(* to commit.  Each critical section of state_lock is one operator here,   *)
(* so a check and the commit it guards are separate steps.                 *)
(***************************************************************************)
EXTENDS Integers, FiniteSets

CONSTANTS
  ELEVATORS,      (* elevator.h:11, number of elevator threads             *)
  FLOORS,         (* elevator.h:15, number of floors                       *)
  PASSENGERS,     (* elevator.h:19, number of passenger threads            *)
  MAX_CAPACITY    (* elevator.h:7, passengers an elevator may hold         *)

ASSUME SizesAssumption ==
  /\ ELEVATORS \in Nat \ {0}
  /\ FLOORS \in Nat \ {0, 1}
  /\ PASSENGERS \in Nat \ {0}
  /\ MAX_CAPACITY \in Nat \ {0}

Elevators  == 0 .. ELEVATORS - 1
Floors     == 0 .. FLOORS - 1
Passengers == 0 .. PASSENGERS - 1

VARIABLES
  floor, open, occupants,     (* static struct Elevator elevators[]        *)
  from_floor, to_floor,       (* static struct Passenger passengers[]      *)
  at_floor, in_elevator, state,
  violation                   (* the checks that failed just before exit(1);
                                 the program prints the first of them      *)

cars   == <<floor, open, occupants>>
people == <<from_floor, to_floor, at_floor, in_elevator, state>>

Raise(kind, failed) == IF failed THEN {kind} ELSE {}

(* The reasons for an exit(1): those that an elevator thread or a          *)
(* passenger thread can only bring about by the order of its own calls,    *)
(* and those that take several threads. *)
DriveFaults == {"opened twice", "closed twice", "moved while open", "left the building"}
RideFaults  == {"enter while not waiting", "exit wrong elevator", "exit while not riding"}
Violations ==
  DriveFaults \cup RideFaults \cup
  {"cabin count", "enter on wrong floor", "enter through closed door",
   "enter full cabin", "exit on wrong floor", "exit through closed door",
   "delivered to wrong floor", "not on ride list"}

EnforcementInit ==
  /\ floor = [e \in Elevators |-> 0]
  /\ open = [e \in Elevators |-> FALSE]
  /\ occupants = [e \in Elevators |-> 0]
  /\ from_floor \in [Passengers -> Floors]
  /\ to_floor = [p \in Passengers |-> 0]
  /\ at_floor = from_floor
  /\ in_elevator = [p \in Passengers |-> -1]
  /\ state = [p \in Passengers |-> "WAITING"]
  /\ violation = {}
-----------------------------------------------------------------------------
(* The checks: the set of conditions that do not hold.  The test that the  *)
(* calling thread is the one the argument names is left out: hw7.c hands   *)
(* its own thread's number through unchanged.                              *)

CabinFaults(e) ==
  Raise("cabin count", occupants[e] > MAX_CAPACITY \/ occupants[e] < 0)

MoveFaults(e) ==
  CabinFaults(e) \cup Raise("moved while open", open[e])
                 \cup Raise("left the building", floor[e] \notin Floors)

OpenFaults(e)  == CabinFaults(e) \cup Raise("opened twice", open[e])
CloseFaults(e) == CabinFaults(e) \cup Raise("closed twice", ~open[e])

EnterFaults(p, e) ==
  Raise("enter on wrong floor", from_floor[p] # floor[e])
  \cup Raise("enter through closed door", ~open[e])
  \cup Raise("enter full cabin", occupants[e] = MAX_CAPACITY)
  \cup Raise("enter while not waiting", state[p] # "WAITING")

ExitFaults(p, e) ==
  Raise("exit wrong elevator", in_elevator[p] # e)
  \cup Raise("exit on wrong floor", to_floor[p] # floor[e])
  \cup Raise("exit through closed door", ~open[e])
  \cup Raise("exit while not riding", state[p] # "ENTERED")

DeliveryFaults(p) ==
  Raise("delivered to wrong floor", at_floor[p] # to_floor[p])
-----------------------------------------------------------------------------
(* The commits. *)

MoveCommit(e, direction) ==
  /\ floor' = [floor EXCEPT ![e] = @ + direction]
  /\ UNCHANGED <<open, occupants, people, violation>>

DoorCommit(e, isOpen) ==
  /\ open' = [open EXCEPT ![e] = isOpen]
  /\ UNCHANGED <<floor, occupants, people, violation>>

EnterCommit(p, e) ==
  /\ occupants' = [occupants EXCEPT ![e] = @ + 1]
  /\ in_elevator' = [in_elevator EXCEPT ![p] = e]
  /\ state' = [state EXCEPT ![p] = "ENTERED"]
  /\ UNCHANGED <<floor, open, from_floor, to_floor, at_floor, violation>>

ExitCommitUncounted(p, e) ==  (* faulty: the cabin keeps its count *)
  /\ in_elevator' = [in_elevator EXCEPT ![p] = -1]
  /\ at_floor' = [at_floor EXCEPT ![p] = floor[e]]
  /\ state' = [state EXCEPT ![p] = "EXITED"]
  /\ UNCHANGED <<cars, from_floor, to_floor, violation>>

ExitCommit(p, e) ==
  /\ occupants' = [occupants EXCEPT ![e] = @ - 1]
  /\ in_elevator' = [in_elevator EXCEPT ![p] = -1]
  /\ at_floor' = [at_floor EXCEPT ![p] = floor[e]]
  /\ state' = [state EXCEPT ![p] = "EXITED"]
  /\ UNCHANGED <<floor, open, from_floor, to_floor, violation>>

(* One turn of start_passenger's loop: a new destination, drawn at random, *)
(* and, once passenger_request has returned, the floor to start from next. *)
NewTrip(p, destination) ==
  /\ to_floor' = [to_floor EXCEPT ![p] = destination]
  /\ state' = [state EXCEPT ![p] = "WAITING"]
  /\ UNCHANGED <<cars, from_floor, at_floor, in_elevator, violation>>

EndTrip(p) ==
  /\ from_floor' = [from_floor EXCEPT ![p] = to_floor[p]]
  /\ UNCHANGED <<cars, to_floor, at_floor, in_elevator, state, violation>>

EnforcementTypeOK ==
  /\ floor \in [Elevators -> Int]
  /\ open \in [Elevators -> BOOLEAN]
  /\ occupants \in [Elevators -> Int]
  /\ from_floor \in [Passengers -> Floors]
  /\ to_floor \in [Passengers -> Floors]
  /\ at_floor \in [Passengers -> Int]
  /\ in_elevator \in [Passengers -> Elevators \cup {-1}]
  /\ state \in [Passengers -> {"WAITING", "ENTERED", "EXITED"}]
  /\ violation \in SUBSET Violations
=============================================================================
