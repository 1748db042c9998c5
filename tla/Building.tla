------------------------------ MODULE Building ------------------------------
(***************************************************************************)
(* What passengers and elevators of hw7 promise each other, as elevator.h  *)
(* (lines 43-55) and the checks of main.c state it, with no threads, locks *)
(* or shared counters: a cabin moves one floor at a time with its door     *)
(* closed, each opening of the door serves exactly one passenger, and      *)
(* passengers get in where they are and get out where they want to be.     *)
(*                                                                         *)
(* The scheduler keeps to this until it is broken (two passengers inside   *)
(* one critical section); a broken building still has sound doors and      *)
(* cabins but no longer says who may pass through a door.                  *)
(***************************************************************************)
EXTENDS Integers, FiniteSets

CONSTANTS Elevators, Passengers, Floors, Seats

VARIABLES
  cab,      (* the floor of each cabin                                     *)
  door,     (* "open" or "closed"                                          *)
  served,   (* somebody has passed through the door since it opened        *)
  trip,     (* what each passenger is doing                                *)
  place,    (* the cabin a passenger is in, or -1                          *)
  at, to,   (* the floor a passenger was last on, and wants to go to       *)
  broken

buildingVars == <<cab, door, served, trip, place, at, to, broken>>

Load(e) == Cardinality({p \in Passengers : place[p] = e})

BuildingInit ==
  /\ cab = [e \in Elevators |-> 0]
  /\ door = [e \in Elevators |-> "closed"]
  /\ served = [e \in Elevators |-> FALSE]
  /\ trip = [p \in Passengers |-> "none"]
  /\ place = [p \in Passengers |-> -1]
  /\ at \in [Passengers -> Floors]
  /\ to = [p \in Passengers |-> 0]
  /\ broken = FALSE

Request(p) ==
  /\ trip[p] = "none"
  /\ trip' = [trip EXCEPT ![p] = "waiting"]
  /\ \E destination \in Floors : to' = [to EXCEPT ![p] = destination]
  /\ UNCHANGED <<cab, door, served, place, at, broken>>

(* The one passenger this opening of the door is for. *)
Admits(e) == door[e] = "open" /\ ~served[e]

Board(p, e) ==
  /\ trip[p] = "waiting"
  /\ broken \/ (Admits(e) /\ cab[e] = at[p] /\ Load(e) < Seats)
  /\ trip' = [trip EXCEPT ![p] = "riding"]
  /\ place' = [place EXCEPT ![p] = e]
  /\ served' = [served EXCEPT ![e] = TRUE]
  /\ UNCHANGED <<cab, door, at, to, broken>>

Alight(p, e) ==
  /\ trip[p] = "riding"
  /\ place[p] = e
  /\ broken \/ (Admits(e) /\ cab[e] = to[p])
  /\ trip' = [trip EXCEPT ![p] = "delivered"]
  /\ place' = [place EXCEPT ![p] = -1]
  /\ at' = [at EXCEPT ![p] = cab[e]]
  /\ served' = [served EXCEPT ![e] = TRUE]
  /\ UNCHANGED <<cab, door, to, broken>>

(* passenger_request returns: only when the passenger is delivered to the  *)
(* requested floor, broken or not. *)
Return(p) ==
  /\ trip[p] = "delivered"
  /\ at[p] = to[p]
  /\ trip' = [trip EXCEPT ![p] = "none"]
  /\ UNCHANGED <<cab, door, served, place, at, to, broken>>

OpenDoor(e) ==
  /\ door[e] = "closed"
  /\ door' = [door EXCEPT ![e] = "open"]
  /\ served' = [served EXCEPT ![e] = broken]
  /\ UNCHANGED <<cab, trip, place, at, to, broken>>

CloseDoor(e) ==
  /\ door[e] = "open"
  /\ served[e]
  /\ door' = [door EXCEPT ![e] = "closed"]
  /\ served' = [served EXCEPT ![e] = broken]
  /\ UNCHANGED <<cab, trip, place, at, to, broken>>

Move(e) ==
  /\ door[e] = "closed"
  /\ \E d \in {-1, 1} : cab[e] + d \in Floors /\ cab' = [cab EXCEPT ![e] = @ + d]
  /\ UNCHANGED <<door, served, trip, place, at, to, broken>>

Break ==
  /\ broken' = TRUE
  /\ served' = [e \in Elevators |-> TRUE]
  /\ UNCHANGED <<cab, door, trip, place, at, to>>

BuildingNext ==
  \/ \E p \in Passengers : Request(p) \/ Return(p)
  \/ \E p \in Passengers, e \in Elevators : Board(p, e) \/ Alight(p, e)
  \/ \E e \in Elevators : OpenDoor(e) \/ CloseDoor(e) \/ Move(e)
  \/ Break

BuildingSpec == BuildingInit /\ [][BuildingNext]_buildingVars
=============================================================================
