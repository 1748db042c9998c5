-------------------------- MODULE SchedulerSafety --------------------------
(***************************************************************************)
(* What the scheduler of hw7.c guarantees.  Its elevators unlock mutexes   *)
(* they do not hold, so the passengers' critical sections can overlap;     *)
(* most of the properties say what holds until that first happens, and     *)
(* what holds no matter what.                                              *)
(***************************************************************************)
EXTENDS Scheduler

EPcs == {"loop", "start", "pick", "steer", "test", "open_1", "open_2", "opening",
         "announce", "await", "sleep", "wait", "relock", "close", "closing",
         "move_1", "move_2", "moving", "mirror", "done"}

PPcs == {"idle", "post", "record", "enlist", "start_load", "start_store", "lock_in",
         "wait_in", "lock_out", "wait_out", "wake_out", "arrived", "done"} \cup Section

(* Every variable of the two files keeps to its type: floors stay floors,  *)
(* locks are held by threads of the elevator, the list has no wild pointer *)
(* (hw7.c:8-35, main.c:26-31 and 140-147). *)
TypeOK ==
  /\ EnforcementTypeOK
  /\ elevator_floor \in [Elevators -> Int]
  /\ elevator_direction \in [Elevators -> {-1, 1}]
  /\ passenger_count \in [Elevators -> Int]
  /\ wait_at \in [Elevators -> Floors \cup {-1}]
  /\ is_elevator_ready \in [Elevators -> BOOLEAN]
  /\ is_passenger_ready \in [Elevators -> BOOLEAN]
  /\ riding \in [Elevators -> Passengers \cup {NONE}]
  /\ start \in [Elevators -> Int]
  /\ elevator_lock \in [Elevators -> Passengers \cup {FREE, MAIN, ELEVATOR}]
  /\ info_from \in [Passengers -> Floors]
  /\ info_to \in [Passengers -> Floors]
  /\ elenumber \in [Passengers -> Elevators]
  /\ status \in [Passengers -> {0, 1}]
  /\ next \in [Passengers -> Passengers \cup {NONE}]
  /\ epc \in [Elevators -> EPcs]
  /\ ppc \in [Passengers -> PPcs]
  /\ arg_floor \in [Elevators -> Int]
  /\ tmp \in [Passengers -> Int]
  /\ \A p \in Passengers :
       ppc[p] \in {"add_link", "rm_link"} => tmp[p] \in Passengers \cup {NONE}
  /\ trips \in [Passengers -> Nat]
  /\ stop \in BOOLEAN
  /\ overlapped \in BOOLEAN
-----------------------------------------------------------------------------
(* The elevator thread by itself. *)

DoorOpen == {"announce", "await", "sleep", "wait", "relock", "close", "closing"}
Driving  == {"start", "pick", "steer", "test", "open_1", "open_2", "opening",
             "move_1", "move_2", "moving"} \cup DoorOpen
Aimed    == Driving \ {"start", "pick"}

DriveIsSafe == violation \cap DriveFaults = {}

DoorMatchesPc == \A e \in Elevators : open[e] <=> epc[e] \in DoorOpen

InBuilding == \A e \in Elevators : floor[e] \in Floors

(* The floor hw7.c keeps for itself lags behind main.c's only between      *)
(* move_direction and line 410, and at_floor is current until the move.    *)
FloorsAgree ==
  \A e \in Elevators :
     /\ epc[e] \in Driving => arg_floor[e] = floor[e]
     /\ epc[e] = "mirror" => floor[e] = arg_floor[e] + elevator_direction[e]
     /\ epc[e] # "mirror" => elevator_floor[e] = floor[e]

(* Never up from the top or down from the bottom. *)
DirectionFits ==
  \A e \in Elevators :
     epc[e] \in Aimed =>
       /\ arg_floor[e] = 0 => elevator_direction[e] = 1
       /\ arg_floor[e] = FLOORS - 1 => elevator_direction[e] = -1

DriveInv == DoorMatchesPc /\ InBuilding /\ FloorsAgree /\ DirectionFits /\ DriveIsSafe
-----------------------------------------------------------------------------
(* Passengers as main.c records them. *)

(* Between the commit of enter and that of exit. *)
Aboard == {"load_in", "store_in", "add_find", "add_link", "signal_in", "unlock_in",
           "lock_out", "check_out", "sleep_out", "wait_out", "claim_out", "exit_1",
           "exit_2", "exiting"}
Before == {"post", "record", "enlist", "start_load", "start_store", "lock_in", "check_in",
           "sleep_in", "wait_in", "claim_in", "enter_1", "enter_2", "entering"}

StateMatchesPc ==
  \A p \in Passengers :
     /\ ppc[p] \in Before => state[p] = "WAITING"
     /\ state[p] = "ENTERED" <=> ppc[p] \in Aboard
     /\ in_elevator[p] = IF ppc[p] \in Aboard THEN Assigned(p) ELSE -1
     /\ ppc[p] \in Before \cup {"idle", "done"} => at_floor[p] = from_floor[p]

RidesInOrder == violation \cap RideFaults = {}

(* Some checks of main.c fail in no interleaving at all, overlapping       *)
(* critical sections and lost updates included: the door is not opened or  *)
(* closed twice, the cabin does not move with its door open and does not   *)
(* leave the building, even though passengers overwrite wait_at between    *)
(* the elevator's reads of it (hw7.c:188, 368-375); and nobody enters      *)
(* while not waiting or leaves a cabin they are not in. *)
CallOrderIsSafe == DriveIsSafe /\ RidesInOrder

(* The passengers main.c has in an elevator. *)
Inside(e) == {p \in Passengers : in_elevator[p] = e}

(* main.c's passenger count of an elevator is the number of passengers     *)
(* main.c has inside it, through every race in hw7.c, so the count is      *)
(* never negative. *)
OccupantsExact ==
  \A e \in Elevators : occupants[e] = Cardinality(Inside(e))
-----------------------------------------------------------------------------
(* The handshake, until critical sections overlap. *)

AtDoor     == {"await", "sleep", "wait", "relock"}
Claiming   == {"claim_in", "claim_out"}
Boarding   == {"enter_1", "enter_2", "entering", "load_in", "store_in", "add_find",
               "add_link", "signal_in"}
Alighting  == {"exit_1", "exit_2", "exiting", "load_out", "store_out", "rm_find",
               "rm_link", "signal_out"}
Working    == Boarding \cup Alighting

Exclusive ==
  \A p, q \in Passengers :
     p # q /\ Assigned(p) = Assigned(q) => ~(ppc[p] \in Section /\ ppc[q] \in Section)

(* is_elevator_ready is a token: the elevator issues one when it opens its *)
(* door, one passenger takes it, and is_passenger_ready gives it back;     *)
(* until then the elevator stands at its floor with the door open          *)
(* (hw7.c:215-249, 269-281, 389-399). *)
Token(e) ==
  /\ is_elevator_ready[e] => epc[e] \in AtDoor /\ ~is_passenger_ready[e]
  /\ is_passenger_ready[e] => epc[e] \in AtDoor
  /\ \A p \in Passengers : Assigned(p) = e =>
       /\ ppc[p] \in Claiming => is_elevator_ready[e]
       /\ ppc[p] \in Working => /\ epc[e] \in AtDoor
                                /\ ~is_elevator_ready[e]
                                /\ ~is_passenger_ready[e]

RightFloor(e) ==
  \A p \in Passengers : Assigned(p) = e =>
    /\ ppc[p] \in {"claim_in", "enter_1", "enter_2", "entering"} =>
         from_floor[p] = floor[e] /\ passenger_count[e] < SEATS
    /\ ppc[p] \in {"claim_out", "exit_1", "exit_2", "exiting"} => to_floor[p] = floor[e]
    /\ ppc[p] \in {"load_out", "store_out", "rm_find", "rm_link", "signal_out",
                   "unlock_out", "wake_out", "arrived"} => at_floor[p] = to_floor[p]

(* hw7.c's passenger_count is main.c's, but for the one passenger who is   *)
(* between the callback and the counter. *)
Counts(e) ==
  /\ occupants[e] <= SEATS
  /\ \A p \in Passengers : Assigned(p) = e =>
       /\ ppc[p] \in {"load_in", "store_in"} => occupants[e] = passenger_count[e] + 1
       /\ ppc[p] \in {"load_out", "store_out"} => occupants[e] = passenger_count[e] - 1
       /\ ppc[p] \in {"store_in", "store_out"} => tmp[p] = passenger_count[e]
  /\ (\A p \in Passengers : Assigned(p) = e =>
        ppc[p] \notin {"load_in", "store_in", "load_out", "store_out"})
     => occupants[e] = passenger_count[e]

HandshakeInv ==
  ~overlapped => Exclusive /\ \A e \in Elevators : Token(e) /\ RightFloor(e) /\ Counts(e)

(* No check of main.c fails, none at all, before two passengers have been  *)
(* in the critical section of one elevator together: whoever enters or     *)
(* leaves does so through an open door, at the right floor, within the     *)
(* capacity (main.c:42, 149-173, 190-215, 262). *)
ChecksFailOnlyAfterOverlap ==
  violation \ {"not on ride list"} # {} => overlapped

(* remove_from_list is never asked for a passenger who is not on the list  *)
(* (the assert of hw7.c:75) before critical sections overlap. *)
ListAssertOnlyAfterOverlap ==
  "not on ride list" \in violation => overlapped

(* Until then the ride list holds the passengers main.c has in the cabin,  *)
(* whenever none of them is between the callback and the list. *)
RideListExact ==
  ~overlapped => \A e \in Elevators :
     \/ \E p \in Passengers : Assigned(p) = e /\ ppc[p] \in Working
     \/ Riders(e) = Inside(e)

(* The inductive invariant of the proofs. *)
SafetyInv == TypeOK /\ DriveInv /\ StateMatchesPc /\ RidesInOrder /\ OccupantsExact
             /\ HandshakeInv /\ ChecksFailOnlyAfterOverlap
=============================================================================
