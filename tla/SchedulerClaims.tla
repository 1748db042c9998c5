-------------------------- MODULE SchedulerClaims --------------------------
(***************************************************************************)
(* What comments and headers of hw7 say of the program and its             *)
(* interleavings do not keep.                                              *)
(***************************************************************************)
EXTENDS SchedulerLiveness

(* elevator.h:52: "must call door_open before letting passengers in, and   *)
(* door_close before moving the elevator". *)
NobodyEntersClosedDoor == "enter through closed door" \notin violation
=============================================================================
