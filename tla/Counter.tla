------------------------------ MODULE Counter ------------------------------
(***************************************************************************)
(* counter.c: a counter that says twelve twice and leaves out fourteen.    *)
(* Its caller, repeat.o, is a binary and may call in any order.            *)
(***************************************************************************)
EXTENDS Integers

CONSTANT MAX_CALLS     \* bound on the calls between two resets

VARIABLES
  c, thirteenthrun,    (* the globals                                      *)
  incs                 (* history: calls of inc since the last reset       *)

counterVars == <<c, thirteenthrun, incs>>

CounterInit == c = 0 /\ thirteenthrun = 0 /\ incs = 0

(* The thirteenth call is taken back, the one that finds 14 makes up for it. *)
TakenBack(n) == n = 13 /\ thirteenthrun = 0
MadeUpNever(n) == FALSE  \* faulty
MadeUp(n)    == n = 14 /\ thirteenthrun = 1

inc ==
  /\ incs < MAX_CALLS
  /\ incs' = incs + 1
  /\ \/ TakenBack(c + 1) /\ c' = c /\ thirteenthrun' = 1
     \/ ~TakenBack(c + 1) /\ MadeUp(c + 1) /\ c' = c + 2 /\ thirteenthrun' = 0
     \/ ~TakenBack(c + 1) /\ ~MadeUp(c + 1) /\ c' = c + 1 /\ UNCHANGED thirteenthrun

reset == c' = 0 /\ thirteenthrun' = 0 /\ incs' = 0

CounterNext == inc \/ reset
CounterSpec == CounterInit /\ [][CounterNext]_counterVars
-----------------------------------------------------------------------------
(* The counter is behind its caller by one on the thirteenth and fourteenth *)
(* call after a reset, and never otherwise.                                 *)
CountIsLate ==
  /\ thirteenthrun = (IF incs \in {13, 14} THEN 1 ELSE 0)
  /\ c = incs - thirteenthrun
=============================================================================
