------------------------------ MODULE Sessions ------------------------------
(***************************************************************************)
(* The folders ~/.dsh/<n>: every shell makes the first that is free        *)
(* (dsh.c:177-191); the terminal front end lets the linked shell do that   *)
(* (dsh_init, external) and then looks for it by itself (dsh_main.c:69-83). *)
(* Several of them may be starting at the same time.                       *)
(***************************************************************************)
EXTENDS Integers

CONSTANTS
  Shells, Terminals,   (* the programs being started                       *)
  Old,                 (* numbers of folders there may be from before      *)
  MAX_FOLDER           \* bound on the numbers that are tried

ASSUME OldAssumption == Old \subseteq Nat

VARIABLES
  folders,             (* the numbers for which there is a folder          *)
  existing,            (* those there were before                          *)
  writable,            (* a folder can be made                             *)
  stage, counter_of,   (* per program: what it does, the number it tries   *)
  own, reads           (* the folder it made, the folder it reads from     *)

sessionVars == <<folders, existing, writable, stage, counter_of, own, reads>>

Programs == Shells \cup Terminals
NoFolder == -1

SessionInit ==
  /\ existing \in SUBSET Old /\ folders = existing
  /\ writable \in BOOLEAN
  /\ stage = [p \in Programs |-> "make"] /\ counter_of = [p \in Programs |-> 0]
  /\ own = [p \in Programs |-> NoFolder] /\ reads = [p \in Programs |-> NoFolder]

TryAgain(p) == UNCHANGED counter_of  \* faulty
Try(p) == counter_of' = [counter_of EXCEPT ![p] = @ + 1]

(* mkdir makes a folder only where there is none; that it fails for another *)
(* reason is not told apart, and the next number is tried, for ever.        *)
TakenBefore(n) == n \in existing \/ ~writable  \* faulty: tested once
Taken(n)       == n \in folders \/ ~writable

Make(p) ==
  /\ stage[p] = "make" /\ counter_of[p] < MAX_FOLDER
  /\ IF Taken(counter_of[p])
     THEN Try(p) /\ UNCHANGED <<folders, existing, writable, stage, own, reads>>
     ELSE /\ folders' = folders \cup {counter_of[p]}
          /\ own' = [own EXCEPT ![p] = counter_of[p]]
          /\ counter_of' = [counter_of EXCEPT ![p] = 0]
          /\ stage' = [stage EXCEPT ![p] = IF p \in Terminals THEN "look" ELSE "run"]
          /\ UNCHANGED <<existing, writable, reads>>

(* The terminal takes the last number of the first row of folders. *)
LastTried(n) == n  \* faulty
LastSeen(n)  == n - 1

Look(p) ==
  /\ stage[p] = "look"
  /\ IF counter_of[p] \in folders
     THEN Try(p) /\ UNCHANGED <<stage, reads>>
     ELSE /\ reads' = [reads EXCEPT ![p] = LastSeen(counter_of[p])]
          /\ stage' = [stage EXCEPT ![p] = "run"]
          /\ UNCHANGED counter_of
  /\ UNCHANGED <<folders, existing, writable, own>>

SessionStep(p) == Make(p) \/ Look(p)
SessionNext == \E p \in Programs : SessionStep(p)
SessionSpec == SessionInit /\ [][SessionNext]_sessionVars
                           /\ \A p \in Programs : WF_sessionVars(SessionStep(p))
-----------------------------------------------------------------------------
(* Two shells never write their output into one folder, however their       *)
(* attempts interleave, and none into one that was there before.            *)
FoldersAreOwn ==
  \A p \in Programs : own[p] # NoFolder =>
    own[p] \notin existing /\ \A q \in Programs \ {p} : own[q] # own[p]

(* A terminal shows the output of its own shell, unless a shell that began  *)
(* later had its folder before the terminal looked, or folders with higher  *)
(* numbers were left from a time when the numbers had no gap.               *)
ReadsOwnUnless ==
  \A p \in Terminals : stage[p] = "run" =>
    \/ reads[p] = own[p]
    \/ /\ reads[p] > own[p]
       /\ \/ \E q \in Programs : own[q] > own[p]
          \/ \E n \in existing : n > own[p]

(* Every program that can make a folder gets started.                       *)
SessionsStart == writable ~> \A p \in Programs : stage[p] = "run"
=============================================================================
