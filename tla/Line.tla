-------------------------------- MODULE Line --------------------------------
(***************************************************************************)
(* What the line editor promises: a line of text with a cursor, and the    *)
(* lines entered before, which can be shown again, newest first, one step  *)
(* at a time, as far as their first newline.  A line may be lost (what it  *)
(* holds is then anybody's guess) only by a change behind its end, and an  *)
(* entered one also by a terminator in it.                                 *)
(***************************************************************************)
EXTENDS Integers, Sequences

CONSTANT Characters    (* the bytes a line may hold, "newline" and "nul" included *)

VARIABLES
  text, cursor,     (* the line, and how many characters are before the cursor *)
  lost,             (* the text no longer says what the line holds         *)
  past,             (* the lines entered: sequences of Characters or "lost" *)
  shown,            (* the entry of past that was shown last, 0 for none   *)
  over              (* the program has ended                               *)

lineVars == <<text, cursor, lost, past, shown, over>>

Init == /\ text = <<>> /\ cursor = 0 /\ lost = FALSE
        /\ past = <<>> /\ shown = 0 /\ over = FALSE

(* A character replaces the one under the cursor, or is the new last one. *)
Overwrite(c) ==
  /\ text' = IF cursor < Len(text) THEN [text EXCEPT ![cursor + 1] = c] ELSE Append(text, c)
  /\ cursor' = cursor + 1

Erase ==
  /\ cursor > 0
  /\ text' = SubSeq(text, 1, cursor - 1) \o SubSeq(text, cursor + 1, Len(text))
  /\ cursor' = cursor - 1

Edit == /\ ~lost /\ cursor <= Len(text)
        /\ Erase \/ \E c \in Characters : Overwrite(c)
        /\ UNCHANGED <<lost, past, shown, over>>

Move == /\ cursor' \in {cursor - 1, cursor + 1} \cap Nat
        /\ UNCHANGED <<text, lost, past, shown, over>>

Lose == /\ lost \/ cursor > Len(text)
        /\ lost' = TRUE
        /\ cursor' \in {cursor - 1, cursor + 1} \cap Nat
        /\ UNCHANGED <<past, shown, over>>

(* What is before the first newline. *)
FirstRow(t) ==
  LET newlines == {i \in 1 .. Len(t) : t[i] = "newline"}
  IN IF newlines = {} THEN t
     ELSE SubSeq(t, 1, (CHOOSE i \in newlines : \A j \in newlines : i <= j) - 1)

Show == /\ shown' \in IF shown = 0 THEN {Len(past)} ELSE shown - 1 .. shown + 1
        /\ shown' \in 1 .. Len(past)
        /\ IF past[shown'] = "lost" THEN text' \in Seq(Characters)
                                    ELSE text' = FirstRow(past[shown'])
        /\ lost' = FALSE
        /\ UNCHANGED <<cursor, past, over>>

CutOff == lost \/ \E i \in 1 .. Len(text) : text[i] = "nul"

Submit == /\ past' = Append(past, IF CutOff THEN "lost" ELSE text)
          /\ text' = <<>> /\ cursor' = 0 /\ lost' = FALSE /\ shown' = 0
          /\ over' \in BOOLEAN

Halt == over' = TRUE /\ UNCHANGED <<text, cursor, lost, past, shown>>

Next == ~over /\ (Edit \/ Move \/ Lose \/ Show \/ Submit \/ Halt)

Spec == Init /\ [][Next]_lineVars
=============================================================================
