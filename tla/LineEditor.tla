----------------------------- MODULE LineEditor -----------------------------
(***************************************************************************)
(* dsh_main.c: the line editor with a history in front of the shell.  One  *)
(* action per key.  What is drawn is left out, the place of the cursor is  *)
(* not: column and buffer position are kept apart by the code and have to  *)
(* agree.  The shell itself is linked in as dsh.o and external.            *)
(***************************************************************************)
EXTENDS Integers, Sequences

CONSTANTS
  Chars,       (* the bytes a key may store, but for the two of Characters *)
  LINE,        (* size of line and of an entry, 1024                       *)
  TEMP,        (* size of printHistory's copy, 100                         *)
  HISTORY,     (* entries of the history, 100                              *)
  WIN_WIDTH    (* of the window, 65                                        *)

ASSUME EditorAssumption ==
  /\ {"nul", "newline"} \cap Chars = {}
  /\ LINE \in Nat \ {0} /\ TEMP \in Nat /\ HISTORY \in Nat \ {0}
  /\ WIN_WIDTH \in Nat /\ WIN_WIDTH > 3

VARIABLES
  line, position, endposition,    (* the buffer, the cursor, the length    *)
  input_x, input_y,               (* the cursor on the screen              *)
  counter, accessedhistory,       (* the entry shown; is one shown         *)
  order, latest, ptr,             (* lines so far, last entry, entries     *)
  fate,                           (* "runs", or what ended the program     *)
  row,         (* history: input_y when the line was begun                 *)
  torn,        (* history: the line was changed behind its end             *)
  marked       (* history: entries of torn lines or of lines with a        *)
               (* terminator in them                                       *)

buffered == <<line, position, endposition>>
screen  == <<input_x, input_y>>
browse  == <<counter, accessedhistory>>
past    == <<order, latest, ptr>>
history == <<row, marked>>
editorVars == <<buffered, screen, browse, past, fate, torn, history>>

Cells    == 0 .. LINE - 1
Entries  == 0 .. HISTORY - 1
Blank    == [i \in Cells |-> "nul"]

(* A key is an int and the line holds chars: what is stored is its low      *)
(* byte.  Control-@ stores the terminator, KEY_F(2), which is 266, a        *)
(* newline.                                                                 *)
Characters == Chars \cup {"nul", "newline"}
-----------------------------------------------------------------------------
EditorInit ==
  /\ line = Blank /\ position = 0 /\ endposition = 0
  /\ input_x = 1 /\ input_y = 1
  /\ counter = 0 /\ accessedhistory = FALSE
  /\ order = 0 /\ latest = 0 /\ ptr = [e \in Entries |-> <<>>]
  /\ fate = "runs"
  /\ row = 1 /\ torn = FALSE /\ marked = {}

(* The top of the loop begins a new row when the width is exhausted. *)
WrapLate(x) ==  \* faulty
  IF x = WIN_WIDTH THEN input_x' = 1 /\ input_y' = input_y + 1
                   ELSE input_x' = x /\ input_y' = input_y
Wrap(x) ==
  IF x = WIN_WIDTH - 1 THEN input_x' = 1 /\ input_y' = input_y + 1
                       ELSE input_x' = x /\ input_y' = input_y

(* A write beside an array: the model stops. *)
Overrun == /\ fate' = "undefined"
           /\ UNCHANGED <<buffered, screen, browse, past, torn, history>>

(* A change behind the end leaves a gap in the line. *)
Tear == torn' = (torn \/ position > endposition)

(* Any other key: its byte overwrites what is under the cursor. *)
Type(c) ==
  /\ fate = "runs"
  /\ IF position \notin Cells THEN Overrun
     ELSE /\ line' = [line EXCEPT ![position] = c]
          /\ position' = position + 1
          /\ endposition' = IF position' > endposition THEN endposition + 1 ELSE endposition
          /\ Wrap(input_x + 1)
          /\ Tear
          /\ UNCHANGED <<browse, past, fate, history>>

(* The cursor keys: their tests are on the column, not on the position. *)
Left ==
  /\ fate = "runs"
  /\ input_x # 1
  /\ position' = position - 1
  /\ Wrap(input_x - 1)
  /\ UNCHANGED <<line, endposition, browse, past, fate, torn, history>>

AtLineEndLate == input_x = endposition + 2  \* faulty
AtLineEnd == input_x = endposition + 1

Right ==
  /\ fate = "runs"
  /\ ~AtLineEnd
  /\ position < LINE  \* bound: the code lets the cursor go on
  /\ position' = position + 1
  /\ Wrap(input_x + 1)
  /\ UNCHANGED <<line, endposition, browse, past, fate, torn, history>>

(* What is behind the deleted character moves up. *)
DeletedBehind ==  \* faulty
  [i \in Cells |-> IF i = endposition - 1 THEN "nul"
                   ELSE IF i \in position .. endposition - 1 THEN line[i + 1] ELSE line[i]]
Deleted ==
  [i \in Cells |-> IF i = endposition - 1 THEN "nul"
                   ELSE IF i \in position - 1 .. endposition - 1 THEN line[i + 1] ELSE line[i]]

Backspace ==
  /\ fate = "runs"
  /\ input_x # 1
  /\ IF endposition = 0 \/ endposition > LINE - 1 THEN Overrun
     ELSE /\ line' = Deleted
          /\ position' = position - 1
          /\ endposition' = endposition - 1
          /\ Wrap(input_x - 1)
          /\ Tear
          /\ UNCHANGED <<browse, past, fate, history>>
-----------------------------------------------------------------------------
(* An entry is shown: everything but its newline is copied, the cursor     *)
(* stays.  An entry without a newline is read past its end; the index that *)
(* ends the line is not set for an empty one and may be anything.          *)
Newlines(e) == {i \in 1 .. Len(ptr[e]) : ptr[e][i] = "newline"}
LengthOf(e) == (CHOOSE i \in Newlines(e) : \A j \in Newlines(e) : i <= j) - 1

Recall(e) ==
  IF Newlines(e) = {} THEN Overrun
  ELSE \/ LengthOf(e) = 0 /\ Overrun
       \/ /\ line' = [i \in Cells |-> IF i < LengthOf(e) THEN ptr[e][i + 1] ELSE "nul"]
          /\ endposition' = LengthOf(e)
          /\ counter' = e /\ accessedhistory' = TRUE
          /\ torn' = FALSE
          /\ UNCHANGED <<position, screen, past, fate, history>>

(* Up shows the entry at counter first and goes back from there. *)
Up ==
  /\ fate = "runs"
  /\ counter > 1 \/ order = 1
  /\ Recall(IF accessedhistory /\ order # 1 THEN counter - 1 ELSE counter)

(* Down finds accessedhistory set: counter is order before the first Up. *)
Down ==
  /\ fate = "runs"
  /\ counter # order
  /\ Recall(counter + 1)
-----------------------------------------------------------------------------
(* strcpy copies up to the first terminator. *)
Nuls(l)     == {i \in Cells : l[i] = "nul"}
StringOfCut(l) ==  \* faulty
  LET n == CHOOSE i \in Nuls(l) : \A j \in Nuls(l) : i <= j
  IN [i \in 1 .. n - 1 |-> l[i - 1]]
StringOf(l) == LET n == CHOOSE i \in Nuls(l) : \A j \in Nuls(l) : i <= j
               IN [i \in 1 .. n |-> l[i - 1]]

(* Every line begins in a clear array. *)
Fresh == Blank

(* Enter: the newline goes to the end of the line, which becomes the next  *)
(* entry and is run.  The output of the command is read back, from a file  *)
(* that must be there (shown), and the history is printed through a copy   *)
(* of TEMP bytes.                                                          *)
HoldsTerminator == \E i \in 0 .. endposition - 1 : line[i] = "nul"

Entered(shown, entry) ==
  IF ~shown THEN "crashed" ELSE IF Len(entry) >= TEMP THEN "undefined" ELSE "runs"

Enter(shown) ==
  LET full  == [line EXCEPT ![endposition] = "newline"]
      entry == StringOf(full)
  IN /\ fate = "runs"
     /\ IF endposition \notin Cells \/ Nuls(full) = {} \/ latest + 1 \notin Entries
        THEN Overrun
        ELSE /\ latest' = latest + 1
             /\ ptr' = [ptr EXCEPT ![latest + 1] = entry]
             /\ marked' = IF torn \/ HoldsTerminator THEN marked \cup {latest + 1}
                                                     ELSE marked
             /\ fate' = Entered(shown, entry)
             /\ order' = order + 1
             /\ line' = Fresh /\ position' = 0 /\ endposition' = 0 /\ torn' = FALSE
             /\ counter' = order' /\ accessedhistory' = FALSE
             /\ input_x' = 1 /\ input_y' = input_y /\ row' = input_y

EditorNext == \/ \E c \in Characters : Type(c)
              \/ Left \/ Right \/ Backspace \/ Up \/ Down
              \/ \E shown \in BOOLEAN : Enter(shown)

EditorSpec == EditorInit /\ [][EditorNext]_editorVars
=============================================================================
