-------------------------- MODULE LineEditorSafety --------------------------
(* What the line editor of dsh_main.c keeps, and the mapping to Line. *)
EXTENDS LineEditor

(* The buffers are where the code may write them, the entries fill the      *)
(* history up to latest, and the entry shown is one of them.                *)
EditorTypeOK ==
  /\ line \in [Cells -> Characters]
  /\ position \in 0 .. LINE /\ endposition \in 0 .. LINE
  /\ input_x \in 1 .. WIN_WIDTH - 2 /\ input_y \in Nat /\ row \in 1 .. input_y
  /\ latest \in Entries /\ order = latest /\ counter \in 0 .. latest
  /\ accessedhistory \in BOOLEAN
  /\ ptr \in [Entries -> Seq(Characters)]
  /\ \A e \in Entries \ (1 .. latest) : ptr[e] = <<>>
  /\ fate \in {"runs", "crashed", "undefined"}
  /\ torn \in BOOLEAN /\ marked \subseteq 1 .. latest

(* The place on the screen is the place in the line: the keys move both,    *)
(* wrapping moves neither, and Enter begins a new line in column 1.         *)
ColumnsAgree == position = (input_x - 1) + (WIN_WIDTH - 2) * (input_y - row)

(* The cursor gets behind the end of the line only by RIGHT after the line  *)
(* has wrapped (236 tests the column), or by showing a shorter entry (the   *)
(* cursor is not moved, 166-227).                                           *)
BehindTheEndOnlyAfter == position > endposition => input_y > row \/ accessedhistory

(* Behind its end a line that was not torn is clear, and an entry that is   *)
(* not marked ends in a newline: the strcpy of 259 has copied the whole     *)
(* line.  It may hold other newlines, as F2 writes them.                    *)
IsText(l, n) == \A i \in Cells : i < n \/ l[i] = "nul"
IsEntry(s)   == s # <<>> /\ s[Len(s)] = "newline"

TextIsWhole == /\ ~torn => IsText(line, endposition)
               /\ \A e \in (1 .. latest) \ marked : IsEntry(ptr[e])

(* The program leaves its arrays only at their limits, behind the end of a  *)
(* line, by showing an entry of which nothing is before its first newline,  *)
(* or one that a terminator cut off before its newline: that was entered    *)
(* torn, or with a terminator typed into it.                                *)
UndefinedOnlyAtLimits ==
  fate = "undefined" =>
    \/ torn \/ position > endposition
    \/ endposition >= LINE - 1
    \/ latest = HISTORY - 1
    \/ \E e \in 1 .. latest : \/ Len(ptr[e]) >= TEMP
                              \/ ptr[e] # <<>> /\ ptr[e][1] = "newline"
                              \/ e \in marked /\ Newlines(e) = {}

(***************************************************************************)
(* The mapping.  Of a torn line nothing is said, nor of an entry that a    *)
(* terminator may have cut off.                                            *)
(***************************************************************************)
Text  == IF torn THEN <<>> ELSE [i \in 1 .. endposition |-> line[i - 1]]
Entry(e) == IF e \in marked THEN "lost" ELSE SubSeq(ptr[e], 1, Len(ptr[e]) - 1)

TheLine == INSTANCE Line WITH
  Characters <- Characters,
  text   <- Text,
  cursor <- position,
  lost   <- torn,
  past   <- [e \in 1 .. latest |-> Entry(e)],
  shown  <- IF accessedhistory THEN counter ELSE 0,
  over   <- fate # "runs"

(* The keys do to the line and the history what Line says, as long as no    *)
(* change is made behind the end.                                           *)
ImplementsLine == TheLine!Spec
=============================================================================
