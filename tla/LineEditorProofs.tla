-------------------------- MODULE LineEditorProofs --------------------------
(* Theorems on the line editor: what LineEditorSafety states is kept for    *)
(* lines, entries, histories and windows of every size.                     *)
EXTENDS LineEditorSafety, WellFoundedInduction, SequenceTheorems, TLAPS

(* What the entries hold, and that the entry shown is one.                  *)
EntriesFit ==
  \A e \in Entries : /\ Len(ptr[e]) < LINE
                     /\ \A i \in 1 .. Len(ptr[e]) : ptr[e][i] \in Chars \cup {"newline"}

ShownExists == IF accessedhistory THEN counter >= 1 ELSE counter = latest

EditorInv ==
  /\ EditorTypeOK /\ ColumnsAgree /\ BehindTheEndOnlyAfter /\ TextIsWhole
  /\ UndefinedOnlyAtLimits /\ EntriesFit /\ ShownExists

(***************************************************************************)
(* Arithmetic.                                                             *)
(***************************************************************************)
LEMMA Least ==
  ASSUME NEW T, T \subseteq Nat, T # {}
  PROVE  \E x \in T : \A y \in T : x <= y
<1> DEFINE R == {ss \in Nat \X Nat : ss[1] < ss[2]}
<1>1. IsWellFoundedOn(R, Nat)
  BY NatLessThanWellFounded DEF OpToRel
<1>2. \E x \in T : \A y \in T : ~ (<<y, x>> \in R)
  <2> HIDE DEF R
  <2> QED BY <1>1, WFMin
<1>3. ASSUME NEW x \in Nat, NEW y \in Nat, ~ (<<y, x>> \in R) PROVE x <= y
  <2>1. ~ (y < x)
    BY <1>3, Zenon
  <2> QED BY <2>1
<1> QED
  <2> HIDE DEF R
  <2> QED BY <1>2, <1>3

LEMMA Rows ==
  ASSUME NEW w \in Nat, NEW k \in Nat
  PROVE  w * k \in Nat /\ w * (k + 1) = w * k + w /\ (k = 0 => w * k = 0)
OBVIOUS

(***************************************************************************)
(* The cursor: position and place on the screen.                           *)
(***************************************************************************)
LEMMA Place ==
  ASSUME EditorTypeOK, ColumnsAgree
  PROVE  /\ position >= input_x - 1
         /\ input_y = row => position = input_x - 1
<1>1. /\ WIN_WIDTH - 2 \in Nat /\ input_y - row \in Nat /\ input_x \in Nat /\ position \in Nat
      /\ input_y \in Nat /\ row \in Nat
  BY EditorAssumption DEF EditorTypeOK
<1>2. /\ (WIN_WIDTH - 2) * (input_y - row) \in Nat
      /\ input_y - row = 0 => (WIN_WIDTH - 2) * (input_y - row) = 0
  BY <1>1, Rows
<1>3. position = (input_x - 1) + (WIN_WIDTH - 2) * (input_y - row)
  BY DEF ColumnsAgree
<1>4. input_y = row => input_y - row = 0
  BY <1>1
<1>5. PICK z \in Nat : position = (input_x - 1) + z /\ (input_y = row => z = 0)
  BY <1>2, <1>3, <1>4
<1> QED BY <1>1, <1>5

LEMMA Rightwards ==
  ASSUME EditorTypeOK, ColumnsAgree, position' = position + 1, row' = row, Wrap(input_x + 1)
  PROVE  /\ ColumnsAgree'
         /\ input_x' \in 1 .. WIN_WIDTH - 2 /\ input_y' \in Nat /\ row' \in 1 .. input_y'
         /\ input_y' >= input_y
<1>1. /\ WIN_WIDTH - 2 \in Nat /\ input_y - row \in Nat /\ input_x \in 1 .. WIN_WIDTH - 2
      /\ position \in Nat /\ row \in 1 .. input_y /\ input_y \in Nat /\ WIN_WIDTH \in Nat
  BY EditorAssumption DEF EditorTypeOK
<1>2. position = (input_x - 1) + (WIN_WIDTH - 2) * (input_y - row)
  BY DEF ColumnsAgree
<1>3. CASE input_x + 1 = WIN_WIDTH - 1
  <2>1. input_x' = 1 /\ input_y' = input_y + 1
    BY <1>3 DEF Wrap
  <2>2. (WIN_WIDTH - 2) * ((input_y - row) + 1)
          = (WIN_WIDTH - 2) * (input_y - row) + (WIN_WIDTH - 2)
        /\ (WIN_WIDTH - 2) * (input_y - row) \in Nat
    BY <1>1, Rows
  <2>3. input_y' - row' = (input_y - row) + 1
    BY <1>1, <2>1
  <2>4. position' = (WIN_WIDTH - 2) * (input_y - row) + (WIN_WIDTH - 2)
    BY <1>1, <1>2, <1>3, <2>2
  <2>5. position' = 0 + (WIN_WIDTH - 2) * (input_y' - row')
    BY <2>2, <2>3, <2>4
  <2> QED BY <1>1, <2>1, <2>5 DEF ColumnsAgree
<1>4. CASE input_x + 1 # WIN_WIDTH - 1
  <2>1. input_x' = input_x + 1 /\ input_y' = input_y
    BY <1>4 DEF Wrap
  <2>2. (WIN_WIDTH - 2) * (input_y - row) \in Nat
    BY <1>1, Rows
  <2> QED BY <1>1, <1>2, <1>4, <2>1, <2>2 DEF ColumnsAgree
<1> QED BY <1>3, <1>4

LEMMA Leftwards ==
  ASSUME EditorTypeOK, ColumnsAgree, position' = position - 1, row' = row,
         input_x # 1, Wrap(input_x - 1)
  PROVE  /\ ColumnsAgree' /\ position >= 1
         /\ input_x' \in 1 .. WIN_WIDTH - 2 /\ input_y' = input_y
<1>1. /\ WIN_WIDTH - 2 \in Nat /\ input_y - row \in Nat /\ input_x \in 1 .. WIN_WIDTH - 2
      /\ position \in Nat /\ WIN_WIDTH \in Nat
  BY EditorAssumption DEF EditorTypeOK
<1>2. position = (input_x - 1) + (WIN_WIDTH - 2) * (input_y - row)
  BY DEF ColumnsAgree
<1>3. input_x' = input_x - 1 /\ input_y' = input_y
  BY <1>1 DEF Wrap
<1>4. (WIN_WIDTH - 2) * (input_y - row) \in Nat
  BY <1>1, Rows
<1> QED BY <1>1, <1>2, <1>3, <1>4, Place DEF ColumnsAgree

(***************************************************************************)
(* Strings: up to the first terminator, up to the first newline.           *)
(***************************************************************************)
LEMMA Strings ==
  ASSUME NEW l \in [Cells -> Characters], Nuls(l) # {}
  PROVE  \E n \in Cells : /\ l[n] = "nul" /\ \A i \in 0 .. n - 1 : l[i] # "nul"
                          /\ StringOf(l) = [i \in 1 .. n |-> l[i - 1]]
<1>1. Nuls(l) \subseteq Nat /\ Cells \subseteq Nat
  BY EditorAssumption DEF Nuls, Cells
<1>2. \E x \in Nuls(l) : \A y \in Nuls(l) : x <= y
  BY <1>1, Least
<1> DEFINE n == CHOOSE i \in Nuls(l) : \A j \in Nuls(l) : i <= j
<1>3. n \in Nuls(l) /\ \A j \in Nuls(l) : n <= j
  BY <1>2
<1>4. StringOf(l) = [i \in 1 .. n |-> l[i - 1]]
  BY DEF StringOf
<1> HIDE DEF n
<1>5. \A i \in 0 .. n - 1 : i \in Cells /\ i < n
  BY <1>1, <1>3, EditorAssumption DEF Nuls, Cells
<1>6. \A i \in 0 .. n - 1 : l[i] # "nul"
  BY <1>1, <1>3, <1>5 DEF Nuls
<1> QED BY <1>3, <1>4, <1>6 DEF Nuls

LEMMA EntryOf ==
  ASSUME NEW l \in [Cells -> Characters], Nuls(l) # {}
  PROVE  /\ StringOf(l) \in Seq(Characters) /\ Len(StringOf(l)) < LINE
         /\ \A i \in 1 .. Len(StringOf(l)) : StringOf(l)[i] \in Chars \cup {"newline"}
<1>1. PICK n \in Cells : /\ l[n] = "nul" /\ \A i \in 0 .. n - 1 : l[i] # "nul"
                         /\ StringOf(l) = [i \in 1 .. n |-> l[i - 1]]
  BY Strings
<1>2. n \in Nat /\ n < LINE /\ \A i \in 1 .. n : i - 1 \in 0 .. n - 1 /\ i - 1 \in Cells
  BY EditorAssumption DEF Cells
<1>3. \A i \in 1 .. n : l[i - 1] \in Chars \cup {"newline"} /\ l[i - 1] \in Characters
  BY <1>1, <1>2 DEF Characters
<1>4. StringOf(l) \in Seq(Characters) /\ Len(StringOf(l)) = n
  BY <1>1, <1>2, <1>3
<1> QED BY <1>1, <1>2, <1>3, <1>4

LEMMA FirstNewline ==
  ASSUME EditorInv, NEW e \in Entries, Newlines(e) # {}
  PROVE  /\ LengthOf(e) \in Nat /\ LengthOf(e) < Len(ptr[e]) /\ LengthOf(e) < LINE
         /\ \A i \in 1 .. LengthOf(e) : ptr[e][i] \in Chars
         /\ ptr[e][LengthOf(e) + 1] = "newline"
         /\ \A j \in Newlines(e) : LengthOf(e) + 1 <= j
<1>1. /\ Len(ptr[e]) \in Nat /\ Len(ptr[e]) < LINE /\ LINE \in Nat
      /\ \A i \in 1 .. Len(ptr[e]) : ptr[e][i] \in Chars \cup {"newline"}
  BY EditorAssumption DEF EditorInv, EditorTypeOK, EntriesFit
<1>2. Newlines(e) \subseteq Nat
  BY <1>1 DEF Newlines
<1>3. \E x \in Newlines(e) : \A y \in Newlines(e) : x <= y
  BY <1>2, Least
<1> DEFINE n == CHOOSE i \in Newlines(e) : \A j \in Newlines(e) : i <= j
<1>4. n \in Newlines(e) /\ \A j \in Newlines(e) : n <= j
  BY <1>3
<1>5. LengthOf(e) = n - 1
  BY DEF LengthOf
<1> HIDE DEF n
<1>6. n \in 1 .. Len(ptr[e]) /\ ptr[e][n] = "newline"
  BY <1>4 DEF Newlines
<1>7. \A i \in 1 .. n - 1 : i \in 1 .. Len(ptr[e]) /\ i \notin Newlines(e)
  BY <1>1, <1>2, <1>4, <1>6
<1>8. \A i \in 1 .. n - 1 : ptr[e][i] \in Chars
  BY <1>1, <1>7 DEF Newlines
<1>9. LengthOf(e) + 1 = n
  BY <1>1, <1>5, <1>6
<1> QED BY <1>1, <1>4, <1>5, <1>6, <1>8, <1>9

(***************************************************************************)
(* The keys.                                                               *)
(***************************************************************************)
LEMMA InitialLine == EditorInit => EditorInv
<1> SUFFICES ASSUME EditorInit PROVE EditorInv
  OBVIOUS
<1> USE EditorAssumption DEF EditorInit
<1>1. EditorTypeOK
  BY DEF EditorTypeOK, Blank, Cells, Entries, Characters
<1>2. ColumnsAgree
  <2>1. WIN_WIDTH - 2 \in Nat
    OBVIOUS
  <2>2. (WIN_WIDTH - 2) * 0 = 0
    BY <2>1, Rows
  <2>3. input_y - row = 0
    OBVIOUS
  <2> QED BY <2>2, <2>3 DEF ColumnsAgree
<1>3. BehindTheEndOnlyAfter /\ UndefinedOnlyAtLimits /\ ShownExists
  BY DEF BehindTheEndOnlyAfter, UndefinedOnlyAtLimits, ShownExists
<1>4. TextIsWhole
  BY DEF TextIsWhole, IsText, Blank, Cells
<1>5. EntriesFit
  BY DEF EntriesFit, Entries
<1> QED BY <1>1, <1>2, <1>3, <1>4, <1>5 DEF EditorInv

LEMMA OverrunInv ==
  ASSUME EditorInv, Overrun,
         \/ torn \/ position > endposition
         \/ endposition >= LINE - 1
         \/ latest = HISTORY - 1
         \/ \E e \in 1 .. latest : \/ Len(ptr[e]) >= TEMP
                                   \/ ptr[e] # <<>> /\ ptr[e][1] = "newline"
                                   \/ e \in marked /\ Newlines(e) = {}
  PROVE  EditorInv'
<1> USE DEF Overrun, EditorInv, buffered, screen, browse, past, history
<1>1. EditorTypeOK' /\ ColumnsAgree' /\ BehindTheEndOnlyAfter' /\ ShownExists'
  BY DEF EditorTypeOK, ColumnsAgree, BehindTheEndOnlyAfter, ShownExists
<1>2. TextIsWhole' /\ EntriesFit'
  BY DEF TextIsWhole, IsText, IsEntry, EntriesFit
<1>3. UndefinedOnlyAtLimits'
  BY DEF UndefinedOnlyAtLimits, Newlines
<1> QED BY <1>1, <1>2, <1>3

LEMMA TypeInv ==
  ASSUME EditorInv, NEW c \in Characters, Type(c)
  PROVE  EditorInv'
<1>0. EditorTypeOK /\ ColumnsAgree /\ EntriesFit /\ ShownExists /\ fate = "runs"
  BY DEF EditorInv, Type
<1>1. CASE position \notin Cells
  <2>1. position > endposition \/ endposition >= LINE - 1
    BY <1>0, <1>1, EditorAssumption DEF EditorTypeOK, Cells
  <2> QED BY <1>1, <2>1, OverrunInv DEF Type
<1>2. CASE position \in Cells
  <2>1. /\ line' = [line EXCEPT ![position] = c]
        /\ position' = position + 1
        /\ endposition' = IF position + 1 > endposition THEN endposition + 1 ELSE endposition
        /\ Wrap(input_x + 1)
        /\ torn' = (torn \/ position > endposition)
        /\ UNCHANGED <<counter, accessedhistory, order, latest, ptr, fate, row, marked>>
    BY <1>2 DEF Type, Tear, browse, past, history
  <2>2. /\ ColumnsAgree' /\ input_x' \in 1 .. WIN_WIDTH - 2 /\ input_y' \in Nat
        /\ row' \in 1 .. input_y' /\ input_y' >= input_y
    BY <1>0, <2>1, Rightwards
  <2>3. position' \in 0 .. LINE /\ endposition' \in 0 .. LINE
    BY <1>0, <1>2, <2>1, EditorAssumption DEF EditorTypeOK, Cells
  <2>4. line' \in [Cells -> Characters] /\ torn' \in BOOLEAN
    BY <1>0, <2>1 DEF EditorTypeOK
  <2>5. EditorTypeOK'
    BY <1>0, <2>1, <2>2, <2>3, <2>4 DEF EditorTypeOK
  <2>6. BehindTheEndOnlyAfter'
    <3>1. BehindTheEndOnlyAfter
      BY DEF EditorInv
    <3> QED BY <1>0, <2>1, <2>2, <3>1 DEF BehindTheEndOnlyAfter, EditorTypeOK
  <2>7. TextIsWhole'
    <3>1. TextIsWhole
      BY DEF EditorInv
    <3>2. ~torn' => IsText(line, endposition) /\ position <= endposition
      <4>1. ~torn' => ~torn /\ ~(position > endposition)
        BY <2>1
      <4>2. ~(position > endposition) => position <= endposition
        BY <1>0, EditorAssumption DEF EditorTypeOK
      <4> QED BY <3>1, <4>1, <4>2 DEF TextIsWhole
    <3>3. ASSUME ~torn' PROVE IsText(line', endposition')
      <4>1. \A i \in Cells : line'[i] = IF i = position THEN c ELSE line[i]
        BY <1>0, <2>1 DEF EditorTypeOK
      <4>2. \A i \in Cells : i < endposition' <=> i < endposition \/ i = position
        BY <1>0, <2>1, <3>2, <3>3, EditorAssumption DEF EditorTypeOK, Cells
      <4> QED BY <3>2, <3>3, <4>1, <4>2 DEF IsText
    <3> QED BY <2>1, <3>1, <3>3 DEF TextIsWhole
  <2>8. EntriesFit' /\ ShownExists' /\ UndefinedOnlyAtLimits'
    BY <1>0, <2>1 DEF EntriesFit, ShownExists, UndefinedOnlyAtLimits, Newlines
  <2> QED BY <2>2, <2>5, <2>6, <2>7, <2>8 DEF EditorInv
<1> QED BY <1>1, <1>2

LEMMA LeftInv ==
  ASSUME EditorInv, Left
  PROVE  EditorInv'
<1>0. EditorTypeOK /\ ColumnsAgree /\ fate = "runs"
  BY DEF EditorInv, Left
<1>1. /\ position' = position - 1 /\ input_x # 1 /\ Wrap(input_x - 1)
      /\ UNCHANGED <<line, endposition, counter, accessedhistory, order, latest, ptr,
                     fate, row, torn, marked>>
  BY DEF Left, browse, past, history
<1>2. /\ ColumnsAgree' /\ position >= 1 /\ input_x' \in 1 .. WIN_WIDTH - 2
      /\ input_y' = input_y
  BY <1>0, <1>1, Leftwards
<1>3. EditorTypeOK'
  BY <1>0, <1>1, <1>2, EditorAssumption DEF EditorTypeOK
<1>4. BehindTheEndOnlyAfter'
  BY <1>0, <1>1, <1>2 DEF EditorInv, BehindTheEndOnlyAfter, EditorTypeOK
<1>5. TextIsWhole' /\ EntriesFit' /\ ShownExists'
  BY <1>1 DEF EditorInv, TextIsWhole, IsText, IsEntry, EntriesFit, ShownExists
<1>6. UndefinedOnlyAtLimits'
  BY <1>0, <1>1 DEF UndefinedOnlyAtLimits, Newlines
<1> QED BY <1>2, <1>3, <1>4, <1>5, <1>6 DEF EditorInv

LEMMA RightInv ==
  ASSUME EditorInv, Right
  PROVE  EditorInv'
<1>0. EditorTypeOK /\ ColumnsAgree /\ BehindTheEndOnlyAfter /\ fate = "runs"
  BY DEF EditorInv, Right
<1>1. /\ position' = position + 1 /\ Wrap(input_x + 1)
      /\ input_x # endposition + 1 /\ position < LINE
      /\ UNCHANGED <<line, endposition, counter, accessedhistory, order, latest, ptr,
                     fate, row, torn, marked>>
  BY DEF Right, AtLineEnd, browse, past, history
<1>2. /\ ColumnsAgree' /\ input_x' \in 1 .. WIN_WIDTH - 2 /\ input_y' \in Nat
      /\ row' \in 1 .. input_y' /\ input_y' >= input_y
  BY <1>0, <1>1, Rightwards
<1>3. EditorTypeOK'
  BY <1>0, <1>1, <1>2, EditorAssumption DEF EditorTypeOK
<1>4. BehindTheEndOnlyAfter'
  <2> SUFFICES ASSUME position + 1 > endposition, ~accessedhistory PROVE input_y' > row
    BY <1>1 DEF BehindTheEndOnlyAfter
  <2>1. input_y > row \/ (input_y = row /\ position = input_x - 1)
    BY <1>0, Place DEF EditorTypeOK
  <2>2. CASE input_y > row
    BY <1>0, <1>2, <2>2 DEF EditorTypeOK
  <2>3. CASE input_y = row /\ position = input_x - 1
    BY <1>0, <1>1, <2>3 DEF BehindTheEndOnlyAfter, EditorTypeOK
  <2> QED BY <2>1, <2>2, <2>3
<1>5. TextIsWhole' /\ EntriesFit' /\ ShownExists'
  BY <1>1 DEF EditorInv, TextIsWhole, IsText, IsEntry, EntriesFit, ShownExists
<1>6. UndefinedOnlyAtLimits'
  BY <1>0, <1>1 DEF UndefinedOnlyAtLimits, Newlines
<1> QED BY <1>2, <1>3, <1>4, <1>5, <1>6 DEF EditorInv

LEMMA BackspaceInv ==
  ASSUME EditorInv, Backspace
  PROVE  EditorInv'
<1>0. EditorTypeOK /\ ColumnsAgree /\ fate = "runs" /\ input_x # 1
  BY DEF EditorInv, Backspace
<1>1. CASE endposition = 0 \/ endposition > LINE - 1
  <2>1. position >= 1
    BY <1>0, Place, EditorAssumption DEF EditorTypeOK
  <2>2. position > endposition \/ endposition >= LINE - 1
    BY <1>0, <1>1, <2>1, EditorAssumption DEF EditorTypeOK
  <2> QED BY <1>1, <2>2, OverrunInv DEF Backspace
<1>2. CASE ~(endposition = 0 \/ endposition > LINE - 1)
  <2>1. /\ line' = Deleted /\ position' = position - 1 /\ endposition' = endposition - 1
        /\ Wrap(input_x - 1)
        /\ torn' = (torn \/ position > endposition)
        /\ UNCHANGED <<counter, accessedhistory, order, latest, ptr, fate, row, marked>>
    BY <1>2 DEF Backspace, Tear, browse, past, history
  <2>2. /\ ColumnsAgree' /\ position >= 1 /\ input_x' \in 1 .. WIN_WIDTH - 2
        /\ input_y' = input_y
    BY <1>0, <2>1, Leftwards
  <2>3. endposition \in 1 .. LINE - 1 /\ position \in 1 .. LINE /\ LINE \in Nat
    BY <1>0, <1>2, <2>2, EditorAssumption DEF EditorTypeOK
  <2>4. \A i \in Cells : line'[i] = IF i = endposition - 1 THEN "nul"
                          ELSE IF i \in position - 1 .. endposition - 1 THEN line[i + 1]
                          ELSE line[i]
    BY <2>1 DEF Deleted
  <2>5. \A i \in Cells : i \in position - 1 .. endposition - 1 /\ i # endposition - 1
                         => i + 1 \in Cells /\ i + 1 < endposition
    BY <2>3 DEF Cells
  <2>6. line' \in [Cells -> Characters]
    <3>1. \A i \in Cells : line'[i] \in Characters
      BY <1>0, <2>4, <2>5 DEF EditorTypeOK, Characters
    <3> QED BY <2>1, <3>1 DEF Deleted
  <2>7. EditorTypeOK'
    BY <1>0, <2>1, <2>2, <2>3, <2>6 DEF EditorTypeOK
  <2>8. BehindTheEndOnlyAfter'
    BY <1>0, <2>1, <2>2, <2>3 DEF EditorInv, BehindTheEndOnlyAfter
  <2>9. TextIsWhole'
    <3>1. TextIsWhole
      BY DEF EditorInv
    <3>2. ASSUME ~torn' PROVE IsText(line', endposition')
      <4>1. ~torn /\ position <= endposition
        <5>1. ~torn /\ ~(position > endposition)
          BY <2>1, <3>2
        <5> QED BY <2>3, <5>1
      <4>2. IsText(line, endposition)
        BY <3>1, <4>1 DEF TextIsWhole
      <4> SUFFICES ASSUME NEW i \in Cells
                   PROVE  i < endposition - 1 \/ line'[i] = "nul"
        BY <2>1 DEF IsText
      <4>3. i \in Nat
        BY EditorAssumption DEF Cells
      <4>5. CASE i = endposition - 1
        BY <2>3, <2>4, <4>3, <4>5
      <4>6. CASE i > endposition - 1
        <5>1. i \notin position - 1 .. endposition - 1 /\ i # endposition - 1 /\ ~(i < endposition)
          BY <2>3, <4>3, <4>6
        <5>2. line'[i] = line[i] /\ line[i] = "nul"
          BY <2>4, <4>2, <5>1 DEF IsText
        <5> QED BY <2>3, <4>3, <4>6, <5>2
      <4> QED BY <2>3, <4>3, <4>5, <4>6
    <3> QED BY <2>1, <3>1, <3>2 DEF TextIsWhole
  <2>10. EntriesFit' /\ ShownExists' /\ UndefinedOnlyAtLimits'
    BY <1>0, <2>1 DEF EditorInv, EntriesFit, ShownExists, UndefinedOnlyAtLimits, Newlines
  <2> QED BY <2>2, <2>7, <2>8, <2>9, <2>10 DEF EditorInv
<1> QED BY <1>1, <1>2

LEMMA RecallInv ==
  ASSUME EditorInv, fate = "runs", NEW e \in 1 .. latest, Recall(e)
  PROVE  EditorInv'
<1>0. EditorTypeOK /\ e \in Entries /\ e \in Nat /\ latest \in Nat
  BY EditorAssumption DEF EditorInv, EditorTypeOK, Entries
<1>1. e \notin marked => IsEntry(ptr[e])
  BY DEF EditorInv, TextIsWhole
<1>2. ptr[e] \in Seq(Characters)
  BY <1>0 DEF EditorTypeOK
<1>3. CASE Newlines(e) = {}
  <2>1. e \in marked
    <3> SUFFICES ASSUME e \notin marked PROVE FALSE
      OBVIOUS
    <3>1. ptr[e] # <<>> /\ ptr[e][Len(ptr[e])] = "newline"
      BY <1>1 DEF IsEntry
    <3>2. Len(ptr[e]) \in 1 .. Len(ptr[e])
      BY <1>2, <3>1
    <3> QED BY <1>3, <3>1, <3>2 DEF Newlines
  <2> QED BY <1>3, <2>1, OverrunInv DEF Recall
<1>4. CASE Newlines(e) # {} /\ LengthOf(e) = 0 /\ Overrun
  <2>1. ptr[e] # <<>> /\ ptr[e][1] = "newline"
    <3>1. LengthOf(e) < Len(ptr[e]) /\ ptr[e][LengthOf(e) + 1] = "newline"
      BY <1>0, <1>4, FirstNewline
    <3>2. LengthOf(e) + 1 = 1
      BY <1>4
    <3> QED BY <1>2, <1>4, <3>1, <3>2
  <2> QED BY <1>4, <2>1, OverrunInv
<1>5. CASE Newlines(e) # {} /\ ~(LengthOf(e) = 0 /\ Overrun)
  <2> DEFINE n == LengthOf(e)
  <2>1. /\ line' = [i \in Cells |-> IF i < n THEN ptr[e][i + 1] ELSE "nul"]
        /\ endposition' = n /\ counter' = e /\ accessedhistory' = TRUE /\ torn' = FALSE
        /\ UNCHANGED <<position, input_x, input_y, order, latest, ptr, fate, row, marked>>
    BY <1>5 DEF Recall, screen, past, history
  <2>2. n \in Nat /\ n < LINE /\ LINE \in Nat /\ \A i \in 1 .. n : ptr[e][i] \in Chars
    BY <1>0, <1>5, FirstNewline, EditorAssumption
  <2> HIDE DEF n
  <2>3. \A i \in Cells : line'[i] \in Characters /\ (i < n \/ line'[i] = "nul")
    <3>1. \A i \in Cells : i < n => i + 1 \in 1 .. n
      BY <2>2 DEF Cells
    <3> QED BY <2>1, <2>2, <3>1 DEF Characters
  <2>4. line' \in [Cells -> Characters]
    BY <2>1, <2>3
  <2>5. EditorTypeOK'
    <3>1. endposition' \in 0 .. LINE /\ counter' \in 0 .. latest' /\ e \in Nat
      BY <1>0, <2>1, <2>2
    <3>2. accessedhistory' \in BOOLEAN /\ torn' \in BOOLEAN
      BY <2>1
    <3> QED BY <1>0, <2>1, <2>4, <3>1, <3>2 DEF EditorTypeOK
  <2>6. ColumnsAgree' /\ BehindTheEndOnlyAfter' /\ ShownExists'
    BY <1>0, <2>1 DEF EditorInv, ColumnsAgree, BehindTheEndOnlyAfter, ShownExists
  <2>7. TextIsWhole'
    BY <2>1, <2>3 DEF EditorInv, TextIsWhole, IsText, IsEntry
  <2>8. EntriesFit' /\ UndefinedOnlyAtLimits'
    BY <2>1 DEF EditorInv, EntriesFit, UndefinedOnlyAtLimits, Newlines
  <2> QED BY <2>5, <2>6, <2>7, <2>8 DEF EditorInv
<1> QED BY <1>3, <1>4, <1>5

LEMMA HistoryKeysInv ==
  ASSUME EditorInv, Up \/ Down
  PROVE  EditorInv'
<1>0. /\ fate = "runs" /\ order = latest /\ latest \in Nat /\ counter \in 0 .. latest
      /\ IF accessedhistory THEN counter >= 1 ELSE counter = latest
  BY EditorAssumption DEF EditorInv, EditorTypeOK, ShownExists, Up, Down, Entries
<1>1. CASE Up
  <2> DEFINE e == IF accessedhistory /\ order # 1 THEN counter - 1 ELSE counter
  <2>1. e \in 1 .. latest
    BY <1>0, <1>1 DEF Up
  <2>2. Recall(e)
    BY <1>1 DEF Up
  <2> QED BY <1>0, <2>1, <2>2, RecallInv
<1>2. CASE Down
  <2>1. counter + 1 \in 1 .. latest /\ Recall(counter + 1)
    BY <1>0, <1>2 DEF Down
  <2> QED BY <1>0, <2>1, RecallInv
<1> QED BY <1>1, <1>2

(* A whole line without a terminator, entered, ends in its newline. *)
CopyOf(s, l, n) == \A i \in 1 .. n : s[i] = l[i - 1]

LEMMA WholeEntry ==
  ASSUME NEW l \in [Cells -> Characters], NEW n \in Cells, IsText(l, n),
         \A i \in 0 .. n - 1 : l[i] # "nul",
         NEW full, full = [l EXCEPT ![n] = "newline"], Nuls(full) # {}
  PROVE  /\ StringOf(full) \in Seq(Characters) /\ Len(StringOf(full)) = n + 1
         /\ CopyOf(StringOf(full), full, n + 1)
         /\ IsEntry(StringOf(full))
<1>0. n \in Nat /\ n < LINE /\ full \in [Cells -> Characters]
  BY EditorAssumption DEF Cells, Characters
<1>1. \A i \in Cells : full[i] = IF i = n THEN "newline" ELSE l[i]
  OBVIOUS
<1>2. \A i \in Cells : full[i] = "nul" <=> i > n
  <2> SUFFICES ASSUME NEW i \in Cells PROVE full[i] = "nul" <=> i > n
    OBVIOUS
  <2>0. i \in Nat
    BY EditorAssumption DEF Cells
  <2>1. CASE i < n
    BY <1>0, <1>1, <2>0, <2>1
  <2>2. CASE i = n
    BY <1>0, <1>1, <2>2
  <2>3. CASE i > n
    BY <1>0, <1>1, <2>0, <2>3 DEF IsText
  <2> QED BY <1>0, <2>0, <2>1, <2>2, <2>3
<1>3. PICK k \in Cells : /\ full[k] = "nul" /\ \A i \in 0 .. k - 1 : full[i] # "nul"
                         /\ StringOf(full) = [i \in 1 .. k |-> full[i - 1]]
  BY <1>0, Strings
<1>4. k = n + 1
  <2>1. k > n /\ k \in Nat
    BY <1>2, <1>3, EditorAssumption DEF Cells
  <2>2. n + 1 \in Cells
    BY <1>0, <1>3, <2>1, EditorAssumption DEF Cells
  <2>3. full[n + 1] = "nul"
    BY <1>0, <1>2, <2>2
  <2>4. ~(n + 1 \in 0 .. k - 1)
    BY <1>3, <2>3
  <2> QED BY <1>0, <2>1, <2>4
<1>5. \A i \in 1 .. n + 1 : i - 1 \in Cells
  BY <1>0, EditorAssumption DEF Cells
<1>6. \A i \in 1 .. n + 1 : full[i - 1] \in Characters
  BY <1>0, <1>5
<1>7. StringOf(full) \in Seq(Characters) /\ Len(StringOf(full)) = n + 1
  BY <1>0, <1>3, <1>4, <1>6
<1>8. \A i \in 1 .. n + 1 : StringOf(full)[i] = full[i - 1]
  BY <1>3, <1>4
<1>9. IsEntry(StringOf(full))
  <2>1. n + 1 \in 1 .. n + 1 /\ (n + 1) - 1 = n
    BY <1>0
  <2>2. StringOf(full)[n + 1] = "newline"
    BY <1>1, <1>8, <2>1
  <2>3. StringOf(full) # <<>>
    BY <1>0, <1>7
  <2> QED BY <1>7, <2>2, <2>3 DEF IsEntry
<1> QED BY <1>7, <1>8, <1>9 DEF CopyOf

LEMMA EnterInv ==
  ASSUME EditorInv, NEW shown \in BOOLEAN, Enter(shown)
  PROVE  EditorInv'
<1> DEFINE full  == [line EXCEPT ![endposition] = "newline"]
           entry == StringOf(full)
           stops == endposition \notin Cells \/ Nuls(full) = {} \/ latest + 1 \notin Entries
<1>0. EditorTypeOK /\ fate = "runs" /\ latest \in Nat
  BY EditorAssumption, SMTT(30) DEF EditorInv, EditorTypeOK, Entries, Enter
<1>1. CASE stops
  <2>1. Overrun
    BY <1>1 DEF Enter
  <2>2. CASE endposition \notin Cells
    BY <1>0, <2>1, <2>2, OverrunInv, EditorAssumption DEF EditorTypeOK, Cells
  <2>3. CASE endposition \in Cells /\ Nuls(full) = {}
    <3>1. torn \/ endposition >= LINE - 1
      <4> SUFFICES ASSUME ~torn, endposition < LINE - 1 PROVE FALSE
        BY <1>0, EditorAssumption DEF EditorTypeOK
      <4>1. endposition + 1 \in Cells /\ endposition \in Nat
        BY <1>0, EditorAssumption DEF EditorTypeOK, Cells
      <4>2. line[endposition + 1] = "nul"
        BY <4>1 DEF EditorInv, TextIsWhole, IsText
      <4>3. full[endposition + 1] = "nul"
        BY <1>0, <4>1, <4>2 DEF EditorTypeOK
      <4> QED BY <2>3, <4>1, <4>3 DEF Nuls
    <3> QED BY <2>1, <3>1, OverrunInv
  <2>4. CASE latest + 1 \notin Entries
    <3>1. latest = HISTORY - 1
      BY <1>0, <2>4, EditorAssumption DEF EditorTypeOK, Entries
    <3> QED BY <2>1, <3>1, OverrunInv
  <2> QED BY <1>1, <2>2, <2>3, <2>4
<1>2. CASE ~stops
  <2>1. /\ latest' = latest + 1
        /\ ptr' = [ptr EXCEPT ![latest + 1] = entry]
        /\ marked' = IF torn \/ HoldsTerminator THEN marked \cup {latest + 1} ELSE marked
        /\ fate' = Entered(shown, entry)
        /\ order' = order + 1
        /\ line' = Blank /\ position' = 0 /\ endposition' = 0 /\ torn' = FALSE
        /\ counter' = order' /\ accessedhistory' = FALSE
        /\ input_x' = 1 /\ input_y' = input_y /\ row' = input_y
    BY <1>2 DEF Enter, Fresh
  <2>2. /\ endposition \in Cells /\ Nuls(full) # {} /\ latest + 1 \in Entries
        /\ full \in [Cells -> Characters] /\ line \in [Cells -> Characters]
    BY <1>0, <1>2 DEF EditorTypeOK, Characters
  <2>3. /\ entry \in Seq(Characters) /\ Len(entry) < LINE
        /\ \A i \in 1 .. Len(entry) : entry[i] \in Chars \cup {"newline"}
    BY <2>2, EntryOf
  <2>4. ~torn /\ ~HoldsTerminator => IsEntry(entry)
    <3>1. ~torn => IsText(line, endposition)
      BY DEF EditorInv, TextIsWhole
    <3>0. ~HoldsTerminator => \A i \in 0 .. endposition - 1 : line[i] # "nul"
      BY DEF HoldsTerminator
    <3> HIDE DEF full
    <3>2. full = [line EXCEPT ![endposition] = "newline"]
      BY DEF full
    <3> QED BY <2>2, <3>0, <3>1, <3>2, WholeEntry
  <2> HIDE DEF entry
  <2>5. \A e \in Entries : ptr'[e] = IF e = latest + 1 THEN entry ELSE ptr[e]
    BY <1>0, <2>1 DEF EditorTypeOK
  <2>6. EditorTypeOK'
    <3>1. line' \in [Cells -> Characters]
      BY <2>1 DEF Blank, Characters
    <3>2. ptr' \in [Entries -> Seq(Characters)]
      BY <1>0, <2>1, <2>3 DEF EditorTypeOK
    <3>3. \A e \in Entries \ (1 .. latest') : ptr'[e] = <<>>
      BY <1>0, <2>1, <2>2, <2>5 DEF EditorTypeOK
    <3>4. fate' \in {"runs", "crashed", "undefined"}
      BY <2>1 DEF Entered
    <3>5. marked' \subseteq 1 .. latest'
      BY <1>0, <2>1 DEF EditorTypeOK
    <3>6. latest' \in Entries /\ order' = latest' /\ counter' \in 0 .. latest'
      BY <1>0, <2>1, <2>2 DEF EditorTypeOK
    <3>7. /\ position' \in 0 .. LINE /\ endposition' \in 0 .. LINE /\ input_x' \in 1 .. WIN_WIDTH - 2
          /\ input_y' \in Nat /\ row' \in 1 .. input_y'
      BY <1>0, <2>1, EditorAssumption DEF EditorTypeOK
    <3> QED BY <2>1, <3>1, <3>2, <3>3, <3>4, <3>5, <3>6, <3>7 DEF EditorTypeOK
  <2>7. ColumnsAgree'
    <3>1. WIN_WIDTH - 2 \in Nat /\ input_y' - row' = 0
      BY <1>0, <2>1, EditorAssumption DEF EditorTypeOK
    <3>2. (WIN_WIDTH - 2) * 0 = 0
      BY <3>1, Rows
    <3> QED BY <2>1, <3>1, <3>2 DEF ColumnsAgree
  <2>8. BehindTheEndOnlyAfter' /\ ShownExists'
    BY <1>0, <2>1 DEF BehindTheEndOnlyAfter, ShownExists, EditorTypeOK
  <2>9. \A e \in (1 .. latest') \ marked' :
          \/ e = latest + 1 /\ ~torn /\ ~HoldsTerminator
          \/ e \in (1 .. latest) \ marked /\ e # latest + 1
    BY <1>0, <2>1
  <2>10. \A e \in 1 .. latest' : e \in Entries
    BY <1>0, <2>1, <2>2, EditorAssumption DEF Entries
  <2>11. TextIsWhole'
    <3>1. IsText(line', endposition')
      BY <2>1, EditorAssumption DEF IsText, Blank, Cells
    <3>2. \A e \in (1 .. latest') \ marked' : IsEntry(ptr'[e])
      BY <2>4, <2>5, <2>9, <2>10 DEF EditorInv, TextIsWhole
    <3> QED BY <3>1, <3>2 DEF TextIsWhole, IsEntry
  <2>12. EntriesFit'
    BY <2>3, <2>4, <2>5, <2>9, <2>10 DEF EditorInv, EntriesFit
  <2>13. UndefinedOnlyAtLimits'
    <3> SUFFICES ASSUME fate' = "undefined" PROVE \E e \in 1 .. latest' : Len(ptr'[e]) >= TEMP
      BY DEF UndefinedOnlyAtLimits, Newlines
    <3>1. Len(entry) >= TEMP
      BY <2>1 DEF Entered
    <3> QED BY <1>0, <2>1, <2>2, <2>5, <3>1
  <2> QED BY <2>6, <2>7, <2>8, <2>11, <2>12, <2>13 DEF EditorInv
<1> QED BY <1>1, <1>2

(***************************************************************************)
(* The theorems.                                                           *)
(***************************************************************************)
(* The editor keeps its invariant, key by key.                              *)
THEOREM EditorInvHolds == EditorSpec => []EditorInv
<1>1. EditorInv /\ [EditorNext]_editorVars => EditorInv'
  <2> SUFFICES ASSUME EditorInv, [EditorNext]_editorVars PROVE EditorInv'
    OBVIOUS
  <2>1. ASSUME NEW c \in Characters, Type(c) PROVE EditorInv'
    BY <2>1, TypeInv
  <2>2. CASE Left \/ Right
    BY <2>2, LeftInv, RightInv
  <2>3. CASE Backspace
    BY <2>3, BackspaceInv
  <2>4. CASE Up \/ Down
    BY <2>4, HistoryKeysInv
  <2>5. ASSUME NEW shown \in BOOLEAN, Enter(shown) PROVE EditorInv'
    BY <2>5, EnterInv
  <2>6. CASE UNCHANGED editorVars
    <3> USE <2>6 DEF EditorInv, editorVars, buffered, screen, browse, past, history
    <3>1. EditorTypeOK' /\ ColumnsAgree' /\ BehindTheEndOnlyAfter' /\ ShownExists'
      BY DEF EditorTypeOK, ColumnsAgree, BehindTheEndOnlyAfter, ShownExists
    <3>2. TextIsWhole' /\ EntriesFit' /\ UndefinedOnlyAtLimits'
      BY DEF TextIsWhole, IsText, IsEntry, EntriesFit, UndefinedOnlyAtLimits, Newlines
    <3> QED BY <3>1, <3>2
  <2> QED BY <2>1, <2>2, <2>3, <2>4, <2>5, <2>6 DEF EditorNext
<1> QED BY <1>1, InitialLine, PTL DEF EditorSpec

(* The cursor on the screen stands where the code writes into the line,     *)
(* however the line wraps and whatever is deleted or shown (dsh_main.c      *)
(* 132-135, 148-243).                                                       *)
THEOREM CursorStandsRight == EditorSpec => []ColumnsAgree
BY EditorInvHolds, PTL DEF EditorInv

(* Until the editor has left its arrays, position, endposition and the      *)
(* entries are within them.                                                 *)
THEOREM EditorTypeCorrect == EditorSpec => []EditorTypeOK
BY EditorInvHolds, PTL DEF EditorInv

(* A line that was not changed behind its end is clear there, and the entry *)
(* it becomes ends in its newline, unless a terminator was typed into it.   *)
THEOREM LinesAreWhole == EditorSpec => []TextIsWhole
BY EditorInvHolds, PTL DEF EditorInv

(* The cursor is behind the end only in a wrapped line or a shown entry.    *)
THEOREM BehindTheEndExplained == EditorSpec => []BehindTheEndOnlyAfter
BY EditorInvHolds, PTL DEF EditorInv

(* The editor leaves its arrays only in the cases UndefinedOnlyAtLimits     *)
(* lists: lines that fit, have something before their first newline and     *)
(* hold no terminator, typed and entered in the usual way, are in none.     *)
THEOREM OverrunExplained == EditorSpec => []UndefinedOnlyAtLimits
BY EditorInvHolds, PTL DEF EditorInv

(***************************************************************************)
(* Refinement: the keys are steps of Line.                                 *)
(***************************************************************************)
pastLine  == [e \in 1 .. latest |-> Entry(e)]
shownLine == IF accessedhistory THEN counter ELSE 0

LEMMA TextIs ==
  ASSUME NEW l \in [Cells -> Characters], NEW n \in 0 .. LINE, IsText(l, n),
         NEW t, t = [i \in 1 .. n |-> l[i - 1]]
  PROVE  /\ t \in Seq(Characters) /\ Len(t) = n /\ n \in Nat
         /\ \A i \in 1 .. n : t[i] = l[i - 1]
<1>1. n \in Nat /\ n <= LINE /\ LINE \in Nat
  BY EditorAssumption
<1>2. \A i \in 1 .. n : i - 1 \in Cells /\ i - 1 < n
  BY <1>1 DEF Cells
<1>3. \A i \in 1 .. n : l[i - 1] \in Characters
  BY <1>1, <1>2
<1> QED BY <1>1, <1>3

LEMMA TextNow ==
  ASSUME EditorInv, ~torn
  PROVE  /\ Text \in Seq(Characters) /\ Len(Text) = endposition /\ endposition \in Nat
         /\ \A i \in 1 .. endposition : Text[i] = line[i - 1]
<1>1. /\ line \in [Cells -> Characters] /\ endposition \in 0 .. LINE
      /\ IsText(line, endposition)
  BY DEF EditorInv, EditorTypeOK, TextIsWhole
<1>2. Text = [i \in 1 .. endposition |-> line[i - 1]]
  BY DEF Text
<1> QED BY <1>1, <1>2, TextIs

LEMMA TextThen ==
  ASSUME EditorInv', ~torn'
  PROVE  /\ Text' \in Seq(Characters) /\ Len(Text') = endposition' /\ endposition' \in Nat
         /\ \A i \in 1 .. endposition' : Text'[i] = line'[i - 1]
<1>1. /\ line' \in [Cells -> Characters] /\ endposition' \in 0 .. LINE
      /\ IsText(line', endposition')
  BY DEF EditorInv, EditorTypeOK, TextIsWhole, IsText
<1>2. Text' = [i \in 1 .. endposition' |-> line'[i - 1]]
  BY DEF Text
<1> QED BY <1>1, <1>2, TextIs

LEMMA LostText == torn => Text = <<>>
BY DEF Text

(* One element less. *)
LEMMA Without ==
  ASSUME NEW S, NEW s \in Seq(S), NEW p \in 1 .. Len(s), NEW t \in Seq(S),
         Len(t) = Len(s) - 1,
         \A i \in 1 .. Len(s) - 1 : t[i] = IF i < p THEN s[i] ELSE s[i + 1]
  PROVE  t = SubSeq(s, 1, p - 1) \o SubSeq(s, p + 1, Len(s))
<1> DEFINE left  == SubSeq(s, 1, p - 1)
           right == SubSeq(s, p + 1, Len(s))
<1>0. Len(s) \in Nat /\ p \in Nat
  OBVIOUS
<1>1. left \in Seq(S) /\ Len(left) = p - 1 /\ \A i \in 1 .. p - 1 : left[i] = s[i]
  BY <1>0
<1>2. /\ right \in Seq(S) /\ Len(right) = Len(s) - p
      /\ \A i \in 1 .. Len(s) - p : right[i] = s[p + i]
  BY <1>0
<1> HIDE DEF left, right
<1>3. left \o right \in Seq(S) /\ Len(left \o right) = Len(s) - 1
  BY <1>0, <1>1, <1>2
<1>4. ASSUME NEW i \in 1 .. Len(s) - 1 PROVE (left \o right)[i] = t[i]
  <2>1. CASE i < p
    BY <1>0, <1>1, <1>2, <2>1
  <2>2. CASE ~(i < p)
    <3>1. (left \o right)[i] = right[i - (p - 1)]
      BY <1>0, <1>1, <1>2, <2>2
    <3>2. i - (p - 1) \in 1 .. Len(s) - p /\ p + (i - (p - 1)) = i + 1
      BY <1>0, <2>2
    <3>3. right[i - (p - 1)] = s[i + 1]
      BY <1>2, <3>2
    <3> QED BY <2>2, <3>1, <3>3
  <2> QED BY <2>1, <2>2
<1>5. t = left \o right
  BY <1>0, <1>3, <1>4, SeqEqual
<1> QED BY <1>5 DEF left, right

LEMMA PastStays ==
  ASSUME UNCHANGED <<latest, ptr, marked>>
  PROVE  pastLine' = pastLine
BY DEF pastLine, Entry

LEMMA RefInit == EditorInit => TheLine!Init
<1> SUFFICES ASSUME EditorInit PROVE TheLine!Init
  OBVIOUS
<1>1. Text = <<>> /\ pastLine = <<>>
  BY DEF EditorInit, Text, pastLine
<1> QED BY <1>1 DEF EditorInit, TheLine!Init, pastLine

LEMMA RefOverrun == ASSUME fate = "runs", Overrun PROVE TheLine!Next
<1>1. /\ fate' = "undefined"
      /\ UNCHANGED <<line, position, endposition, counter, accessedhistory, latest, ptr, torn, marked>>
  BY DEF Overrun, buffered, browse, past, history
<1>2. Text' = Text /\ pastLine' = pastLine
  BY <1>1, PastStays DEF Text
<1>3. TheLine!Halt
  BY <1>1, <1>2 DEF TheLine!Halt, pastLine
<1> QED BY <1>3 DEF TheLine!Next

LEMMA RefType ==
  ASSUME EditorInv, EditorInv', NEW c \in Characters, Type(c), position \in Cells
  PROVE  TheLine!Next
<1>1. /\ line' = [line EXCEPT ![position] = c]
      /\ position' = position + 1
      /\ endposition' = IF position + 1 > endposition THEN endposition + 1 ELSE endposition
      /\ torn' = (torn \/ position > endposition)
      /\ fate = "runs"
      /\ UNCHANGED <<counter, accessedhistory, order, latest, ptr, fate, row, marked>>
  BY DEF Type, Tear, browse, past, history
<1>2. pastLine' = pastLine
  BY <1>1, PastStays
<1>3. /\ position \in Nat /\ endposition \in Nat /\ torn \in BOOLEAN
      /\ line \in [Cells -> Characters]
  BY EditorAssumption DEF EditorInv, EditorTypeOK
<1>4. CASE torn \/ position > endposition
  <2>1. torn' = TRUE
    BY <1>1, <1>4
  <2>2. torn \/ position > Len(Text)
    BY <1>4, TextNow
  <2>3. position' \in {position - 1, position + 1} \cap Nat
    BY <1>1, <1>3
  <2>4. TheLine!Lose
    BY <1>1, <1>2, <2>1, <2>2, <2>3 DEF TheLine!Lose, pastLine
  <2> QED BY <1>1, <2>4 DEF TheLine!Next
<1>5. CASE ~torn /\ ~(position > endposition)
  <2>0. torn = FALSE /\ torn' = FALSE
    BY <1>1, <1>3, <1>5
  <2>1. ~torn' /\ position <= endposition
    BY <1>1, <1>3, <1>5
  <2>2. /\ Text \in Seq(Characters) /\ Len(Text) = endposition
        /\ \A i \in 1 .. endposition : Text[i] = line[i - 1]
    BY <1>5, TextNow
  <2>3. /\ Text' \in Seq(Characters) /\ Len(Text') = endposition' /\ endposition' \in Nat
        /\ \A i \in 1 .. endposition' : Text'[i] = line'[i - 1]
    BY <2>1, TextThen
  <2>4. \A i \in 1 .. endposition' : /\ i - 1 \in Cells
                                     /\ i - 1 = position <=> i = position + 1
    BY <1>1, <1>3, <2>3, EditorAssumption DEF Cells, EditorInv, EditorTypeOK
  <2>5. \A i \in 1 .. endposition' : Text'[i] = IF i = position + 1 THEN c ELSE line[i - 1]
    BY <1>1, <1>3, <2>3, <2>4
  <2>6. CASE position < endposition
    <3>1. endposition' = endposition /\ position + 1 \in 1 .. endposition
      BY <1>1, <1>3, <2>6
    <3> DEFINE t == [Text EXCEPT ![position + 1] = c]
    <3>2. /\ t \in Seq(Characters) /\ Len(t) = endposition
          /\ \A i \in 1 .. endposition : t[i] = IF i = position + 1 THEN c ELSE Text[i]
      BY <2>2, <3>1, ExceptSeq
    <3> HIDE DEF t
    <3>3. Text' = t
      BY <2>2, <2>3, <2>5, <3>1, <3>2, SeqEqual, SMTT(30)
    <3>4. TheLine!Overwrite(c)
      BY <1>1, <2>2, <2>6, <3>3 DEF TheLine!Overwrite, t
    <3> QED BY <1>1, <1>2, <2>0, <2>1, <2>2, <3>4 DEF TheLine!Edit, TheLine!Next, pastLine
  <2>7. CASE position = endposition
    <3>1. endposition' = endposition + 1
      BY <1>1, <1>3, <2>7
    <3> DEFINE t == Append(Text, c)
    <3>2. /\ t \in Seq(Characters) /\ Len(t) = endposition + 1
          /\ \A i \in 1 .. endposition + 1 : t[i] = IF i = endposition + 1 THEN c ELSE Text[i]
      BY <1>3, <2>2, AppendProperties
    <3> HIDE DEF t
    <3>3. \A i \in 1 .. endposition + 1 : t[i] = Text'[i]
      BY <1>3, <2>2, <2>5, <2>7, <3>1, <3>2
    <3>4. Text' = t
      BY <2>3, <3>1, <3>2, <3>3, SeqEqual
    <3>5. TheLine!Overwrite(c)
      BY <1>1, <1>3, <2>2, <2>7, <3>4 DEF TheLine!Overwrite, t
    <3> QED BY <1>1, <1>2, <2>0, <2>1, <2>2, <3>5 DEF TheLine!Edit, TheLine!Next, pastLine
  <2> QED BY <1>3, <2>1, <2>6, <2>7
<1> QED BY <1>3, <1>4, <1>5

LEMMA RefMove ==
  ASSUME EditorInv, Left \/ Right
  PROVE  TheLine!Next
<1>1. /\ UNCHANGED <<line, endposition, torn, latest, ptr, marked, counter, accessedhistory, fate>>
      /\ fate = "runs"
  BY DEF Left, Right, browse, past, history
<1>2. Text' = Text /\ pastLine' = pastLine
  BY <1>1, PastStays DEF Text
<1>3. position' \in {position - 1, position + 1} \cap Nat
  <2>1. position \in Nat /\ input_x \in 1 .. WIN_WIDTH - 2 /\ position >= input_x - 1
    BY Place, EditorAssumption DEF EditorInv, EditorTypeOK
  <2>2. \/ position' = position - 1 /\ input_x # 1
        \/ position' = position + 1
    BY DEF Left, Right
  <2> QED BY <2>1, <2>2, EditorAssumption
<1>4. TheLine!Move
  BY <1>1, <1>2, <1>3 DEF TheLine!Move, pastLine
<1> QED BY <1>1, <1>4 DEF TheLine!Next

LEMMA RefBackspace ==
  ASSUME EditorInv, EditorInv', Backspace, ~(endposition = 0 \/ endposition > LINE - 1)
  PROVE  TheLine!Next
<1>1. /\ line' = Deleted /\ position' = position - 1 /\ endposition' = endposition - 1
      /\ torn' = (torn \/ position > endposition)
      /\ fate = "runs" /\ input_x # 1
      /\ UNCHANGED <<counter, accessedhistory, order, latest, ptr, fate, row, marked>>
  BY DEF Backspace, Tear, browse, past, history
<1>2. pastLine' = pastLine
  BY <1>1, PastStays
<1>3. /\ position \in Nat /\ position >= 1 /\ torn \in BOOLEAN
      /\ endposition \in 1 .. LINE - 1 /\ LINE \in Nat
  <2>1. /\ position \in Nat /\ torn \in BOOLEAN /\ endposition \in 0 .. LINE /\ LINE \in Nat
        /\ input_x \in 1 .. WIN_WIDTH - 2 /\ WIN_WIDTH \in Nat
    BY EditorAssumption DEF EditorInv, EditorTypeOK
  <2>2. position >= input_x - 1
    BY Place DEF EditorInv
  <2> QED BY <1>1, <2>1, <2>2
<1>4. CASE torn \/ position > endposition
  <2>1. torn' = TRUE
    BY <1>1, <1>4
  <2>2. torn \/ position > Len(Text)
    BY <1>4, TextNow
  <2>3. position' \in {position - 1, position + 1} \cap Nat
    BY <1>1, <1>3
  <2>4. TheLine!Lose
    BY <1>1, <1>2, <2>1, <2>2, <2>3 DEF TheLine!Lose, pastLine
  <2> QED BY <1>1, <2>4 DEF TheLine!Next
<1>5. CASE ~torn /\ ~(position > endposition)
  <2>0. torn = FALSE /\ torn' = FALSE
    BY <1>1, <1>3, <1>5
  <2>1. position <= endposition
    BY <1>3, <1>5
  <2>2. /\ Text \in Seq(Characters) /\ Len(Text) = endposition
        /\ \A i \in 1 .. endposition : Text[i] = line[i - 1]
    BY <1>5, TextNow
  <2>3. /\ Text' \in Seq(Characters) /\ Len(Text') = endposition - 1
        /\ \A i \in 1 .. endposition - 1 : Text'[i] = line'[i - 1]
    BY <1>1, <2>0, TextThen
  <2>4. ASSUME NEW i \in 1 .. endposition - 1
        PROVE  Text'[i] = IF i < position THEN Text[i] ELSE Text[i + 1]
    <3>1. /\ i - 1 \in Cells /\ i - 1 # endposition - 1
          /\ i - 1 \in position - 1 .. endposition - 1 <=> ~(i < position)
      BY <1>3 DEF Cells
    <3>2. line'[i - 1] = IF i < position THEN line[i - 1] ELSE line[(i - 1) + 1]
      BY <1>1, <3>1 DEF Deleted
    <3>3. Text[i] = line[i - 1] /\ Text[i + 1] = line[(i + 1) - 1] /\ (i + 1) - 1 = (i - 1) + 1
      BY <1>3, <2>2
    <3> QED BY <2>3, <3>2, <3>3
  <2>5. Text' = SubSeq(Text, 1, position - 1) \o SubSeq(Text, position + 1, Len(Text))
    <3>1. position \in 1 .. Len(Text) /\ Len(Text') = Len(Text) - 1
      BY <1>3, <2>1, <2>2, <2>3
    <3>2. \A i \in 1 .. Len(Text) - 1 : Text'[i] = IF i < position THEN Text[i] ELSE Text[i + 1]
      BY <2>2, <2>4
    <3>3. Text \in Seq(Characters) /\ Text' \in Seq(Characters)
      BY <2>2, <2>3
    <3> QED BY <3>1, <3>2, <3>3, Without, Zenon
  <2>6. TheLine!Erase
    BY <1>1, <1>3, <2>5 DEF TheLine!Erase
  <2> QED BY <1>1, <1>2, <2>0, <2>1, <2>2, <2>6 DEF TheLine!Edit, TheLine!Next, pastLine
<1> QED BY <1>3, <1>4, <1>5

(* What is shown of an entry is its text as far as the first newline. *)
LEMMA ShownRow ==
  ASSUME EditorInv, NEW e \in Entries, e \in (1 .. latest) \ marked, Newlines(e) # {},
         NEW u, u = SubSeq(ptr[e], 1, Len(ptr[e]) - 1)
  PROVE  /\ TheLine!FirstRow(u) \in Seq(Characters)
         /\ Len(TheLine!FirstRow(u)) = LengthOf(e)
         /\ \A i \in 1 .. LengthOf(e) : TheLine!FirstRow(u)[i] = ptr[e][i]
<1>1. ptr[e] \in Seq(Characters) /\ Len(ptr[e]) \in Nat
  BY DEF EditorInv, EditorTypeOK
<1>2. /\ LengthOf(e) \in Nat /\ LengthOf(e) < Len(ptr[e])
      /\ ptr[e][LengthOf(e) + 1] = "newline"
      /\ \A j \in Newlines(e) : LengthOf(e) + 1 <= j
  BY FirstNewline
<1> DEFINE n == LengthOf(e)
<1> HIDE DEF n
<1>3. /\ n \in Nat /\ n < Len(ptr[e]) /\ ptr[e][n + 1] = "newline" /\ n = LengthOf(e)
      /\ \A j \in Newlines(e) : n + 1 <= j
  BY <1>2 DEF n
<1>4. /\ u \in Seq(Characters) /\ Len(u) = Len(ptr[e]) - 1
      /\ \A i \in 1 .. Len(ptr[e]) - 1 : u[i] = ptr[e][i]
  BY <1>1, <1>3
<1> DEFINE newlines == {i \in 1 .. Len(u) : u[i] = "newline"}
<1>5. newlines \subseteq Newlines(e)
  BY <1>1, <1>4 DEF Newlines
<1>6. n + 1 < Len(ptr[e]) => n + 1 \in newlines
  BY <1>1, <1>3, <1>4
<1>7. CASE newlines = {}
  <2>1. TheLine!FirstRow(u) = u
    BY <1>7 DEF TheLine!FirstRow
  <2>2. Len(u) = n
    <3> HIDE DEF newlines
    <3> QED BY <1>1, <1>3, <1>4, <1>6, <1>7
  <2> QED BY <1>1, <1>3, <1>4, <2>1, <2>2
<1>8. CASE newlines # {}
  <2> DEFINE k == CHOOSE i \in newlines : \A j \in newlines : i <= j
  <2>1. newlines \subseteq Nat
    BY <1>4
  <2>2. \E x \in newlines : \A y \in newlines : x <= y
    <3> HIDE DEF newlines
    <3> QED BY <1>8, <2>1, Least
  <2>3. k \in newlines /\ \A j \in newlines : k <= j
    BY <2>2
  <2>4. TheLine!FirstRow(u) = SubSeq(u, 1, k - 1)
    BY <1>8 DEF TheLine!FirstRow
  <2> HIDE DEF k
  <2>5. k \in Nat /\ k < Len(ptr[e])
    BY <1>1, <1>4, <2>3
  <2> HIDE DEF newlines
  <2>6. k = n + 1
    <3>1. n + 1 <= k
      BY <1>3, <1>5, <2>3
    <3>2. k <= n + 1
      BY <1>1, <1>3, <1>6, <2>3, <2>5, <3>1
    <3> QED BY <1>3, <2>5, <3>1, <3>2
  <2>7. TheLine!FirstRow(u) = SubSeq(u, 1, n)
    BY <1>3, <2>4, <2>6
  <2>8. n <= Len(u)
    BY <1>1, <1>3, <1>4
  <2>9. /\ SubSeq(u, 1, n) \in Seq(Characters) /\ Len(SubSeq(u, 1, n)) = n
        /\ \A i \in 1 .. n : SubSeq(u, 1, n)[i] = u[i]
    BY <1>3, <1>4, <2>8
  <2>10. \A i \in 1 .. n : i \in 1 .. Len(ptr[e]) - 1
    BY <1>1, <1>3
  <2> QED BY <1>3, <1>4, <2>7, <2>9, <2>10
<1> QED BY <1>7, <1>8

LEMMA RefRecall ==
  ASSUME EditorInv, EditorInv', fate = "runs", NEW e \in 1 .. latest,
         e \in IF shownLine = 0 THEN {latest} ELSE shownLine - 1 .. shownLine + 1,
         Recall(e)
  PROVE  TheLine!Next
<1>0. latest \in Nat /\ e \in Entries /\ ptr \in [Entries -> Seq(Characters)] /\ e \in Nat
  BY EditorAssumption DEF EditorInv, EditorTypeOK, Entries
<1>1. CASE Overrun
  BY <1>1, RefOverrun
<1>2. CASE ~Overrun
  <2>1. /\ Newlines(e) # {}
        /\ line' = [i \in Cells |-> IF i < LengthOf(e) THEN ptr[e][i + 1] ELSE "nul"]
        /\ endposition' = LengthOf(e) /\ counter' = e /\ accessedhistory' = TRUE
        /\ torn' = FALSE
        /\ UNCHANGED <<position, latest, ptr, fate, marked>>
    BY <1>2 DEF Recall, past, history
  <2>2. pastLine' = pastLine
    BY <2>1, PastStays
  <2>3. Text' \in Seq(Characters) /\ Len(Text') = LengthOf(e)
        /\ \A i \in 1 .. LengthOf(e) : Text'[i] = line'[i - 1]
    BY <2>1, TextThen
  <2>4. /\ LengthOf(e) \in Nat /\ LengthOf(e) < LINE /\ LINE \in Nat
    BY <1>0, <2>1, FirstNewline, EditorAssumption
  <2>5. pastLine[e] = Entry(e)
    BY DEF pastLine
  <2>6. IF pastLine[e] = "lost" THEN Text' \in Seq(Characters)
                               ELSE Text' = TheLine!FirstRow(pastLine[e])
    <3>1. CASE e \in marked
      BY <2>3, <2>5, <3>1 DEF Entry
    <3>2. CASE e \notin marked
      <4> DEFINE u == SubSeq(ptr[e], 1, Len(ptr[e]) - 1)
                 t == TheLine!FirstRow(u)
      <4>1. /\ t \in Seq(Characters) /\ Len(t) = LengthOf(e)
            /\ \A i \in 1 .. LengthOf(e) : t[i] = ptr[e][i]
        BY <1>0, <2>1, <3>2, ShownRow
      <4>2. \A i \in 1 .. LengthOf(e) : i - 1 \in Cells /\ i - 1 < LengthOf(e) /\ (i - 1) + 1 = i
        BY <2>4 DEF Cells
      <4>3. pastLine[e] = u
        BY <2>5, <3>2 DEF Entry
      <4> HIDE DEF t
      <4>4. \A i \in 1 .. LengthOf(e) : Text'[i] = t[i]
        BY <2>1, <2>3, <4>1, <4>2
      <4>5. Text' = t
        BY <2>3, <4>1, <4>4, SeqEqual
      <4> HIDE DEF u
      <4> QED BY <2>3, <4>3, <4>5 DEF t
    <3> QED BY <3>1, <3>2
  <2>7. shownLine' = e /\ Len(pastLine) = latest
    BY <1>0, <2>1 DEF shownLine, pastLine
  <2>8. TheLine!Show
    <3>1. shownLine' \in IF shownLine = 0 THEN {Len(pastLine)} ELSE shownLine - 1 .. shownLine + 1
      BY <2>7
    <3>2. shownLine' \in 1 .. Len(pastLine)
      BY <2>7
    <3>3. IF pastLine[shownLine'] = "lost" THEN Text' \in Seq(Characters)
          ELSE Text' = TheLine!FirstRow(pastLine[shownLine'])
      BY <2>6, <2>7
    <3> QED BY <2>1, <2>2, <3>1, <3>2, <3>3 DEF TheLine!Show, pastLine, shownLine
  <2> QED BY <2>8 DEF TheLine!Next
<1> QED BY <1>1, <1>2

LEMMA RefHistoryKeys ==
  ASSUME EditorInv, EditorInv', Up \/ Down
  PROVE  TheLine!Next
<1>0. /\ fate = "runs" /\ order = latest /\ latest \in Nat /\ counter \in 0 .. latest
      /\ IF accessedhistory THEN counter >= 1 ELSE counter = latest
  BY EditorAssumption DEF EditorInv, EditorTypeOK, ShownExists, Up, Down, Entries
<1>1. CASE Up
  <2> DEFINE e == IF accessedhistory /\ order # 1 THEN counter - 1 ELSE counter
  <2>1. e \in 1 .. latest
    BY <1>0, <1>1 DEF Up
  <2>2. Recall(e)
    BY <1>1 DEF Up
  <2>3. e \in IF shownLine = 0 THEN {latest} ELSE shownLine - 1 .. shownLine + 1
    BY <1>0, <2>1 DEF shownLine
  <2> QED BY <1>0, <2>1, <2>2, <2>3, RefRecall
<1>2. CASE Down
  <2>1. counter + 1 \in 1 .. latest /\ Recall(counter + 1) /\ accessedhistory
    BY <1>0, <1>2 DEF Down
  <2>2. counter + 1 \in IF shownLine = 0 THEN {latest} ELSE shownLine - 1 .. shownLine + 1
    BY <1>0, <2>1 DEF shownLine
  <2> QED BY <1>0, <2>1, <2>2, RefRecall
<1> QED BY <1>1, <1>2

(* One element more. *)
LEMMA OneMoreElement ==
  ASSUME NEW S, NEW n \in Nat, NEW f \in [1 .. n -> S], NEW g \in [1 .. n + 1 -> S],
         \A i \in 1 .. n : g[i] = f[i]
  PROVE  g = Append(f, g[n + 1])
<1>1. f \in Seq(S) /\ Len(f) = n /\ g \in Seq(S) /\ Len(g) = n + 1 /\ g[n + 1] \in S
  OBVIOUS
<1> DEFINE t == Append(f, g[n + 1])
<1>2. /\ t \in Seq(S) /\ Len(t) = n + 1
      /\ \A i \in 1 .. n : t[i] = f[i]
      /\ t[n + 1] = g[n + 1]
  BY <1>1, AppendProperties
<1> HIDE DEF t
<1>3. \A i \in 1 .. n + 1 : t[i] = g[i]
  BY <1>2
<1>4. g = t
  BY <1>1, <1>2, <1>3, SeqEqual
<1> QED BY <1>4 DEF t

LEMMA RefEnter ==
  ASSUME EditorInv, EditorInv', NEW shown \in BOOLEAN, Enter(shown)
  PROVE  TheLine!Next
<1> DEFINE full  == [line EXCEPT ![endposition] = "newline"]
           entry == StringOf(full)
           stops == endposition \notin Cells \/ Nuls(full) = {} \/ latest + 1 \notin Entries
           x     == IF torn \/ HoldsTerminator THEN "lost" ELSE Text
<1>0. fate = "runs"
  BY DEF Enter
<1>1. CASE stops
  <2>1. Overrun
    BY <1>1 DEF Enter
  <2> QED BY <1>0, <2>1, RefOverrun
<1>2. CASE ~stops
  <2>1. /\ latest' = latest + 1
        /\ ptr' = [ptr EXCEPT ![latest + 1] = entry]
        /\ marked' = IF torn \/ HoldsTerminator THEN marked \cup {latest + 1} ELSE marked
        /\ position' = 0 /\ endposition' = 0 /\ torn' = FALSE /\ accessedhistory' = FALSE
    BY <1>2 DEF Enter
  <2>2. /\ endposition \in Cells /\ Nuls(full) # {} /\ latest + 1 \in Entries
        /\ line \in [Cells -> Characters] /\ latest \in Nat
        /\ ptr \in [Entries -> Seq(Characters)] /\ marked \subseteq 1 .. latest
        /\ \A e \in 1 .. latest : e \in Entries
    <3>1. endposition \in Cells /\ Nuls(full) # {} /\ latest + 1 \in Entries
      BY <1>2
    <3> HIDE DEF full
    <3>2. /\ line \in [Cells -> Characters] /\ latest \in Entries
          /\ ptr \in [Entries -> Seq(Characters)] /\ marked \subseteq 1 .. latest
      BY DEF EditorInv, EditorTypeOK
    <3>3. latest \in Nat /\ \A e \in 1 .. latest : e \in Entries
      BY <3>2, EditorAssumption DEF Entries
    <3> QED BY <3>1, <3>2, <3>3
  <2>3. ~torn /\ ~HoldsTerminator => SubSeq(entry, 1, Len(entry) - 1) = Text
    <3> SUFFICES ASSUME ~torn, ~HoldsTerminator
                 PROVE  SubSeq(entry, 1, Len(entry) - 1) = Text
      OBVIOUS
    <3>0. \A i \in 0 .. endposition - 1 : line[i] # "nul"
      BY DEF HoldsTerminator
    <3>1. IsText(line, endposition)
      BY DEF EditorInv, TextIsWhole
    <3>2. endposition \in Nat /\ full \in [Cells -> Characters]
          /\ \A i \in 1 .. endposition : i - 1 \in Cells /\ i - 1 # endposition
      BY <2>2, EditorAssumption DEF Cells, Characters
    <3> HIDE DEF full
    <3>3. full = [line EXCEPT ![endposition] = "newline"]
      BY DEF full
    <3>4. /\ StringOf(full) \in Seq(Characters) /\ Len(StringOf(full)) = endposition + 1
          /\ \A i \in 1 .. endposition + 1 : StringOf(full)[i] = full[i - 1]
      <4>1. endposition \in Cells /\ Nuls(full) # {} /\ line \in [Cells -> Characters]
        BY <2>2
      <4> HIDE DEF stops, x, entry
      <4>2. Len(StringOf(full)) = endposition + 1
        BY <3>0, <3>1, <3>3, <4>1, WholeEntry
      <4>3. StringOf(full) \in Seq(Characters)
        BY <3>0, <3>1, <3>3, <4>1, WholeEntry
      <4>4. CopyOf(StringOf(full), full, endposition + 1)
        BY <3>0, <3>1, <3>3, <4>1, WholeEntry
      <4> QED BY <4>2, <4>3, <4>4 DEF CopyOf
    <3>5. entry = StringOf(full)
      OBVIOUS
    <3> HIDE DEF entry
    <3> DEFINE t == SubSeq(entry, 1, Len(entry) - 1)
    <3>7. /\ t \in Seq(Characters) /\ Len(t) = endposition
          /\ \A i \in 1 .. endposition : t[i] = entry[i]
      BY <3>2, <3>4, <3>5
    <3> HIDE DEF t
    <3>8. \A i \in 1 .. endposition : t[i] = line[i - 1]
      <4>1. \A i \in 1 .. endposition : full[i - 1] = line[i - 1] /\ i \in 1 .. endposition + 1
        BY <2>2, <3>2, <3>3
      <4>2. \A i \in 1 .. endposition + 1 : entry[i] = full[i - 1]
        BY <3>4, <3>5
      <4> QED BY <3>7, <4>1, <4>2
    <3>9. /\ Text \in Seq(Characters) /\ Len(Text) = endposition
          /\ \A i \in 1 .. endposition : Text[i] = line[i - 1]
      BY TextNow
    <3>10. Text \in Seq(Characters)
      BY <3>9 DEF Characters
    <3>11. t = Text
      BY <3>7, <3>8, <3>9, <3>10, SeqEqual
    <3> QED BY <3>11 DEF t
  <2> HIDE DEF entry, x
  <2>4. \A e \in 1 .. latest : Entry(e)' = Entry(e)
    <3> SUFFICES ASSUME NEW e \in 1 .. latest PROVE Entry(e)' = Entry(e)
      OBVIOUS
    <3>1. e # latest + 1 /\ e \in Entries
      BY <2>2
    <3>2. ptr'[e] = ptr[e] /\ (e \in marked' <=> e \in marked)
      BY <2>1, <2>2, <3>1
    <3> QED BY <3>2 DEF Entry
  <2>5. ASSUME NEW e, e = latest + 1 PROVE Entry(e)' = x
    <3>1. ptr'[e] = entry /\ (e \in marked' <=> torn \/ HoldsTerminator)
      BY <2>1, <2>2, <2>5
    <3> QED BY <2>3, <3>1 DEF Entry, x
  <2> DEFINE S == {Entry(e) : e \in 1 .. latest} \cup {x}
  <2>6. pastLine \in [1 .. latest -> S]
    BY DEF pastLine
  <2>7. \A e \in 1 .. latest + 1 : e \in 1 .. latest \/ e = latest + 1
    BY <2>2
  <2>8. pastLine' = [e \in 1 .. latest + 1 |-> Entry(e)']
    BY <2>1 DEF pastLine
  <2>9. \A e \in 1 .. latest + 1 : Entry(e)' \in S
    BY <2>4, <2>5, <2>7
  <2>10. pastLine' \in [1 .. latest + 1 -> S]
    BY <2>8, <2>9
  <2>11. \A i \in 1 .. latest : pastLine'[i] = pastLine[i]
    <3>1. \A i \in 1 .. latest : i \in 1 .. latest + 1 /\ pastLine[i] = Entry(i)
      BY <2>2 DEF pastLine
    <3> QED BY <2>4, <2>8, <3>1
  <2>12. pastLine'[latest + 1] = x
    <3>1. latest + 1 \in 1 .. latest + 1
      BY <2>2
    <3> QED BY <2>5, <2>8, <3>1
  <2>13. pastLine' = Append(pastLine, x)
    <3> HIDE DEF S
    <3>1. pastLine' = Append(pastLine, pastLine'[latest + 1])
      BY <2>2, <2>6, <2>10, <2>11, OneMoreElement
    <3> QED BY <2>12, <3>1
  <2>14. Text' = <<>>
    BY <2>1 DEF Text
  <2>15. TheLine!CutOff <=> torn \/ HoldsTerminator
    <3>1. CASE torn
      BY <3>1 DEF TheLine!CutOff
    <3>2. CASE ~torn
      <4>1. Len(Text) = endposition /\ endposition \in Nat
            /\ \A i \in 1 .. endposition : Text[i] = line[i - 1]
        BY <3>2, TextNow
      <4>2. \A i \in 1 .. endposition : i - 1 \in 0 .. endposition - 1
        BY <4>1
      <4>3. ASSUME NEW i \in 0 .. endposition - 1, line[i] = "nul"
            PROVE  \E j \in 1 .. endposition : Text[j] = "nul"
        <5>1. i + 1 \in 1 .. endposition /\ (i + 1) - 1 = i
          BY <4>1
        <5> QED BY <4>1, <4>3, <5>1
      <4> QED BY <3>2, <4>1, <4>2, <4>3 DEF TheLine!CutOff, HoldsTerminator
    <3> QED BY <3>1, <3>2
  <2>16. TheLine!Submit
    BY <2>1, <2>13, <2>14, <2>15 DEF TheLine!Submit, pastLine, x
  <2> QED BY <1>0, <2>16 DEF TheLine!Next
<1> QED BY <1>1, <1>2

(* Every key does to the line and to the history of lines what Line says:   *)
(* whatever the widths and lengths, an untorn line is edited and entered as *)
(* a sequence of bytes with a cursor, the ones that Control-@ and F2 write  *)
(* included, and shown again as far as its first newline.                   *)
THEOREM EditorImplementsLine == EditorSpec => ImplementsLine
<1>1. EditorInv /\ EditorInv' /\ [EditorNext]_editorVars => [TheLine!Next]_(TheLine!lineVars)
  <2> SUFFICES ASSUME EditorInv, EditorInv', [EditorNext]_editorVars
               PROVE  TheLine!Next \/ UNCHANGED TheLine!lineVars
    OBVIOUS
  <2>1. ASSUME NEW c \in Characters, Type(c) PROVE TheLine!Next
    <3>1. CASE position \in Cells
      BY <2>1, <3>1, RefType
    <3>2. CASE position \notin Cells
      BY <2>1, <3>2, RefOverrun DEF Type
    <3> QED BY <3>1, <3>2
  <2>2. CASE Left \/ Right
    BY <2>2, RefMove
  <2>3. CASE Backspace
    <3>1. CASE endposition = 0 \/ endposition > LINE - 1
      BY <2>3, <3>1, RefOverrun DEF Backspace
    <3>2. CASE ~(endposition = 0 \/ endposition > LINE - 1)
      BY <2>3, <3>2, RefBackspace
    <3> QED BY <3>1, <3>2
  <2>4. CASE Up \/ Down
    BY <2>4, RefHistoryKeys
  <2>5. ASSUME NEW shown \in BOOLEAN, Enter(shown) PROVE TheLine!Next
    BY <2>5, RefEnter
  <2>6. CASE UNCHANGED editorVars
    <3>1. UNCHANGED <<line, position, endposition, torn, latest, ptr, marked, counter,
                      accessedhistory, fate>>
      BY <2>6 DEF editorVars, buffered, browse, past, history
    <3>2. Text' = Text /\ pastLine' = pastLine
      BY <3>1, PastStays DEF Text
    <3> QED BY <3>1, <3>2 DEF TheLine!lineVars, pastLine
  <2> QED BY <2>1, <2>2, <2>3, <2>4, <2>5, <2>6 DEF EditorNext
<1> QED BY <1>1, RefInit, EditorInvHolds, PTL DEF EditorSpec, ImplementsLine, TheLine!Spec
=============================================================================
