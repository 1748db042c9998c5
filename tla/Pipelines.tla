----------------------------- MODULE Pipelines ------------------------------
(***************************************************************************)
(* What the user of a shell is promised about the commands of a line.      *)
(* They are called once each, from left to right and one at a time.  One   *)
(* that stands left of a bar leaves what it writes to the next, which can  *)
(* read all of that in the order it was written, and nothing else.  After  *)
(* the shell has run out of descriptors nothing is promised.               *)
(***************************************************************************)
EXTENDS Integers, Sequences

VARIABLES
  left,     (* of each command of the line, by its place in it, the place  *)
            (* of the one left of its bar, 0 for none                      *)
  last,     (* the command called last, 0 for none                         *)
  running,  (* whether it still runs                                       *)
  unread,   (* what it can still read: who wrote it, piece by piece        *)
  written,  (* what it has written for the next one                        *)
  spent     (* descriptors have run out                                    *)

lineVars == <<left, last, running, unread, written, spent>>

Idle == last = 0 /\ ~running /\ unread = <<>> /\ written = <<>>

Init == left = [c \in {} |-> 0] /\ Idle /\ ~spent

Precedes(b, c, W) == b \in W /\ b < c /\ \A w \in W : w <= b \/ c <= w

NewLine ==
  /\ ~running
  /\ \A c \in DOMAIN left : c <= last
  /\ \A c \in DOMAIN left' : left'[c] = 0 \/ Precedes(left'[c], c, DOMAIN left')
  /\ Idle'

(* A command that is called may not get to run. *)
Call(c) ==
  /\ ~running
  /\ last < c /\ \A b \in DOMAIN left : b < c => b <= last
  /\ last' = c
  /\ running' \in BOOLEAN
  /\ unread' = IF running' /\ left[c] # 0 THEN written ELSE <<>>
  /\ written' = <<>>
  /\ UNCHANGED left

Read == /\ running /\ unread # <<>>
        /\ unread' = Tail(unread)
        /\ UNCHANGED <<left, last, running, written>>

Write == /\ running /\ \E c \in DOMAIN left : left[c] = last
         /\ written' = Append(written, last)
         /\ UNCHANGED <<left, last, running, unread>>

End == /\ running /\ ~running' /\ unread' = <<>>
       /\ UNCHANGED <<left, last, written>>

Promised == NewLine \/ (\E c \in DOMAIN left : Call(c)) \/ Read \/ Write \/ End

Next == ~spent /\ (spent' \/ Promised)

Spec == Init /\ [][Next]_lineVars
=============================================================================
