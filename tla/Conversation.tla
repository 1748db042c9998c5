---------------------------- MODULE Conversation ----------------------------
(***************************************************************************)
(* The conversation the servers of hw8 hold, as their prompts describe it: *)
(* an asker waits for an answerer, then they take turns, a question and an *)
(* answer, until the conversation ends.  A new answerer takes the seat of  *)
(* the one before and the asker may ask again.  Nothing is said about what *)
(* follows the end.                                                        *)
(***************************************************************************)
CONSTANTS Clients, NOBODY

VARIABLES asker, answerer, turn, over

talk == <<asker, answerer, turn, over>>

Quiet ==
  /\ asker = NOBODY
  /\ answerer = NOBODY
  /\ turn = NOBODY
  /\ over = FALSE

Arrive(c) ==
  /\ asker = NOBODY
  /\ asker' = c
  /\ UNCHANGED <<answerer, turn, over>>

Join(c) ==
  /\ asker # NOBODY
  /\ c \notin {asker, answerer}
  /\ answerer' = c
  /\ turn' = asker
  /\ UNCHANGED <<asker, over>>

Ask ==
  /\ turn = asker /\ answerer # NOBODY
  /\ turn' = answerer
  /\ UNCHANGED <<asker, answerer, over>>

Answer ==
  /\ turn = answerer /\ answerer # NOBODY
  /\ turn' = asker
  /\ UNCHANGED <<asker, answerer, over>>

(* Only a conversation of two can end. *)
End == answerer # NOBODY /\ over' = TRUE

Talk ==
  \/ ~over /\ (Ask \/ Answer \/ End \/ \E c \in Clients : Arrive(c) \/ Join(c))
  \/ over /\ over'

ConversationSpec == Quiet /\ [][Talk]_talk
=============================================================================
