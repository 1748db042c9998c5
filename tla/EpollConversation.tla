------------------------- MODULE EpollConversation -------------------------
(* hw8b.c implements Conversation up to the first departure from it. *)
EXTENDS EpollServer

Seated(f) == IF Open(f) THEN conn[f] ELSE NOBODY

Talking == INSTANCE Conversation WITH
  asker    <- Seated(askerfd),
  answerer <- Seated(answererfd),
  turn     <- CASE state = "WAIT_ASKER" -> Seated(askerfd)
                [] state = "WAIT_ANSWERER" -> Seated(answererfd)
                [] OTHER -> NOBODY,
  over     <- ended

(* A handler of the loop is one move of a conversation, with the turn and  *)
(* the seats as the prompts say, until a client leaves (hw8b.c:66-154).    *)
ImplementsConversation == Talking!ConversationSpec
=============================================================================
