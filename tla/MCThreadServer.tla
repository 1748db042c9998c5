--------------------------- MODULE MCThreadServer ---------------------------
(* Bounds for TLC. *)
EXTENDS ThreadServerSafety, TLC

Symmetry == Permutations(Clients)

(* Three messages are a question, its answer and the next question.         *)
ThreeMessages == \A c \in Clients : \A d \in Clients \ {c} : said[c] + said[d] <= 3

(* What follows the end of a conversation is left to the other runs. *)
UntilEnd == ~ended

(* What follows once two threads work on the list together is left out: the *)
(* property of the list says nothing of it.                                 *)
UntilCrowded == ~crowded
=============================================================================
