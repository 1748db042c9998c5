---------------------------- MODULE EpollServer ----------------------------
(***************************************************************************)
(* The question and answer server of hw8b.c: one thread that waits in      *)
(* epoll_wait and handles what it reports, one event per step.  The first  *)
(* client is the asker, every later one becomes the answerer; a message of *)
(* one is passed to the other when it is its turn and refused with         *)
(* "Patience please" when it is not.                                       *)
(***************************************************************************)
EXTENDS Sockets

VARIABLES
  state,       (* hw8b.c:16                                                *)
  askerfd, answererfd, actives,
  batch,       (* the descriptors epoll_wait reported and the loop has not *)
               (* come to yet                                              *)
  (* history: clients told that they may ask and who have not since;       *)
  (* clients sent a question they have not answered; a conversation ended  *)
  invited, owing, ended

server  == <<state, askerfd, answererfd, actives>>
history == <<invited, owing, ended>>
vars    == <<sockets, server, batch, history>>

(* The listening socket, among the descriptors of a batch. *)
LISTEN == -1

Init ==
  /\ SocketsInit
  /\ state = "WAIT_CLIENTS"
  /\ askerfd = STDIN
  /\ answererfd = STDIN
  /\ actives = 0
  /\ batch = {}
  /\ invited = {}
  /\ owing = {}
  /\ ended = FALSE

(* Lines 61 and 64: how many events one call reports.                      *)
MAX_EVENTS == 10

(* A descriptor stays ready for as long as there is something to read.     *)
Ready ==
  {f \in Fds : Open(f) /\ Readable(conn[f])} \cup (IF Queue = {} THEN {} ELSE {LISTEN})

Poll ==
  /\ batch = {}
  /\ Ready # {}
  /\ batch' \in {B \in SUBSET Ready :
                   Cardinality(B) = MAX_EVENTS \/ (B = Ready /\ Cardinality(B) < MAX_EVENTS)}
  /\ UNCHANGED <<sockets, server, history>>
-----------------------------------------------------------------------------
(* Lines 67-95: a new client. *)

Asker    == Ends({askerfd})
Answerer == Ends({answererfd})

OnlyOne(f) == batch' = {}  (* faulty: one event per call of epoll_wait *)
Rest(f)    == batch' = batch \ {f}

AcceptAsker(c, f) ==
  /\ actives = 0
  /\ state' = "WAIT_CLIENTS"
  /\ askerfd' = f
  /\ Send({}, {c})
  /\ UNCHANGED <<answererfd, invited, owing>>

(* Line 90. *)
KeptTurn == IF state = "WAIT_ANSWERER" THEN state ELSE "WAIT_ASKER"  (* faulty *)
NewTurn  == "WAIT_ASKER"

AcceptAnswerer(c, f) ==
  /\ actives # 0
  /\ state' = NewTurn
  /\ answererfd' = f
  /\ Send(Asker, {c})
  /\ invited' = invited \cup (IF askerfd = f THEN {c} ELSE Asker)
  /\ owing' = {}
  /\ UNCHANGED askerfd

(* Line 93. *)
Count      == actives' = actives + 1

HandleAccept(c, f) ==
  /\ LISTEN \in batch
  /\ Accept(c, f)
  /\ AcceptAsker(c, f) \/ AcceptAnswerer(c, f)
  /\ Count
  /\ Rest(LISTEN)
  /\ UNCHANGED <<unread, said, ended>>
-----------------------------------------------------------------------------
(* Lines 96-153: a descriptor of a client is ready. *)

(* read returns 0 or -1; a descriptor that is closed already reads as -1. *)
Gone(f) == IF Open(f) THEN unread[conn[f]] = <<>> ELSE TRUE

Take(f) == IF Open(f) THEN Read(conn[f]) ELSE UNCHANGED unread

(* Line 101 writes beside buf when read fails and when it fills buf. *)
Overruns(f) ==
  \/ ~Open(f)
  \/ Gone(f) /\ peer[conn[f]] = "reset"
  \/ Size(conn[f]) = BUFFER

Overrun(f) ==
  /\ Overruns(f)
  /\ fate' = "undefined"
  /\ UNCHANGED <<phase, conn, peer, unread, said, server, batch, history>>

(* Lines 104-122: the client has left and takes the other party with it. *)
Other(f) == IF f = answererfd THEN askerfd ELSE answererfd

(* Line 121: the break leaves the other events for the next epoll_wait. *)
GoOn(f)     == Rest(f)  (* faulty: their descriptors may just have been closed *)
BreakOff(f) == batch' = {}

(* Lines 106, 112 and 118. *)
CloseOne(f)  == Closed({f})  (* faulty *)
CloseBoth(f) == Closed({f, Other(f)})

Depart(f) ==
  /\ Gone(f) /\ state # "WAIT_CLIENTS"
  /\ Send(Ends({Other(f)} \ {f}), {})
  /\ conn' = CloseBoth(f)
  /\ state' = "EXIT"
  /\ ended' = TRUE
  /\ BreakOff(f)
  /\ UNCHANGED <<phase, unread, said, askerfd, answererfd, actives, invited, owing>>

(* The answerer, and the asker when it is not the answerer too, out of     *)
(* turn: lines 127-129 and 138-140.                                        *)
OutOfTurnUnlessAnswerer(f) ==  (* faulty: answers are taken at any time *)
  f = askerfd /\ f # answererfd /\ state \in {"WAIT_CLIENTS", "WAIT_ANSWERER"}
OutOfTurn(f) ==
  \/ f = answererfd /\ state = "WAIT_ASKER"
  \/ f = askerfd /\ f # answererfd /\ state \in {"WAIT_CLIENTS", "WAIT_ANSWERER"}

Refuse(f) ==
  /\ OutOfTurn(f)
  /\ Send(Ends({f}), {})
  /\ UNCHANGED <<server, history>>

(* Lines 131-135. *)
Answer(f) ==
  /\ f = answererfd
  /\ ~OutOfTurn(f)
  /\ Send(Answerer, Asker)
  /\ state' = "WAIT_ASKER"
  /\ invited' = invited \cup Asker
  /\ owing' = owing \ Answerer
  /\ UNCHANGED <<askerfd, answererfd, actives, ended>>

(* Lines 142-144. *)
Ask(f) ==
  /\ f = askerfd /\ f # answererfd
  /\ ~OutOfTurn(f)
  /\ Send({}, Answerer)
  /\ state' = "WAIT_ANSWERER"
  /\ invited' = invited \ Asker
  /\ owing' = owing \cup Answerer
  /\ UNCHANGED <<askerfd, answererfd, actives, ended>>

(* A client that is neither: its message is dropped. *)
Ignore(f) ==
  /\ f \notin {askerfd, answererfd}
  /\ UNCHANGED <<peer, fate, server, history>>

HandleMessage(f) ==
  /\ ~(Gone(f) /\ state # "WAIT_CLIENTS")
  /\ Refuse(f) \/ Answer(f) \/ Ask(f) \/ Ignore(f)
  /\ Take(f)
  /\ Rest(f)
  /\ UNCHANGED <<phase, conn, said>>

HandleClient(f) == Overrun(f) \/ Depart(f) \/ HandleMessage(f)
-----------------------------------------------------------------------------
ServerStep ==
  /\ Running
  /\ \/ Poll
     \/ \E c \in Clients, f \in Fds : HandleAccept(c, f)
     \/ \E f \in batch \ {LISTEN} : HandleClient(f)

Next == ServerStep \/ (ClientStep /\ UNCHANGED <<server, batch, history>>)

Spec == Init /\ [][Next]_vars

(* The server runs whenever epoll_wait has something to return. *)
FairSpec == Spec /\ WF_vars(ServerStep)
-----------------------------------------------------------------------------
(* Properties. *)

(* The server's variables and the bookkeeping keep to their types           *)
(* (hw8b.c:16-19 and 61). *)
TypeOK ==
  /\ SocketsTypeOK
  /\ state \in {"WAIT_CLIENTS", "WAIT_ASKER", "WAIT_ANSWERER", "EXIT"}
  /\ askerfd \in Fds \cup {STDIN}
  /\ answererfd \in Fds \cup {STDIN}
  /\ actives \in 0..Cardinality(Clients)
  /\ batch \subseteq Fds \cup {LISTEN}
  /\ invited \subseteq Clients
  /\ owing \subseteq Clients
  /\ ended \in BOOLEAN

(* An event the loop still has to look at is about a descriptor that is     *)
(* open: what a departure closes is never handled afterwards, because the   *)
(* break of hw8b.c:121 drops the rest of the events. *)
BatchIsOpen == batch \ {LISTEN} \subseteq {f \in Fds : Open(f)}

(* A message is taken as an answer only from a client that has been sent a  *)
(* question since it took the seat, and has not answered it                 *)
(* (hw8b.c:126-135 against 85-91 and 142-144). *)
AnswersAreOwed ==
  Open(answererfd) /\ ~OutOfTurn(answererfd) => Answerer \subseteq owing

(* state says who is there: somebody to ask and somebody to answer when it  *)
(* is the asker's turn, an asker who waits when it is the answerer's, and   *)
(* no answerer after an exit.  Nothing in the code looks for an asker after *)
(* an exit; the newcomer becomes it because accept gives it the descriptor  *)
(* askerfd still names (hw8b.c:69-93, 104-121). *)
PartiesArePresent ==
  /\ state = "WAIT_ASKER" => Open(askerfd) /\ Open(answererfd)
  /\ state = "WAIT_ANSWERER" => Open(askerfd)
  /\ state = "EXIT" => ~Open(answererfd)

(* A client that was told it may ask (hw8b.c:87-89 and 133), and has not,   *)
(* is the asker and not refused, unless it has become its own answerer.     *)
InvitationStands ==
  \A f \in Fds : Open(f) /\ conn[f] \in invited =>
    f = askerfd /\ (f = answererfd \/ state \in {"WAIT_ASKER", "EXIT"})

(* The prompt of hw8b.c:87, "You may now ask a question", and that of line  *)
(* 133 hold: the next message of a client that got one is taken for a       *)
(* question. *)
InvitedMayAsk ==
  \A f \in Fds : Open(f) /\ conn[f] \in invited => f = askerfd /\ ~OutOfTurn(f)

(* Who is connected: one client per descriptor, all of them counted by      *)
(* actives, and nobody invited before it is accepted. *)
Accepted == {c \in Clients : phase[c] = "accepted"}

ConnectionsFit ==
  /\ \A f \in Fds : Open(f) => conn[f] \in Accepted
  /\ \A f, g \in Fds : Open(f) /\ conn[f] = conn[g] => f = g
  /\ actives = Cardinality(Accepted)
  /\ invited \subseteq Accepted

(* The asker's descriptor is the first there is: when it is closed it is    *)
(* the next to be handed out.  Until the first departure the two parties of *)
(* a conversation stay.                                                     *)
PartiesFit ==
  /\ actives = 0 => state = "WAIT_CLIENTS" /\ \A f \in Fds : ~Open(f)
  /\ actives # 0 => askerfd = 1 /\ (state = "WAIT_CLIENTS" => Open(askerfd))
  /\ state = "WAIT_CLIENTS" => answererfd = STDIN
  /\ ~ended => /\ state # "EXIT"
               /\ state = "WAIT_ANSWERER" => Open(answererfd)

(* The conjunction is inductive: in particular nothing but the order in     *)
(* which descriptors are handed out makes a newcomer after an exit the      *)
(* asker (hw8b.c:69-93, 104-121). *)
SafetyInv ==
  /\ TypeOK
  /\ ConnectionsFit
  /\ PartiesFit
  /\ BatchIsOpen
  /\ AnswersAreOwed
  /\ PartiesArePresent
  /\ InvitationStands

(* Every client that connects is accepted, whatever the others send and     *)
(* whenever they leave, unless the server itself dies: no descriptor that   *)
(* stays ready keeps the listening socket from being served                 *)
(* (hw8b.c:64-154). *)
EveryClientIsAccepted ==
  \A c \in Clients : phase[c] = "queued" ~> phase[c] = "accepted" \/ ~Running
=============================================================================
