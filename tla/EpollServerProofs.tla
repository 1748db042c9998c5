------------------------- MODULE EpollServerProofs -------------------------
(***************************************************************************)
(* Safety of the event loop of hw8b.c, for any number of clients, messages *)
(* and lengths: SafetyInv is inductive, and what the loop does until the   *)
(* first departure is a Conversation.                                      *)
(***************************************************************************)
EXTENDS EpollConversation, FiniteSetTheorems, SequenceTheorems, TLAPS

(* Sending changes peer and fate within their types, and nothing else. *)
LEMMA SendType ==
  ASSUME SocketsTypeOK, NEW once, NEW often, Send(once, often)
  PROVE  peer' \in [Clients -> {"up", "left", "reset"}] /\ fate' \in {"running", "killed", "undefined"}
BY DEF SocketsTypeOK, Send

(* Reading leaves a shorter sequence of the same messages. *)
LEMMA ReadType ==
  ASSUME SocketsTypeOK, NEW c \in Clients, Read(c)
  PROVE  unread' \in [Clients -> Seq(0..MESSAGES)]
<1>1. unread[c] \in Seq(0..MESSAGES)
  BY DEF SocketsTypeOK
<1>2. Size(c) \in Nat
  BY <1>1, LenProperties, SocketsAssumption DEF Size
<1>3. \A i \in Size(c) + 1 .. Len(unread[c]) : unread[c][i] \in 0..MESSAGES
  <2>1. Len(unread[c]) \in Nat /\ unread[c] \in [1..Len(unread[c]) -> 0..MESSAGES]
    BY <1>1, LenProperties
  <2>2. \A i \in Size(c) + 1 .. Len(unread[c]) : i \in 1..Len(unread[c])
    BY <1>2, <2>1
  <2> QED
    BY <2>1, <2>2
<1>4. SubSeq(unread[c], Size(c) + 1, Len(unread[c])) \in Seq(0..MESSAGES)
  BY <1>1, <1>2, <1>3, LenProperties, SubSeqProperties
<1> QED
  BY <1>4 DEF Read, SocketsTypeOK

(* Clients keep to the types and leave alone what the server connected. *)
LEMMA ClientStepType ==
  ASSUME SocketsTypeOK, ClientStep
  PROVE  SocketsTypeOK' /\ conn' = conn /\ Accepted' = Accepted
<1> PICK c \in Clients : Connect(c) \/ Say(c) \/ Leave(c)
  BY DEF ClientStep
<1> USE DEF SocketsTypeOK, Accepted
<1>1. CASE Connect(c)
  BY <1>1 DEF Connect
<1>2. CASE Say(c)
  <2>1. said'[c] \in 0..MESSAGES /\ said' \in [Clients -> 0..MESSAGES]
    BY <1>2, SocketsAssumption DEF Say
  <2>2. PICK n \in Lengths, Z \in SUBSET ZeroBytes :
               unread' = [unread EXCEPT ![c] = @ \o Message(said'[c], n, Z)]
    BY <1>2 DEF Say
  <2>3. n \in Nat
    BY SocketsAssumption
  <2>4. Message(said'[c], n, Z) \in Seq(0..MESSAGES)
    <3>1. [i \in 1..n |-> IF i \in Z THEN 0 ELSE said'[c]] \in [1..n -> 0..MESSAGES]
      BY <2>1, SocketsAssumption
    <3> QED
      BY <2>3, <3>1 DEF Message
  <2>5. unread[c] \o Message(said'[c], n, Z) \in Seq(0..MESSAGES)
    BY <2>4, ConcatProperties
  <2> QED
    BY <1>2, <2>1, <2>2, <2>5 DEF Say
<1>3. CASE Leave(c)
  BY <1>3, SocketsAssumption DEF Leave
<1> QED
  BY <1>1, <1>2, <1>3
-----------------------------------------------------------------------------
(* The number of clients, and of those that are accepted, are numbers. *)
LEMMA AcceptedCount ==
  /\ Cardinality(Clients) \in Nat
  /\ IsFiniteSet(Accepted)
  /\ Cardinality(Accepted) \in 0..Cardinality(Clients)
<1>1. Accepted \in SUBSET Clients
  BY DEF Accepted
<1> QED
  BY <1>1, SocketsAssumption, FS_Subset, FS_CardinalityType

(* Before the first client nobody is connected and nobody is a party.      *)
LEMMA InitSafe == Init => SafetyInv
<1> SUFFICES ASSUME Init PROVE SafetyInv
  OBVIOUS
<1> USE DEF Init, SocketsInit
<1>1. Accepted = {} /\ \A f \in Fds : ~Open(f)
  BY DEF Accepted, Open
<1>2. actives = Cardinality(Accepted)
  BY <1>1, FS_EmptySet
<1>3. TypeOK
  <2>1. [c \in Clients |-> <<>>] \in [Clients -> Seq(0..MESSAGES)]
    BY EmptySeq
  <2>2. SocketsTypeOK
    BY <2>1, SocketsAssumption DEF SocketsTypeOK
  <2>3. actives \in 0..Cardinality(Clients)
    BY AcceptedCount
  <2> QED
    BY <2>2, <2>3 DEF TypeOK, Accepted
<1>4. ConnectionsFit /\ PartiesFit
  BY <1>1, <1>2 DEF ConnectionsFit, PartiesFit
<1>5. BatchIsOpen /\ AnswersAreOwed /\ PartiesArePresent /\ InvitationStands
  BY <1>1 DEF BatchIsOpen, AnswersAreOwed, PartiesArePresent, InvitationStands, STDIN, Fds, Open
<1> QED
  BY <1>3, <1>4, <1>5 DEF SafetyInv

(* A step that leaves the connections, the server and its history as they  *)
(* are keeps the invariant, whatever becomes of the clients. *)
LEMMA QuietStepSafe ==
  ASSUME SafetyInv, SocketsTypeOK', conn' = conn, Accepted' = Accepted,
         UNCHANGED <<server, history>>, batch' \subseteq batch \cup Ready
  PROVE  SafetyInv'
<1> USE DEF SafetyInv, server, history
<1>1. \A f : Open(f)' <=> Open(f)
  BY DEF Open
<1>2. TypeOK'
  <2>1. Ready \subseteq Fds \cup {LISTEN}
    BY DEF Ready
  <2> QED
    BY <2>1 DEF TypeOK
<1>3. BatchIsOpen'
  BY <1>1 DEF BatchIsOpen, Ready
<1>4. ConnectionsFit' /\ PartiesFit' /\ PartiesArePresent' /\ InvitationStands'
  BY <1>1 DEF ConnectionsFit, PartiesFit, PartiesArePresent, InvitationStands
<1>5. AnswersAreOwed'
  BY <1>1 DEF AnswersAreOwed, OutOfTurn, Answerer, Ends
<1> QED
  BY <1>2, <1>3, <1>4, <1>5
-----------------------------------------------------------------------------
(* A new client takes a free descriptor and, by its number, the right seat. *)
LEMMA AcceptSafe ==
  ASSUME SafetyInv, NEW c \in Clients, NEW f \in Fds, HandleAccept(c, f)
  PROVE  SafetyInv'
<1> USE DEF SafetyInv
<1>1. /\ phase[c] = "queued" /\ phase' = [phase EXCEPT ![c] = "accepted"]
      /\ conn[f] = NOBODY /\ conn' = [conn EXCEPT ![f] = c]
      /\ \A g \in Fds : conn[g] = NOBODY => f <= g
      /\ actives' = actives + 1 /\ batch' = batch \ {LISTEN}
      /\ UNCHANGED <<unread, said, ended>>
  BY DEF HandleAccept, Accept, LowestFree, FreeFds, Queue, Count, Rest
<1>2. /\ \A g \in Fds : g # f => (Open(g)' <=> Open(g)) /\ conn'[g] = conn[g]
      /\ Open(f)' /\ conn'[f] = c /\ ~Open(f)
  BY <1>1, SocketsAssumption DEF Open, TypeOK, SocketsTypeOK
<1>3. Accepted' = Accepted \cup {c} /\ c \notin Accepted
  BY <1>1 DEF Accepted, TypeOK, SocketsTypeOK
<1>4. actives' = Cardinality(Accepted')
  BY <1>1, <1>3, AcceptedCount, FS_AddElement DEF ConnectionsFit
<1>5. /\ actives' \in 0..Cardinality(Clients)
      /\ actives' # 0
  <2>1. Accepted' \in SUBSET Clients
    BY DEF Accepted
  <2>2. Cardinality(Accepted') \in 0..Cardinality(Clients)
    BY <2>1, SocketsAssumption, FS_Subset, FS_CardinalityType
  <2> QED
    BY <1>1, <1>4, <2>2 DEF TypeOK
<1>6. SocketsTypeOK'
  <2>1. peer' \in [Clients -> {"up", "left", "reset"}] /\ fate' \in {"running", "killed", "undefined"}
    BY SendType DEF HandleAccept, AcceptAsker, AcceptAnswerer, TypeOK
  <2> QED
    BY <1>1, <2>1 DEF TypeOK, SocketsTypeOK
<1>7. 1 \in Fds /\ (1 # f => Open(1))
  BY <1>1, AcceptedCount DEF Fds, Open
<1>8. BatchIsOpen'
  BY <1>1, <1>2 DEF BatchIsOpen
<1>9. CASE AcceptAsker(c, f)
  <2>1. /\ actives = 0 /\ state' = "WAIT_CLIENTS" /\ askerfd' = f
        /\ UNCHANGED <<answererfd, invited, owing>>
    BY <1>9 DEF AcceptAsker
  <2>2. f = 1 /\ answererfd = STDIN /\ \A g \in Fds : ~Open(g)
    BY <1>7, <2>1 DEF PartiesFit
  <2>3. TypeOK'
    BY <1>1, <1>5, <1>6, <2>1 DEF TypeOK
  <2>4. ConnectionsFit'
    BY <1>1, <1>2, <1>3, <1>4, <2>1, <2>2 DEF ConnectionsFit, Open
  <2>5. PartiesFit'
    BY <1>2, <1>5, <2>1, <2>2 DEF PartiesFit
  <2>6. AnswersAreOwed' /\ PartiesArePresent'
    BY <2>1, <2>2 DEF AnswersAreOwed, PartiesArePresent, Open, STDIN, Fds
  <2>7. InvitationStands'
    BY <1>2, <1>3, <2>1, <2>2 DEF InvitationStands, ConnectionsFit
  <2> QED
    BY <1>8, <2>3, <2>4, <2>5, <2>6, <2>7
<1>10. CASE AcceptAnswerer(c, f)
  <2>1. /\ actives # 0 /\ state' = "WAIT_ASKER" /\ answererfd' = f /\ owing' = {}
        /\ askerfd' = askerfd
        /\ invited' = invited \cup (IF askerfd = f THEN {c} ELSE Asker)
    BY <1>10 DEF AcceptAnswerer, NewTurn
  <2>2. askerfd = 1 /\ (askerfd = f \/ Open(askerfd))
    BY <1>7, <2>1 DEF PartiesFit
  <2>3. Asker \subseteq Accepted /\ \A g \in Fds : Open(g) /\ conn[g] \in Asker => g = askerfd
    BY SocketsAssumption DEF Asker, Ends, ConnectionsFit, Open
  <2>4. TypeOK'
    BY <1>1, <1>5, <1>6, <2>1, <2>3 DEF TypeOK, Accepted
  <2>5. ConnectionsFit'
    BY <1>1, <1>2, <1>3, <1>4, <2>1, <2>3 DEF ConnectionsFit, Open
  <2>6. PartiesFit' /\ PartiesArePresent'
    BY <1>2, <1>5, <2>1, <2>2, <1>7 DEF PartiesFit, PartiesArePresent
  <2>7. AnswersAreOwed'
    BY <2>1 DEF AnswersAreOwed, OutOfTurn
  <2>8. InvitationStands'
    BY <1>2, <1>3, <2>1, <2>3 DEF InvitationStands, ConnectionsFit
  <2> QED
    BY <1>8, <2>4, <2>5, <2>6, <2>7, <2>8
<1> QED
  BY <1>9, <1>10 DEF HandleAccept
-----------------------------------------------------------------------------
(* A departure closes what answererfd names and drops the batch.           *)
LEMMA DepartSafe ==
  ASSUME SafetyInv, NEW f \in Fds, f \in batch, Depart(f)
  PROVE  SafetyInv'
<1> USE DEF SafetyInv
<1>1. /\ state # "WAIT_CLIENTS" /\ state' = "EXIT" /\ ended' /\ batch' = {}
      /\ conn' = [g \in Fds |-> IF g \in {f, Other(f)} THEN NOBODY ELSE conn[g]]
      /\ UNCHANGED <<phase, unread, said, askerfd, answererfd, actives, invited, owing>>
  BY DEF Depart, BreakOff, CloseBoth, Closed
<1>2. \A g \in Fds : Open(g)' => Open(g) /\ conn'[g] = conn[g] /\ g # answererfd
  BY <1>1 DEF Open, Other
<1>3. Accepted' = Accepted
  BY <1>1 DEF Accepted
<1>4. TypeOK'
  <2>1. peer' \in [Clients -> {"up", "left", "reset"}] /\ fate' \in {"running", "killed", "undefined"}
    BY SendType DEF Depart, TypeOK
  <2>2. conn' \in [Fds -> Clients \cup {NOBODY}]
    BY <1>1 DEF TypeOK, SocketsTypeOK
  <2> QED
    BY <1>1, <2>1, <2>2 DEF TypeOK, SocketsTypeOK, Depart
<1>5. ConnectionsFit' /\ PartiesFit'
  BY <1>1, <1>2, <1>3 DEF ConnectionsFit, PartiesFit, Open
<1>6. BatchIsOpen' /\ InvitationStands'
  BY <1>1, <1>2 DEF BatchIsOpen, InvitationStands
<1>7. ~Open(answererfd)'
  BY <1>1, <1>2 DEF Open
<1>8. AnswersAreOwed' /\ PartiesArePresent'
  BY <1>1, <1>7 DEF AnswersAreOwed, PartiesArePresent
<1> QED
  BY <1>4, <1>5, <1>6, <1>8
-----------------------------------------------------------------------------
(* A message is refused, passed on or dropped; the connections stay.       *)
LEMMA MessageSafe ==
  ASSUME SafetyInv, NEW f \in Fds, f \in batch, HandleMessage(f)
  PROVE  SafetyInv'
<1> USE DEF SafetyInv
<1>1. UNCHANGED <<phase, conn, said>> /\ batch' = batch \ {f}
  BY DEF HandleMessage, Rest
<1>2. Accepted' = Accepted /\ \A g : Open(g)' <=> Open(g)
  BY <1>1 DEF Accepted, Open
<1>3. Open(f) /\ f # LISTEN
  BY DEF BatchIsOpen, Fds, LISTEN
<1>4. unread' \in [Clients -> Seq(0..MESSAGES)]
  <2>1. conn[f] \in Clients
    BY <1>3 DEF Open, TypeOK, SocketsTypeOK
  <2> QED
    BY <1>3, <2>1, ReadType DEF HandleMessage, Take, TypeOK
<1>5. SocketsTypeOK'
  <2>1. peer' \in [Clients -> {"up", "left", "reset"}] /\ fate' \in {"running", "killed", "undefined"}
    BY SendType DEF HandleMessage, Refuse, Answer, Ask, Ignore, TypeOK, SocketsTypeOK
  <2> QED
    BY <1>1, <1>4, <2>1 DEF TypeOK, SocketsTypeOK
<1>6. BatchIsOpen'
  BY <1>1, <1>2 DEF BatchIsOpen
<1>7. CASE Refuse(f) \/ Ignore(f)
  BY <1>1, <1>2, <1>5, <1>7, QuietStepSafe DEF Refuse, Ignore
<1>8. Asker \subseteq Accepted /\ \A g \in Fds : Open(g) /\ conn[g] \in Asker => g = askerfd
  BY SocketsAssumption DEF Asker, Ends, ConnectionsFit, Open
<1>9. CASE Answer(f)
  <2>1. /\ f = answererfd /\ state # "WAIT_ASKER" /\ state' = "WAIT_ASKER"
        /\ invited' = invited \cup Asker /\ owing' = owing \ Answerer
        /\ UNCHANGED <<askerfd, answererfd, actives, ended>>
    BY <1>9 DEF Answer, OutOfTurn
  <2>2. state = "WAIT_ANSWERER" /\ Open(askerfd)
    BY <1>3, <2>1 DEF TypeOK, PartiesFit, PartiesArePresent, Fds, STDIN
  <2>3. TypeOK'
    BY <1>1, <1>5, <1>8, <2>1 DEF TypeOK, Accepted
  <2>4. ConnectionsFit' /\ PartiesFit' /\ PartiesArePresent'
    BY <1>1, <1>2, <1>3, <1>8, <2>1, <2>2 DEF ConnectionsFit, PartiesFit, PartiesArePresent
  <2>5. AnswersAreOwed'
    BY <2>1 DEF AnswersAreOwed, OutOfTurn
  <2>6. InvitationStands'
    BY <1>1, <1>2, <1>8, <2>1 DEF InvitationStands
  <2> QED
    BY <1>6, <2>3, <2>4, <2>5, <2>6
<1>10. CASE Ask(f)
  <2>1. /\ f = askerfd /\ f # answererfd /\ state \notin {"WAIT_CLIENTS", "WAIT_ANSWERER"}
        /\ state' = "WAIT_ANSWERER"
        /\ invited' = invited \ Asker /\ owing' = owing \cup Answerer
        /\ UNCHANGED <<askerfd, answererfd, actives, ended>>
    BY <1>10 DEF Ask, OutOfTurn
  <2>2. conn[askerfd] \in Asker
    BY <1>3, <2>1 DEF Asker, Ends, Open, TypeOK, SocketsTypeOK
  <2>3. Answerer \subseteq Clients
    BY DEF Answerer, Ends
  <2>4. TypeOK'
    BY <1>1, <1>5, <2>1, <2>3 DEF TypeOK
  <2>5. ConnectionsFit' /\ PartiesFit' /\ PartiesArePresent'
    BY <1>1, <1>2, <1>3, <2>1 DEF ConnectionsFit, PartiesFit, PartiesArePresent, TypeOK
  <2>6. AnswersAreOwed'
    BY <1>1, <2>1 DEF AnswersAreOwed, Answerer, Ends
  <2>7. InvitationStands'
    BY <1>1, <1>2, <2>1, <2>2 DEF InvitationStands
  <2> QED
    BY <1>6, <2>4, <2>5, <2>6, <2>7
<1> QED
  BY <1>7, <1>9, <1>10 DEF HandleMessage
-----------------------------------------------------------------------------
(* Every step of the loop or of a client keeps the invariant.              *)
LEMMA StepSafe == SafetyInv /\ [Next]_vars => SafetyInv'
<1> SUFFICES ASSUME SafetyInv, [Next]_vars PROVE SafetyInv'
  OBVIOUS
<1>1. CASE Poll
  BY <1>1, QuietStepSafe DEF Poll, sockets, SafetyInv, TypeOK, SocketsTypeOK, Accepted
<1>2. ASSUME NEW c \in Clients, NEW f \in Fds, HandleAccept(c, f) PROVE SafetyInv'
  BY <1>2, AcceptSafe
<1>3. ASSUME NEW f \in batch \ {LISTEN}, HandleClient(f) PROVE SafetyInv'
  <2>1. f \in Fds
    BY DEF SafetyInv, TypeOK
  <2>2. CASE Overrun(f)
    BY <2>2, QuietStepSafe DEF Overrun, SafetyInv, TypeOK, SocketsTypeOK, Accepted
  <2> QED
    BY <1>3, <2>1, <2>2, DepartSafe, MessageSafe DEF HandleClient
<1>4. CASE ClientStep /\ UNCHANGED <<server, batch, history>>
  BY <1>4, ClientStepType, QuietStepSafe DEF SafetyInv, TypeOK
<1>5. CASE UNCHANGED vars
  BY <1>5, QuietStepSafe DEF vars, sockets, SafetyInv, TypeOK, SocketsTypeOK, Accepted
<1> QED
  BY <1>1, <1>2, <1>3, <1>4, <1>5 DEF Next, ServerStep

(* The loop of hw8b.c keeps the invariant of its parties, its batch and its *)
(* invitations, for any number of clients and messages. *)
THEOREM EpollSafetyHolds == Spec => []SafetyInv
BY InitSafe, StepSafe, PTL DEF Spec

LEMMA SafetyMeans ==
  Spec => [](BatchIsOpen /\ AnswersAreOwed /\ PartiesArePresent /\ InvitationStands)
<1>1. SafetyInv => BatchIsOpen /\ AnswersAreOwed /\ PartiesArePresent /\ InvitationStands
  BY DEF SafetyInv
<1> QED
  BY <1>1, EpollSafetyHolds, PTL

(* The rest of a batch is never about a descriptor that a departure closed *)
(* (hw8b.c:64-121). *)
THEOREM BatchStaysOpen == Spec => []BatchIsOpen
BY SafetyMeans, PTL

(* Only answers that are owed are taken (hw8b.c:126-144).                  *)
THEOREM AnswersTakenAreOwed == Spec => []AnswersAreOwed
BY SafetyMeans, PTL

(* state agrees with who is there, through every departure and newcomer    *)
(* (hw8b.c:69-121). *)
THEOREM StateKnowsParties == Spec => []PartiesArePresent
BY SafetyMeans, PTL

(* Whoever was told to ask, and has not, is the asker (hw8b.c:87-135).     *)
THEOREM InvitedIsAsker == Spec => []InvitationStands
BY SafetyMeans, PTL
-----------------------------------------------------------------------------
(* The loop is a conversation until a client of it leaves. *)

(* Nobody has a seat before the first client.                              *)
LEMMA TalkingInit == Init => Talking!Quiet
BY DEF Init, SocketsInit, Talking!Quiet, Seated, Open, Fds, STDIN

(* What changes no connection and no variable of the server is no move.    *)
LEMMA SameSeats ==
  ASSUME conn' = conn, UNCHANGED <<server, ended>>
  PROVE  UNCHANGED Talking!talk
BY DEF Talking!talk, Seated, Open, server

(* A client that is accepted arrives as the asker or joins as the answerer. *)
LEMMA AcceptTalks ==
  ASSUME SafetyInv, ~ended, NEW c \in Clients, NEW f \in Fds, HandleAccept(c, f)
  PROVE  Talking!Arrive(c) \/ Talking!Join(c)
<1> USE DEF SafetyInv
<1>1. /\ conn[f] = NOBODY /\ conn' = [conn EXCEPT ![f] = c] /\ ended' = ended
      /\ phase[c] = "queued"
  BY DEF HandleAccept, Accept, LowestFree, FreeFds, Queue
<1>2. /\ Seated(f)' = c /\ c # NOBODY
      /\ \A g : g # f => Seated(g)' = Seated(g)
      /\ Seated(f) = NOBODY
  BY <1>1, SocketsAssumption DEF Seated, Open, TypeOK, SocketsTypeOK
<1>3. \A g : Seated(g) # c
  BY <1>1, <1>2 DEF Seated, Open, ConnectionsFit, Accepted
<1>4. STDIN \notin Fds
  BY DEF STDIN, Fds
<1>5. CASE AcceptAsker(c, f)
  <2>1. /\ actives = 0 /\ state = "WAIT_CLIENTS" /\ answererfd = STDIN
        /\ \A g \in Fds : ~Open(g)
        /\ state' = "WAIT_CLIENTS" /\ askerfd' = f /\ answererfd' = answererfd
    BY <1>5 DEF AcceptAsker, PartiesFit
  <2>2. Seated(askerfd) = NOBODY /\ Seated(answererfd)' = Seated(answererfd)
    BY <1>2, <1>4, <2>1 DEF Seated, Open
  <2> QED
    BY <1>1, <1>2, <2>1, <2>2 DEF Talking!Arrive
<1>6. CASE AcceptAnswerer(c, f)
  <2>1. /\ actives # 0 /\ state' = "WAIT_ASKER" /\ answererfd' = f /\ askerfd' = askerfd
    BY <1>6 DEF AcceptAnswerer, NewTurn
  <2>2. Open(askerfd)
    BY <2>1 DEF PartiesFit, PartiesArePresent, TypeOK
  <2>3. askerfd # f /\ Seated(askerfd) # NOBODY
    BY <1>1, <2>2 DEF Open, Seated
  <2> QED
    BY <1>1, <1>2, <1>3, <2>1, <2>3 DEF Talking!Join
<1> QED
  BY <1>5, <1>6 DEF HandleAccept

(* An event of a client is one move of the conversation, or none.          *)
LEMMA HandleTalks ==
  ASSUME SafetyInv, ~ended, NEW f \in Fds, f \in batch, HandleClient(f)
  PROVE  Talking!Ask \/ Talking!Answer \/ Talking!End \/ UNCHANGED Talking!talk
<1> USE DEF SafetyInv
<1>1. Open(f)
  BY DEF BatchIsOpen, Fds, LISTEN
<1>2. CASE Overrun(f)
  BY <1>2, SameSeats DEF Overrun, server, history
<1>3. CASE Depart(f)
  <2>1. Open(answererfd) /\ ended'
    BY <1>3 DEF Depart, PartiesFit, PartiesArePresent, TypeOK
  <2> QED
    BY <2>1 DEF Talking!End, Seated, Open
<1>4. CASE HandleMessage(f)
  <2>1. conn' = conn
    BY <1>4 DEF HandleMessage
  <2>2. CASE Refuse(f) \/ Ignore(f)
    BY <2>1, <2>2, SameSeats DEF Refuse, Ignore, server, history
  <2>3. CASE Answer(f)
    <3>1. /\ f = answererfd /\ state # "WAIT_ASKER" /\ state' = "WAIT_ASKER"
          /\ UNCHANGED <<askerfd, answererfd, ended>>
      BY <2>3 DEF Answer, OutOfTurn
    <3>2. state = "WAIT_ANSWERER"
      BY <1>1, <3>1 DEF PartiesFit, TypeOK, Open, Fds, STDIN
    <3> QED
      BY <1>1, <2>1, <3>1, <3>2 DEF Talking!Answer, Seated, Open
  <2>4. CASE Ask(f)
    <3>1. /\ f = askerfd /\ state \notin {"WAIT_CLIENTS", "WAIT_ANSWERER"}
          /\ state' = "WAIT_ANSWERER" /\ UNCHANGED <<askerfd, answererfd, ended>>
      BY <2>4 DEF Ask, OutOfTurn
    <3>2. state = "WAIT_ASKER" /\ Open(answererfd)
      BY <3>1 DEF PartiesFit, PartiesArePresent, TypeOK
    <3> QED
      BY <2>1, <3>1, <3>2 DEF Talking!Ask, Seated, Open
  <2> QED
    BY <1>4, <2>2, <2>3, <2>4 DEF HandleMessage
<1> QED
  BY <1>2, <1>3, <1>4 DEF HandleClient

(* Every step is a move of the conversation, or none.                      *)
LEMMA StepTalks == SafetyInv /\ [Next]_vars => [Talking!Talk]_(Talking!talk)
<1> SUFFICES ASSUME SafetyInv, [Next]_vars PROVE Talking!Talk \/ UNCHANGED Talking!talk
  OBVIOUS
<1>1. CASE Poll \/ (ClientStep /\ UNCHANGED <<server, batch, history>>) \/ UNCHANGED vars
  BY <1>1, ClientStepType, SameSeats
  DEF Poll, server, history, vars, sockets, SafetyInv, TypeOK
<1>2. ASSUME NEW c \in Clients, NEW f \in Fds, HandleAccept(c, f)
      PROVE  Talking!Talk
  <2>1. CASE ended
    BY <1>2, <2>1 DEF HandleAccept, Talking!Talk
  <2> QED
    BY <1>2, <2>1, AcceptTalks DEF Talking!Talk
<1>3. ASSUME NEW f \in batch \ {LISTEN}, HandleClient(f)
      PROVE  Talking!Talk \/ UNCHANGED Talking!talk
  <2>1. f \in Fds
    BY DEF SafetyInv, TypeOK
  <2>2. CASE ended
    <3>1. ended'
      BY <1>3, <2>2 DEF HandleClient, Overrun, Depart, HandleMessage, Refuse, Answer, Ask,
                        Ignore, history
    <3> QED
      BY <2>2, <3>1 DEF Talking!Talk
  <2> QED
    BY <1>3, <2>1, <2>2, HandleTalks DEF Talking!Talk
<1> QED
  BY <1>1, <1>2, <1>3 DEF Next, ServerStep

(* hw8b.c implements Conversation: each handler of the loop is a move the  *)
(* prompts allow, until a client leaves (hw8b.c:66-154).                   *)
THEOREM EpollImplementsConversation == Spec => ImplementsConversation
BY TalkingInit, StepTalks, EpollSafetyHolds, PTL
DEF Spec, ImplementsConversation, Talking!ConversationSpec
=============================================================================
