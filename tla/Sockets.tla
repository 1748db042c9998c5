------------------------------ MODULE Sockets ------------------------------
(***************************************************************************)
(* What the two chat servers of hw8 (hw8a.c and hw8b.c) run on: the        *)
(* descriptors of the process, TCP connections and the clients at their    *)
(* other end.  None of this is code of the repository; it is modelled from *)
(* the calls the servers make (accept, read, send, close) on Linux.        *)
(***************************************************************************)
EXTENDS Integers, Sequences, FiniteSets

CONSTANTS
  Clients,
  NOBODY,     (* no client                                                 *)
  MESSAGES,   (* bound: how many messages one client sends                 *)
  Lengths,    (* bound: how long a message may be                          *)
  ZeroBytes,  (* bound: which bytes of a message may be zero               *)
  Departures, (* bound: how clients may leave, some of "left" and "reset"  *)
  BUFFER      (* how much one read returns: MAX_SIZE of hw8a.c, the 100 of *)
              (* hw8b.c                                                    *)

ASSUME SocketsAssumption ==
  /\ IsFiniteSet(Clients)
  /\ MESSAGES \in Nat
  /\ Lengths \subseteq Nat \ {0}
  /\ NOBODY \notin Clients
  /\ Departures \subseteq {"left", "reset"}
  /\ BUFFER \in Nat \ {0}


(* A descriptor that accept can return, numbered from the first one that   *)
(* is free when the server starts; 0 is the standard input.                *)
STDIN == 0
Fds == 1..Cardinality(Clients)

VARIABLES
  phase,    (* of a client: "away", "queued" (not accepted yet), "accepted" *)
  conn,     (* the client a descriptor is connected to, or NOBODY           *)
  peer,     (* of a client: "up", "left" (closed its end), "reset"          *)
  unread,   (* what a client has sent and the server has not read           *)
  said,     (* how many messages a client has sent                          *)
  fate      (* of the server: "running", "killed" (SIGPIPE), "undefined"    *)

sockets == <<phase, conn, peer, unread, said, fate>>

SocketsInit ==
  /\ phase = [c \in Clients |-> "away"]
  /\ conn = [f \in Fds |-> NOBODY]
  /\ peer = [c \in Clients |-> "up"]
  /\ unread = [c \in Clients |-> <<>>]
  /\ said = [c \in Clients |-> 0]
  /\ fate = "running"

SocketsTypeOK ==
  /\ phase \in [Clients -> {"away", "queued", "accepted"}]
  /\ conn \in [Fds -> Clients \cup {NOBODY}]
  /\ peer \in [Clients -> {"up", "left", "reset"}]
  /\ unread \in [Clients -> Seq(0..MESSAGES)]
  /\ said \in [Clients -> 0..MESSAGES]
  /\ fate \in {"running", "killed", "undefined"}

Running == fate = "running"
Open(f) == f \in Fds /\ conn[f] # NOBODY

(* The clients that descriptors in F reach. *)
Ends(F) == {c \in Clients : \E f \in F \cap Fds : conn[f] = c}
-----------------------------------------------------------------------------
(* The clients. *)

Connect(c) ==
  /\ phase[c] = "away"
  /\ phase' = [phase EXCEPT ![c] = "queued"]
  /\ UNCHANGED <<conn, peer, unread, said, fate>>

(* A message is its number, byte after byte, any of which may be zero      *)
(* instead.  Messages that are not read in time arrive together, as in any *)
(* stream.                                                                 *)
Message(m, n, Z) == [i \in 1..n |-> IF i \in Z THEN 0 ELSE m]

Say(c) ==
  /\ phase[c] # "away"
  /\ peer[c] = "up"
  /\ said[c] < MESSAGES
  /\ said' = [said EXCEPT ![c] = @ + 1]
  /\ \E n \in Lengths, Z \in SUBSET ZeroBytes :
       unread' = [unread EXCEPT ![c] = @ \o Message(said'[c], n, Z)]
  /\ UNCHANGED <<phase, conn, peer, fate>>

Leave(c) ==
  /\ phase[c] # "away"
  /\ peer[c] = "up"
  /\ \E how \in Departures : peer' = [peer EXCEPT ![c] = how]
  /\ UNCHANGED <<phase, conn, unread, said, fate>>

ClientStep == Running /\ \E c \in Clients : Connect(c) \/ Say(c) \/ Leave(c)
-----------------------------------------------------------------------------
(* The calls. *)

Queue == {c \in Clients : phase[c] = "queued"}

(* accept gives the connection the lowest free descriptor. *)
FreeFds == {f \in Fds : conn[f] = NOBODY}
LowestFree(f) == f \in FreeFds /\ \A g \in FreeFds : f <= g

Accept(c, f) ==
  /\ c \in Queue
  /\ LowestFree(f)
  /\ phase' = [phase EXCEPT ![c] = "accepted"]
  /\ conn' = [conn EXCEPT ![f] = c]

(* read blocks while there is nothing to read; at the end of the stream it *)
(* returns 0, or -1 after a reset, whenever it is called.                  *)
Readable(c) == unread[c] # <<>> \/ peer[c] # "up"

Size(c) == IF Len(unread[c]) < BUFFER THEN Len(unread[c]) ELSE BUFFER

Read(c) == unread' = [unread EXCEPT ![c] = SubSeq(@, Size(c) + 1, Len(@))]

(* The descriptor table after closing the descriptors in F. *)
Closed(F) == [f \in Fds |-> IF f \in F THEN NOBODY ELSE conn[f]]

(* Sending to clients, to those in often more than once.  Writing to a     *)
(* client that has closed its end is answered by a reset, and writing once *)
(* that reset is there raises SIGPIPE, which no server handles.  Writing   *)
(* to a descriptor that is closed, or is no socket, does nothing.          *)
MayKill(once, often) ==
  \/ \E c \in once : peer[c] = "reset"
  \/ \E c \in often : peer[c] # "up"

Send(once, often) ==
  /\ peer' = [c \in Clients |->
               IF c \in once \cup often /\ peer[c] = "left" THEN "reset" ELSE peer[c]]
  /\ \/ fate' = fate
     \/ MayKill(once, often) /\ fate' = "killed"
=============================================================================
