---------------------------- MODULE ThreadServer ----------------------------
(***************************************************************************)
(* The question and answer server of hw8a.c: the main thread accepts       *)
(* clients while fewer than MAX_CLIENTS are active and starts a thread for *)
(* each.  Everything the threads share (state, the two parties, the list   *)
(* of clients and its length) is read and written without a lock.          *)
(*                                                                         *)
(* One step is one access to what the threads share, or a run of accesses  *)
(* no other thread can tell from one; a single condition of the source is  *)
(* one access.  A client struct is a cell of the heap.  Using a cell that  *)
(* has been freed, or NULL, or running past the end of a buffer can have   *)
(* any effect: the model stops there (fate = "undefined") and claims       *)
(* nothing about what follows.                                             *)
(***************************************************************************)
EXTENDS Sockets

CONSTANTS
  MAX_CLIENTS,        (* hw8a.c:12                                         *)
  THREADS_MAY_FAIL,   (* whether pthread_create may fail                   *)
  Stacks              (* bound: which bytes of its buffer a new thread may *)
                      (* find filled                                       *)

ASSUME ThreadServerAssumption ==
  /\ MAX_CLIENTS \in Nat \ {0}
  /\ THREADS_MAY_FAIL \in BOOLEAN

VARIABLES
  state, askerfd, answererfd, asker, answerer, head, actives,
  (* the client structs: descriptor, status = INACTIVE, next; which cells  *)
  (* are allocated                                                         *)
  fd, inactive, next, live,
  (* main: program counter, the client and the struct it inserts, its copy *)
  (* of actives                                                            *)
  mpc, mclient, mcell, mreg,
  (* a client's thread: program counter, its struct, the client it reads   *)
  (* from, what it read last, its buffer                                   *)
  hpc, cell, source, got, buf,
  (* in remove_inactives: copy of actives, current (or temp) and previous, *)
  (* and whether it is the call of line 242                                *)
  hreg, current, previous, leaving,
  (* history: a question was sent and no answer yet; why a buffer may not  *)
  (* be empty; a conversation has ended; two threads have been working on  *)
  (* the list at the same time                                             *)
  pending, soil, ended, crowded

parties  == <<askerfd, answererfd, asker, answerer>>
list     == <<head, actives, inactive, next, live>>
mainVars == <<mpc, mclient, mcell, mreg>>
removal  == <<hreg, current, previous, leaving>>
handler  == <<hpc, cell, source, got, buf, removal>>
history  == <<pending, soil, ended, crowded>>
vars     == <<sockets, state, parties, list, fd, mainVars, handler, history>>

NULL == 0
Cells == 1..Cardinality(Clients)

(* A byte a thread may find in its buffer, which is not set up. *)
GARBAGE == -1

Init ==
  /\ SocketsInit
  /\ state = "WAIT_CLIENTS"
  /\ askerfd = STDIN /\ answererfd = STDIN
  /\ asker = NULL /\ answerer = NULL /\ head = NULL
  /\ actives = 0
  /\ fd = [k \in Cells |-> STDIN]
  /\ inactive = [k \in Cells |-> FALSE]
  /\ next = [k \in Cells |-> NULL]
  /\ live = {}
  /\ mpc = "loop" /\ mclient = NOBODY /\ mcell = NULL /\ mreg = 0
  /\ hpc = [c \in Clients |-> "none"]
  /\ cell = [c \in Clients |-> NULL]
  /\ source = [c \in Clients |-> NOBODY]
  /\ got = [c \in Clients |-> <<>>]
  /\ buf = [c \in Clients |-> [i \in 1..BUFFER |-> 0]]
  /\ hreg = [c \in Clients |-> 0]
  /\ current = [c \in Clients |-> NULL]
  /\ previous = [c \in Clients |-> NULL]
  /\ leaving = [c \in Clients |-> FALSE]
  /\ pending = FALSE
  /\ soil = [c \in Clients |-> "clean"]
  /\ ended = FALSE
  /\ crowded = FALSE
-----------------------------------------------------------------------------
MGoto(at, then) == mpc = at /\ mpc' = then
HGoto(c, at, then) == hpc[c] = at /\ hpc' = [hpc EXCEPT ![c] = then]

Asker    == Ends({askerfd})
Answerer == Ends({answererfd})

(* Bringing a client in, and taking clients out: from the first change to  *)
(* what the threads share to the last.                                     *)
MainInserts == mpc \notin {"loop", "accept"}
Removes(c)  == hpc[c] \in {"tell", "exit_asker", "exit_answerer", "mark_asker",
                           "mark_answerer", "drop_asker", "drop_answerer",
                           "remove", "pop", "unlink", "scan_head", "scan", "advance",
                           "splice", "uncount", "uncounted", "free"}
-----------------------------------------------------------------------------
(* main and insert (lines 276-292 and 39-69). *)

(* Line 277. *)
Full == actives = MAX_CLIENTS

MLoop ==
  /\ MGoto("loop", "accept")
  /\ ~Full
  /\ UNCHANGED <<sockets, state, parties, list, fd, mclient, mcell, mreg, history>>

(* Lines 283, 40, 41 and 43. *)
MAccept ==
  /\ MGoto("accept", "link")
  /\ mclient' \in Queue
  /\ mcell' \in Cells \ live
  /\ live' = live \cup {mcell'}
  /\ \E f \in Fds : Accept(mclient', f) /\ fd' = [fd EXCEPT ![mcell'] = f]
  /\ inactive' = [inactive EXCEPT ![mcell'] = FALSE]
  /\ crowded' = (crowded \/ \E c \in Clients : Removes(c))
  /\ UNCHANGED <<peer, fate, state, parties, head, actives, next, mreg,
                 pending, soil, ended>>

(* Line 42: c->next = head. *)
MLink ==
  /\ MGoto("link", "greet")
  /\ next' = [next EXCEPT ![mcell] = head]
  /\ UNCHANGED <<sockets, state, parties, head, actives, inactive, live, fd, mclient, mcell,
                 mreg, history>>

(* Lines 44-46 and 51-52. *)
MGreet ==
  /\ MGoto("greet", IF actives = 0 THEN "asker_state" ELSE "invite")
  /\ Send(Ends({fd[mcell]}), {})
  /\ UNCHANGED <<phase, conn, state, parties, list, fd, mclient, mcell, mreg, history>>

MInvite ==
  /\ MGoto("invite", "answerer_state")
  /\ Send(Asker, {})
  /\ UNCHANGED <<phase, conn, state, parties, list, fd, mclient, mcell, mreg, history>>

(* Lines 47 and 56; a new answerer owes nothing. *)
MState ==
  /\ \/ MGoto("asker_state", "asker_fd") /\ state' = "WAIT_CLIENTS"
     \/ MGoto("answerer_state", "answerer_fd") /\ state' = "WAIT_ASKER"
  /\ pending' = FALSE
  /\ UNCHANGED <<sockets, parties, list, fd, mclient, mcell, mreg, soil, ended, crowded>>

(* Lines 48-49 and 57-58. *)
MParty ==
  /\ \/ /\ MGoto("asker_fd", "asker")
        /\ askerfd' = fd[mcell] /\ UNCHANGED <<asker, answererfd, answerer>>
     \/ /\ MGoto("asker", "create")
        /\ asker' = mcell /\ UNCHANGED <<askerfd, answererfd, answerer>>
     \/ /\ MGoto("answerer_fd", "answerer")
        /\ answererfd' = fd[mcell] /\ UNCHANGED <<asker, askerfd, answerer>>
     \/ /\ MGoto("answerer", "create")
        /\ answerer' = mcell /\ UNCHANGED <<asker, askerfd, answererfd>>
  /\ UNCHANGED <<sockets, state, list, fd, mclient, mcell, mreg, history>>

(* Line 60.  Threads are named for the client they are created for. *)
MCreate ==
  /\ MGoto("create", "head")
  /\ hpc' = [hpc EXCEPT ![mclient] = "read"]
  /\ cell' = [cell EXCEPT ![mclient] = mcell]
  /\ \E G \in SUBSET (Stacks \cap 1..BUFFER) :
       /\ buf' = [buf EXCEPT ![mclient] = [i \in 1..BUFFER |-> IF i \in G THEN GARBAGE ELSE 0]]
       /\ soil' = [soil EXCEPT ![mclient] = IF G = {} THEN "clean" ELSE "stack"]
  /\ UNCHANGED <<sockets, state, parties, list, fd, mclient, mcell, mreg,
                 pending, ended, crowded>>

(* Lines 61-64. *)
MCreateFails ==
  /\ THREADS_MAY_FAIL
  /\ MGoto("create", "loop")
  /\ conn' = Closed({fd[mcell]})
  /\ live' = live \ {mcell}
  /\ UNCHANGED <<phase, peer, fate, state, parties, head, actives, inactive, next, fd,
                 mclient, mcell, mreg, history>>

(* Lines 66-67: actives++ is a read and a write. *)
MEnlist ==
  /\ \/ /\ MGoto("head", "count")
        /\ head' = mcell /\ UNCHANGED <<actives, mreg>>
     \/ /\ MGoto("count", "counted")
        /\ mreg' = actives /\ UNCHANGED <<head, actives>>
     \/ /\ MGoto("counted", "loop")
        /\ actives' = mreg + 1 /\ mreg' = 0 /\ UNCHANGED head
  /\ UNCHANGED <<sockets, state, parties, inactive, next, live, fd, mclient, mcell, history>>

MStep ==
  /\ \/ MCreate
     \/ /\ \/ MLoop \/ MAccept \/ MLink \/ MGreet \/ MInvite \/ MState \/ MParty
           \/ MCreateFails \/ MEnlist
        /\ UNCHANGED <<hpc, cell, buf>>
  /\ UNCHANGED <<unread, said, source, got, removal>>
-----------------------------------------------------------------------------
(* client_handler (lines 152-243): reading, and passing on what was read.  *)

(* Line 164: read is called on c->fd. *)
HRead(c) ==
  /\ HGoto(c, "read", "reading")
  /\ source' = [source EXCEPT ![c] = IF Open(fd[cell[c]]) THEN conn[fd[cell[c]]] ELSE NOBODY]
  /\ UNCHANGED <<sockets, state, list, got, buf, removal, history>>

(* read fills the buffer from its start. *)
Fill(b, data)  == data \o SubSeq(b, Len(data) + 1, BUFFER)

(* read returns, at once on a closed descriptor.  A connection that is     *)
(* closed during the call stays open for it.                               *)
HReading(c) ==
  /\ HGoto(c, "reading", "check")
  /\ \/ /\ source[c] = NOBODY
        /\ got' = [got EXCEPT ![c] = <<>>]
        /\ UNCHANGED <<unread, buf>>
     \/ /\ source[c] # NOBODY /\ Readable(source[c])
        /\ Read(source[c])
        /\ got' = [got EXCEPT ![c] = SubSeq(unread[source[c]], 1, Size(source[c]))]
        /\ buf' = [buf EXCEPT ![c] = Fill(@, got'[c])]
  /\ source' = [source EXCEPT ![c] = NOBODY]
  /\ UNCHANGED <<phase, conn, peer, said, fate, state, list, removal, history>>

(* The history of a buffer once a message has been dealt with: it is as    *)
(* said, unless the message goes on behind a zero in it, or the zero comes *)
(* in front of a refused one.  The loop of lines 236-239 stops at a zero.  *)
GoesOn(c) ==
  \E i \in DOMAIN got[c] :
    got[c][i] = 0 /\ (soil[c] = "refused" \/ \E j \in DOMAIN got[c] : j > i /\ got[c][j] # 0)

SoilAfter(c, else) ==
  soil' = [soil EXCEPT ![c] = IF @ \in {"clean", "refused"} /\ GoesOn(c) THEN "tail" ELSE else]

(* Line 179. *)
HasLeftInTurn(c) == got[c] = <<>> /\ state = "WAIT_ASKER"  (* faulty *)
HasLeft(c) == got[c] = <<>> /\ state # "WAIT_CLIENTS"

(* Lines 179 and 198: a message that begins with a zero stays where it is. *)
HCheck(c) ==
  /\ \/ HasLeft(c) /\ HGoto(c, "check", "close") /\ UNCHANGED soil
     \/ ~HasLeft(c) /\ buf[c][1] = 0 /\ HGoto(c, "check", "read") /\ SoilAfter(c, soil[c])
     \/ ~HasLeft(c) /\ buf[c][1] # 0 /\ HGoto(c, "check", "who") /\ UNCHANGED soil
  /\ UNCHANGED <<sockets, state, list, source, got, buf, removal, pending, ended, crowded>>

(* strlen (line 211) and the loop of lines 236-239 go on behind a buffer    *)
(* without a zero.  What they do when no zero follows it is undefined.     *)
Overruns(c) ==
  /\ hpc[c] = "check" /\ ~HasLeft(c)
  /\ \A i \in 1..BUFFER : buf[c][i] # 0

(* Lines 213 and 224; the message of a client that is no party is dropped. *)
HWho(c) ==
  /\ hpc[c] = "who"
  /\ LET f == fd[cell[c]] IN
       \/ f = answererfd /\ HGoto(c, "who", "answerer")
       \/ f # answererfd /\ f = askerfd /\ HGoto(c, "who", "asker")
       \/ f \notin {answererfd, askerfd} /\ HGoto(c, "who", "clear")
  /\ UNCHANGED <<sockets, state, list, source, got, buf, removal, history>>

(* Lines 214 and 225. *)
OutOfTurnOnce(c) ==  (* faulty: a second question may follow the first *)
  \/ hpc[c] = "answerer" /\ state = "WAIT_ASKER"
  \/ hpc[c] = "asker" /\ state = "WAIT_CLIENTS"
OutOfTurn(c) ==
  \/ hpc[c] = "answerer" /\ state = "WAIT_ASKER"
  \/ hpc[c] = "asker" /\ state \in {"WAIT_CLIENTS", "WAIT_ANSWERER"}

HTurn(c) ==
  /\ \/ OutOfTurn(c) /\ hpc' = [hpc EXCEPT ![c] = "refuse"]
     \/ ~OutOfTurn(c) /\ (HGoto(c, "answerer", "answer") \/ HGoto(c, "asker", "ask"))
  /\ UNCHANGED <<sockets, state, list, source, got, buf, removal, history>>

(* Lines 215-216 and 226-227: the buffer keeps the refused message. *)
HRefuse(c) ==
  /\ HGoto(c, "refuse", "read")
  /\ Send(Ends({fd[cell[c]]}), {})
  /\ got' = [got EXCEPT ![c] = <<>>]
  /\ SoilAfter(c, IF soil[c] = "clean" THEN "refused" ELSE soil[c])
  /\ UNCHANGED <<phase, said, conn, unread, state, list, source, buf, removal,
                 pending, ended, crowded>>

(* Lines 218-221 and 229-230. *)
HRelay(c) ==
  /\ \/ /\ HGoto(c, "answer", "answered")
        /\ Send(Answerer, Asker) /\ pending' = FALSE
     \/ /\ HGoto(c, "ask", "asked")
        /\ Send({}, Answerer) /\ pending' = TRUE
  /\ UNCHANGED <<phase, said, conn, unread, state, list, source, got, buf, removal,
                 soil, ended, crowded>>

(* Lines 222 and 231. *)
HState(c) ==
  /\ \/ HGoto(c, "answered", "clear") /\ state' = "WAIT_ASKER"
     \/ HGoto(c, "asked", "clear") /\ state' = "WAIT_ANSWERER"
  /\ UNCHANGED <<sockets, list, source, got, buf, removal, history>>

(* Bytes up to the first zero: what strlen and the loop of lines 236-239   *)
(* see. *)
Text(b) == SubSeq(b, 1, Cardinality({i \in DOMAIN b : \A j \in 1..i : b[j] # 0}))

Kept(b)  == b  (* faulty: not cleared *)
Wiped(b) == [i \in 1..BUFFER |-> IF i <= Len(Text(b)) THEN 0 ELSE b[i]]

(* Lines 235-239. *)
HClear(c) ==
  /\ HGoto(c, "clear", "read")
  /\ buf' = [buf EXCEPT ![c] = Wiped(@)]
  /\ got' = [got EXCEPT ![c] = <<>>]
  /\ SoilAfter(c, IF soil[c] = "refused" THEN "clean" ELSE soil[c])
  /\ UNCHANGED <<sockets, state, list, source, removal, pending, ended, crowded>>
-----------------------------------------------------------------------------
(* client_handler, lines 179-197: the client of a thread has left. *)

(* Lines 181-182. *)
HClose(c) ==
  /\ HGoto(c, "close", "tell")
  /\ conn' = Closed({fd[cell[c]]})
  /\ inactive' = [inactive EXCEPT ![cell[c]] = TRUE]
  /\ crowded' = (crowded \/ MainInserts \/ \E d \in Clients \ {c} : Removes(d))
  /\ UNCHANGED <<phase, said, peer, unread, fate, state, head, actives, next, live, source,
                 got, buf, removal, pending, soil, ended>>

(* Lines 183, 184 and 190. *)
HTell(c) ==
  /\ hpc[c] = "tell"
  /\ \/ /\ fd[cell[c]] = answererfd
        /\ HGoto(c, "tell", "exit_asker") /\ Send(Asker, {})
     \/ /\ fd[cell[c]] # answererfd
        /\ HGoto(c, "tell", "exit_answerer") /\ Send(Answerer, {})
  /\ UNCHANGED <<phase, said, conn, unread, state, list, source, got, buf, removal, history>>

(* Lines 185 and 191. *)
HExit(c) ==
  /\ HGoto(c, "exit_asker", "mark_asker") \/ HGoto(c, "exit_answerer", "mark_answerer")
  /\ state' = "EXIT"
  /\ ended' = TRUE
  /\ UNCHANGED <<sockets, list, source, got, buf, removal, pending, soil, crowded>>

(* Lines 186 and 192: the struct of the other party. *)
OwnStruct(c)   == cell[c]  (* faulty *)
OtherStruct(c) == IF hpc[c] = "mark_asker" THEN asker ELSE answerer

HMark(c) ==
  /\ HGoto(c, "mark_asker", "drop_asker") \/ HGoto(c, "mark_answerer", "drop_answerer")
  /\ inactive' = [inactive EXCEPT ![OtherStruct(c)] = TRUE]
  /\ UNCHANGED <<sockets, state, head, actives, next, live, source, got, buf, removal, history>>

(* Lines 187 and 193, and the call of line 196. *)
HDrop(c) ==
  /\ \/ HGoto(c, "drop_asker", "remove") /\ conn' = Closed({askerfd})
     \/ HGoto(c, "drop_answerer", "remove") /\ conn' = Closed({answererfd})
  /\ UNCHANGED <<phase, said, peer, unread, fate, state, list, source, got, buf, removal,
                 history>>
-----------------------------------------------------------------------------
(* remove_inactives (lines 71-97), called twice by every thread that ends: *)
(* the call of line 196 returns to the break before that of line 242.      *)

Return(c) ==
  /\ hpc' = [hpc EXCEPT ![c] = IF leaving[c] THEN "done" ELSE "remove"]
  /\ leaving' = [leaving EXCEPT ![c] = TRUE]
  /\ current' = [current EXCEPT ![c] = NULL]
  /\ previous' = [previous EXCEPT ![c] = NULL]
  /\ UNCHANGED <<list, hreg>>

(* Lines 72 and 74. *)
RHead(c) ==
  /\ hpc[c] = "remove"
  /\ \/ head = NULL /\ Return(c)
     \/ /\ head # NULL
        /\ hpc' = [hpc EXCEPT ![c] = IF inactive[head] THEN "pop" ELSE "scan_head"]
        /\ UNCHANGED <<list, removal>>

(* Lines 75 and 83: temp, or current, becomes head. *)
RTakeHead(c) ==
  /\ HGoto(c, "pop", "unlink") \/ HGoto(c, "scan_head", "scan")
  /\ current' = [current EXCEPT ![c] = head]
  /\ UNCHANGED <<list, hreg, previous, leaving>>

(* Line 76: head = head->next. *)
RUnlink(c) ==
  /\ HGoto(c, "unlink", "uncount")
  /\ head' = next[head]
  /\ UNCHANGED <<actives, inactive, next, live, removal>>

(* Lines 85 and 86. *)
RScan(c) ==
  /\ hpc[c] = "scan"
  /\ \/ current[c] = NULL /\ Return(c)
     \/ /\ current[c] # NULL
        /\ hpc' = [hpc EXCEPT ![c] = IF inactive[current[c]] THEN "splice" ELSE "advance"]
        /\ UNCHANGED <<list, removal>>

(* Lines 93-94. *)
RAdvance(c) ==
  /\ HGoto(c, "advance", "scan")
  /\ previous' = [previous EXCEPT ![c] = current[c]]
  /\ current' = [current EXCEPT ![c] = next[current[c]]]
  /\ UNCHANGED <<list, hreg, leaving>>

(* Line 87. *)
RSplice(c) ==
  /\ HGoto(c, "splice", "uncount")
  /\ next' = [next EXCEPT ![previous[c]] = next[current[c]]]
  /\ UNCHANGED <<head, actives, inactive, live, removal>>

(* Lines 77 and 88: actives-- is a read and a write. *)
RUncount(c) ==
  /\ \/ /\ HGoto(c, "uncount", "uncounted")
        /\ hreg' = [hreg EXCEPT ![c] = actives] /\ UNCHANGED actives
     \/ /\ HGoto(c, "uncounted", "free")
        /\ actives' = hreg[c] - 1 /\ hreg' = [hreg EXCEPT ![c] = 0]
  /\ UNCHANGED <<head, inactive, next, live, current, previous, leaving>>

(* Lines 78-79 and 89-91. *)
RFree(c) ==
  /\ \/ /\ previous[c] = NULL
        /\ HGoto(c, "free", "remove") /\ current' = [current EXCEPT ![c] = NULL]
     \/ /\ previous[c] # NULL
        /\ HGoto(c, "free", "scan") /\ current' = [current EXCEPT ![c] = next[previous[c]]]
  /\ live' = live \ {current[c]}
  /\ UNCHANGED <<head, actives, inactive, next, hreg, previous, leaving>>

RemoveInactives(c) ==
  /\ \/ RHead(c) \/ RTakeHead(c) \/ RUnlink(c) \/ RScan(c) \/ RAdvance(c) \/ RSplice(c)
     \/ RUncount(c) \/ RFree(c)
  /\ UNCHANGED <<sockets, state, source, got, buf, history>>

(* The structs the next step of a thread uses. *)
Uses(c) ==
  CASE hpc[c] \in {"read", "who", "refuse", "close", "tell"} -> {cell[c]}
    [] hpc[c] \in {"mark_asker", "mark_answerer"} -> {OtherStruct(c)}
    [] hpc[c] = "remove" -> {head} \ {NULL}
    [] hpc[c] = "unlink" -> {head}
    [] hpc[c] = "scan" -> {current[c]} \ {NULL}
    [] hpc[c] = "advance" -> {current[c]}
    [] hpc[c] = "splice" -> {previous[c], current[c]}
    [] hpc[c] = "free" -> {current[c]} \cup ({previous[c]} \ {NULL})
    [] OTHER -> {}

Handle(c) ==
  /\ Uses(c) \subseteq live
  /\ \/ HRead(c) \/ HReading(c) \/ HCheck(c) \/ HWho(c) \/ HTurn(c) \/ HRefuse(c)
     \/ HRelay(c) \/ HState(c) \/ HClear(c)
     \/ HClose(c) \/ HTell(c) \/ HExit(c) \/ HMark(c) \/ HDrop(c)
     \/ RemoveInactives(c)
  /\ UNCHANGED <<fd, parties, mainVars, cell>>

Undefined(c) ==
  /\ ~(Uses(c) \subseteq live) \/ Overruns(c)
  /\ fate' = "undefined"
  /\ UNCHANGED <<phase, conn, peer, unread, said, state, parties, list, fd, mainVars,
                 handler, history>>

HStep(c) == Handle(c) \/ Undefined(c)
-----------------------------------------------------------------------------
Next ==
  \/ Running /\ MStep
  \/ Running /\ \E c \in Clients : HStep(c)
  \/ ClientStep /\ UNCHANGED <<state, parties, list, fd, mainVars, handler, history>>

Spec == Init /\ [][Next]_vars

(* Every thread that can go on is run eventually; a thread that is blocked *)
(* in accept or read is not one of them.  Clients owe nothing.             *)
FairSpec ==
  /\ Spec
  /\ WF_vars(Running /\ MStep)
  /\ \A c \in Clients : WF_vars(Running /\ HStep(c))
=============================================================================
