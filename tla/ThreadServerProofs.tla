-------------------------- MODULE ThreadServerProofs --------------------------
(***************************************************************************)
(* Proofs about the threads of hw8a.c, for any number of clients, messages *)
(* and lengths.  That turns alternate and that the list is exact is proved *)
(* for at most two clients at a time, as hw8a.c:12 has it.                 *)
(***************************************************************************)
EXTENDS ThreadServerSafety, FiniteSetTheorems, SequenceTheorems, WellFoundedInduction, TLAPS

(* Types.  Sending changes peer and fate, and nothing else. *)
LEMMA SendType ==
  ASSUME SocketsTypeOK, NEW once, NEW often, Send(once, often)
  PROVE  peer' \in [Clients -> {"up", "left", "reset"}] /\ fate' \in {"running", "killed", "undefined"}
BY DEF SocketsTypeOK, Send

LEMMA SizeType ==
  ASSUME SocketsTypeOK, NEW c \in Clients
  PROVE  /\ unread[c] \in Seq(0..MESSAGES) /\ Len(unread[c]) \in Nat
         /\ Size(c) \in 0..Len(unread[c]) /\ Size(c) <= BUFFER
<1>1. unread[c] \in Seq(0..MESSAGES)
  BY DEF SocketsTypeOK
<1>2. Len(unread[c]) \in Nat
  BY <1>1, LenProperties
<1> QED
  BY <1>1, <1>2, SocketsAssumption DEF Size

(* read takes messages from the front of the stream. *)
LEMMA ReadType ==
  ASSUME SocketsTypeOK, NEW c \in Clients
  PROVE  /\ SubSeq(unread[c], Size(c) + 1, Len(unread[c])) \in Seq(0..MESSAGES)
         /\ SubSeq(unread[c], 1, Size(c)) \in Seq(0..MESSAGES)
         /\ Len(SubSeq(unread[c], 1, Size(c))) = Size(c)
<1>1. /\ unread[c] \in Seq(0..MESSAGES) /\ Len(unread[c]) \in Nat
      /\ Size(c) \in 0..Len(unread[c])
  BY SizeType
<1>2. \A i \in 1..Len(unread[c]) : unread[c][i] \in 0..MESSAGES
  BY <1>1, ElementOfSeq
<1>3. (\A i \in Size(c) + 1 .. Len(unread[c]) : unread[c][i] \in 0..MESSAGES)
      /\ (\A i \in 1 .. Size(c) : unread[c][i] \in 0..MESSAGES)
  BY <1>1, <1>2
<1> QED
  BY <1>1, <1>3, SubSeqProperties

LEMMA ClientStepType ==
  ASSUME SocketsTypeOK, ClientStep
  PROVE  SocketsTypeOK' /\ conn' = conn /\ \A c \in Clients : phase[c] = "accepted" => phase'[c] = "accepted"
<1> PICK c \in Clients : Connect(c) \/ Say(c) \/ Leave(c)
  BY DEF ClientStep
<1> USE DEF SocketsTypeOK
<1>1. CASE Connect(c)
  BY <1>1 DEF Connect
<1>2. CASE Say(c)
  <2>1. said'[c] \in 0..MESSAGES /\ said' \in [Clients -> 0..MESSAGES]
    BY <1>2, SocketsAssumption DEF Say
  <2>2. PICK n \in Lengths, Z \in SUBSET ZeroBytes :
               unread' = [unread EXCEPT ![c] = @ \o Message(said'[c], n, Z)]
    BY <1>2 DEF Say
  <2>3. n \in Nat
    BY SocketsAssumption
  <2>4. Message(said'[c], n, Z) \in Seq(0..MESSAGES)
    <3>1. [i \in 1..n |-> IF i \in Z THEN 0 ELSE said'[c]] \in [1..n -> 0..MESSAGES]
      BY <2>1, SocketsAssumption
    <3> QED
      BY <2>3, <3>1 DEF Message
  <2>5. unread[c] \o Message(said'[c], n, Z) \in Seq(0..MESSAGES)
    BY <2>4, ConcatProperties
  <2> QED
    BY <1>2, <2>1, <2>2, <2>5 DEF Say
<1>3. CASE Leave(c)
  BY <1>3, SocketsAssumption DEF Leave
<1> QED
  BY <1>1, <1>2, <1>3

(* A read leaves the bytes it was given and behind them what was there. *)
Bytes == 0..MESSAGES \cup {GARBAGE}

LEMMA FillProperties ==
  ASSUME NEW b \in [1..BUFFER -> Bytes], NEW data \in Seq(0..MESSAGES), Len(data) <= BUFFER
  PROVE  /\ Fill(b, data) \in [1..BUFFER -> Bytes]
         /\ \A i \in 1..BUFFER : Fill(b, data)[i] = IF i <= Len(data) THEN data[i] ELSE b[i]
<1> DEFINE n == Len(data)
           rest == SubSeq(b, n + 1, BUFFER)
<1>1. n \in 0..BUFFER /\ BUFFER \in Nat
  BY LenProperties, SocketsAssumption
<1>2. \A i \in n + 1 .. BUFFER : b[i] \in Bytes
  <2> TAKE i \in n + 1 .. BUFFER
  <2>1. i \in 1..BUFFER
    BY <1>1
  <2> QED
    BY <2>1
<1>3. data \in Seq(Bytes)
  <2>1. data \in [1..n -> 0..MESSAGES]
    BY LenProperties
  <2>2. data \in [1..n -> Bytes]
    BY <2>1 DEF Bytes
  <2> QED
    BY <1>1, <2>2
<1>4. /\ rest \in Seq(Bytes) /\ Len(rest) = BUFFER - n
      /\ \A i \in 1..BUFFER - n : rest[i] = b[n + i]
  BY <1>1, <1>2, SubSeqProperties
<1>5. /\ Fill(b, data) \in Seq(Bytes) /\ Len(Fill(b, data)) = BUFFER
      /\ \A i \in 1..BUFFER : Fill(b, data)[i] = IF i <= n THEN data[i] ELSE rest[i - n]
  BY <1>1, <1>3, <1>4, ConcatProperties DEF Fill
<1>6. \A i \in 1..BUFFER : i > n => rest[i - n] = b[i]
  <2> TAKE i \in 1..BUFFER
  <2>1. i > n => i - n \in 1..BUFFER - n /\ n + (i - n) = i
    BY <1>1
  <2> QED
    BY <1>4, <2>1
<1> HIDE DEF rest
<1>7. Fill(b, data) \in [1..BUFFER -> Bytes]
  <2> DEFINE full == Fill(b, data)
  <2>1. full \in Seq(Bytes) /\ Len(full) = BUFFER
    BY <1>5
  <2> HIDE DEF full
  <2>2. full \in [1..Len(full) -> Bytes]
    BY <2>1, LenProperties
  <2> QED
    BY <2>1, <2>2 DEF full
<1>8. \A i \in 1..BUFFER : Fill(b, data)[i] = IF i <= n THEN data[i] ELSE b[i]
  BY <1>1, <1>5, <1>6
<1> QED
  BY <1>7, <1>8

(* What a thread notes about its buffer. *)
LEMMA SoilType ==
  ASSUME soil \in [Clients -> {"clean", "stack", "refused", "tail"}], NEW c \in Clients,
         NEW else \in {"clean", "stack", "refused", "tail"}, SoilAfter(c, else)
  PROVE  /\ soil' \in [Clients -> {"clean", "stack", "refused", "tail"}]
         /\ \A d \in Clients \ {c} : soil'[d] = soil[d]
         /\ soil'[c] = IF soil[c] \in {"clean", "refused"} /\ GoesOn(c) THEN "tail" ELSE else
BY DEF SoilAfter

LEMMA CellsType == Cardinality(Clients) \in Nat /\ NULL \notin Cells /\ STDIN \notin Fds
  BY SocketsAssumption, FS_CardinalityType DEF Cells, NULL, Fds, STDIN
-----------------------------------------------------------------------------
(* Type correctness, with what main has in hand while it inserts. *)

TypeInv == TypeOK /\ (MainInserts => mcell \in Cells /\ mclient \in Clients)

LEMMA TypeInit == Init => TypeInv
<1> SUFFICES ASSUME Init PROVE TypeInv
  OBVIOUS
<1> USE DEF Init, SocketsInit
<1>1. [c \in Clients |-> <<>>] \in [Clients -> Seq(0..MESSAGES)]
  BY EmptySeq
<1>2. SocketsTypeOK
  BY <1>1, SocketsAssumption DEF SocketsTypeOK
<1>3. buf \in [Clients -> [1..BUFFER -> 0..MESSAGES \cup {GARBAGE}]]
  BY SocketsAssumption
<1>4. /\ got \in [Clients -> Seq(0..MESSAGES)]
      /\ hpc \in [Clients -> HPcs] /\ hreg \in [Clients -> Int]
      /\ \A r \in {cell, current, previous} : r \in [Clients -> Cells \cup {NULL}]
      /\ source \in [Clients -> Clients \cup {NOBODY}]
      /\ leaving \in [Clients -> BOOLEAN] /\ soil \in [Clients -> {"clean", "stack", "refused", "tail"}]
  BY <1>1 DEF HPcs
<1>5. /\ fd \in [Cells -> Fds \cup {STDIN}] /\ inactive \in [Cells -> BOOLEAN]
      /\ next \in [Cells -> Cells \cup {NULL}] /\ live \subseteq Cells
      /\ mpc \in MPcs /\ ~MainInserts
  BY DEF MPcs, MainInserts
<1>6. {actives, mreg} \subseteq Int /\ mclient \in Clients \cup {NOBODY}
      /\ {asker, answerer, head, mcell} \subseteq Cells \cup {NULL}
      /\ {askerfd, answererfd} \subseteq Fds \cup {STDIN}
  OBVIOUS
<1>7. /\ state \in {"WAIT_CLIENTS", "WAIT_ASKER", "WAIT_ANSWERER", "EXIT"}
      /\ pending \in BOOLEAN /\ ended \in BOOLEAN /\ crowded \in BOOLEAN
  OBVIOUS
<1> QED
  BY <1>2, <1>3, <1>4, <1>5, <1>6, <1>7 DEF TypeInv, TypeOK

LEMMA TypeMain == ASSUME TypeInv, MStep PROVE TypeInv'
<1>0. UNCHANGED <<unread, said, source, got, removal>>
  BY DEF MStep
<1> USE CellsType DEF TypeInv, TypeOK, SocketsTypeOK, sockets, parties, list, history, removal,
                      MGoto, MainInserts, MPcs
<1>1. CASE MCreate
  <2>1. ("read" \in HPcs) /\ mcell \in Cells /\ mclient \in Clients
    BY <1>1 DEF MCreate, HPcs
  <2>2. buf' \in [Clients -> [1..BUFFER -> 0..MESSAGES \cup {GARBAGE}]]
        /\ soil' \in [Clients -> {"clean", "stack", "refused", "tail"}]
    <3>1. PICK G \in SUBSET (Stacks \cap 1..BUFFER) :
            /\ buf' = [buf EXCEPT ![mclient] = [i \in 1..BUFFER |-> IF i \in G THEN GARBAGE ELSE 0]]
            /\ soil' = [soil EXCEPT ![mclient] = IF G = {} THEN "clean" ELSE "stack"]
      BY <1>1 DEF MCreate
    <3>2. [i \in 1..BUFFER |-> IF i \in G THEN GARBAGE ELSE 0]
            \in [1..BUFFER -> 0..MESSAGES \cup {GARBAGE}]
      BY SocketsAssumption
    <3> QED
      BY <2>1, <3>1, <3>2
  <2>3. hpc' \in [Clients -> HPcs] /\ cell' \in [Clients -> Cells \cup {NULL}]
    BY <1>1, <2>1 DEF MCreate
  <2> HIDE DEF HPcs
  <2> QED
    BY <1>0, <1>1, <2>2, <2>3 DEF MCreate
<1>2. CASE UNCHANGED <<hpc, cell, buf>>
  <2>1. CASE MLoop
    BY <1>0, <1>2, <2>1 DEF MLoop
  <2>2. CASE MAccept
    <3>1. PICK f \in Fds : Accept(mclient', f) /\ fd' = [fd EXCEPT ![mcell'] = f]
      BY <2>2 DEF MAccept
    <3>2. mclient' \in Clients /\ mcell' \in Cells
      BY <2>2 DEF MAccept, Queue
    <3>3. /\ phase' \in [Clients -> {"away", "queued", "accepted"}]
          /\ conn' \in [Fds -> Clients \cup {NOBODY}]
          /\ fd' \in [Cells -> Fds \cup {STDIN}]
      BY <3>1, <3>2 DEF Accept
    <3> QED
      BY <1>0, <1>2, <2>2, <3>2, <3>3, SMTT(30) DEF MAccept
  <2>3. CASE MLink
    BY <1>0, <1>2, <2>3 DEF MLink
  <2>4. CASE MGreet
    BY <1>0, <1>2, <2>4, SendType DEF MGreet
  <2>5. CASE MInvite
    BY <1>0, <1>2, <2>5, SendType DEF MInvite
  <2>6. CASE MState
    BY <1>0, <1>2, <2>6 DEF MState
  <2>7. CASE MParty
    BY <1>0, <1>2, <2>7, SMTT(30) DEF MParty
  <2>8. CASE MCreateFails
    BY <1>0, <1>2, <2>8 DEF MCreateFails, Closed
  <2>9. CASE MEnlist
    BY <1>0, <1>2, <2>9 DEF MEnlist
  <2> QED
    BY <1>1, <2>1, <2>2, <2>3, <2>4, <2>5, <2>6, <2>7, <2>8, <2>9 DEF MStep
<1> QED
  BY <1>1, <1>2 DEF MStep

(* A thread that does not use a struct it has no right to moves on, by     *)
(* itself, within its program. *)
LEMMA OwnPc ==
  ASSUME NEW c \in Clients, Handle(c)
  PROVE  \E x \in HPcs : hpc' = [hpc EXCEPT ![c] = x]
<1> USE DEF HGoto, HPcs
<1>1. CASE RemoveInactives(c)
  <2>1. CASE RHead(c)
    BY <2>1 DEF RHead, Return
  <2>2. CASE RScan(c)
    BY <2>2 DEF RScan, Return
  <2>3. CASE RTakeHead(c) \/ RUnlink(c) \/ RAdvance(c)
    BY <2>3 DEF RTakeHead, RUnlink, RAdvance
  <2>4. CASE RSplice(c) \/ RUncount(c) \/ RFree(c)
    BY <2>4 DEF RSplice, RUncount, RFree
  <2> QED
    BY <1>1, <2>1, <2>2, <2>3, <2>4 DEF RemoveInactives
<1>2. CASE HRead(c) \/ HReading(c)
  BY <1>2 DEF HRead, HReading
<1>3. CASE HCheck(c)
  BY <1>3 DEF HCheck
<1>4. CASE HWho(c)
  BY <1>4 DEF HWho
<1>5. CASE HTurn(c) \/ HRefuse(c)
  BY <1>5 DEF HTurn, HRefuse
<1>6. CASE HRelay(c) \/ HState(c) \/ HClear(c)
  BY <1>6 DEF HRelay, HState, HClear
<1>7. CASE HClose(c) \/ HTell(c)
  BY <1>7 DEF HClose, HTell
<1>8. CASE HExit(c) \/ HMark(c) \/ HDrop(c)
  BY <1>8 DEF HExit, HMark, HDrop
<1> QED
  BY <1>1, <1>2, <1>3, <1>4, <1>5, <1>6, <1>7, <1>8 DEF Handle

(* remove_inactives. *)
LEMMA TypeRemoval ==
  ASSUME TypeInv, NEW c \in Clients, Handle(c), RemoveInactives(c),
         UNCHANGED <<fd, parties, mainVars, cell>>
  PROVE  TypeInv'
<1>0. UNCHANGED <<sockets, state, source, got, buf, history>>
  BY DEF RemoveInactives
<1>1. /\ {actives'} \subseteq Int /\ hreg' \in [Clients -> Int]
      /\ head' \in Cells \cup {NULL}
      /\ next' \in [Cells -> Cells \cup {NULL}] /\ inactive' \in [Cells -> BOOLEAN]
      /\ live' \subseteq Cells
      /\ current' \in [Clients -> Cells \cup {NULL}] /\ previous' \in [Clients -> Cells \cup {NULL}]
      /\ hpc' \in [Clients -> HPcs] /\ leaving' \in [Clients -> BOOLEAN]
  <2>0. /\ {actives} \subseteq Int /\ hreg \in [Clients -> Int]
        /\ head \in Cells \cup {NULL}
        /\ next \in [Cells -> Cells \cup {NULL}] /\ inactive \in [Cells -> BOOLEAN]
        /\ live \subseteq Cells
        /\ current \in [Clients -> Cells \cup {NULL}] /\ previous \in [Clients -> Cells \cup {NULL}]
        /\ hpc \in [Clients -> HPcs] /\ leaving \in [Clients -> BOOLEAN]
    BY DEF TypeInv, TypeOK
  <2>a. hpc' \in [Clients -> HPcs]
    BY <2>0, OwnPc
  <2> USE CellsType DEF HGoto, Return, list, removal
  <2>1. CASE RHead(c)
    BY <2>0, <2>a, <2>1 DEF RHead
  <2>2. CASE RTakeHead(c)
    BY <2>0, <2>a, <2>2 DEF RTakeHead
  <2>3. CASE RUnlink(c)
    <3>1. head \in live
      BY <2>3 DEF RUnlink, Uses, Handle
    <3> QED
      BY <2>0, <2>a, <2>3, <3>1 DEF RUnlink
  <2>4. CASE RScan(c)
    BY <2>0, <2>a, <2>4 DEF RScan
  <2>5. CASE RAdvance(c)
    <3>1. current[c] \in live
      BY <2>5 DEF RAdvance, Uses, Handle
    <3> QED
      BY <2>0, <2>a, <2>5, <3>1 DEF RAdvance
  <2>6. CASE RSplice(c)
    <3>1. current[c] \in live
      BY <2>6 DEF RSplice, Uses, Handle
    <3> QED
      BY <2>0, <2>a, <2>6, <3>1 DEF RSplice
  <2>7. CASE RUncount(c)
    <3>1. hreg[c] - 1 \in Int
      BY <2>0
    <3> QED
      BY <2>0, <2>a, <2>7, <3>1 DEF RUncount
  <2>8. CASE RFree(c)
    <3>1. previous[c] \in live \cup {NULL}
      BY <2>0, <2>a, <2>8 DEF RFree, Uses, Handle
    <3> QED
      BY <2>0, <2>a, <2>8, <3>1 DEF RFree
  <2> QED
    BY <2>1, <2>2, <2>3, <2>4, <2>5, <2>6, <2>7, <2>8 DEF RemoveInactives
<1> QED
  BY <1>0, <1>1, SMTT(30)
     DEF TypeInv, TypeOK, SocketsTypeOK, sockets, parties, history, mainVars, MainInserts

(* client_handler.  A cell it uses is allocated. *)
LEMMA TypeThread == ASSUME TypeInv, NEW c \in Clients, HStep(c) PROVE TypeInv'
<1>1. CASE Undefined(c)
  <2>1. /\ fate' = "undefined"
        /\ UNCHANGED <<phase, conn, peer, unread, said, state, parties, list, fd, mainVars,
                       handler, history>>
    BY <1>1 DEF Undefined
  <2> QED
    BY <2>1 DEF TypeInv, TypeOK, SocketsTypeOK, parties, list, mainVars, handler, removal,
                history, MainInserts
<1>2. CASE Handle(c)
  <2>0. UNCHANGED <<fd, parties, mainVars, cell>>
    BY <1>2 DEF Handle
  <2>1. CASE RemoveInactives(c)
    BY <1>2, <2>0, <2>1, TypeRemoval
  <2>s. /\ soil \in [Clients -> {"clean", "stack", "refused", "tail"}]
        /\ soil[c] \in {"clean", "stack", "refused", "tail"}
    BY DEF TypeInv, TypeOK
  <2> USE CellsType DEF TypeInv, TypeOK, SocketsTypeOK, sockets, parties, list, history, removal,
                        mainVars, HGoto, MainInserts
  <2>a. hpc' \in [Clients -> HPcs]
    BY <1>2, OwnPc, ZenonT(40)
  <2>2. CASE HRead(c)
    <3>1. cell[c] \in Cells
      BY <1>2, <2>2 DEF HRead, Uses, Handle
    <3>2. source' \in [Clients -> Clients \cup {NOBODY}]
      BY <2>2, <3>1 DEF HRead, Open
    <3> QED
      BY <2>0, <2>2, <2>a, <3>2 DEF HRead
  <2>3. CASE HReading(c)
    <3>1. CASE source[c] = NOBODY
      <4>1. got' = [got EXCEPT ![c] = <<>>] /\ UNCHANGED <<unread, buf>>
        BY <2>3, <3>1 DEF HReading
      <4>2. got' \in [Clients -> Seq(0..MESSAGES)]
        BY <4>1, EmptySeq
      <4> QED
        BY <2>0, <2>3, <2>a, <4>1, <4>2, SMTT(30) DEF HReading
    <3>2. CASE source[c] # NOBODY
      <4> DEFINE d == source[c]
                 data == SubSeq(unread[d], 1, Size(d))
                 rest == SubSeq(unread[d], Size(d) + 1, Len(unread[d]))
      <4>1. /\ d \in Clients /\ got' = [got EXCEPT ![c] = data]
            /\ unread' = [unread EXCEPT ![d] = rest]
            /\ buf' = [buf EXCEPT ![c] = Fill(@, got'[c])]
        BY <2>3, <3>2 DEF HReading, Read
      <4>2. data \in Seq(0..MESSAGES) /\ rest \in Seq(0..MESSAGES) /\ Len(data) <= BUFFER
        BY <4>1, ReadType, SizeType, ZenonT(40)
      <4> HIDE DEF data, rest
      <4>3. /\ got' \in [Clients -> Seq(0..MESSAGES)] /\ got'[c] = data
            /\ unread' \in [Clients -> Seq(0..MESSAGES)]
        BY <4>1, <4>2
      <4>4. Fill(buf[c], data) \in [1..BUFFER -> Bytes]
        BY <4>2, FillProperties DEF Bytes
      <4>5. buf' \in [Clients -> [1..BUFFER -> 0..MESSAGES \cup {GARBAGE}]]
        BY <4>1, <4>3, <4>4 DEF Bytes
      <4> QED
        BY <2>0, <2>3, <2>a, <4>3, <4>5, ZenonT(40) DEF HReading
    <3> QED
      BY <3>1, <3>2
  <2>4. CASE HCheck(c)
    <3>1. soil' = soil \/ SoilAfter(c, soil[c])
      BY <2>4 DEF HCheck
    <3>2. soil' \in [Clients -> {"clean", "stack", "refused", "tail"}]
      BY <2>s, <3>1, SoilType, Zenon
    <3> QED
      BY <2>0, <2>4, <2>a, <3>2, SMTT(30) DEF HCheck
  <2>5. CASE HWho(c)
    BY <2>0, <2>5, <2>a, SMTT(30) DEF HWho
  <2>6. CASE HTurn(c)
    BY <2>0, <2>6, <2>a DEF HTurn
  <2>7. CASE HRefuse(c)
    <3>1. got' \in [Clients -> Seq(0..MESSAGES)]
      BY <2>7, EmptySeq DEF HRefuse
    <3>2. soil' \in [Clients -> {"clean", "stack", "refused", "tail"}]
      <4> DEFINE else == IF soil[c] = "clean" THEN "refused" ELSE soil[c]
      <4>1. SoilAfter(c, else) /\ else \in {"clean", "stack", "refused", "tail"}
        BY <2>7 DEF HRefuse
      <4> HIDE DEF else
      <4> QED
        BY <4>1, SoilType
    <3> QED
      BY <2>0, <2>7, <2>a, <3>1, <3>2, SendType DEF HRefuse
  <2>8. CASE HRelay(c)
    BY <2>0, <2>8, <2>a, SendType DEF HRelay
  <2>9. CASE HState(c)
    BY <2>0, <2>9, <2>a DEF HState
  <2>10. CASE HClear(c)
    <3>1. got' \in [Clients -> Seq(0..MESSAGES)]
      BY <2>10, EmptySeq DEF HClear
    <3>2. Wiped(buf[c]) \in [1..BUFFER -> 0..MESSAGES \cup {GARBAGE}]
      BY SocketsAssumption DEF Wiped
    <3>3. buf' \in [Clients -> [1..BUFFER -> 0..MESSAGES \cup {GARBAGE}]]
      BY <2>10, <3>2 DEF HClear
    <3>4. soil' \in [Clients -> {"clean", "stack", "refused", "tail"}]
      <4> DEFINE else == IF soil[c] = "refused" THEN "clean" ELSE soil[c]
      <4>1. SoilAfter(c, else) /\ else \in {"clean", "stack", "refused", "tail"}
        BY <2>10 DEF HClear
      <4> HIDE DEF else
      <4> QED
        BY <4>1, SoilType
    <3> QED
      BY <2>0, <2>10, <2>a, <3>1, <3>3, <3>4, SMTT(30) DEF HClear
  <2>11. CASE HClose(c)
    <3>1. cell[c] \in Cells
      BY <1>2, <2>11 DEF HClose, Uses, Handle
    <3> QED
      BY <2>0, <2>11, <2>a, <3>1, SMTT(30) DEF HClose, Closed
  <2>12. CASE HTell(c)
    BY <2>0, <2>12, <2>a, SendType, SMTT(30) DEF HTell
  <2>13. CASE HExit(c)
    BY <2>0, <2>13, <2>a DEF HExit
  <2>14. CASE HMark(c)
    BY <2>0, <2>14, <2>a, ZenonT(40) DEF HMark
  <2>15. CASE HDrop(c)
    BY <2>0, <2>15, <2>a, SMTT(30) DEF HDrop, Closed
  <2> QED
    BY <1>2, <2>1, <2>2, <2>3, <2>4, <2>5, <2>6, <2>7, <2>8, <2>9, <2>10, <2>11, <2>12, <2>13,
       <2>14, <2>15 DEF Handle
<1> QED
  BY <1>1, <1>2 DEF HStep

LEMMA TypeNext == TypeInv /\ [Next]_vars => TypeInv'
<1> SUFFICES ASSUME TypeInv, [Next]_vars PROVE TypeInv'
  OBVIOUS
<1>1. CASE MStep
  BY <1>1, TypeMain
<1>2. ASSUME NEW c \in Clients, HStep(c) PROVE TypeInv'
  BY <1>2, TypeThread
<1>3. CASE (ClientStep /\ UNCHANGED <<state, parties, list, fd, mainVars, handler, history>>)
           \/ UNCHANGED vars
  <2>1. SocketsTypeOK'
    BY <1>3, ClientStepType DEF TypeInv, TypeOK, SocketsTypeOK, vars, sockets
  <2>2. UNCHANGED <<state, parties, list, fd, mainVars, handler, history>>
    BY <1>3 DEF vars
  <2> QED
    BY <2>1, <2>2 DEF TypeInv, TypeOK, parties, list, mainVars, handler, removal, history,
                      MainInserts
<1> QED
  BY <1>1, <1>2, <1>3 DEF Next

(* Every variable keeps to its type, whatever the threads do to each other *)
(* (hw8a.c:19-35 and 161-164). *)
THEOREM TypeCorrect == Spec => []TypeOK
<1>1. TypeInv => TypeOK
  BY DEF TypeInv
<1> QED
  BY <1>1, TypeInit, TypeNext, PTL DEF Spec
-----------------------------------------------------------------------------
(* What is in a buffer: nothing, or a text behind which it is empty, and   *)
(* while nothing has been refused just what was read.  A stack that was    *)
(* not clean, or a message that goes on behind a zero, ends all that.      *)

Zeros(b) == \A i \in 1..BUFFER : b[i] = 0
Solid(b) == \E n \in 0..BUFFER : \A i \in 1..BUFFER : b[i] # 0 <=> i <= n
Holds(b, data) ==
  /\ Len(data) <= BUFFER
  /\ \A i \in 1..BUFFER : b[i] = IF i <= Len(data) THEN data[i] ELSE 0

Arrives == {"none", "read", "reading"}
Handles == {"check", "who", "answerer", "asker", "refuse", "answer", "answered", "ask",
            "asked", "clear"}

Known(c) == soil[c] \in {"clean", "refused"}

BufferFits(c) ==
  /\ phase[c] # "accepted" => hpc[c] = "none"
  /\ hpc[c] = "none" => Zeros(buf[c]) /\ soil[c] = "clean"
  /\ Known(c) /\ hpc[c] \in Arrives => Solid(buf[c])
  /\ Known(c) /\ hpc[c] \in Handles /\ ~GoesOn(c) => Solid(buf[c])
  /\ soil[c] = "clean" /\ hpc[c] \in Arrives => Zeros(buf[c])
  /\ soil[c] = "clean" /\ hpc[c] \in Handles => Holds(buf[c], got[c])

(* From malloc to pthread_create: a client without a thread. *)
Introduces == mpc \in {"link", "greet", "asker_state", "asker_fd", "asker", "invite",
                       "answerer_state", "answerer_fd", "answerer", "create"}

BufferInv ==
  /\ \A c \in Clients : BufferFits(c)
  /\ Introduces => phase[mclient] = "accepted" /\ hpc[mclient] = "none"

Buffers == [1..BUFFER -> Bytes]

LEMMA ZerosAreSolid == ASSUME NEW b, Zeros(b) PROVE Solid(b)
<1>1. 0 \in 0..BUFFER /\ \A i \in 1..BUFFER : b[i] # 0 <=> i <= 0
  BY SocketsAssumption DEF Zeros
<1> QED
  BY <1>1 DEF Solid

(* What strlen sees. *)
LEMMA TextIs ==
  ASSUME NEW b \in Buffers, NEW n \in 0..BUFFER, \A i \in 1..BUFFER : b[i] # 0 <=> i <= n
  PROVE  Len(Text(b)) = n
<1>0. BUFFER \in Nat /\ n \in Int /\ DOMAIN b = 1..BUFFER
  BY SocketsAssumption DEF Buffers
<1>1. {i \in DOMAIN b : \A j \in 1..i : b[j] # 0} = 1..n
  <2>1. ASSUME NEW i \in 1..BUFFER, \A j \in 1..i : b[j] # 0 PROVE i \in 1..n
    <3>1. b[i] # 0
      BY <2>1, <1>0
    <3> QED
      BY <3>1, <1>0
  <2>2. ASSUME NEW i \in 1..n PROVE i \in 1..BUFFER /\ \A j \in 1..i : b[j] # 0
    BY <1>0
  <2> QED
    BY <1>0, <2>1, <2>2
<1>2. Cardinality(1..n) = n
  <2>1. \A k \in Int : Cardinality(1..k) = IF 1 > k THEN 0 ELSE k - 1 + 1
    BY FS_Interval
  <2> QED
    BY <1>0, <2>1
<1>3. Text(b) = SubSeq(b, 1, n)
  BY <1>1, <1>2 DEF Text
<1>4. \A i \in 1..n : b[i] \in Bytes
  BY <1>0 DEF Buffers
<1>5. Len(SubSeq(b, 1, n)) = n
  BY <1>0, <1>4, SubSeqProperties
<1> QED
  BY <1>3, <1>5

(* It sees the same in a buffer that holds a message as in the message:    *)
(* what is behind the message is zero. *)
LEMMA HoldsText ==
  ASSUME NEW b \in Buffers, NEW data \in Seq(0..MESSAGES), Holds(b, data)
  PROVE  Text(b) = Text(data)
<1> DEFINE n == Len(data)
           S == {i \in 1..n : \A j \in 1..i : data[j] # 0}
           k == Cardinality(S)
<1>1. n \in 0..BUFFER /\ data \in [1..n -> 0..MESSAGES] /\ BUFFER \in Nat
      /\ DOMAIN b = 1..BUFFER /\ DOMAIN data = 1..n
  BY LenProperties, SocketsAssumption DEF Holds, Buffers
<1>2. \A i \in 1..BUFFER : b[i] = IF i <= n THEN data[i] ELSE 0
  BY DEF Holds
<1>3. {i \in DOMAIN b : \A j \in 1..i : b[j] # 0} = S
  <2>1. ASSUME NEW i \in 1..BUFFER, \A j \in 1..i : b[j] # 0 PROVE i \in S
    <3>1. i <= n
      BY <1>1, <1>2, <2>1
    <3>2. \A j \in 1..i : data[j] = b[j]
      BY <1>1, <1>2, <3>1
    <3> QED
      BY <1>1, <2>1, <3>1, <3>2
  <2>2. ASSUME NEW i \in S PROVE i \in 1..BUFFER /\ \A j \in 1..i : b[j] # 0
    <3>1. \A j \in 1..i : data[j] = b[j]
      BY <1>1, <1>2
    <3> QED
      BY <1>1, <3>1
  <2> QED
    BY <1>1, <2>1, <2>2
<1>4. Text(b) = SubSeq(b, 1, k) /\ Text(data) = SubSeq(data, 1, k)
  BY <1>1, <1>3 DEF Text
<1>5. k \in 0..n
  <2>1. IsFiniteSet(1..n) /\ Cardinality(1..n) = n
    <3>1. \A m \in Int : /\ IsFiniteSet(1..m)
                         /\ Cardinality(1..m) = IF 1 > m THEN 0 ELSE m - 1 + 1
      BY FS_Interval
    <3> QED
      BY <1>1, <3>1
  <2>2. S \subseteq 1..n
    OBVIOUS
  <2>3. IsFiniteSet(S) /\ k <= n
    BY <2>1, <2>2, FS_Subset
  <2>4. k \in Nat
    BY <2>3, FS_CardinalityType
  <2> QED
    BY <1>1, <2>3, <2>4
<1> HIDE DEF k, S
<1>6. /\ SubSeq(b, 1, k) \in Seq(Bytes) /\ Len(SubSeq(b, 1, k)) = k
      /\ \A i \in 1..k : SubSeq(b, 1, k)[i] = b[i]
  <2>1. \A i \in 1..k : b[i] \in Bytes
    BY <1>1, <1>5 DEF Buffers
  <2> QED
    BY <1>1, <1>5, <2>1, SubSeqProperties
<1>7. /\ SubSeq(data, 1, k) \in Seq(Bytes) /\ Len(SubSeq(data, 1, k)) = k
      /\ \A i \in 1..k : SubSeq(data, 1, k)[i] = data[i]
  <2>1. \A i \in 1..k : data[i] \in Bytes
    BY <1>1, <1>5 DEF Bytes
  <2> QED
    BY <1>1, <1>5, <2>1, SubSeqProperties
<1>8. \A i \in 1..k : SubSeq(b, 1, k)[i] = SubSeq(data, 1, k)[i]
  BY <1>1, <1>2, <1>5, <1>6, <1>7
<1> QED
  BY <1>4, <1>6, <1>7, <1>8, SeqEqual

(* The loop of lines 236-239 empties a buffer that holds one text. *)
LEMMA WipedSolid ==
  ASSUME NEW b \in Buffers, Solid(b) PROVE Zeros(Wiped(b))
<1>1. PICK n \in 0..BUFFER : \A i \in 1..BUFFER : b[i] # 0 <=> i <= n
  BY DEF Solid
<1>2. Len(Text(b)) = n
  BY <1>1, TextIs
<1> QED
  BY <1>1, <1>2 DEF Zeros, Wiped

(* A message on top of a text, without a zero, and one on an empty buffer. *)
LEMMA FillSolid ==
  ASSUME NEW b \in Buffers, NEW data \in Seq(0..MESSAGES), Len(data) <= BUFFER
  PROVE  /\ Solid(b) /\ (\A i \in DOMAIN data : data[i] # 0) => Solid(Fill(b, data))
         /\ Zeros(b) => Holds(Fill(b, data), data)
<1> DEFINE n == Len(data)
           full == Fill(b, data)
<1>1. n \in 0..BUFFER /\ data \in [1..n -> 0..MESSAGES] /\ BUFFER \in Nat /\ DOMAIN data = 1..n
  BY LenProperties, SocketsAssumption
<1>2. \A i \in 1..BUFFER : full[i] = IF i <= n THEN data[i] ELSE b[i]
  BY FillProperties DEF Buffers
<1> HIDE DEF full
<1>3. Zeros(b) => Holds(full, data)
  BY <1>1, <1>2 DEF Zeros, Holds
<1>4. ASSUME NEW m \in 0..BUFFER, \A i \in 1..BUFFER : b[i] # 0 <=> i <= m,
             \A i \in DOMAIN data : data[i] # 0
      PROVE  Solid(full)
  <2> DEFINE k == IF m < n THEN n ELSE m
  <2>1. k \in 0..BUFFER /\ \A i \in 1..BUFFER : full[i] # 0 <=> i <= k
    BY <1>1, <1>2, <1>4
  <2> QED
    BY <2>1 DEF Solid
<1> QED
  BY <1>3, <1>4 DEF Solid, full

(* A buffer without anything behind a zero holds one text. *)
LEMMA Smallest ==
  ASSUME NEW T, T \subseteq Nat, T # {}
  PROVE  \E x \in T : \A y \in T : x <= y
<1> DEFINE R == {ss \in Nat \X Nat : ss[1] < ss[2]}
<1>1. IsWellFoundedOn(R, Nat)
  BY NatLessThanWellFounded DEF OpToRel
<1>2. \E x \in T : \A y \in T : ~ (<<y, x>> \in R)
  <2> HIDE DEF R
  <2> QED
    BY <1>1, WFMin
<1>3. ASSUME NEW x \in Nat, NEW y \in Nat, ~ (<<y, x>> \in R) PROVE x <= y
  <2>1. ~ (y < x)
    BY <1>3, Zenon
  <2> QED
    BY <2>1
<1> HIDE DEF R
<1> QED
  BY <1>2, <1>3

LEMMA OneText ==
  ASSUME NEW b, \A i, j \in 1..BUFFER : i < j /\ b[i] = 0 => b[j] = 0
  PROVE  Solid(b)
<1>0. BUFFER \in Nat
  BY SocketsAssumption
<1>1. CASE \A i \in 1..BUFFER : b[i] # 0
  <2>1. BUFFER \in 0..BUFFER /\ \A i \in 1..BUFFER : b[i] # 0 <=> i <= BUFFER
    BY <1>0, <1>1
  <2> QED
    BY <2>1 DEF Solid
<1>2. CASE \E i \in 1..BUFFER : b[i] = 0
  <2> DEFINE T == {i \in 1..BUFFER : b[i] = 0}
  <2>1. PICK x \in T : \A y \in T : x <= y
    <3>1. T \subseteq Nat /\ T # {}
      BY <1>0, <1>2
    <3> QED
      BY <3>1, Smallest
  <2>2. x - 1 \in 0..BUFFER /\ \A i \in 1..BUFFER : b[i] # 0 <=> i <= x - 1
    BY <1>0, <2>1
  <2> QED
    BY <2>2 DEF Solid
<1> QED
  BY <1>1, <1>2

(* What has just been read stands alone and has nothing behind a zero. *)
LEMMA HeldIsSolid ==
  ASSUME NEW b, NEW data \in Seq(0..MESSAGES), Holds(b, data),
         ~ \E i, j \in DOMAIN data : data[i] = 0 /\ j > i /\ data[j] # 0
  PROVE  Solid(b) /\ (b[1] = 0 => Zeros(b))
<1> DEFINE n == Len(data)
<1>1. n \in Nat /\ DOMAIN data = 1..n /\ BUFFER \in Nat \ {0}
  BY LenProperties, SocketsAssumption
<1>2. \A i \in 1..BUFFER : b[i] = IF i <= n THEN data[i] ELSE 0
  BY DEF Holds
<1>3. \A i, j \in 1..n : data[i] = 0 /\ j > i => data[j] = 0
  BY <1>1
<1>4. \A i, j \in 1..BUFFER : i < j /\ b[i] = 0 => b[j] = 0
  BY <1>1, <1>2, <1>3
<1>5. b[1] = 0 => Zeros(b)
  <2>1. 1 \in 1..BUFFER /\ \A j \in 1..BUFFER : j = 1 \/ 1 < j
    BY <1>1
  <2> QED
    BY <1>4, <2>1 DEF Zeros
<1>6. Solid(b)
  BY <1>4, OneText
<1> QED
  BY <1>5, <1>6

LEMMA BufferInit == Init => BufferInv
<1> SUFFICES ASSUME Init PROVE BufferInv
  OBVIOUS
<1>1. ASSUME NEW c \in Clients PROVE Zeros(buf[c]) /\ hpc[c] = "none" /\ soil[c] = "clean"
  BY DEF Init, Zeros
<1>2. ~Introduces
  BY DEF Init, Introduces
<1> QED
  BY <1>1, <1>2, ZerosAreSolid DEF BufferInv, BufferFits, Handles

LEMMA BufferMain == ASSUME TypeInv, BufferInv, MStep PROVE BufferInv'
<1>0. UNCHANGED got
  BY DEF MStep
<1> USE DEF MGoto
<1>a. /\ phase \in [Clients -> {"away", "queued", "accepted"}]
      /\ hpc \in [Clients -> HPcs] /\ soil \in [Clients -> {"clean", "stack", "refused", "tail"}]
      /\ buf \in [Clients -> [1..BUFFER -> 0..MESSAGES \cup {GARBAGE}]]
  BY DEF TypeInv, TypeOK, SocketsTypeOK
<1>1. CASE MCreate
  <2>1. /\ mclient \in Clients /\ phase[mclient] = "accepted" /\ hpc[mclient] = "none"
        /\ hpc' = [hpc EXCEPT ![mclient] = "read"] /\ phase' = phase
        /\ mpc' = "head" /\ mclient' = mclient
    BY <1>1 DEF MCreate, TypeInv, MainInserts, Introduces, BufferInv, sockets
  <2>2. ASSUME NEW c \in Clients, c # mclient PROVE BufferFits(c)'
    <3>1. buf'[c] = buf[c] /\ soil'[c] = soil[c] /\ hpc'[c] = hpc[c] /\ phase'[c] = phase[c]
          /\ got'[c] = got[c]
      BY <1>0, <1>1, <1>a, <2>1, <2>2 DEF MCreate
    <3> QED
      BY <3>1 DEF BufferInv, BufferFits, Known, GoesOn, Zeros, Solid, Holds
  <2>3. BufferFits(mclient)'
    <3>1. PICK G \in SUBSET (Stacks \cap 1..BUFFER) :
            /\ buf' = [buf EXCEPT ![mclient] = [i \in 1..BUFFER |-> IF i \in G THEN GARBAGE ELSE 0]]
            /\ soil' = [soil EXCEPT ![mclient] = IF G = {} THEN "clean" ELSE "stack"]
      BY <1>1 DEF MCreate
    <3>2. hpc'[mclient] = "read" /\ phase'[mclient] = "accepted"
      BY <1>a, <2>1
    <3>3. G = {} => (\A i \in 1..BUFFER : buf'[mclient][i] = 0)
      BY <1>a, <2>1, <3>1
    <3>4. G = {} => Zeros(buf'[mclient]) /\ Solid(buf'[mclient])
      BY <3>3, ZerosAreSolid DEF Zeros
    <3>5. soil'[mclient] = IF G = {} THEN "clean" ELSE "stack"
      BY <1>a, <2>1, <3>1
    <3> QED
      BY <2>1, <3>2, <3>4, <3>5 DEF BufferFits, Known, Zeros, Solid, Arrives, Handles
  <2> QED
    BY <2>1, <2>2, <2>3 DEF BufferInv, Introduces
<1>2. CASE MAccept /\ UNCHANGED <<hpc, cell, buf>>
  <2>1. /\ mclient' \in Clients /\ phase[mclient'] = "queued"
        /\ phase' = [phase EXCEPT ![mclient'] = "accepted"]
        /\ UNCHANGED soil
    BY <1>2 DEF MAccept, Accept, Queue
  <2>2. hpc[mclient'] = "none"
    BY <2>1 DEF BufferInv, BufferFits
  <2>3. ASSUME NEW c \in Clients PROVE BufferFits(c)'
    <3>1. phase'[c] # "accepted" => phase[c] # "accepted"
      BY <1>a, <2>1
    <3> QED
      BY <1>0, <1>2, <2>1, <3>1 DEF BufferInv, BufferFits, Known, GoesOn, Zeros, Solid, Holds
  <2>4. phase'[mclient'] = "accepted" /\ hpc'[mclient'] = "none"
    BY <1>2, <1>a, <2>1, <2>2
  <2> QED
    BY <2>3, <2>4 DEF BufferInv
<1>3. CASE /\ MLoop \/ MLink \/ MGreet \/ MInvite \/ MState \/ MParty \/ MCreateFails \/ MEnlist
           /\ UNCHANGED <<hpc, cell, buf>>
  <2>1. UNCHANGED <<phase, soil, mclient>>
    BY <1>3 DEF MLoop, MLink, MGreet, MInvite, MState, MParty, MCreateFails, MEnlist, sockets,
                history
  <2>2. Introduces' => Introduces
    BY <1>3 DEF MLoop, MLink, MGreet, MInvite, MState, MParty, MCreateFails, MEnlist, Introduces
  <2>3. ASSUME NEW c \in Clients PROVE BufferFits(c)'
    <3>1. /\ Zeros(buf[c])' <=> Zeros(buf[c])
          /\ Solid(buf[c])' <=> Solid(buf[c])
          /\ Holds(buf[c], got[c])' <=> Holds(buf[c], got[c])
          /\ GoesOn(c)' <=> GoesOn(c)
      BY <1>0, <1>3, <2>1 DEF Zeros, Solid, Holds, GoesOn
    <3> QED
      BY <1>0, <1>3, <2>1, <3>1 DEF BufferInv, BufferFits, Known
  <2> QED
    BY <1>3, <2>1, <2>2, <2>3 DEF BufferInv
<1> QED
  BY <1>1, <1>2, <1>3 DEF MStep

(* A thread touches its own buffer only. *)
LEMMA BufferFrame ==
  ASSUME TypeInv, BufferInv, NEW c \in Clients, hpc[c] # "none",
         UNCHANGED <<phase, mainVars>>,
         \A d \in Clients \ {c} : /\ hpc'[d] = hpc[d] /\ buf'[d] = buf[d]
                                  /\ got'[d] = got[d] /\ soil'[d] = soil[d],
         BufferFits(c)'
  PROVE  BufferInv'
<1>1. ASSUME NEW d \in Clients \ {c} PROVE BufferFits(d)'
  <2>1. /\ hpc'[d] = hpc[d] /\ buf'[d] = buf[d] /\ got'[d] = got[d] /\ soil'[d] = soil[d]
        /\ phase'[d] = phase[d]
    BY <1>1
  <2>2. BufferFits(d)
    BY <1>1 DEF BufferInv
  <2>3. /\ Zeros(buf[d])' <=> Zeros(buf[d])
        /\ Solid(buf[d])' <=> Solid(buf[d])
        /\ Holds(buf[d], got[d])' <=> Holds(buf[d], got[d])
        /\ GoesOn(d)' <=> GoesOn(d)
    BY <2>1 DEF Zeros, Solid, Holds, GoesOn
  <2> QED
    BY <2>1, <2>2, <2>3 DEF BufferFits, Known
<1>2. (Introduces => phase[mclient] = "accepted" /\ hpc[mclient] = "none")'
  <2> SUFFICES ASSUME Introduces PROVE phase'[mclient] = "accepted" /\ hpc'[mclient] = "none"
    BY DEF mainVars, Introduces
  <2>1. mclient \in Clients \ {c}
    BY DEF BufferInv, TypeInv, MainInserts, Introduces
  <2> QED
    BY <2>1 DEF BufferInv
<1> QED
  BY <1>1, <1>2 DEF BufferInv

(* A step of a thread that leaves its buffer alone. *)
LEMMA BufferKept ==
  ASSUME TypeInv, BufferInv, NEW c \in Clients, NEW x \in HPcs, hpc[c] # "none", x # "none",
         hpc' = [hpc EXCEPT ![c] = x], UNCHANGED <<phase, mainVars, buf, got, soil>>,
         x \in Arrives => hpc[c] \in Arrives,
         x \in Handles => hpc[c] \in Handles
  PROVE  BufferInv'
<1>1. hpc'[c] = x /\ \A d \in Clients \ {c} : hpc'[d] = hpc[d]
  BY DEF TypeInv, TypeOK
<1>2. BufferFits(c)'
  <2>1. /\ Zeros(buf[c])' <=> Zeros(buf[c])
        /\ Solid(buf[c])' <=> Solid(buf[c])
        /\ Holds(buf[c], got[c])' <=> Holds(buf[c], got[c])
        /\ (GoesOn(c)' <=> GoesOn(c)) /\ (Known(c)' <=> Known(c))
    BY DEF Zeros, Solid, Holds, GoesOn, Known
  <2> QED
    BY <1>1, <2>1 DEF BufferInv, BufferFits
<1> QED
  BY <1>1, <1>2, BufferFrame

LEMMA BufferThread == ASSUME TypeInv, BufferInv, NEW c \in Clients, HStep(c) PROVE BufferInv'
<1>1. CASE Undefined(c)
  <2>1. UNCHANGED <<phase, mainVars, handler, history>>
    BY <1>1 DEF Undefined
  <2> QED
    BY <2>1 DEF handler, history, mainVars, BufferInv, BufferFits, Known, GoesOn, Zeros, Solid,
                Holds, Introduces
<1>2. CASE Handle(c)
  <2>0. PICK x \in HPcs : hpc' = [hpc EXCEPT ![c] = x]
    BY <1>2, OwnPc
  <2>a. /\ hpc \in [Clients -> HPcs] /\ soil \in [Clients -> {"clean", "stack", "refused", "tail"}]
        /\ buf \in [Clients -> [1..BUFFER -> 0..MESSAGES \cup {GARBAGE}]]
        /\ got \in [Clients -> Seq(0..MESSAGES)]
    BY DEF TypeInv, TypeOK
  <2>b. hpc'[c] = x /\ \A d \in Clients \ {c} : hpc'[d] = hpc[d]
    BY <2>0, <2>a
  <2>c. mainVars' = mainVars
    BY <1>2 DEF Handle
  <2>d. /\ Known(c) /\ hpc[c] \in Arrives => Solid(buf[c])
        /\ Known(c) /\ hpc[c] \in Handles /\ ~GoesOn(c) => Solid(buf[c])
        /\ soil[c] = "clean" /\ hpc[c] \in Arrives => Zeros(buf[c])
        /\ soil[c] = "clean" /\ hpc[c] \in Handles => Holds(buf[c], got[c])
        /\ hpc[c] # "none" => phase[c] = "accepted"
    BY DEF BufferInv, BufferFits
  <2>1. CASE RemoveInactives(c)
    <3>1. /\ UNCHANGED <<phase, buf, got, soil>> /\ hpc[c] # "none"
          /\ hpc'[c] \notin Arrives \cup Handles
      <4> USE DEF HGoto, Arrives, Handles
      <4>1. UNCHANGED <<phase, buf, got, soil>>
        BY <2>1 DEF RemoveInactives, sockets, history
      <4>2. CASE RHead(c)
        BY <2>a, <4>1, <4>2 DEF RHead, Return
      <4>3. CASE RScan(c)
        BY <2>a, <4>1, <4>3 DEF RScan, Return
      <4>4. CASE RTakeHead(c) \/ RUnlink(c) \/ RAdvance(c)
        BY <2>a, <4>1, <4>4 DEF RTakeHead, RUnlink, RAdvance
      <4>5. CASE RSplice(c) \/ RUncount(c) \/ RFree(c)
        BY <2>a, <4>1, <4>5 DEF RSplice, RUncount, RFree
      <4> QED
        BY <2>1, <4>2, <4>3, <4>4, <4>5 DEF RemoveInactives
    <3> QED
      BY <2>0, <2>b, <2>c, <3>1, BufferKept DEF Arrives
  <2> USE DEF HGoto, sockets, history
  <2>2. CASE HRead(c)
    <3>1. hpc[c] = "read" /\ hpc'[c] = "reading" /\ UNCHANGED <<phase, buf, got, soil>>
      BY <2>2, <2>a DEF HRead
    <3> QED
      BY <2>0, <2>b, <2>c, <3>1, BufferKept DEF Arrives, Handles
  <2>3. CASE HReading(c)
    <3>1. hpc[c] = "reading" /\ hpc'[c] = "check" /\ UNCHANGED <<phase, soil>>
      BY <2>3, <2>a DEF HReading
    <3>2. /\ Known(c) /\ (\A i \in DOMAIN got'[c] : got'[c][i] # 0) => Solid(buf'[c])
          /\ soil[c] = "clean" => Holds(buf'[c], got'[c])
          /\ got'[c] \in Seq(0..MESSAGES)
          /\ \A d \in Clients \ {c} : buf'[d] = buf[d] /\ got'[d] = got[d]
      <4>1. CASE source[c] = NOBODY
        <5>1. buf' = buf /\ got'[c] = <<>> /\ \A d \in Clients \ {c} : got'[d] = got[d]
          BY <2>3, <2>a, <4>1 DEF HReading
        <5>2. Zeros(buf[c]) => Holds(buf[c], <<>>)
          <6>1. Len(<<>>) = 0
            BY EmptySeq
          <6> QED
            BY <6>1, SocketsAssumption DEF Zeros, Holds
        <5>3. <<>> \in Seq(0..MESSAGES)
          BY EmptySeq
        <5> QED
          BY <2>d, <3>1, <5>1, <5>2, <5>3 DEF Arrives
      <4>2. CASE source[c] # NOBODY
        <5> DEFINE d == source[c]
                   data == SubSeq(unread[d], 1, Size(d))
        <5>1. /\ d \in Clients /\ got' = [got EXCEPT ![c] = data]
              /\ buf' = [buf EXCEPT ![c] = Fill(@, got'[c])]
          BY <2>3, <4>2 DEF HReading, TypeInv, TypeOK
        <5>2. data \in Seq(0..MESSAGES) /\ Len(data) <= BUFFER
          BY <5>1, ReadType, SizeType DEF TypeInv, TypeOK
        <5> HIDE DEF data
        <5>3. got'[c] = data /\ \A e \in Clients \ {c} : buf'[e] = buf[e] /\ got'[e] = got[e]
          BY <2>a, <5>1, <5>2
        <5>4. buf'[c] = Fill(buf[c], data) /\ buf[c] \in Buffers
          BY <2>a, <5>1, <5>3 DEF Buffers, Bytes
        <5> QED
          BY <2>d, <3>1, <5>2, <5>3, <5>4, FillSolid DEF Arrives
      <4> QED
        BY <4>1, <4>2
    <3>3. soil'[c] = "clean" /\ ~GoesOn(c)' => Solid(buf'[c])
      <4>1. soil'[c] = "clean" => Holds(buf'[c], got'[c])
        BY <3>1, <3>2
      <4>2. ~GoesOn(c)' => ~ \E i, j \in DOMAIN got'[c] :
                               got'[c][i] = 0 /\ j > i /\ got'[c][j] # 0
        BY DEF GoesOn
      <4> QED
        BY <3>2, <4>1, <4>2, HeldIsSolid
    <3>4. soil'[c] = "refused" /\ ~GoesOn(c)' => \A i \in DOMAIN got'[c] : got'[c][i] # 0
      BY DEF GoesOn
    <3>5. Known(c)' /\ ~GoesOn(c)' => Solid(buf'[c])
      BY <3>1, <3>2, <3>3, <3>4 DEF Known
    <3>6. BufferFits(c)'
      BY <2>d, <3>1, <3>2, <3>5 DEF BufferFits, Solid, Holds, Arrives, Handles
    <3> QED
      BY <2>b, <2>c, <3>1, <3>2, <3>6, BufferFrame
  <2>4. CASE HCheck(c)
    <3>1. /\ hpc[c] = "check" /\ UNCHANGED <<phase, buf, got>>
          /\ \/ hpc'[c] \in {"close", "who"} /\ soil' = soil
             \/ hpc'[c] = "read" /\ buf[c][1] = 0 /\ SoilAfter(c, soil[c])
      BY <2>4, <2>a DEF HCheck
    <3>2. CASE soil' = soil /\ hpc'[c] \in {"close", "who"}
      BY <2>0, <2>b, <2>c, <2>d, <3>1, <3>2, BufferKept DEF Arrives, Handles
    <3>3. CASE hpc'[c] = "read" /\ buf[c][1] = 0 /\ SoilAfter(c, soil[c])
      <4>1. /\ \A d \in Clients \ {c} : soil'[d] = soil[d]
            /\ soil'[c] = IF Known(c) /\ GoesOn(c) THEN "tail" ELSE soil[c]
        BY <2>a, <3>3, SoilType DEF Known
      <4>2. Known(c)' => soil'[c] = soil[c] /\ ~GoesOn(c) /\ Solid(buf[c])
        BY <2>d, <3>1, <4>1 DEF Known, Handles
      <4>3. soil'[c] = "clean" => Zeros(buf[c])
        <5>1. ~GoesOn(c) => ~ \E i, j \in DOMAIN got[c] : got[c][i] = 0 /\ j > i /\ got[c][j] # 0
          BY DEF GoesOn
        <5> QED
          BY <2>a, <2>d, <3>1, <3>3, <4>2, <5>1, HeldIsSolid DEF Known, Handles
      <4>4. BufferFits(c)'
        BY <2>d, <3>1, <3>3, <4>2, <4>3 DEF BufferFits, Known, Zeros, Solid, Handles
      <4> QED
        BY <2>b, <2>c, <3>1, <4>1, <4>4, BufferFrame
    <3> QED
      BY <3>1, <3>2, <3>3
  <2>5. CASE HWho(c) \/ HTurn(c) \/ HRelay(c) \/ HState(c)
    <3>1. /\ hpc[c] \in Handles /\ hpc'[c] \in Handles
      <4>1. CASE HWho(c)
        BY <2>a, <4>1 DEF HWho, Handles
      <4>2. CASE HTurn(c)
        BY <2>a, <4>2 DEF HTurn, OutOfTurn, Handles
      <4>3. CASE HRelay(c) \/ HState(c)
        BY <2>a, <4>3 DEF HRelay, HState, Handles
      <4> QED
        BY <2>5, <4>1, <4>2, <4>3
    <3>2. UNCHANGED <<phase, buf, got, soil>>
      BY <2>5 DEF HWho, HTurn, HRelay, HState
    <3> QED
      BY <2>0, <2>b, <2>c, <3>1, <3>2, BufferKept DEF Arrives, Handles
  <2>6. CASE HRefuse(c)
    <3> DEFINE else == IF soil[c] = "clean" THEN "refused" ELSE soil[c]
    <3>1. /\ hpc[c] = "refuse" /\ hpc'[c] = "read" /\ UNCHANGED <<phase, buf>>
          /\ SoilAfter(c, else) /\ \A d \in Clients \ {c} : got'[d] = got[d]
      BY <2>6, <2>a DEF HRefuse
    <3>2. else # "clean" /\ else \in {"stack", "refused", "tail"} /\ (else = "refused" => Known(c))
      BY <2>a DEF Known
    <3> HIDE DEF else
    <3>3. /\ \A d \in Clients \ {c} : soil'[d] = soil[d]
          /\ soil'[c] = IF Known(c) /\ GoesOn(c) THEN "tail" ELSE else
      BY <2>a, <3>1, <3>2, SoilType DEF Known
    <3>4. soil'[c] # "clean" /\ (Known(c)' => Solid(buf[c]))
      BY <2>d, <3>1, <3>2, <3>3 DEF Known, Handles
    <3>5. BufferFits(c)'
      BY <2>d, <3>1, <3>4 DEF BufferFits, Solid, Handles
    <3> QED
      BY <2>b, <2>c, <3>1, <3>3, <3>5, BufferFrame
  <2>7. CASE HClear(c)
    <3> DEFINE else == IF soil[c] = "refused" THEN "clean" ELSE soil[c]
    <3>1. /\ hpc[c] = "clear" /\ hpc'[c] = "read" /\ UNCHANGED phase
          /\ SoilAfter(c, else) /\ buf'[c] = Wiped(buf[c])
          /\ \A d \in Clients \ {c} : got'[d] = got[d] /\ buf'[d] = buf[d]
      BY <2>7, <2>a DEF HClear
    <3>2. else \in {"clean", "stack", "tail"} /\ (else = "clean" => Known(c))
      BY <2>a DEF Known
    <3> HIDE DEF else
    <3>3. /\ \A d \in Clients \ {c} : soil'[d] = soil[d]
          /\ soil'[c] = IF Known(c) /\ GoesOn(c) THEN "tail" ELSE else
      BY <2>a, <3>1, <3>2, SoilType DEF Known
    <3>4. Known(c)' => Zeros(buf'[c]) /\ Solid(buf'[c])
      <4>1. buf[c] \in Buffers
        BY <2>a DEF Buffers, Bytes
      <4>2. Known(c)' => Solid(buf[c])
        BY <2>d, <3>1, <3>2, <3>3 DEF Known, Handles
      <4> QED
        BY <3>1, <4>1, <4>2, WipedSolid, ZerosAreSolid
    <3>5. BufferFits(c)'
      BY <2>d, <3>1, <3>4 DEF BufferFits, Known, Solid, Zeros, Handles
    <3> QED
      BY <2>b, <2>c, <3>1, <3>3, <3>5, BufferFrame
  <2>8. CASE HClose(c) \/ HTell(c) \/ HExit(c) \/ HMark(c) \/ HDrop(c)
    <3>1. hpc[c] # "none" /\ hpc'[c] \notin Arrives \cup Handles
      <4>1. CASE HClose(c) \/ HTell(c)
        BY <2>a, <4>1 DEF HClose, HTell, Arrives, Handles
      <4>2. CASE HExit(c) \/ HMark(c) \/ HDrop(c)
        BY <2>a, <4>2 DEF HExit, HMark, HDrop, Arrives, Handles
      <4> QED
        BY <2>8, <4>1, <4>2
    <3>2. UNCHANGED <<phase, buf, got, soil>>
      BY <2>8 DEF HClose, HTell, HExit, HMark, HDrop
    <3> QED
      BY <2>0, <2>b, <2>c, <3>1, <3>2, BufferKept DEF Arrives
  <2> QED
    BY <1>2, <2>1, <2>2, <2>3, <2>4, <2>5, <2>6, <2>7, <2>8 DEF Handle
<1> QED
  BY <1>1, <1>2 DEF HStep

LEMMA BufferNext == TypeInv /\ BufferInv /\ [Next]_vars => BufferInv'
<1> SUFFICES ASSUME TypeInv, BufferInv, [Next]_vars PROVE BufferInv'
  OBVIOUS
<1>1. CASE MStep
  BY <1>1, BufferMain
<1>2. ASSUME NEW c \in Clients, HStep(c) PROVE BufferInv'
  BY <1>2, BufferThread
<1>3. CASE (ClientStep /\ UNCHANGED <<state, parties, list, fd, mainVars, handler, history>>)
           \/ UNCHANGED vars
  <2>1. UNCHANGED <<mpc, mclient, hpc, buf, got, soil>>
    BY <1>3 DEF vars, mainVars, handler, history
  <2>2. \A c \in Clients : phase[c] = "accepted" => phase'[c] = "accepted"
    BY <1>3, ClientStepType DEF TypeInv, TypeOK, vars, sockets
  <2>3. ASSUME NEW c \in Clients PROVE BufferFits(c)'
    BY <2>1, <2>2 DEF BufferInv, BufferFits, Known, GoesOn, Zeros, Solid, Holds
  <2>4. (Introduces => phase[mclient] = "accepted" /\ hpc[mclient] = "none")'
    BY <2>1, <2>2 DEF BufferInv, Introduces, TypeInv, MainInserts
  <2> QED
    BY <2>3, <2>4 DEF BufferInv
<1> QED
  BY <1>1, <1>2, <1>3 DEF Next

(* A thread passes on what it has just read and nothing that was in its    *)
(* buffer before, unless it has refused a message since it last passed one *)
(* on, its stack was not clean, or a message went on behind a zero byte:   *)
(* otherwise the loop of lines 236-239 clears all that a read has filled,  *)
(* so that the next read starts on an empty buffer (hw8a.c:161-164, 198    *)
(* and 211-239).  A message may hold zeros anywhere, and fill the buffer.  *)
THEOREM RelaysWhatItRead == Spec => []RelayedAsRead
<1>1. Init => TypeInv /\ BufferInv
  BY TypeInit, BufferInit
<1>2. TypeInv /\ BufferInv /\ [Next]_vars => TypeInv' /\ BufferInv'
  BY TypeNext, BufferNext
<1>3. TypeInv /\ BufferInv => RelayedAsRead
  <2> SUFFICES ASSUME TypeInv, BufferInv, NEW c \in Clients, hpc[c] \in {"ask", "answer"},
                      soil[c] = "clean"
               PROVE  Text(buf[c]) = Text(got[c])
    BY DEF RelayedAsRead
  <2>1. Holds(buf[c], got[c])
    BY DEF BufferInv, BufferFits, Handles
  <2>2. buf[c] \in Buffers /\ got[c] \in Seq(0..MESSAGES)
    BY DEF TypeInv, TypeOK, Buffers, Bytes
  <2> QED
    BY <2>1, <2>2, HoldsText
<1> QED
  BY <1>1, <1>2, <1>3, PTL DEF Spec
-----------------------------------------------------------------------------
(* Taking turns, up to the first departure. *)

HasThread(c) == hpc[c] # "none"

(* Main has not got to making an answerer of a second client (line 56).    *)
Lonely ==
  \/ actives = 0
  \/ actives = 1 /\ mpc \in {"loop", "accept", "link", "greet", "invite", "answerer_state"}

(* How far main has got says how many clients there are and who they are.  *)
MainFits ==
  /\ actives \in 0..MAX_CLIENTS
  /\ mpc \in {"asker_state", "asker_fd", "asker"} => actives = 0
  /\ mpc \in {"invite", "answerer_state", "answerer_fd", "answerer"} => actives = 1
  /\ mpc # "loop" => actives < MAX_CLIENTS
  /\ mpc = "counted" => mreg = actives
  /\ MainInserts => mcell \in live
  /\ Introduces => Open(fd[mcell]) \/ ~Lonely

SeatsFit ==
  /\ \A c \in Clients : HasThread(c) =>
       /\ cell[c] \in live
       /\ fd[cell[c]] \in Fds \cap {askerfd, answererfd}
       /\ actives = 0 => mpc \in {"head", "count", "counted"}
       /\ Introduces => cell[c] # mcell /\ fd[cell[c]] = askerfd
  /\ \A c, d \in Clients :
       HasThread(c) /\ HasThread(d) /\ fd[cell[c]] = fd[cell[d]] => c = d
  /\ askerfd = answererfd =>
       actives = 0 /\ mpc \notin {"asker", "create", "head", "count", "counted"}
  /\ actives = 1 => askerfd \in Fds
  /\ Introduces /\ actives = 1 => fd[mcell] \in Fds \ {askerfd}
  /\ mpc \in {"asker", "create", "head", "count", "counted"} /\ actives = 0 =>
       askerfd = fd[mcell] /\ Open(askerfd)
  /\ mpc \in {"answerer", "create", "head", "count", "counted"} /\ actives = 1 =>
       answererfd = fd[mcell]

(* Nobody to answer: what the first client sends is refused. *)
Waiting ==
  /\ state = "WAIT_CLIENTS" /\ ~pending /\ answererfd = STDIN
  /\ actives = 1 => Open(askerfd)
  /\ \A c \in Clients :
       hpc[c] \in {"none", "read", "reading", "check", "who", "asker", "refuse"}

(* The thread that is about to act on state still finds it as it tested it, *)
(* and between sending and setting state only that thread moves. *)
Turns ==
  /\ state \in {"WAIT_ASKER", "WAIT_ANSWERER"}
  /\ actives = 2 <=> mpc = "loop"
  /\ mpc = "answerer_fd" => answererfd = STDIN
  /\ \A c \in Clients :
       /\ hpc[c] \in {"asker", "ask", "asked"} => fd[cell[c]] = askerfd
       /\ hpc[c] \in {"answerer", "answer", "answered"} => fd[cell[c]] = answererfd
       /\ hpc[c] \in {"ask", "asked"} => state = "WAIT_ASKER"
       /\ hpc[c] \in {"answer", "answered"} => state = "WAIT_ANSWERER"
       /\ hpc[c] \notin {"mark_asker", "mark_answerer", "drop_asker", "drop_answerer",
                         "remove", "pop", "unlink", "scan_head", "scan", "advance",
                         "splice", "uncount", "uncounted", "free", "done"}
  /\ pending <=> IF state = "WAIT_ASKER" THEN \E c \in Clients : hpc[c] = "asked"
                                         ELSE \A c \in Clients : hpc[c] # "answered"

Talking == MainFits /\ SeatsFit /\ (IF Lonely THEN Waiting ELSE Turns)
TurnsInv == ~THREADS_MAY_FAIL /\ ~ended => Talking

LEMMA TurnsInit == Init => TurnsInv
<1> SUFFICES ASSUME Init PROVE Talking
  BY DEF TurnsInv
<1> USE DEF Init
<1>1. MainFits
  BY ThreadServerAssumption DEF MainFits, MainInserts, Introduces
<1>2. SeatsFit
  BY DEF SeatsFit, HasThread, Introduces
<1>3. Lonely /\ Waiting
  BY DEF Lonely, Waiting
<1> QED
  BY <1>1, <1>2, <1>3 DEF Talking

(* A thread does not touch what main has set up. *)
LEMMA SeatsKept ==
  ASSUME TypeInv, MainFits, SeatsFit, NEW c \in Clients, HasThread(c), NEW x \in HPcs,
         x # "none", hpc' = [hpc EXCEPT ![c] = x],
         UNCHANGED <<mpc, mcell, mreg, askerfd, answererfd, fd, cell, live, actives>>,
         conn' = conn \/ ~Lonely
  PROVE  MainFits' /\ SeatsFit' /\ (Lonely' <=> Lonely)
<1>1. \A d \in Clients : HasThread(d)' <=> HasThread(d)
  BY DEF TypeInv, TypeOK, HasThread
<1>2. Lonely' <=> Lonely
  BY DEF Lonely
<1>3. MainFits'
  BY <1>2 DEF MainFits, MainInserts, Introduces, Open
<1>4. SeatsFit'
  BY <1>1, <1>2 DEF SeatsFit, Introduces, Open, Lonely
<1> QED
  BY <1>2, <1>3, <1>4

(* While nobody is there to answer. *)
LEMMA WaitingThread ==
  ASSUME TypeInv, MainFits, SeatsFit, Waiting, NEW c \in Clients, Handle(c)
  PROVE  /\ HasThread(c) /\ hpc'[c] # "none" /\ Waiting'
         /\ UNCHANGED <<mpc, mcell, mreg, askerfd, answererfd, fd, cell, live, actives, conn>>
<1>0. PICK x \in HPcs : hpc' = [hpc EXCEPT ![c] = x]
  BY OwnPc
<1>a. /\ hpc \in [Clients -> HPcs] /\ hpc'[c] = x
      /\ \A d \in Clients \ {c} : hpc'[d] = hpc[d]
  BY <1>0 DEF TypeInv, TypeOK
<1>b. UNCHANGED <<fd, askerfd, answererfd, mpc, mcell, mreg, cell>>
  BY DEF Handle, parties, mainVars
<1>c. /\ state = "WAIT_CLIENTS" /\ answererfd = STDIN
      /\ hpc[c] \in {"none", "read", "reading", "check", "who", "asker", "refuse"}
      /\ STDIN \notin Fds
  BY CellsType DEF Waiting
<1>1. /\ x \in {"read", "reading", "check", "who", "asker", "refuse"} /\ hpc[c] # "none"
      /\ UNCHANGED <<state, pending, live, actives, conn>>
  <2> USE DEF HGoto, sockets, list, history
  <2>1. CASE HRead(c)
    BY <2>1, <1>a DEF HRead
  <2>2. CASE HReading(c)
    BY <2>2, <1>a DEF HReading
  <2>3. CASE HCheck(c)
    BY <2>3, <1>a, <1>c DEF HCheck, HasLeft
  <2>4. CASE HWho(c)
    <3>1. fd[cell[c]] = askerfd /\ fd[cell[c]] # answererfd
      BY <2>4, <1>c DEF HWho, SeatsFit, HasThread
    <3> QED
      BY <2>4, <3>1, <1>a DEF HWho
  <2>5. CASE HTurn(c)
    BY <2>5, <1>a, <1>c DEF HTurn, OutOfTurn
  <2>6. CASE HRefuse(c)
    BY <2>6, <1>a DEF HRefuse
  <2>7. ~HRelay(c) /\ ~HState(c) /\ ~HClear(c)
    BY <1>c DEF HRelay, HState, HClear
  <2>8. ~HClose(c) /\ ~HTell(c) /\ ~HExit(c) /\ ~HMark(c) /\ ~HDrop(c)
    BY <1>c DEF HClose, HTell, HExit, HMark, HDrop
  <2>9. ~RemoveInactives(c)
    BY <1>c DEF RemoveInactives, RHead, RTakeHead, RUnlink, RScan, RAdvance, RSplice, RUncount,
                RFree
  <2> QED
    BY <2>1, <2>2, <2>3, <2>4, <2>5, <2>6, <2>7, <2>8, <2>9 DEF Handle
<1>2. Waiting'
  <2>1. pending' <=> pending
    BY <1>1
  <2>2. \A d \in Clients :
          hpc'[d] \in {"none", "read", "reading", "check", "who", "asker", "refuse"}
    BY <1>a, <1>1 DEF Waiting
  <2>3. actives' = 1 => Open(askerfd)'
    BY <1>b, <1>1 DEF Waiting, Open
  <2> QED
    BY <1>b, <1>1, <2>1, <2>2, <2>3 DEF Waiting
<1> QED
  BY <1>a, <1>b, <1>1, <1>2 DEF HasThread

(* While the parties take turns. *)
LEMMA TurnsThread ==
  ASSUME TypeInv, SeatsFit, Turns, NEW c \in Clients, Handle(c), ~ended'
  PROVE  /\ HasThread(c) /\ hpc'[c] # "none" /\ Turns'
         /\ UNCHANGED <<mpc, mcell, mreg, askerfd, answererfd, fd, cell, live, actives>>
<1>0. PICK x \in HPcs : hpc' = [hpc EXCEPT ![c] = x]
  BY OwnPc
<1>a. /\ hpc \in [Clients -> HPcs] /\ hpc'[c] = x
      /\ \A d \in Clients \ {c} : hpc'[d] = hpc[d]
  BY <1>0 DEF TypeInv, TypeOK
<1>b. UNCHANGED <<fd, askerfd, answererfd, mpc, mcell, mreg, cell>>
  BY DEF Handle, parties, mainVars
<1>c. /\ state \in {"WAIT_ASKER", "WAIT_ANSWERER"}
      /\ hpc[c] \notin {"mark_asker", "mark_answerer", "drop_asker", "drop_answerer",
                         "remove", "pop", "unlink", "scan_head", "scan", "advance",
                         "splice", "uncount", "uncounted", "free", "done"}
      /\ hpc[c] \in {"asker", "ask", "asked"} => fd[cell[c]] = askerfd
      /\ hpc[c] \in {"answerer", "answer", "answered"} => fd[cell[c]] = answererfd
      /\ hpc[c] \in {"ask", "asked"} => state = "WAIT_ASKER"
      /\ hpc[c] \in {"answer", "answered"} => state = "WAIT_ANSWERER"
  BY DEF Turns
<1>d. /\ actives = 2 <=> mpc = "loop"
      /\ mpc = "answerer_fd" => answererfd = STDIN
  BY DEF Turns
<1>e. /\ pending \in BOOLEAN
      /\ pending <=> IF state = "WAIT_ASKER" THEN \E d \in Clients : hpc[d] = "asked"
                                             ELSE \A d \in Clients : hpc[d] # "answered"
  BY DEF TypeInv, TypeOK, Turns
(* Two threads are not the same party. *)
<1>f. ASSUME NEW d \in Clients \ {c}
      PROVE  /\ hpc[c] \in {"asker", "ask", "asked"} =>
                  hpc[d] \notin {"asker", "ask", "asked"}
             /\ hpc[c] \in {"answerer", "answer", "answered"} =>
                  hpc[d] \notin {"answerer", "answer", "answered"}
  <2>1. /\ hpc[d] \in {"asker", "ask", "asked"} => fd[cell[d]] = askerfd
        /\ hpc[d] \in {"answerer", "answer", "answered"} => fd[cell[d]] = answererfd
    BY <1>f DEF Turns
  <2>2. HasThread(c) /\ HasThread(d) => fd[cell[c]] # fd[cell[d]]
    BY <1>f DEF SeatsFit
  <2> QED
    BY <1>c, <2>1, <2>2 DEF HasThread
<1> DEFINE Same == /\ state' = state /\ pending' = pending
                   /\ hpc[c] \notin {"none", "asked", "answered"}
                   /\ x \notin {"none", "asked", "answered", "ask", "answer"}
                   /\ x = "asker" => fd[cell[c]] = askerfd
                   /\ x = "answerer" => fd[cell[c]] = answererfd
           Late == {"mark_asker", "mark_answerer", "drop_asker", "drop_answerer",
                    "remove", "pop", "unlink", "scan_head", "scan", "advance",
                    "splice", "uncount", "uncounted", "free", "done"}
<1>1. /\ x \notin Late /\ hpc[c] # "none" /\ x # "none" /\ UNCHANGED <<live, actives>>
      /\ \/ Same
         \/ /\ hpc[c] = "asker" /\ x = "ask" /\ state = "WAIT_ASKER"
            /\ UNCHANGED <<state, pending>>
         \/ /\ hpc[c] = "answerer" /\ x = "answer" /\ state = "WAIT_ANSWERER"
            /\ UNCHANGED <<state, pending>>
         \/ hpc[c] = "ask" /\ x = "asked" /\ state' = state /\ pending'
         \/ hpc[c] = "answer" /\ x = "answered" /\ state' = state /\ ~pending'
         \/ hpc[c] = "asked" /\ x = "clear" /\ state' = "WAIT_ANSWERER" /\ pending' = pending
         \/ hpc[c] = "answered" /\ x = "clear" /\ state' = "WAIT_ASKER" /\ pending' = pending
  <2> USE DEF HGoto, sockets, list, history
  <2>1. CASE HRead(c) \/ HReading(c) \/ HClear(c)
    BY <2>1, <1>a DEF HRead, HReading, HClear
  <2>2. CASE HCheck(c)
    BY <2>2, <1>a DEF HCheck
  <2>3. CASE HWho(c)
    BY <2>3, <1>a DEF HWho
  <2>4. CASE HTurn(c)
    BY <2>4, <1>a, <1>c DEF HTurn, OutOfTurn
  <2>5. CASE HRefuse(c)
    BY <2>5, <1>a DEF HRefuse
  <2>6. CASE HRelay(c)
    BY <2>6, <1>a, Zenon DEF HRelay
  <2>7. CASE HState(c)
    BY <2>7, <1>a DEF HState
  <2>8. CASE HClose(c) \/ HTell(c)
    BY <2>8, <1>a DEF HClose, HTell
  <2>9. ~HExit(c) /\ ~HMark(c) /\ ~HDrop(c)
    BY <1>c DEF HExit, HMark, HDrop
  <2>10. ~RemoveInactives(c)
    BY <1>c DEF RemoveInactives, RHead, RTakeHead, RUnlink, RScan, RAdvance, RSplice, RUncount,
                RFree
  <2> QED
    BY <2>1, <2>2, <2>3, <2>4, <2>5, <2>6, <2>7, <2>8, <2>9, <2>10 DEF Handle
<1> SUFFICES Turns'
  BY <1>a, <1>b, <1>1 DEF HasThread
<1> HIDE DEF Late
<1> DEFINE Acts == \A d \in Clients : /\ hpc'[d] \in {"ask", "asked"} => state' = "WAIT_ASKER"
                                      /\ hpc'[d] \in {"answer", "answered"} =>
                                           state' = "WAIT_ANSWERER"
           Owed == pending' <=> IF state' = "WAIT_ASKER"
                                THEN \E d \in Clients : hpc'[d] = "asked"
                                ELSE \A d \in Clients : hpc'[d] # "answered"
           Parties == /\ x \in {"asker", "ask", "asked"} => fd[cell[c]] = askerfd
                      /\ x \in {"answerer", "answer", "answered"} => fd[cell[c]] = answererfd
           InPlay == state' \in {"WAIT_ASKER", "WAIT_ANSWERER"}
(* What Turns' says besides. *)
<1>2. ASSUME InPlay, Parties, Acts, Owed PROVE Turns'
  <2>1. \A d \in Clients :
          /\ hpc'[d] \in {"asker", "ask", "asked"} => fd'[cell'[d]] = askerfd'
          /\ hpc'[d] \in {"answerer", "answer", "answered"} => fd'[cell'[d]] = answererfd'
          /\ hpc'[d] \notin Late
    BY <1>2, <1>a, <1>b, <1>1 DEF Turns, Late
  <2>2. /\ actives' = 2 <=> mpc' = "loop"
        /\ mpc' = "answerer_fd" => answererfd' = STDIN
    BY <1>b, <1>d, <1>1
  <2> QED
    BY <1>2, <2>1, <2>2 DEF Turns, Late
<1>9. Parties /\ (state' = state => InPlay)
  BY <1>1, <1>c
<1> HIDE DEF Parties
<1>3. CASE Same
  <2>1. (\E d \in Clients : hpc'[d] = "asked") <=> (\E d \in Clients : hpc[d] = "asked")
    BY <1>3, <1>a
  <2>2. (\A d \in Clients : hpc'[d] # "answered") <=> (\A d \in Clients : hpc[d] # "answered")
    BY <1>3, <1>a
  <2>3. Acts
    BY <1>3, <1>a DEF Turns
  <2>4. Owed
    BY <1>3, <1>e, <2>1, <2>2
  <2> QED
    BY <1>2, <1>9, <1>3, <2>3, <2>4
<1>4. CASE \/ /\ hpc[c] = "asker" /\ x = "ask" /\ state = "WAIT_ASKER"
              /\ UNCHANGED <<state, pending>>
           \/ /\ hpc[c] = "answerer" /\ x = "answer" /\ state = "WAIT_ANSWERER"
              /\ UNCHANGED <<state, pending>>
  <2>1. (\E d \in Clients : hpc'[d] = "asked") <=> (\E d \in Clients : hpc[d] = "asked")
    BY <1>4, <1>a
  <2>2. (\A d \in Clients : hpc'[d] # "answered") <=> (\A d \in Clients : hpc[d] # "answered")
    BY <1>4, <1>a
  <2>3. Acts
    BY <1>4, <1>a DEF Turns
  <2>4. Owed
    BY <1>4, <1>e, <2>1, <2>2
  <2> QED
    BY <1>2, <1>9, <1>4, <2>3, <2>4
<1>5. CASE hpc[c] = "ask" /\ x = "asked" /\ state' = state /\ pending'
  <2>1. state' = "WAIT_ASKER" /\ hpc'[c] = "asked"
    BY <1>5, <1>a, <1>c
  <2>2. \A d \in Clients : hpc'[d] \notin {"answer", "answered"}
    BY <1>5, <1>a, <1>c, <2>1 DEF Turns
  <2>3. InPlay /\ Acts /\ Owed
    BY <1>5, <2>1, <2>2
  <2> QED
    BY <1>2, <1>9, <2>3
<1>6. CASE hpc[c] = "answer" /\ x = "answered" /\ state' = state /\ ~pending'
  <2>1. state' = "WAIT_ANSWERER" /\ hpc'[c] = "answered"
    BY <1>6, <1>a, <1>c
  <2>2. \A d \in Clients : hpc'[d] \notin {"ask", "asked"}
    BY <1>6, <1>a, <1>c, <2>1 DEF Turns
  <2>3. InPlay /\ Acts /\ Owed
    BY <1>6, <2>1, <2>2
  <2> QED
    BY <1>2, <1>9, <2>3
<1>7. CASE hpc[c] = "asked" /\ x = "clear" /\ state' = "WAIT_ANSWERER" /\ pending' = pending
  <2>1. state = "WAIT_ASKER" /\ pending
    BY <1>7, <1>c, <1>e
  <2>2. \A d \in Clients : hpc[d] \notin {"answer", "answered"}
    BY <2>1 DEF Turns
  <2>3. \A d \in Clients : hpc'[d] \notin {"ask", "asked", "answer", "answered"}
    BY <1>7, <1>a, <1>f, <2>2
  <2>4. InPlay /\ Acts /\ Owed
    BY <1>7, <2>1, <2>3
  <2> QED
    BY <1>2, <1>9, <2>4
<1>8. CASE hpc[c] = "answered" /\ x = "clear" /\ state' = "WAIT_ASKER" /\ pending' = pending
  <2>1. state = "WAIT_ANSWERER" /\ ~pending
    BY <1>8, <1>c, <1>e
  <2>2. \A d \in Clients : hpc[d] \notin {"ask", "asked"}
    BY <2>1 DEF Turns
  <2>3. \A d \in Clients : hpc'[d] \notin {"ask", "asked", "answer", "answered"}
    BY <1>8, <1>a, <1>f, <2>2
  <2>4. InPlay /\ Acts /\ Owed
    BY <1>8, <2>1, <2>3
  <2> QED
    BY <1>2, <1>9, <2>4
<1> QED
  BY <1>1, <1>3, <1>4, <1>5, <1>6, <1>7, <1>8

LEMMA TurnsMain ==
  ASSUME MAX_CLIENTS <= 2, ~THREADS_MAY_FAIL, TypeInv, BufferInv, Talking, MStep
  PROVE  Talking'
<1>a. /\ MainFits /\ SeatsFit
      /\ Lonely => Waiting
      /\ ~Lonely => Turns
  BY DEF Talking
<1>b. /\ MAX_CLIENTS \in {1, 2} /\ actives \in {0, 1, 2} /\ actives <= MAX_CLIENTS
      /\ mpc # "loop" => actives < MAX_CLIENTS
  BY ThreadServerAssumption DEF MainFits, Talking
<1>c. /\ hpc \in [Clients -> HPcs] /\ fd \in [Cells -> Fds \cup {STDIN}]
      /\ cell \in [Clients -> Cells \cup {NULL}] /\ live \subseteq Cells
      /\ conn \in [Fds -> Clients \cup {NOBODY}]
      /\ NOBODY \notin Clients /\ STDIN \notin Fds
  BY CellsType, SocketsAssumption DEF TypeInv, TypeOK, SocketsTypeOK
<1> USE DEF MGoto
<1>1. CASE MLoop
  <2>1. /\ mpc = "loop" /\ mpc' = "accept" /\ actives \in {0, 1} /\ actives < MAX_CLIENTS
        /\ UNCHANGED <<conn, state, askerfd, answererfd, actives, live, fd, mcell, mreg, pending,
                       hpc, cell>>
    BY <1>1, <1>b DEF MLoop, Full, sockets, parties, list, history, MStep, MCreate
  <2>2. Lonely /\ Lonely'
    BY <2>1 DEF Lonely
  <2>3. Waiting'
    BY <1>a, <2>1, <2>2 DEF Waiting, Open
  <2>4. MainFits'
    BY <1>a, <2>1 DEF MainFits, MainInserts, Introduces
  <2>5. SeatsFit'
    BY <1>a, <2>1 DEF SeatsFit, HasThread, Introduces
  <2> QED
    BY <2>2, <2>3, <2>4, <2>5 DEF Talking
<1>2. CASE MAccept
  <2>1. PICK f \in Fds : Accept(mclient', f) /\ fd' = [fd EXCEPT ![mcell'] = f]
    BY <1>2 DEF MAccept
  <2>2. /\ mpc = "accept" /\ mpc' = "link" /\ actives \in {0, 1} /\ actives < MAX_CLIENTS
        /\ mclient' \in Clients /\ mcell' \in Cells \ live /\ live' = live \cup {mcell'}
        /\ UNCHANGED <<state, askerfd, answererfd, actives, mreg, pending, hpc, cell>>
    BY <1>2, <1>b DEF MAccept, Queue, parties, MStep, MCreate
  <2>3. /\ conn[f] = NOBODY /\ conn' = [conn EXCEPT ![f] = mclient']
        /\ fd'[mcell'] = f /\ \A k \in live : fd'[k] = fd[k]
    BY <2>1, <2>2, <1>c DEF Accept, LowestFree, FreeFds
  <2>4. Lonely /\ Lonely' /\ Waiting
    BY <1>a, <2>2 DEF Lonely
  <2>5. Open(f)' /\ \A g \in Fds : Open(g) => Open(g)' /\ g # f
    BY <2>2, <2>3, <1>c DEF Open
  <2>6. Waiting'
    <3>1. actives' = 1 => Open(askerfd)'
      BY <2>2, <2>4, <2>5 DEF Waiting, Open
    <3> QED
      BY <2>2, <2>4, <3>1 DEF Waiting
  <2>7. MainFits'
    BY <1>a, <2>2, <2>3, <2>5 DEF MainFits, MainInserts, Introduces
  <2>8. SeatsFit'
    <3>1. ASSUME NEW d \in Clients, HasThread(d)
          PROVE  /\ cell[d] \in live /\ fd[cell[d]] \in Fds /\ fd[cell[d]] = askerfd
                 /\ fd'[cell[d]] = fd[cell[d]] /\ cell[d] # mcell' /\ actives # 0
      BY <1>a, <2>2, <2>3, <2>4, <3>1, <1>c DEF SeatsFit, Waiting
    <3>2. \A d \in Clients : HasThread(d)' <=> HasThread(d)
      BY <2>2 DEF HasThread
    <3>3. actives = 1 => f # askerfd
      BY <2>4, <2>5 DEF Waiting, Open
    <3>4. \A d \in Clients : HasThread(d)' =>
            /\ cell'[d] \in live' /\ fd'[cell'[d]] = askerfd' /\ askerfd' \in Fds
            /\ cell'[d] # mcell' /\ actives' # 0
      BY <2>2, <3>1, <3>2
    <3>5. \A d, e \in Clients :
            HasThread(d)' /\ HasThread(e)' /\ fd'[cell'[d]] = fd'[cell'[e]] => d = e
      BY <1>a, <2>2, <3>1, <3>2 DEF SeatsFit
    <3> QED
      BY <1>a, <2>2, <2>3, <3>3, <3>4, <3>5 DEF SeatsFit, Introduces
  <2> QED
    BY <2>4, <2>6, <2>7, <2>8 DEF Talking
(* Before there is a thread for it main gives the new client a seat. *)
<1>3. CASE MLink \/ MGreet \/ MInvite
  <2>1. /\ UNCHANGED <<conn, state, askerfd, answererfd, actives, live, fd, mcell, mreg, pending,
                       hpc, cell>>
        /\ \/ mpc = "link" /\ mpc' = "greet"
           \/ mpc = "greet" /\ mpc' = "asker_state" /\ actives = 0
           \/ mpc = "greet" /\ mpc' = "invite" /\ actives # 0
           \/ mpc = "invite" /\ mpc' = "answerer_state"
    BY <1>3 DEF MLink, MGreet, MInvite, sockets, parties, list, history, MStep, MCreate
  <2>2. actives \in {0, 1} /\ (mpc' \in {"invite", "answerer_state"} => actives = 1)
    BY <1>a, <1>b, <2>1 DEF MainFits
  <2>3. Lonely /\ Lonely'
    BY <2>1, <2>2 DEF Lonely
  <2>4. Waiting'
    BY <1>a, <2>1, <2>3 DEF Waiting, Open
  <2>5. MainFits'
    BY <1>a, <2>1, <2>2, <2>3 DEF MainFits, MainInserts, Introduces, Open
  <2>6. SeatsFit'
    BY <1>a, <2>1 DEF SeatsFit, HasThread, Introduces
  <2> QED
    BY <2>3, <2>4, <2>5, <2>6 DEF Talking
<1>4. CASE MState
  <2>1. /\ UNCHANGED <<conn, askerfd, answererfd, actives, live, fd, mcell, mreg, hpc, cell>>
        /\ ~pending'
        /\ \/ mpc = "asker_state" /\ mpc' = "asker_fd" /\ state' = "WAIT_CLIENTS"
           \/ mpc = "answerer_state" /\ mpc' = "answerer_fd" /\ state' = "WAIT_ASKER"
    BY <1>4, Zenon DEF MState, sockets, parties, list, MStep, MCreate
  <2>2. SeatsFit'
    BY <1>a, <2>1 DEF SeatsFit, HasThread, Introduces
  <2>3. CASE mpc = "asker_state"
    <3>1. actives = 0 /\ Lonely /\ Lonely'
      BY <1>a, <2>1, <2>3 DEF MainFits, Lonely
    <3>2. MainFits'
      BY <1>a, <2>1, <2>3, <3>1 DEF MainFits, MainInserts, Introduces, Open
    <3>3. Waiting'
      BY <1>a, <2>1, <2>3, <3>1 DEF Waiting
    <3> QED
      BY <2>2, <3>1, <3>2, <3>3 DEF Talking
  <2>4. CASE mpc = "answerer_state"
    <3>1. actives = 1 /\ Lonely /\ ~Lonely' /\ Waiting
      BY <1>a, <2>1, <2>4 DEF MainFits, Lonely
    <3>2. MainFits'
      BY <1>a, <2>1, <2>4, <3>1 DEF MainFits, MainInserts, Introduces
    <3>3. \A c \in Clients :
            /\ hpc'[c] \in {"none", "read", "reading", "check", "who", "asker", "refuse"}
            /\ hpc'[c] # "none" => fd'[cell'[c]] = askerfd'
      BY <1>a, <2>1, <2>4, <3>1 DEF Waiting, SeatsFit, HasThread, Introduces
    <3>4. Turns'
      BY <2>1, <2>4, <3>1, <3>3 DEF Turns, Waiting
    <3> QED
      BY <2>2, <3>1, <3>2, <3>4 DEF Talking
  <2> QED
    BY <2>1, <2>3, <2>4
<1>5. CASE MParty
  <2>1. /\ UNCHANGED <<conn, state, actives, live, fd, mcell, mreg, pending, hpc, cell>>
        /\ \/ /\ mpc = "asker_fd" /\ mpc' = "asker"
              /\ askerfd' = fd[mcell] /\ answererfd' = answererfd
           \/ /\ mpc = "answerer_fd" /\ mpc' = "answerer"
              /\ answererfd' = fd[mcell] /\ askerfd' = askerfd
           \/ /\ mpc = "asker" /\ mpc' = "create" /\ actives = 0
              /\ askerfd' = askerfd /\ answererfd' = answererfd
           \/ /\ mpc = "answerer" /\ mpc' = "create" /\ actives = 1
              /\ askerfd' = askerfd /\ answererfd' = answererfd
    BY <1>5, <1>a DEF MParty, sockets, parties, list, history, MStep, MCreate, MainFits
  <2>2. Lonely' <=> Lonely
    BY <1>a, <2>1 DEF Lonely, MainFits
  <2>3. MainFits'
    BY <1>a, <2>1, <2>2 DEF MainFits, MainInserts, Introduces, Open
  <2>4. CASE mpc = "asker_fd"
    <3>1. actives = 0 /\ Lonely /\ Waiting /\ Open(fd[mcell])
      BY <1>a, <2>4 DEF MainFits, Lonely, Introduces
    <3>2. \A c \in Clients : ~HasThread(c)
      BY <1>a, <2>4, <3>1 DEF SeatsFit
    <3>3. SeatsFit'
      BY <1>c, <2>1, <2>4, <3>1, <3>2 DEF SeatsFit, HasThread, Introduces, Open, Waiting
    <3>4. Waiting'
      BY <2>1, <2>4, <3>1 DEF Waiting
    <3> QED
      BY <2>2, <2>3, <3>1, <3>3, <3>4 DEF Talking
  <2>5. CASE mpc = "answerer_fd"
    <3>1. actives = 1 /\ ~Lonely /\ Turns /\ fd[mcell] \in Fds \ {askerfd} /\ answererfd = STDIN
      BY <1>a, <2>5 DEF MainFits, Lonely, SeatsFit, Introduces, Turns
    <3>2. \A c \in Clients : HasThread(c) => fd[cell[c]] = askerfd /\ askerfd \in Fds
      BY <1>a, <2>5, <3>1 DEF SeatsFit, Introduces
    <3>3. SeatsFit'
      BY <1>a, <1>c, <2>1, <2>5, <3>1, <3>2 DEF SeatsFit, HasThread, Introduces
    <3>4. Turns'
      <4>1. \A c \in Clients : hpc[c] \notin {"answerer", "answer", "answered"}
        BY <1>c, <3>1, <3>2 DEF Turns, HasThread
      <4>2. pending' <=> pending
        BY <2>1
      <4> QED
        BY <2>1, <2>5, <3>1, <4>1, <4>2 DEF Turns
    <3> QED
      BY <2>2, <2>3, <3>1, <3>3, <3>4 DEF Talking
  <2>6. CASE mpc \in {"asker", "answerer"}
    <3>1. SeatsFit'
      BY <1>a, <2>1, <2>6 DEF SeatsFit, HasThread, Introduces, Open
    <3>2. pending' <=> pending
      BY <2>1
    <3>3. Lonely => Waiting'
      BY <1>a, <2>1, <2>6, <3>2 DEF Waiting, Open
    <3>4. ~Lonely => Turns'
      BY <1>a, <2>1, <2>6, <3>2 DEF Turns
    <3> QED
      BY <2>2, <2>3, <3>1, <3>3, <3>4 DEF Talking
  <2> QED
    BY <2>1, <2>4, <2>5, <2>6
<1>6. CASE MCreate
  <2>1. /\ mpc = "create" /\ mpc' = "head" /\ mclient \in Clients /\ mcell \in live
        /\ hpc[mclient] = "none"
        /\ UNCHANGED <<conn, state, askerfd, answererfd, actives, live, fd, mcell, mreg, pending>>
        /\ hpc' = [hpc EXCEPT ![mclient] = "read"] /\ cell' = [cell EXCEPT ![mclient] = mcell]
    BY <1>6, <1>a DEF MCreate, sockets, parties, list, TypeInv, BufferInv, MainInserts,
                      Introduces, MainFits
  <2>2. /\ hpc'[mclient] = "read" /\ cell'[mclient] = mcell
        /\ \A c \in Clients \ {mclient} : hpc'[c] = hpc[c] /\ cell'[c] = cell[c]
    BY <1>c, <2>1
  <2>3. actives \in {0, 1} /\ (Lonely <=> actives = 0) /\ (Lonely' <=> Lonely)
    BY <1>b, <2>1 DEF Lonely
  <2>4. MainFits'
    BY <1>a, <2>1 DEF MainFits, MainInserts, Introduces
  <2>5. SeatsFit'
    <3>1. CASE actives = 0
      <4>1. /\ \A c \in Clients : ~HasThread(c)
            /\ askerfd = fd[mcell] /\ Open(askerfd) /\ askerfd # answererfd
        BY <1>a, <2>1, <3>1 DEF SeatsFit
      <4>2. \A c \in Clients : HasThread(c)' => c = mclient
        BY <2>2, <4>1 DEF HasThread
      <4>3. fd'[cell'[mclient]] = askerfd' /\ askerfd' \in Fds
        BY <2>1, <2>2, <4>1 DEF Open
      <4> QED
        BY <2>1, <2>2, <3>1, <4>1, <4>2, <4>3 DEF SeatsFit, Introduces, Open
    <3>2. CASE actives = 1
      <4>1. /\ \A c \in Clients : HasThread(c) =>
                 cell[c] \in live /\ fd[cell[c]] \in Fds /\ fd[cell[c]] = askerfd
            /\ fd[mcell] = answererfd /\ fd[mcell] \in Fds /\ askerfd # answererfd
            /\ askerfd \in Fds
        BY <1>a, <2>1, <3>2 DEF SeatsFit, Introduces
      <4>2. \A c \in Clients \ {mclient} : HasThread(c)' <=> HasThread(c)
        BY <2>2 DEF HasThread
      <4>3. fd'[cell'[mclient]] = answererfd'
        BY <2>1, <2>2, <4>1
      <4>4. \A c \in Clients \ {mclient} : HasThread(c)' =>
              cell'[c] \in live' /\ fd'[cell'[c]] \in Fds /\ fd'[cell'[c]] = askerfd'
        BY <2>1, <2>2, <4>1, <4>2
      <4>5. \A c, d \in Clients :
              HasThread(c)' /\ HasThread(d)' /\ fd'[cell'[c]] = fd'[cell'[d]] => c = d
        <5> SUFFICES ASSUME NEW c \in Clients, NEW d \in Clients, HasThread(c)', HasThread(d)',
                            fd'[cell'[c]] = fd'[cell'[d]]
                     PROVE  c = d
          OBVIOUS
        <5>1. CASE c # mclient /\ d # mclient
          <6>1. fd[cell[c]] = fd[cell[d]] /\ HasThread(c) /\ HasThread(d)
            BY <5>1, <2>1, <2>2, <4>2
          <6> QED
            BY <1>a, <6>1 DEF SeatsFit
        <5>2. CASE c = mclient \/ d = mclient
          BY <5>2, <2>1, <4>1, <4>3, <4>4
        <5> QED
          BY <5>1, <5>2
      <4>6. \A c \in Clients : HasThread(c)' =>
              cell'[c] \in live' /\ fd'[cell'[c]] \in Fds \cap {askerfd', answererfd'}
        BY <2>1, <2>2, <4>1, <4>3, <4>4
      <4> QED
        BY <2>1, <3>2, <4>1, <4>5, <4>6 DEF SeatsFit, Introduces
    <3> QED
      BY <2>3, <3>1, <3>2
  <2>6. Lonely => Waiting'
    <3>1. pending' <=> pending
      BY <2>1
    <3> QED
      BY <1>a, <2>1, <2>2, <3>1 DEF Waiting, Open
  <2>7. ~Lonely => Turns'
    <3>1. pending' <=> pending
      BY <2>1
    <3> SUFFICES ASSUME Turns PROVE Turns'
      BY <1>a
    <3>2. (\E d \in Clients : hpc'[d] = "asked") <=> (\E d \in Clients : hpc[d] = "asked")
      BY <2>1, <2>2
    <3>3. (\A d \in Clients : hpc'[d] # "answered") <=> (\A d \in Clients : hpc[d] # "answered")
      BY <2>1, <2>2
    <3>4. ASSUME NEW c \in Clients \ {mclient}
          PROVE  hpc'[c] = hpc[c] /\ fd'[cell'[c]] = fd[cell[c]]
      BY <2>1, <2>2
    <3> QED
      BY <2>1, <2>2, <3>1, <3>2, <3>3, <3>4 DEF Turns
  <2> QED
    BY <2>3, <2>4, <2>5, <2>6, <2>7 DEF Talking
<1>7. ~MCreateFails
  BY DEF MCreateFails
<1>8. CASE MEnlist
  <2>1. /\ UNCHANGED <<conn, state, askerfd, answererfd, live, fd, mcell, pending, hpc, cell>>
        /\ \/ mpc = "head" /\ mpc' = "count" /\ actives' = actives
           \/ mpc = "count" /\ mpc' = "counted" /\ mreg' = actives /\ actives' = actives
           \/ mpc = "counted" /\ mpc' = "loop" /\ actives' = mreg + 1 /\ mreg = actives
    BY <1>8, <1>a DEF MEnlist, sockets, parties, list, history, MStep, MCreate, MainFits
  <2>2. actives \in {0, 1} /\ actives < MAX_CLIENTS
    BY <1>b, <2>1
  <2>3. (Lonely <=> actives = 0) /\ (Lonely' <=> Lonely)
    BY <2>1, <2>2 DEF Lonely
  <2>4. MainFits'
    BY <1>a, <1>b, <2>1, <2>2 DEF MainFits, MainInserts, Introduces
  <2>5. SeatsFit'
    BY <1>a, <2>1, <2>2 DEF SeatsFit, HasThread, Introduces, Open
  <2>6. pending' <=> pending
    BY <2>1
  <2>7. Lonely => Waiting'
    BY <1>a, <2>1, <2>2, <2>3, <2>6 DEF Waiting, SeatsFit, Open
  <2>8. ~Lonely => Turns'
    BY <1>a, <2>1, <2>2, <2>3, <2>6 DEF Turns
  <2> QED
    BY <2>3, <2>4, <2>5, <2>7, <2>8 DEF Talking
<1> QED
  BY <1>1, <1>2, <1>3, <1>4, <1>5, <1>6, <1>7, <1>8 DEF MStep

LEMMA TurnsNext ==
  ASSUME MAX_CLIENTS <= 2
  PROVE  TypeInv /\ BufferInv /\ TurnsInv /\ [Next]_vars => TurnsInv'
<1> SUFFICES ASSUME TypeInv, BufferInv, TurnsInv, [Next]_vars, ~THREADS_MAY_FAIL, ~ended'
             PROVE  Talking'
  BY DEF TurnsInv
<1>1. CASE MStep
  <2>1. ended' = ended
    BY <1>1 DEF MStep, MLoop, MAccept, MLink, MGreet, MInvite, MState, MParty, MCreate,
                MCreateFails, MEnlist, history
  <2>2. Talking
    BY <2>1 DEF TurnsInv
  <2> QED
    BY <1>1, <2>2, TurnsMain
<1>2. ASSUME NEW c \in Clients, Handle(c) PROVE Talking'
  <2>1. ~ended
    <3>1. ended' = ended \/ ended'
      BY <1>2 DEF Handle, HRead, HReading, HCheck, HWho, HTurn, HRefuse, HRelay, HState, HClear,
                  HClose, HTell, HExit, HMark, HDrop, RemoveInactives, history
    <3> QED
      BY <3>1
  <2>2. MainFits /\ SeatsFit /\ (IF Lonely THEN Waiting ELSE Turns)
    BY <2>1 DEF TurnsInv, Talking
  <2>3. PICK x \in HPcs : hpc' = [hpc EXCEPT ![c] = x]
    BY <1>2, OwnPc
  <2>4. hpc'[c] = x
    BY <2>3 DEF TypeInv, TypeOK
  <2>5. CASE Lonely
    <3>1. /\ HasThread(c) /\ hpc'[c] # "none" /\ Waiting'
          /\ UNCHANGED <<mpc, mcell, mreg, askerfd, answererfd, fd, cell, live, actives, conn>>
      BY <1>2, <2>2, <2>5, WaitingThread
    <3>2. MainFits' /\ SeatsFit' /\ (Lonely' <=> Lonely)
      BY <2>2, <2>3, <2>4, <3>1, SeatsKept
    <3> QED
      BY <2>5, <3>1, <3>2 DEF Talking
  <2>6. CASE ~Lonely
    <3>1. /\ HasThread(c) /\ hpc'[c] # "none" /\ Turns'
          /\ UNCHANGED <<mpc, mcell, mreg, askerfd, answererfd, fd, cell, live, actives>>
      BY <1>2, <2>2, <2>6, TurnsThread
    <3>2. MainFits' /\ SeatsFit' /\ (Lonely' <=> Lonely)
      BY <2>2, <2>3, <2>4, <2>6, <3>1, SeatsKept
    <3> QED
      BY <2>6, <3>1, <3>2 DEF Talking
  <2> QED
    BY <2>5, <2>6
<1>3. CASE /\ UNCHANGED <<state, parties, list, fd, mainVars, handler, history>>
           /\ conn' = conn
  <2>1. UNCHANGED <<state, askerfd, answererfd, actives, live, fd, mpc, mcell, mclient, mreg,
                    hpc, cell, pending, ended>>
    BY <1>3 DEF parties, list, mainVars, handler, history
  <2>2. (pending' <=> pending) /\ Talking
    BY <2>1 DEF TurnsInv
  <2> QED
    BY <1>3, <2>1, <2>2 DEF Talking, MainFits, SeatsFit, Lonely, Waiting, Turns, HasThread,
                            MainInserts, Introduces, Open
<1>4. CASE ClientStep /\ UNCHANGED <<state, parties, list, fd, mainVars, handler, history>>
  <2>1. conn' = conn
    BY <1>4, ClientStepType DEF TypeInv, TypeOK
  <2> QED
    BY <1>3, <1>4, <2>1
<1>5. ASSUME NEW c \in Clients, Undefined(c) PROVE Talking'
  <2>1. /\ UNCHANGED <<state, parties, list, fd, mainVars, handler, history>>
        /\ conn' = conn
    BY <1>5 DEF Undefined
  <2> QED
    BY <1>3, <2>1
<1>6. CASE UNCHANGED vars
  <2>1. /\ UNCHANGED <<state, parties, list, fd, mainVars, handler, history>>
        /\ conn' = conn
    BY <1>6 DEF vars, sockets
  <2> QED
    BY <1>3, <2>1
<1> QED
  BY <1>1, <1>2, <1>4, <1>5, <1>6 DEF Next, HStep

(* Up to the first departure questions and answers alternate, although     *)
(* both threads test and set state without a lock (hw8a.c:213-233): the    *)
(* thread that may pass on is the only one that changes state or pending   *)
(* until it has.  Two clients at a time is what hw8a.c:12 allows; with     *)
(* three the third would take over the answerer's place, and line 56 would *)
(* set state under an open question. *)
THEOREM TurnsAreTaken == ASSUME MAX_CLIENTS <= 2 PROVE Spec => []TurnsAlternate
<1>1. Init => TypeInv /\ BufferInv /\ TurnsInv
  BY TypeInit, BufferInit, TurnsInit
<1>2. TypeInv /\ BufferInv /\ TurnsInv /\ [Next]_vars => TypeInv' /\ BufferInv' /\ TurnsInv'
  BY TypeNext, BufferNext, TurnsNext
<1>3. TypeInv /\ TurnsInv => TurnsAlternate
  <2> SUFFICES ASSUME TypeInv, Talking, NEW c \in Clients
               PROVE  (hpc[c] = "ask" => ~pending) /\ (hpc[c] = "answer" => pending)
    BY DEF TurnsInv, TurnsAlternate
  <2>1. hpc[c] \in {"ask", "answer"} => ~Lonely /\ Turns /\ SeatsFit
    BY DEF Talking, Waiting
  <2>2. ASSUME hpc[c] = "ask", NEW d \in Clients, hpc[d] = "asked" PROVE FALSE
    BY <2>1, <2>2 DEF Turns, SeatsFit, HasThread
  <2>3. ASSUME hpc[c] = "answer", NEW d \in Clients, hpc[d] = "answered" PROVE FALSE
    BY <2>1, <2>3 DEF Turns, SeatsFit, HasThread
  <2>4. hpc[c] = "ask" => state = "WAIT_ASKER"
    BY <2>1 DEF Turns
  <2>5. hpc[c] = "answer" => state = "WAIT_ANSWERER"
    BY <2>1 DEF Turns
  <2>6. hpc[c] \in {"ask", "answer"} =>
          (pending <=> IF state = "WAIT_ASKER" THEN \E d \in Clients : hpc[d] = "asked"
                                               ELSE \A d \in Clients : hpc[d] # "answered")
    BY <2>1 DEF Turns
  <2>7. hpc[c] = "ask" => ~pending
    BY <2>2, <2>4, <2>6
  <2>8. hpc[c] = "answer" => pending
    BY <2>3, <2>5, <2>6
  <2> QED
    BY <2>7, <2>8
<1> QED
  BY <1>1, <1>2, <1>3, PTL DEF Spec
-----------------------------------------------------------------------------
(* The list of clients, of which there are two at most. *)

(* n structs hang together from h on, and they are those of S. *)
ListOf(S, h, n) ==
  \/ n = 0 /\ S = {} /\ h = NULL
  \/ n = 1 /\ h # NULL /\ S = {h} /\ next[h] = NULL
  \/ n = 2 /\ h # NULL /\ next[h] \notin {NULL, h} /\ S = {h, next[h]} /\ next[next[h]] = NULL

(* The last on the list is the asker, the one before it the answerer. *)
SeatsOf(h, n) ==
  /\ n = 1 => asker = h /\ askerfd = fd[h]
  /\ n = 2 => /\ answerer = h /\ answererfd = fd[h]
              /\ asker = next[h] /\ askerfd = fd[next[h]]
              /\ askerfd # answererfd

Healthy == \A k \in live : ~inactive[k] /\ Open(fd[k])
Leftover == \A k \in live : inactive[k]

Calm ==
  /\ ListOf(live, head, actives) /\ SeatsOf(head, actives) /\ Healthy
  /\ actives <= MAX_CLIENTS /\ (mpc = "accept" => actives < MAX_CLIENTS)

Inserting ==
  /\ mcell \in live /\ Healthy
  /\ actives < MAX_CLIENTS
  /\ Introduces \/ mpc = "head" =>
       /\ ListOf(live \ {mcell}, head, actives) /\ SeatsOf(head, actives)
       /\ \A k \in live \ {mcell} : fd[k] # fd[mcell]
       /\ mpc # "link" => next[mcell] = head
  /\ mpc \in {"asker_state", "asker_fd", "asker"} => actives = 0
  /\ mpc \in {"invite", "answerer_state", "answerer_fd", "answerer"} => actives = 1
  /\ actives = 0 /\ mpc \in {"asker", "create", "head"} => askerfd = fd[mcell]
  /\ actives = 0 /\ mpc \in {"create", "head"} => asker = mcell
  /\ actives = 1 /\ mpc \in {"answerer", "create", "head"} => answererfd = fd[mcell]
  /\ actives = 1 /\ mpc \in {"create", "head"} => answerer = mcell
  /\ mpc \in {"count", "counted"} =>
       ListOf(live, head, actives + 1) /\ SeatsOf(head, actives + 1)
  /\ mpc = "counted" => mreg = actives

(* A thread that ends finds both structs inactive when it gets to the list, *)
(* so it takes the first one until there is none. *)
Removing(c) ==
  /\ hpc[c] \in {"tell", "exit_asker", "exit_answerer", "mark_asker", "mark_answerer"} =>
       /\ ListOf(live, head, actives) /\ SeatsOf(head, actives)
       /\ cell[c] \in live /\ inactive[cell[c]]
       /\ hpc[c] \in {"exit_asker", "mark_asker"} => fd[cell[c]] = answererfd
       /\ hpc[c] \in {"exit_answerer", "mark_answerer"} => fd[cell[c]] # answererfd
  /\ hpc[c] \in {"drop_asker", "drop_answerer", "remove", "pop", "unlink"} =>
       /\ ListOf(live, head, actives) /\ Leftover
       /\ hpc[c] \in {"pop", "unlink"} => head # NULL
       /\ hpc[c] = "unlink" => current[c] = head
  /\ hpc[c] \in {"uncount", "uncounted", "free"} =>
       /\ current[c] \in live /\ Leftover
       /\ ListOf(live \ {current[c]}, head, IF hpc[c] = "free" THEN actives ELSE actives - 1)
       /\ hpc[c] = "uncounted" => hreg[c] = actives
  /\ hpc[c] \notin {"scan_head", "scan", "advance", "splice"}

(* Main brings in a client, or one thread takes clients out, or neither. *)
Orderly ==
  /\ \A c \in Clients : /\ previous[c] = NULL
                        /\ Removes(c) => Removing(c) /\ ~MainInserts
                        /\ \A d \in Clients : Removes(c) /\ Removes(d) => c = d
  /\ MainInserts => Inserting
  /\ ~MainInserts /\ (\A c \in Clients : ~Removes(c)) => Calm

ListInv == ~crowded => Orderly

LEMMA ListInit == Init => ListInv
<1> SUFFICES ASSUME Init PROVE Orderly
  BY DEF ListInv
<1>1. ~MainInserts /\ \A c \in Clients : previous[c] = NULL /\ ~Removes(c)
  BY DEF Init, MainInserts, Removes
<1>2. Calm
  BY ThreadServerAssumption DEF Init, Calm, ListOf, SeatsOf, Healthy
<1> QED
  BY <1>1, <1>2 DEF Orderly

(* Main. *)
LEMMA ListMain ==
  ASSUME MAX_CLIENTS <= 2, TypeInv, BufferInv, Orderly, MStep, ~crowded'
  PROVE  Orderly'
<1>a. /\ hpc \in [Clients -> HPcs] /\ fd \in [Cells -> Fds \cup {STDIN}]
      /\ next \in [Cells -> Cells \cup {NULL}] /\ inactive \in [Cells -> BOOLEAN]
      /\ live \subseteq Cells /\ actives \in Int /\ head \in Cells \cup {NULL}
      /\ conn \in [Fds -> Clients \cup {NOBODY}]
      /\ NOBODY \notin Clients /\ NULL \notin Cells /\ MAX_CLIENTS \in {1, 2}
  BY CellsType, SocketsAssumption, ThreadServerAssumption DEF TypeInv, TypeOK, SocketsTypeOK
<1>b. UNCHANGED <<previous, leaving, current, hreg>>
  BY DEF MStep, removal
(* No thread is at it. *)
<1>c. \A c \in Clients : ~Removes(c)' <=> ~Removes(c)
  <2>1. CASE UNCHANGED hpc
    BY <2>1 DEF Removes
  <2>2. CASE MCreate
    <3>1. /\ mclient \in Clients /\ hpc[mclient] = "none"
          /\ hpc' = [hpc EXCEPT ![mclient] = "read"]
      BY <2>2 DEF MCreate, MGoto, TypeInv, BufferInv, MainInserts, Introduces
    <3> QED
      BY <1>a, <3>1 DEF Removes
  <2> QED
    BY <2>1, <2>2 DEF MStep
<1>d. MainInserts => Inserting /\ \A c \in Clients : ~Removes(c)
  BY DEF Orderly
<1> USE DEF MGoto
<1>1. CASE MLoop
  <2>1. /\ mpc = "loop" /\ mpc' = "accept" /\ actives # MAX_CLIENTS
        /\ UNCHANGED <<conn, askerfd, answererfd, asker, answerer, head, actives, inactive,
                       next, live, fd, hpc, cell>>
    BY <1>1 DEF MLoop, Full, sockets, parties, list, MStep, MCreate
  <2>2. Calm => Calm'
    BY <1>a, <2>1 DEF Calm, ListOf, SeatsOf, Healthy, Open
  <2>3. ~MainInserts /\ ~MainInserts'
    BY <2>1 DEF MainInserts
  <2>4. ASSUME NEW c \in Clients, Removing(c) PROVE Removing(c)'
    BY <1>b, <2>1, <2>4 DEF Removing, ListOf, SeatsOf, Leftover
  <2> QED
    BY <1>b, <1>c, <2>2, <2>3, <2>4 DEF Orderly
<1>e. ASSUME \A c \in Clients : ~Removes(c),
             (MainInserts /\ Inserting)' \/ (~MainInserts /\ Calm)'
      PROVE  Orderly'
  BY <1>b, <1>c, <1>e DEF Orderly
<1>2. CASE MAccept
  <2>1. PICK f \in Fds : Accept(mclient', f) /\ fd' = [fd EXCEPT ![mcell'] = f]
    BY <1>2 DEF MAccept
  <2>2. /\ mpc = "accept" /\ mpc' = "link"
        /\ mclient' \in Clients /\ mcell' \in Cells \ live /\ live' = live \cup {mcell'}
        /\ inactive' = [inactive EXCEPT ![mcell'] = FALSE]
        /\ UNCHANGED <<askerfd, answererfd, asker, answerer, head, actives, next>>
    BY <1>2 DEF MAccept, Queue, parties
  <2>3. /\ conn[f] = NOBODY /\ conn' = [conn EXCEPT ![f] = mclient']
        /\ fd'[mcell'] = f /\ \A k \in live : fd'[k] = fd[k]
        /\ ~inactive'[mcell'] /\ \A k \in live : inactive'[k] = inactive[k]
    BY <2>1, <2>2, <1>a DEF Accept, LowestFree, FreeFds
  <2>4. \A c \in Clients : ~Removes(c)
    <3>1. crowded' = (crowded \/ \E c \in Clients : Removes(c))
      BY <1>2 DEF MAccept
    <3> QED
      BY <3>1, Zenon
  <2>5. Calm
    BY <2>2, <2>4 DEF Orderly, MainInserts
  <2>6. Open(f)' /\ \A g \in Fds : Open(g) => Open(g)' /\ g # f
    BY <2>2, <2>3, <1>a DEF Open
  <2>7. Healthy'
    <3>1. \A k \in live : ~inactive[k] /\ Open(fd[k]) /\ fd[k] \in Fds
      BY <2>5 DEF Calm, Healthy, Open
    <3>2. \A k \in live : ~inactive'[k] /\ Open(fd[k])'
      BY <2>3, <2>6, <3>1
    <3> QED
      BY <2>2, <2>3, <2>6, <3>2 DEF Healthy, Open
  <2>8. \A k \in live : fd'[k] # fd'[mcell']
    BY <2>3, <2>5, <2>6 DEF Calm, Healthy, Open
  <2>9. live' \ {mcell'} = live
    BY <2>2
  <2>10. /\ ListOf(live \ {mcell}, head, actives)'
         /\ SeatsOf(head, actives)'
    BY <2>2, <2>3, <2>5, <2>9 DEF Calm, ListOf, SeatsOf
  <2>11. Inserting' /\ MainInserts'
    BY <2>2, <2>5, <2>7, <2>8, <2>9, <2>10 DEF Inserting, MainInserts, Introduces, Calm
  <2> QED
    BY <2>4, <2>11, <1>e
<1>3. CASE MLink
  <2>1. /\ mpc = "link" /\ mpc' = "greet" /\ MainInserts /\ MainInserts'
        /\ next' = [next EXCEPT ![mcell] = head]
        /\ UNCHANGED <<conn, askerfd, answererfd, asker, answerer, head, actives, inactive,
                       live, fd, mcell>>
    BY <1>3 DEF MLink, sockets, parties, MainInserts
  <2>2. Inserting /\ Introduces /\ mcell \in live
    BY <1>d, <2>1 DEF Inserting, Introduces
  <2>3. next'[mcell] = head /\ \A k \in live \ {mcell} : next'[k] = next[k]
    BY <1>a, <2>1, <2>2
  <2>4. ListOf(live \ {mcell}, head, actives)' /\ SeatsOf(head, actives)'
    BY <2>1, <2>2, <2>3 DEF Inserting, ListOf, SeatsOf
  <2>5. Healthy'
    BY <2>1, <2>2 DEF Inserting, Healthy, Open
  <2>6. Inserting'
    BY <2>1, <2>2, <2>3, <2>4, <2>5 DEF Inserting, Introduces
  <2> QED
    BY <1>d, <1>e, <2>1, <2>6
<1>4. CASE MGreet \/ MInvite \/ MState \/ MParty \/ MCreate
  <2>1. /\ MainInserts /\ MainInserts' /\ Introduces
        /\ UNCHANGED <<conn, head, actives, inactive, next, live, fd, mcell>>
        /\ \/ /\ UNCHANGED <<askerfd, answererfd, asker, answerer>>
              /\ \/ mpc = "greet" /\ mpc' = "asker_state" /\ actives = 0
                 \/ mpc = "greet" /\ mpc' = "invite" /\ actives # 0
                 \/ mpc = "invite" /\ mpc' = "answerer_state"
                 \/ mpc = "asker_state" /\ mpc' = "asker_fd"
                 \/ mpc = "answerer_state" /\ mpc' = "answerer_fd"
                 \/ mpc = "create" /\ mpc' = "head"
           \/ /\ mpc = "asker_fd" /\ mpc' = "asker" /\ askerfd' = fd[mcell]
              /\ UNCHANGED <<answererfd, asker, answerer>>
           \/ /\ mpc = "asker" /\ mpc' = "create" /\ asker' = mcell
              /\ UNCHANGED <<askerfd, answererfd, answerer>>
           \/ /\ mpc = "answerer_fd" /\ mpc' = "answerer" /\ answererfd' = fd[mcell]
              /\ UNCHANGED <<askerfd, asker, answerer>>
           \/ /\ mpc = "answerer" /\ mpc' = "create" /\ answerer' = mcell
              /\ UNCHANGED <<askerfd, answererfd, asker>>
    <3>1. CASE MGreet \/ MInvite
      BY <3>1 DEF MGreet, MInvite, parties, list, MainInserts, Introduces
    <3>2. CASE MState
      BY <3>2 DEF MState, sockets, parties, list, MainInserts, Introduces
    <3>3. CASE MParty
      BY <3>3 DEF MParty, sockets, list, MainInserts, Introduces
    <3>4. CASE MCreate
      BY <3>4 DEF MCreate, sockets, parties, list, MainInserts, Introduces
    <3> QED
      BY <1>4, <3>1, <3>2, <3>3, <3>4
  <2>2. /\ Inserting /\ actives \in {0, 1}
        /\ ListOf(live \ {mcell}, head, actives) /\ SeatsOf(head, actives)
    BY <1>a, <1>d, <2>1 DEF Inserting, ListOf
  <2>3. Healthy' /\ ListOf(live \ {mcell}, head, actives)'
    BY <2>1, <2>2 DEF Inserting, Healthy, Open, ListOf
  <2>4. SeatsOf(head, actives)'
    BY <2>1, <2>2 DEF Inserting, SeatsOf
  <2>5. Inserting'
    BY <2>1, <2>2, <2>3, <2>4 DEF Inserting, Introduces
  <2> QED
    BY <1>d, <1>e, <2>1, <2>5
<1>5. CASE MCreateFails
  <2>1. /\ mpc = "create" /\ mpc' = "loop" /\ MainInserts /\ ~MainInserts' /\ Introduces
        /\ conn' = Closed({fd[mcell]}) /\ live' = live \ {mcell}
        /\ UNCHANGED <<askerfd, answererfd, asker, answerer, head, actives, inactive, next, fd>>
    BY <1>5 DEF MCreateFails, parties, MainInserts, Introduces
  <2>2. Inserting
    BY <1>d, <2>1
  <2>3. Healthy'
    <3>1. ASSUME NEW k \in live \ {mcell} PROVE ~inactive[k] /\ Open(fd[k])'
      <4>1. ~inactive[k] /\ Open(fd[k]) /\ fd[k] # fd[mcell]
        BY <2>1, <2>2 DEF Inserting, Healthy
      <4> QED
        BY <2>1, <4>1 DEF Open, Closed
    <3> QED
      BY <2>1, <3>1 DEF Healthy, Open
  <2>4. /\ ListOf(live \ {mcell}, head, actives) /\ SeatsOf(head, actives)
        /\ actives < MAX_CLIENTS
    BY <2>1, <2>2 DEF Inserting
  <2>5. ListOf(live, head, actives)'
    BY <2>1, <2>4 DEF ListOf
  <2>6. SeatsOf(head, actives)'
    BY <2>1, <2>4 DEF SeatsOf
  <2>7. Calm'
    BY <1>a, <2>1, <2>3, <2>4, <2>5, <2>6 DEF Calm
  <2> QED
    BY <1>d, <1>e, <2>1, <2>7
<1>6. CASE MEnlist
  <2>1. /\ MainInserts
        /\ UNCHANGED <<conn, askerfd, answererfd, asker, answerer, inactive, next, live, fd, mcell>>
        /\ \/ mpc = "head" /\ mpc' = "count" /\ head' = mcell /\ actives' = actives
           \/ /\ mpc = "count" /\ mpc' = "counted" /\ mreg' = actives
              /\ UNCHANGED <<head, actives>>
           \/ mpc = "counted" /\ mpc' = "loop" /\ actives' = mreg + 1 /\ head' = head
    BY <1>6 DEF MEnlist, sockets, parties, MainInserts
  <2>2. Inserting /\ Healthy'
    BY <1>d, <2>1 DEF Inserting, Healthy, Open
  <2>3. CASE mpc = "head"
    <3>1. /\ mcell \in live /\ actives \in {0, 1} /\ next[mcell] = head
          /\ ListOf(live \ {mcell}, head, actives) /\ SeatsOf(head, actives)
          /\ actives = 0 => askerfd = fd[mcell] /\ asker = mcell
          /\ actives = 1 => answererfd = fd[mcell] /\ answerer = mcell
          /\ \A k \in live \ {mcell} : fd[k] # fd[mcell]
      BY <1>a, <2>2, <2>3 DEF Inserting, ListOf
    <3>2. ListOf(live, head, actives + 1)'
      <4>1. CASE actives = 0
        BY <1>a, <2>1, <2>3, <3>1, <4>1 DEF ListOf
      <4>2. CASE actives = 1
        BY <1>a, <2>1, <2>3, <3>1, <4>2 DEF ListOf
      <4> QED
        BY <3>1, <4>1, <4>2
    <3>3. SeatsOf(head, actives + 1)'
      <4>1. CASE actives = 0
        BY <1>a, <2>1, <2>3, <3>1, <4>1 DEF SeatsOf
      <4>2. CASE actives = 1
        BY <1>a, <2>1, <2>3, <3>1, <4>2 DEF ListOf, SeatsOf
      <4> QED
        BY <3>1, <4>1, <4>2
    <3>4. Inserting' /\ MainInserts'
      BY <2>1, <2>2, <2>3, <3>2, <3>3 DEF Inserting, Introduces, MainInserts
    <3> QED
      BY <1>d, <1>e, <2>1, <3>4
  <2>4. CASE mpc = "count"
    <3>1. ListOf(live, head, actives + 1)' /\ SeatsOf(head, actives + 1)'
      BY <2>1, <2>2, <2>4 DEF Inserting, ListOf, SeatsOf
    <3>2. Inserting' /\ MainInserts'
      BY <2>1, <2>2, <2>4, <3>1 DEF Inserting, Introduces, MainInserts
    <3> QED
      BY <1>d, <1>e, <2>1, <3>2
  <2>5. CASE mpc = "counted"
    <3>1. actives' = actives + 1 /\ actives < MAX_CLIENTS
      BY <2>1, <2>2, <2>5 DEF Inserting
    <3>2. ListOf(live, head, actives)' /\ SeatsOf(head, actives)'
      BY <2>1, <2>2, <2>5, <3>1 DEF Inserting, ListOf, SeatsOf
    <3>3. Calm' /\ ~MainInserts'
      BY <1>a, <2>1, <2>2, <2>5, <3>1, <3>2 DEF Calm, MainInserts
    <3> QED
      BY <1>d, <1>e, <2>1, <3>3
  <2> QED
    BY <2>1, <2>3, <2>4, <2>5
<1> QED
  BY <1>1, <1>2, <1>3, <1>4, <1>5, <1>6 DEF MStep

(* What is neither hpc of a remover nor the list leaves all as it is. *)
LEMMA ListKept ==
  ASSUME Orderly,
         \A c \in Clients : /\ Removes(c)' <=> Removes(c)
                            /\ Removes(c) => hpc'[c] = hpc[c],
         UNCHANGED <<conn, askerfd, answererfd, asker, answerer, head, actives, inactive, next,
                     live, fd, mpc, mcell, mreg, cell, hreg, current, previous>>
  PROVE  Orderly'
<1>1. (MainInserts' <=> MainInserts) /\ (Calm' <=> Calm) /\ (Inserting' <=> Inserting)
  BY DEF MainInserts, Calm, Inserting, Introduces, ListOf, SeatsOf, Healthy, Open
<1>2. ASSUME NEW c \in Clients, Removes(c), Removing(c) PROVE Removing(c)'
  BY <1>2 DEF Removing, ListOf, SeatsOf, Leftover
<1> QED
  BY <1>1, <1>2 DEF Orderly

(* What the one thread that takes clients out has to show. *)
LEMMA OneRemover ==
  ASSUME NEW c \in Clients, NEW x \in HPcs, hpc \in [Clients -> HPcs],
         hpc' = [hpc EXCEPT ![c] = x],
         \A d \in Clients \ {c} : ~Removes(d) /\ previous'[d] = NULL,
         previous'[c] = NULL, ~MainInserts',
         Removes(c)' => Removing(c)', ~Removes(c)' => Calm'
  PROVE  Orderly'
<1>1. \A d \in Clients \ {c} : ~Removes(d)'
  BY DEF Removes
<1>2. /\ \A d \in Clients : /\ previous'[d] = NULL
                            /\ Removes(d)' => Removing(d)' /\ ~MainInserts'
                            /\ \A e \in Clients : Removes(d)' /\ Removes(e)' => d = e
  BY <1>1
<1> QED
  BY <1>2 DEF Orderly

LEMMA ListThread ==
  ASSUME TypeInv, Orderly, ~crowded, ~crowded', NEW c \in Clients, Handle(c)
  PROVE  Orderly'
<1>0. PICK x \in HPcs : hpc' = [hpc EXCEPT ![c] = x]
  BY OwnPc
<1>a. /\ hpc \in [Clients -> HPcs] /\ hpc'[c] = x
      /\ \A d \in Clients \ {c} : hpc'[d] = hpc[d]
  BY <1>0 DEF TypeInv, TypeOK
<1>b. /\ UNCHANGED <<fd, askerfd, answererfd, asker, answerer, mpc, mcell, mreg, cell>>
      /\ MainInserts' <=> MainInserts
  BY DEF Handle, parties, mainVars, MainInserts
<1>c. /\ next \in [Cells -> Cells \cup {NULL}] /\ inactive \in [Cells -> BOOLEAN]
      /\ live \subseteq Cells /\ actives \in Int /\ head \in Cells \cup {NULL}
      /\ current \in [Clients -> Cells \cup {NULL}] /\ previous \in [Clients -> Cells \cup {NULL}]
      /\ leaving \in [Clients -> BOOLEAN] /\ hreg \in [Clients -> Int]
      /\ NULL \notin Cells /\ MAX_CLIENTS \in Nat \ {0}
  BY CellsType, ThreadServerAssumption DEF TypeInv, TypeOK
<1>d. \A d \in Clients : previous[d] = NULL
  BY DEF Orderly
<1> DEFINE Goes == {"tell", "exit_asker", "exit_answerer", "mark_asker", "mark_answerer",
                    "drop_asker", "drop_answerer", "remove", "pop", "unlink", "scan_head",
                    "scan", "advance", "splice", "uncount", "uncounted", "free"}
<1>e. /\ Removes(c) <=> hpc[c] \in Goes
      /\ Removes(c)' <=> x \in Goes
  BY <1>a DEF Removes
(* What a thread does before its client leaves. *)
<1>1. CASE HRead(c) \/ HReading(c) \/ HCheck(c) \/ HWho(c) \/ HTurn(c) \/ HRefuse(c) \/ HRelay(c)
           \/ HState(c) \/ HClear(c)
  <2>1. /\ UNCHANGED <<conn, head, actives, inactive, next, live, hreg, current, previous>>
        /\ hpc[c] \notin Goes /\ x \notin Goes
    <3> USE DEF HGoto, sockets, list, removal
    <3>1. CASE HRead(c) \/ HReading(c) \/ HCheck(c)
      BY <1>a, <3>1 DEF HRead, HReading, HCheck
    <3>2. CASE HWho(c) \/ HTurn(c) \/ HRefuse(c)
      BY <1>a, <3>2 DEF HWho, HTurn, HRefuse, OutOfTurn
    <3>3. CASE HRelay(c) \/ HState(c) \/ HClear(c)
      BY <1>a, <3>3 DEF HRelay, HState, HClear
    <3> QED
      BY <1>1, <3>1, <3>2, <3>3
  <2>2. \A d \in Clients : (Removes(d)' <=> Removes(d)) /\ (Removes(d) => hpc'[d] = hpc[d])
    BY <1>a, <1>e, <2>1 DEF Removes
  <2> QED
    BY <1>b, <2>1, <2>2, ListKept
(* The client has left, and nobody else is at the list. *)
<1>2. CASE HClose(c)
  <2>1. /\ hpc[c] = "close" /\ x = "tell" /\ cell[c] \in live
        /\ inactive' = [inactive EXCEPT ![cell[c]] = TRUE]
        /\ UNCHANGED <<head, actives, next, live, previous>>
    BY <1>2, <1>a DEF HClose, HGoto, Uses, Handle, removal
  <2>2. ~MainInserts /\ \A d \in Clients \ {c} : ~Removes(d)
    <3>1. crowded' = (crowded \/ MainInserts \/ \E d \in Clients \ {c} : Removes(d))
      BY <1>2 DEF HClose
    <3> QED
      BY <3>1, Zenon
  <2>3. Calm
    BY <1>e, <2>1, <2>2 DEF Orderly
  <2>4. Removing(c)'
    <3>1. inactive'[cell[c]]
      BY <1>c, <2>1
    <3>2. ListOf(live, head, actives)' /\ SeatsOf(head, actives)'
      BY <1>b, <2>1, <2>3 DEF Calm, ListOf, SeatsOf
    <3> QED
      BY <1>a, <1>b, <2>1, <3>1, <3>2 DEF Removing
  <2> QED
    BY <1>0, <1>a, <1>b, <1>d, <1>e, <2>1, <2>2, <2>4, OneRemover
(* From here on it is this thread that takes the clients out. *)
<1>f. Removes(c) => /\ Removing(c) /\ ~MainInserts'
                    /\ \A d \in Clients \ {c} : ~Removes(d)
  BY <1>b DEF Orderly
<1>3. CASE HTell(c) \/ HExit(c)
  <2>1. /\ \/ hpc[c] = "tell" /\ x = "exit_asker" /\ fd[cell[c]] = answererfd
           \/ hpc[c] = "tell" /\ x = "exit_answerer" /\ fd[cell[c]] # answererfd
           \/ hpc[c] = "exit_asker" /\ x = "mark_asker"
           \/ hpc[c] = "exit_answerer" /\ x = "mark_answerer"
        /\ UNCHANGED <<head, actives, inactive, next, live, previous>>
    BY <1>3, <1>a DEF HTell, HExit, HGoto, list, removal
  <2>2. Removing(c)
    BY <1>e, <1>f, <2>1
  <2>3. ListOf(live, head, actives)' /\ SeatsOf(head, actives)'
    BY <1>b, <2>1, <2>2 DEF Removing, ListOf, SeatsOf
  <2>4. Removing(c)'
    BY <1>a, <1>b, <2>1, <2>2, <2>3 DEF Removing
  <2> QED
    BY <1>0, <1>a, <1>b, <1>d, <1>e, <1>f, <2>1, <2>4, OneRemover
(* The struct it does not own is the only other one on the list. *)
<1>4. CASE HMark(c)
  <2>1. /\ \/ hpc[c] = "mark_asker" /\ x = "drop_asker"
           \/ hpc[c] = "mark_answerer" /\ x = "drop_answerer"
        /\ inactive' = [inactive EXCEPT ![OtherStruct(c)] = TRUE] /\ OtherStruct(c) \in live
        /\ UNCHANGED <<head, actives, next, live, previous>>
    BY <1>4, <1>a DEF HMark, HGoto, Uses, Handle, removal
  <2>2. /\ ListOf(live, head, actives) /\ SeatsOf(head, actives)
        /\ cell[c] \in live /\ inactive[cell[c]]
        /\ hpc[c] = "mark_asker" => fd[cell[c]] = answererfd
        /\ hpc[c] = "mark_answerer" => fd[cell[c]] # answererfd
    BY <1>e, <1>f, <2>1 DEF Removing
  <2>3. live \subseteq {cell[c], OtherStruct(c)}
    <3>1. CASE actives = 1
      BY <2>2, <3>1 DEF ListOf
    <3>2. CASE actives = 2
      BY <2>1, <2>2, <3>2 DEF ListOf, SeatsOf, OtherStruct
    <3> QED
      BY <2>2, <3>1, <3>2 DEF ListOf
  <2>4. Leftover'
    BY <1>c, <2>1, <2>2, <2>3 DEF Leftover
  <2>5. ListOf(live, head, actives)'
    BY <2>1, <2>2 DEF ListOf
  <2>6. Removing(c)'
    BY <1>a, <2>1, <2>4, <2>5 DEF Removing
  <2> QED
    BY <1>0, <1>a, <1>b, <1>d, <1>e, <1>f, <2>1, <2>6, OneRemover
<1>5. CASE HDrop(c)
  <2>1. /\ hpc[c] \in {"drop_asker", "drop_answerer"} /\ x = "remove"
        /\ UNCHANGED <<head, actives, inactive, next, live, previous>>
    BY <1>5, <1>a DEF HDrop, HGoto, list, removal
  <2>2. ListOf(live, head, actives) /\ Leftover
    BY <1>e, <1>f, <2>1 DEF Removing
  <2>3. ListOf(live, head, actives)' /\ Leftover'
    BY <2>1, <2>2 DEF ListOf, Leftover
  <2>4. Removing(c)'
    BY <1>a, <2>1, <2>3 DEF Removing
  <2> QED
    BY <1>0, <1>a, <1>b, <1>d, <1>e, <1>f, <2>1, <2>4, OneRemover
(* remove_inactives. *)
<1>6. CASE RHead(c)
  <2>1. hpc[c] = "remove" /\ ListOf(live, head, actives) /\ Leftover
    BY <1>6, <1>e, <1>f DEF RHead, Removing
  <2>2. CASE head = NULL
    <3>1. /\ Return(c) /\ live = {} /\ actives = 0
          /\ UNCHANGED <<head, actives, inactive, next, live>>
      BY <1>6, <1>c, <2>1, <2>2 DEF RHead, Return, ListOf, list
    <3>2. /\ x \in {"done", "remove"} /\ previous'[c] = NULL
          /\ \A d \in Clients \ {c} : previous'[d] = previous[d]
      BY <1>a, <1>c, <3>1 DEF Return
    <3>3. ListOf(live, head, actives)' /\ Leftover'
      BY <2>1, <3>1 DEF ListOf, Leftover
    <3>4. Calm'
      BY <1>c, <3>1, <3>3 DEF Calm, SeatsOf, Healthy
    <3>5. x = "remove" => Removing(c)'
      BY <1>a, <3>3 DEF Removing
    <3> QED
      BY <1>0, <1>a, <1>d, <1>e, <1>f, <2>1, <3>2, <3>4, <3>5, OneRemover
  <2>3. CASE head # NULL
    <3>1. head \in live
      BY <2>1, <2>3 DEF ListOf
    <3>2. x = "pop" /\ UNCHANGED <<head, actives, inactive, next, live, previous>>
      BY <1>6, <1>a, <2>1, <2>3, <3>1 DEF RHead, Leftover, list, removal
    <3>3. ListOf(live, head, actives)' /\ Leftover'
      BY <2>1, <3>2 DEF ListOf, Leftover
    <3>4. Removing(c)'
      BY <1>a, <2>3, <3>2, <3>3 DEF Removing
    <3> QED
      BY <1>0, <1>a, <1>d, <1>e, <1>f, <2>1, <3>2, <3>4, OneRemover
  <2> QED
    BY <2>2, <2>3
<1>7. CASE RTakeHead(c)
  <2>1. /\ hpc[c] = "pop" /\ x = "unlink" /\ ListOf(live, head, actives) /\ Leftover
        /\ head # NULL
    BY <1>7, <1>a, <1>e, <1>f DEF RTakeHead, HGoto, Removing
  <2>2. /\ current'[c] = head /\ UNCHANGED <<head, actives, inactive, next, live, previous>>
    BY <1>7, <1>c DEF RTakeHead, list
  <2>3. ListOf(live, head, actives)' /\ Leftover'
    BY <2>1, <2>2 DEF ListOf, Leftover
  <2>4. Removing(c)'
    BY <1>a, <2>1, <2>2, <2>3 DEF Removing
  <2> QED
    BY <1>0, <1>a, <1>d, <1>e, <1>f, <2>1, <2>2, <2>4, OneRemover
<1>8. CASE RUnlink(c)
  <2>1. /\ hpc[c] = "unlink" /\ x = "uncount" /\ ListOf(live, head, actives) /\ Leftover
        /\ head # NULL /\ current[c] = head
    BY <1>8, <1>a, <1>e, <1>f DEF RUnlink, HGoto, Removing
  <2>2. /\ head' = next[head]
        /\ UNCHANGED <<actives, inactive, next, live, previous, current>>
    BY <1>8 DEF RUnlink, removal
  <2>3. head \in live /\ ListOf(live \ {head}, next[head], actives - 1)
    <3>1. CASE actives = 1
      BY <2>1, <3>1 DEF ListOf
    <3>2. CASE actives = 2
      BY <2>1, <3>2 DEF ListOf
    <3> QED
      BY <2>1, <3>1, <3>2 DEF ListOf
  <2>4. ListOf(live \ {current[c]}, head, actives - 1)' /\ Leftover'
    BY <2>1, <2>2, <2>3 DEF ListOf, Leftover
  <2>5. Removing(c)'
    BY <1>a, <2>1, <2>2, <2>3, <2>4 DEF Removing
  <2> QED
    BY <1>0, <1>a, <1>d, <1>e, <1>f, <2>1, <2>2, <2>5, OneRemover
<1>9. CASE RUncount(c)
  <2>1. /\ hpc[c] \in {"uncount", "uncounted"} /\ current[c] \in live /\ Leftover
        /\ ListOf(live \ {current[c]}, head, actives - 1)
        /\ hpc[c] = "uncounted" => hreg[c] = actives
    BY <1>9, <1>e, <1>f DEF RUncount, HGoto, Removing
  <2>2. /\ UNCHANGED <<head, inactive, next, live, previous, current>>
        /\ \/ /\ hpc[c] = "uncount" /\ x = "uncounted"
              /\ hreg'[c] = actives /\ actives' = actives
           \/ hpc[c] = "uncounted" /\ x = "free" /\ actives' = actives - 1
    BY <1>9, <1>a, <1>c, <2>1 DEF RUncount, HGoto
  <2>3. Leftover' /\ current'[c] \in live'
    BY <2>1, <2>2 DEF Leftover
  <2>4. ListOf(live \ {current[c]}, head, IF x = "free" THEN actives ELSE actives - 1)'
    <3>1. (IF x = "free" THEN actives' ELSE actives' - 1) = actives - 1
      BY <2>2
    <3> QED
      BY <2>1, <2>2, <3>1 DEF ListOf
  <2>5. Removing(c)'
    BY <1>a, <2>2, <2>3, <2>4 DEF Removing
  <2> QED
    BY <1>0, <1>a, <1>d, <1>e, <1>f, <2>1, <2>2, <2>5, OneRemover
<1>10. CASE RFree(c)
  <2>1. /\ hpc[c] = "free" /\ current[c] \in live /\ Leftover
        /\ ListOf(live \ {current[c]}, head, actives)
    BY <1>10, <1>e, <1>f DEF RFree, HGoto, Removing
  <2>2. /\ x = "remove" /\ live' = live \ {current[c]}
        /\ UNCHANGED <<head, actives, inactive, next, previous>>
    BY <1>10, <1>a, <1>d DEF RFree, HGoto
  <2>3. ListOf(live, head, actives)' /\ Leftover'
    BY <2>1, <2>2 DEF ListOf, Leftover
  <2>4. Removing(c)'
    BY <1>a, <2>2, <2>3 DEF Removing
  <2> QED
    BY <1>0, <1>a, <1>d, <1>e, <1>f, <2>1, <2>2, <2>4, OneRemover
(* It never gets past the head of the list. *)
<1>11. ~RScan(c) /\ ~RAdvance(c) /\ ~RSplice(c)
  BY <1>e, <1>f DEF RScan, RAdvance, RSplice, HGoto, Removing
<1> QED
  BY <1>1, <1>2, <1>3, <1>4, <1>5, <1>6, <1>7, <1>8, <1>9, <1>10, <1>11 DEF Handle, RemoveInactives

LEMMA ListNext ==
  ASSUME MAX_CLIENTS <= 2
  PROVE  TypeInv /\ BufferInv /\ ListInv /\ [Next]_vars => ListInv'
<1> SUFFICES ASSUME TypeInv, BufferInv, ListInv, [Next]_vars, ~crowded' PROVE Orderly'
  BY DEF ListInv
<1>1. CASE MStep
  <2>1. ~crowded
    <3>1. CASE MAccept
      <4>1. crowded' = (crowded \/ \E c \in Clients : Removes(c))
        BY <3>1 DEF MAccept
      <4> QED
        BY <4>1, Zenon
    <3>2. CASE ~MAccept
      <4>1. crowded' = crowded
        BY <1>1, <3>2 DEF MStep, MLoop, MLink, MGreet, MInvite, MState, MParty, MCreate,
                          MCreateFails, MEnlist, history
      <4> QED
        BY <4>1
    <3> QED
      BY <3>1, <3>2
  <2> QED
    BY <1>1, <2>1, ListMain DEF ListInv
<1>2. ASSUME NEW c \in Clients, Handle(c) PROVE Orderly'
  <2>1. ~crowded
    <3>1. CASE HClose(c)
      <4>1. crowded' = (crowded \/ MainInserts \/ \E d \in Clients \ {c} : Removes(d))
        BY <3>1 DEF HClose
      <4> QED
        BY <4>1, Zenon
    <3>2. CASE ~HClose(c)
      <4>1. crowded' = crowded
        BY <1>2, <3>2 DEF Handle, HRead, HReading, HCheck, HWho, HTurn, HRefuse, HRelay, HState,
                          HClear, HTell, HExit, HMark, HDrop, RemoveInactives, history
      <4> QED
        BY <4>1
    <3> QED
      BY <3>1, <3>2
  <2> QED
    BY <1>2, <2>1, ListThread DEF ListInv
<1>3. CASE /\ UNCHANGED <<state, parties, list, fd, mainVars, handler, history>>
           /\ conn' = conn
  <2>1. UNCHANGED <<conn, askerfd, answererfd, asker, answerer, head, actives, inactive, next,
                    live, fd, mpc, mcell, mreg, cell, hreg, current, previous, hpc, crowded>>
    BY <1>3 DEF parties, list, mainVars, handler, removal, history
  <2>2. Orderly
    <3>1. crowded' = crowded
      BY <2>1
    <3> QED
      BY <3>1 DEF ListInv
  <2> QED
    BY <2>1, <2>2, ListKept DEF Removes
<1>4. CASE ClientStep /\ UNCHANGED <<state, parties, list, fd, mainVars, handler, history>>
  <2>1. conn' = conn
    BY <1>4, ClientStepType DEF TypeInv, TypeOK
  <2> QED
    BY <1>3, <1>4, <2>1
<1>5. ASSUME NEW c \in Clients, Undefined(c) PROVE Orderly'
  <2>1. /\ UNCHANGED <<state, parties, list, fd, mainVars, handler, history>>
        /\ conn' = conn
    BY <1>5 DEF Undefined
  <2> QED
    BY <1>3, <2>1
<1>6. CASE UNCHANGED vars
  <2>1. /\ UNCHANGED <<state, parties, list, fd, mainVars, handler, history>>
        /\ conn' = conn
    BY <1>6 DEF vars, sockets
  <2> QED
    BY <1>3, <2>1
<1> QED
  BY <1>1, <1>2, <1>4, <1>5, <1>6 DEF Next, HStep

(* What hangs together from head on is on the list. *)
LEMMA ListedIs ==
  ASSUME TypeInv, ListOf(live, head, actives) PROVE Listed = live
<1>1. /\ live \subseteq Cells /\ head \in Cells \cup {NULL} /\ NULL \notin Cells
      /\ next \in [Cells -> Cells \cup {NULL}]
  BY CellsType DEF TypeInv, TypeOK
<1>2. ASSUME NEW k \in Listed PROVE k \in live
  <2>1. head \in live \cup {NULL} /\ \A j \in live : next[j] \in live \cup {NULL}
    BY DEF ListOf
  <2> QED
    BY <1>1, <1>2, <2>1 DEF Listed
<1>3. ASSUME NEW k \in live, NEW S \in SUBSET Cells, head \in S \cup {NULL},
             \A j \in S : next[j] \in S \cup {NULL}
      PROVE  k \in S
  <2>1. CASE actives = 1
    BY <1>3, <2>1 DEF ListOf
  <2>2. CASE actives = 2
    BY <1>3, <2>2 DEF ListOf
  <2> QED
    BY <1>3, <2>1, <2>2 DEF ListOf
<1> QED
  BY <1>1, <1>2, <1>3 DEF Listed

(* Once the threads have come to rest the list holds exactly the structs   *)
(* that are allocated, actives is their number and each has a client,      *)
(* provided no two threads have been bringing in or taking out clients at  *)
(* the same time (hw8a.c:39-97, 60-64 and 181-196).  Two clients at a time *)
(* is what hw8a.c:12 allows; with three, asker and askerfd may outlive     *)
(* their client while another one stays. *)
THEOREM ListIsExact == ASSUME MAX_CLIENTS <= 2 PROVE Spec => []ListIsExactUnlessCrowded
<1>1. Init => TypeInv /\ BufferInv /\ ListInv
  BY TypeInit, BufferInit, ListInit
<1>2. TypeInv /\ BufferInv /\ ListInv /\ [Next]_vars => TypeInv' /\ BufferInv' /\ ListInv'
  BY TypeNext, BufferNext, ListNext
<1>3. TypeInv /\ ListInv => ListIsExactUnlessCrowded
  <2> SUFFICES ASSUME TypeInv, ListInv, Quiet, ~crowded
               PROVE  /\ Listed = live
                      /\ actives = Cardinality(live)
                      /\ \A k \in live : ~inactive[k] /\ Open(fd[k])
    BY DEF ListIsExactUnlessCrowded
  <2>1. Calm
    <3>1. ~MainInserts /\ \A c \in Clients : ~Removes(c)
      BY DEF Quiet, MainInserts, Removes
    <3> QED
      BY <3>1 DEF ListInv, Orderly
  <2>2. actives = Cardinality(live)
    <3>1. CASE actives = 0
      BY <2>1, <3>1, FS_EmptySet DEF Calm, ListOf
    <3>2. CASE actives = 1
      <4>1. live = {head}
        BY <2>1, <3>2 DEF Calm, ListOf
      <4>2. Cardinality({head}) = 1
        BY FS_Singleton
      <4> QED
        BY <3>2, <4>1, <4>2
    <3>3. CASE actives = 2
      <4>1. live = {next[head]} \cup {head} /\ head \notin {next[head]}
        BY <2>1, <3>3 DEF Calm, ListOf
      <4>2. IsFiniteSet({next[head]}) /\ Cardinality({next[head]}) = 1
        BY FS_Singleton
      <4>3. Cardinality({next[head]} \cup {head}) = 1 + 1
        BY <4>1, <4>2, FS_AddElement
      <4> QED
        BY <3>3, <4>1, <4>3
    <3> QED
      BY <2>1, <3>1, <3>2, <3>3 DEF Calm, ListOf
  <2> QED
    BY <2>1, <2>2, ListedIs DEF Calm, Healthy
<1> QED
  BY <1>1, <1>2, <1>3, PTL DEF Spec
=============================================================================
