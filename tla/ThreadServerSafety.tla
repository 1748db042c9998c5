------------------------- MODULE ThreadServerSafety -------------------------
(***************************************************************************)
(* What the threads of hw8a.c guarantee, and what they do not.             *)
(***************************************************************************)
EXTENDS ThreadServer

MPcs == {"loop", "accept", "link", "greet", "asker_state", "asker_fd", "asker",
         "invite", "answerer_state", "answerer_fd", "answerer", "create", "head",
         "count", "counted"}

HPcs == {"none", "read", "reading", "check", "who", "answerer", "asker", "refuse",
         "answer", "answered", "ask", "asked", "clear", "close", "tell",
         "exit_asker", "exit_answerer", "mark_asker", "mark_answerer",
         "drop_asker", "drop_answerer", "remove", "pop", "unlink", "scan_head",
         "scan", "advance", "splice", "uncount", "uncounted", "free", "done"}

(* Every variable keeps to its type; a buffer holds as many bytes as it has *)
(* room for (hw8a.c:19-35 and 161-164). *)
TypeOK ==
  /\ SocketsTypeOK
  /\ state \in {"WAIT_CLIENTS", "WAIT_ASKER", "WAIT_ANSWERER", "EXIT"}
  /\ {askerfd, answererfd} \subseteq Fds \cup {STDIN}
  /\ {asker, answerer, head, mcell} \subseteq Cells \cup {NULL}
  /\ {actives, mreg} \subseteq Int
  /\ fd \in [Cells -> Fds \cup {STDIN}]
  /\ inactive \in [Cells -> BOOLEAN]
  /\ next \in [Cells -> Cells \cup {NULL}]
  /\ live \subseteq Cells
  /\ mpc \in MPcs
  /\ mclient \in Clients \cup {NOBODY}
  /\ hpc \in [Clients -> HPcs]
  /\ \A r \in {cell, current, previous} : r \in [Clients -> Cells \cup {NULL}]
  /\ source \in [Clients -> Clients \cup {NOBODY}]
  /\ got \in [Clients -> Seq(0..MESSAGES)]
  /\ buf \in [Clients -> [1..BUFFER -> 0..MESSAGES \cup {GARBAGE}]]
  /\ hreg \in [Clients -> Int]
  /\ leaving \in [Clients -> BOOLEAN]
  /\ pending \in BOOLEAN
  /\ soil \in [Clients -> {"clean", "stack", "refused", "tail"}]
  /\ ended \in BOOLEAN
  /\ crowded \in BOOLEAN

(* Up to the first departure questions and answers alternate: no question    *)
(* is taken while one is open and no answer while none is, although both     *)
(* threads test and set state without a lock (hw8a.c:213-233).  This needs   *)
(* every client to get its thread: otherwise a second answerer can join      *)
(* while a question is on its way to the first.                              *)
TurnsAlternate ==
  ~THREADS_MAY_FAIL /\ ~ended =>
    \A c \in Clients : /\ hpc[c] = "ask" => ~pending
                       /\ hpc[c] = "answer" => pending

(* A thread passes on what it has just read, up to its first zero byte, and  *)
(* nothing that was in its buffer before, unless it has refused a message    *)
(* since it last passed one on, its stack was not clean, or a message went   *)
(* on behind a zero byte: what comes after such a byte is neither passed on  *)
(* nor cleared (hw8a.c:161-164, 198 and 211-239). *)
RelayedAsRead ==
  \A c \in Clients :
    hpc[c] \in {"ask", "answer"} /\ soil[c] = "clean" => Text(buf[c]) = Text(got[c])

(* A question that is passed on (hw8a.c:229-230) has an answerer to go to,    *)
(* as the prompt of line 53 says, at least until a client leaves. *)
QuestionIsHeard ==
  ~ended => \A c \in Clients : hpc[c] = "ask" => Open(answererfd)

(* main waits for a client, the threads for their clients. *)
Quiet ==
  /\ mpc = "accept"
  /\ \A c \in Clients : hpc[c] \in {"none", "reading", "done"}

(* The structs on the list. *)
Listed ==
  {k \in Cells : \A S \in SUBSET Cells :
     (head \in S \cup {NULL} /\ \A j \in S : next[j] \in S \cup {NULL}) => k \in S}

(* Once the threads have come to rest the list holds exactly the structs that  *)
(* are allocated, actives is their number and each has a client, provided no   *)
(* two threads have been bringing in or taking out clients at the same time    *)
(* (hw8a.c:39-97, 60-64 and 181-196). *)
ListIsExactUnlessCrowded ==
  Quiet /\ ~crowded =>
    /\ Listed = live
    /\ actives = Cardinality(live)
    /\ \A k \in live : ~inactive[k] /\ Open(fd[k])

(* When a client of a conversation leaves, the conversation ends, unless the   *)
(* server dies: the thread of a client that left before there was an answerer  *)
(* looks again once there is one (hw8a.c:179-197).  Stated for clients that    *)
(* all get a thread.                                                           *)
DepartureEndsIt ==
  ~THREADS_MAY_FAIL => \A c \in Clients :
    phase[c] = "accepted" /\ peer[c] # "up" /\ answererfd # STDIN ~> ended \/ ~Running
=============================================================================
