----------------------------- MODULE ShellProofs -----------------------------
(* Proofs about dsh.c for every set of lines, size of the table and of the *)
(* pipes: the types, StdioRestored and OnlyNewestIsWritten, how many       *)
(* descriptors the shell loses, which commands it calls in what order, and *)
(* what a command finds on its descriptors.                                *)
EXTENDS ShellSafety, FiniteSetTheorems, SequenceTheorems, WellFoundedInduction, TLAPS

(* Descriptors 0 to 5 are always open and 3 to 5 are always the terminal:  *)
(* nothing the shell is given by open, pipe or dup is one of them.         *)
High     == Fds \ (0 .. 5)
KeepsTty == /\ \A d \in 0 .. 5 : table[d] # Closed
            /\ table[3] = Tty(0) /\ table[4] = Tty(1) /\ table[5] = Tty(2)
HighFrames ==
  \A i \in DOMAIN stack :
    /\ {stack[i].fd0, stack[i].fd1, stack[i].origin} \subseteq High \cup {NONE}
    /\ stack[i].fd0 = stack[i].fd1 => stack[i].fd0 = NONE
LeftCalled == pc = "waitLeft" => stack # <<>>

(* A write end is the one run_pipeline has just made. *)
ShellWrites ==
  \A d \in Fds : table[d][1] = "write" =>
    pc = "waitLeft" /\ d = Head(stack).fd1 /\ table[d] = Wr(Len(pipes))
ChildWrites ==
  \A d \in Fds : child.table[d][1] = "write" =>
    pc = "waitLeft" /\ child.table[d] = Wr(Len(pipes))

ShellInv == /\ ShellTypeOK /\ StdioRestored /\ KeepsTty /\ HighFrames /\ LeftCalled
            /\ ShellWrites /\ ChildWrites
-----------------------------------------------------------------------------
(* What a call takes was free. *)
LEMMA NthIsFree ==
  ASSUME NEW t, NEW n PROVE Nth(t, n) \in Free(t) \cup {NONE}
<1> DEFINE S == {d \in Free(t) : Cardinality({e \in Free(t) : e < d}) = n - 1}
<1>1. S # {} => (CHOOSE d \in S : TRUE) \in S
  OBVIOUS
<1> QED BY <1>1 DEF Nth

LEMMA NthsDiffer ==
  ASSUME NEW t, NEW m \in Nat, NEW n \in Nat, m # n, Nth(t, m) = Nth(t, n)
  PROVE  Nth(t, m) = NONE
<1> DEFINE Below(d) == Cardinality({e \in Free(t) : e < d})
           S(x)     == {d \in Free(t) : Below(d) = x - 1}
<1>1. \A x : S(x) # {} => (CHOOSE d \in S(x) : TRUE) \in S(x)
  OBVIOUS
<1>2. \A d : ~(d \in S(m) /\ d \in S(n))
  <2> HIDE DEF Below
  <2> QED OBVIOUS
<1>3. \A x : Nth(t, x) = IF S(x) = {} THEN NONE ELSE CHOOSE d \in S(x) : TRUE
  BY DEF Nth
<1>4. NONE \notin Free(t)
  BY TableAssumption DEF Free, Fds, NONE
<1> HIDE DEF S
<1>5. CASE S(m) = {}
  BY <1>3, <1>5
<1>6. CASE S(m) # {} /\ S(n) # {}
  BY <1>1, <1>2, <1>3, <1>6
<1>7. CASE S(n) = {}
  BY <1>3, <1>7
<1> QED BY <1>5, <1>6, <1>7

LEMMA LowFds == /\ 0 .. 5 \subseteq Fds /\ {0, 1, 2, 3, 4, 5} \subseteq Fds
                /\ NONE \notin Fds /\ Fds \subseteq Int
BY TableAssumption DEF Fds, NONE

LEMMA FileKinds ==
  /\ {Closed, Out, Err, Null, File} \subseteq Files
  /\ \A k \in Nat : Rd(k) \in Files
  /\ \A k \in Nat : Wr(k) \in Files
  /\ \A k \in Nat : Tty(k) \in Files
BY DEF Closed, Out, Err, Null, File, Rd, Wr, Tty, Files, FileTypes

LEMMA StartTableType == StartTable \in Tables
BY LowFds, FileKinds, TableAssumption DEF StartTable, Tables, Fds

LEMMA NoChildType == NoChild \in Processes
BY StartTableType DEF NoChild, Processes

(* dup2 and close keep a table a table. *)
LEMMA Dup2Type ==
  ASSUME NEW t \in Tables, NEW d \in Fds \cup {NONE}, NEW e \in Fds
  PROVE  /\ Dup2(t, d, e) \in Tables
         /\ \A x \in Fds : x # e => Dup2(t, d, e)[x] = t[x]
         /\ Dup2(t, d, e)[e] # t[e] =>
              d \in Fds /\ Dup2(t, d, e)[e] = t[d] /\ t[d] # Closed
BY LowFds DEF Dup2, Tables

LEMMA CloseType ==
  ASSUME NEW t \in Tables, NEW d \in Fds \cup {NONE}
  PROVE  /\ Close(t, d) \in Tables
         /\ \A x \in Fds : x # d => Close(t, d)[x] = t[x]
         /\ d \in Fds => Close(t, d)[d] = Closed
BY LowFds, FileKinds DEF Close, Put, Tables
-----------------------------------------------------------------------------
LEMMA InitInv == ShellInit => ShellInv
<1> SUFFICES ASSUME ShellInit PROVE ShellInv
  OBVIOUS
<1>1. ShellTypeOK
  <2>1. /\ pipes \in Seq(Seq(Nat)) /\ called \in Seq(Nat)
        /\ typed \in Seq(Tokens) /\ text \in Seq(Tokens \cup {"end"})
        /\ stack \in Seq(Frames)
    BY DEF ShellInit
  <2>2. table \in Tables /\ child \in Processes
    BY StartTableType, NoChildType DEF ShellInit
  <2>3. at \in Nat /\ lines \in Nat /\ exhausted \in BOOLEAN
    BY DEF ShellInit
  <2>4. pc \in {"prompt", "run", "waitLeft", "wait", "return", "exited", "undefined"}
    BY DEF ShellInit
  <2> QED BY <2>1, <2>2, <2>3, <2>4 DEF ShellTypeOK
<1>2. KeepsTty /\ StdioRestored
  BY LowFds DEF ShellInit, KeepsTty, StdioRestored, StartTable, Closed, Tty
<1>3. HighFrames /\ LeftCalled
  BY DEF ShellInit, HighFrames, LeftCalled
<1>4. ShellWrites /\ ChildWrites
  BY DEF ShellInit, ShellWrites, ChildWrites, NoChild, StartTable, Closed, Tty
<1> QED BY <1>1, <1>2, <1>3, <1>4 DEF ShellInv

(* What StdioRestored and its companions need of an action that takes no   *)
(* part in calls.                                                          *)
LEMMA TableType == ShellInv => table \in Tables /\ child.table \in Tables
BY DEF ShellInv, ShellTypeOK, Processes

LEMMA ReadLineInv == ASSUME ShellInv, NEW l \in Lines, ReadLine(l) PROVE ShellInv'
<1>1. PICK in \in {Null, table[0]}, er \in {Err, table[2]} :
        table' \in {table, [table EXCEPT ![0] = in, ![1] = Out, ![2] = er]}
  <2>1. PICK in \in {Null, table[0]} : in = IF Nth(table, 3) = NONE THEN table[0] ELSE Null
    OBVIOUS
  <2>2. PICK er \in {Err, table[2]} : er = IF Nth(table, 2) = NONE THEN table[2] ELSE Err
    OBVIOUS
  <2> QED BY <2>1, <2>2 DEF ReadLine
<1>2. table \in [Fds -> Files]
  BY TableType DEF Tables
<1>3. /\ table' \in [Fds -> Files]
      /\ \A d \in Fds : d \notin {0, 1, 2} => table'[d] = table[d]
      /\ table'[0] \in {table[0], Null} /\ table'[1] \in {table[1], Out}
      /\ table'[2] \in {table[2], Err}
  BY <1>1, <1>2, FileKinds, LowFds
<1>4. /\ \A d \in 0 .. 5 : table'[d] # Closed
      /\ \A d \in Fds : table'[d][1] = "write" => table[d][1] = "write"
  BY <1>3, LowFds DEF ShellInv, KeepsTty, Closed, Null, Out, Err
<1>5. pc = "prompt" /\ pc' \in {"exited", "run"} /\ stack' = stack /\ pipes' = pipes
      /\ child' = child
  BY DEF ReadLine
<1>6. KeepsTty'
  BY <1>3, <1>4, LowFds DEF ShellInv, KeepsTty
<1>7. ShellWrites' /\ ChildWrites'
  BY <1>4, <1>5 DEF ShellInv, ShellWrites, ChildWrites
<1>8. ShellTypeOK'
  <2>1. typed' \in Seq(Tokens) /\ text' \in Seq(Tokens \cup {"end"})
    <3>1. l \in Seq(Tokens)
      BY ShellAssumption
    <3>2. l \in Seq(Tokens \cup {"end"}) /\ <<"end", "end">> \in Seq(Tokens \cup {"end"})
      BY <3>1
    <3>3. l \o <<"end", "end">> \in Seq(Tokens \cup {"end"})
      BY <3>2
    <3> QED BY <3>1, <3>3 DEF ReadLine
  <2>2. lines' \in Nat /\ at' \in Nat /\ called' \in Seq(Nat) /\ exhausted' \in BOOLEAN
    BY DEF ReadLine, ShellInv, ShellTypeOK
  <2> QED BY <1>3, <1>5, <2>1, <2>2 DEF ShellInv, ShellTypeOK, Tables
<1>9. StdioRestored' /\ HighFrames' /\ LeftCalled'
  BY <1>5 DEF ShellInv, StdioRestored, HighFrames, LeftCalled
<1> QED BY <1>4, <1>6, <1>7, <1>8, <1>9 DEF ShellInv

(* Putting a terminator in keeps the text a text. *)
LEMMA CutType ==
  ASSUME text \in Seq(Tokens \cup {"end"}), NEW i
  PROVE  Cut(i) \in Seq(Tokens \cup {"end"})
<1> DEFINE S == Tokens \cup {"end"}
<1>1. text \in [1 .. Len(text) -> S] /\ Len(text) \in Nat
  OBVIOUS
<1>2. "end" \in S
  OBVIOUS
<1> HIDE DEF S
<1>3. Cut(i) \in [1 .. Len(text) -> S]
  BY <1>1, <1>2 DEF Cut
<1>4. Cut(i) \in Seq(S)
  BY <1>1, <1>3, SeqDef
<1> QED BY <1>4 DEF S

LEMMA FindType ==
  ASSUME at \in Nat, NEW t \in Seq(Tokens \cup {"end"}), NEW S PROVE Find(t, at, S) \subseteq Nat
BY DEF Find

(* A call puts a frame before the others. *)
LEMMA PushType ==
  ASSUME stack \in Seq(Frames), NEW frame \in Frames, stack' = <<frame>> \o stack
  PROVE  /\ stack' \in Seq(Frames) /\ stack' # <<>> /\ Head(stack') = frame
         /\ \A i \in DOMAIN stack' : stack'[i] = frame \/ \E j \in DOMAIN stack : stack'[i] = stack[j]
OBVIOUS

LEMMA RunSequenceInv == ASSUME ShellInv, RunSequence PROVE ShellInv'
<1>1. PICK sep \in Find(text, at, {"semicolon"}) :
        /\ text' = Cut(sep)
        /\ stack' = <<[f |-> "sequence", fd0 |-> NONE, fd1 |-> NONE,
                       origin |-> NONE, tail |-> Behind(sep)]>> \o stack
  BY DEF RunSequence
<1>2. Behind(sep) \in Nat
  <2>1. at \in Nat /\ text \in Seq(Tokens \cup {"end"})
    BY DEF ShellInv, ShellTypeOK
  <2>2. sep \in Nat
    BY <1>1, <2>1, FindType
  <2> QED BY <2>2 DEF Behind
<1> DEFINE frame == [f |-> "sequence", fd0 |-> NONE, fd1 |-> NONE,
                     origin |-> NONE, tail |-> Behind(sep)]
<1>3. frame \in Frames
  BY <1>2 DEF Frames
<1>4. stack \in Seq(Frames) /\ stack' = <<frame>> \o stack
  BY <1>1 DEF ShellInv, ShellTypeOK
<1>5. ShellTypeOK'
  <2>1. stack' \in Seq(Frames)
    BY <1>3, <1>4, PushType
  <2>2. text' \in Seq(Tokens \cup {"end"})
    BY <1>1, CutType DEF ShellInv, ShellTypeOK
  <2> QED BY <2>1, <2>2 DEF RunSequence, ShellInv, ShellTypeOK
<1>6. HighFrames'
  <2> HIDE DEF frame
  <2>1. \A i \in DOMAIN stack' : stack'[i] = frame \/ \E j \in DOMAIN stack : stack'[i] = stack[j]
    BY <1>3, <1>4, PushType
  <2>2. frame.fd0 = NONE /\ frame.fd1 = NONE /\ frame.origin = NONE
    BY DEF frame
  <2> QED BY <2>1, <2>2 DEF ShellInv, HighFrames
<1>7. StdioRestored' /\ KeepsTty' /\ LeftCalled' /\ ShellWrites' /\ ChildWrites'
  BY DEF RunSequence, ShellInv, StdioRestored, KeepsTty, LeftCalled, ShellWrites, ChildWrites
<1> QED BY <1>5, <1>6, <1>7 DEF ShellInv

(* What fork leaves behind: a child with the descriptors it was given.     *)
LEMMA ForkType ==
  ASSUME called \in Seq(Nat), NEW t \in Tables, NEW w \in SUBSET Nat, Fork(t, w)
  PROVE  /\ child' \in Processes /\ called' \in Seq(Nat)
         /\ child'.table \in {t, StartTable}
<1>1. PICK here \in Nat :
        /\ called' = IF here = 0 THEN called ELSE Append(called, here)
        /\ \/ child' = [NoChild EXCEPT !.at = here, !.state = "forked", !.table = t]
           \/ child' = NoChild
  BY DEF Fork
<1>2. called' \in Seq(Nat)
  BY <1>1
<1> DEFINE c == [at |-> here, state |-> "forked", table |-> t, todo |-> 0, reads |-> FALSE]
<1>3. child' \in {c, NoChild}
  BY <1>1 DEF NoChild
<1>4. c \in Processes /\ c.table = t
  BY DEF Processes
<1>5. NoChild.table = StartTable
  BY DEF NoChild
<1> HIDE DEF c
<1> QED BY <1>2, <1>3, <1>4, <1>5, NoChildType

LEMMA StartTableUnwritten == \A d \in Fds : StartTable[d][1] # "write"
BY DEF StartTable, Tty, Closed

(* The frame of a pipeline lies in the upper part of the table. *)
LEMMA FreeIsHigh ==
  ASSUME ShellInv, NEW n
  PROVE  Nth(table, n) \in High \cup {NONE} /\ (Nth(table, n) # NONE => table[Nth(table, n)] = Closed)
BY NthIsFree DEF ShellInv, KeepsTty, Free, High

LEMMA RunPipelineInv == ASSUME ShellInv, RunPipeline PROVE ShellInv'
<1> DEFINE k   == Len(pipes) + 1
           fd0 == Nth(table, 1)
           fd1 == Nth(table, 2)
           org == Nth(table, 3)
           out == Nth(table, 4)
           new == Put(Put(Put(Put(table, fd0, Rd(k)), fd1, Wr(k)), org, table[0]),
                      out, table[1])
<1>1. PICK sep \in Bars :
        /\ text' = Cut(sep)
        /\ stack' = <<[f |-> "pipeline", fd0 |-> fd0, fd1 |-> fd1,
                       origin |-> org, tail |-> Behind(sep)]>> \o stack
        /\ Fork([new EXCEPT ![1] = Wr(k), ![fd0] = Closed], Find(Cut(sep), at, Commands))
  BY DEF RunPipeline
<1>2. /\ pc = "run" /\ fd1 # NONE /\ pipes' = Append(pipes, <<>>) /\ table' = new
      /\ pc' = "waitLeft" /\ exhausted' = (exhausted \/ out = NONE)
      /\ typed' = typed /\ lines' = lines /\ at' = at
  BY DEF RunPipeline
<1>3. /\ fd0 \in High \cup {NONE} /\ fd1 \in High /\ org \in High \cup {NONE}
      /\ out \in High \cup {NONE} /\ fd1 \notin {fd0, org, out} /\ k \in Nat
  <2>1. Len(pipes) \in Nat
    BY DEF ShellInv, ShellTypeOK
  <2> QED BY <1>2, <2>1, FreeIsHigh, NthsDiffer
<1>4. table \in [Fds -> Files] /\ pipes \in Seq(Seq(Nat)) /\ at \in Nat
      /\ text \in Seq(Tokens \cup {"end"}) /\ stack \in Seq(Frames) /\ called \in Seq(Nat)
  BY DEF ShellInv, ShellTypeOK, Tables
<1>5. \A d \in Fds : table[d][1] # "write"
  BY <1>2 DEF ShellInv, ShellWrites
<1> HIDE DEF k, fd0, fd1, org, out
<1>6. /\ new \in [Fds -> Files]
      /\ \A d \in Fds : d \notin {fd0, fd1, org, out} => new[d] = table[d]
      /\ new[fd1] = Wr(k)
      /\ \A d \in Fds : d # fd1 => new[d][1] # "write"
  <2> DEFINE t1 == Put(table, fd0, Rd(k))
             t2 == Put(t1, fd1, Wr(k))
             t3 == Put(t2, org, table[0])
  <2>1. fd1 \in Fds /\ {fd0, org, out} \subseteq Fds \cup {NONE} /\ {0, 1} \subseteq Fds
    BY <1>3, LowFds DEF High
  <2>2. Rd(k)[1] # "write" /\ Rd(k) \in Files /\ Wr(k) \in Files
    BY <1>3, FileKinds DEF Rd
  <2>3. /\ t1 \in [Fds -> Files] /\ \A d \in Fds : t1[d][1] # "write"
        /\ \A d \in Fds : d # fd0 => t1[d] = table[d]
    BY <1>4, <1>5, <2>1, <2>2 DEF Put
  <2> HIDE DEF t1
  <2>4. /\ t2 \in [Fds -> Files] /\ t2[fd1] = Wr(k)
        /\ \A d \in Fds : d # fd1 => t2[d] = t1[d]
    BY <1>2, <2>1, <2>2, <2>3 DEF Put
  <2> HIDE DEF t2
  <2>5. /\ t3 \in [Fds -> Files] /\ t3[fd1] = Wr(k)
        /\ \A d \in Fds : d # org => t3[d] = t2[d]
        /\ org \in Fds => t3[org] = table[0]
    BY <1>3, <1>4, <2>1, <2>4, LowFds DEF Put
  <2> HIDE DEF t3
  <2>6. new = Put(t3, out, table[1])
    BY DEF t1, t2, t3
  <2>7. /\ new \in [Fds -> Files] /\ new[fd1] = Wr(k)
        /\ \A d \in Fds : d # out => new[d] = t3[d]
        /\ out \in Fds => new[out] = table[1]
    <3> HIDE DEF new
    <3> QED BY <1>3, <1>4, <2>1, <2>5, <2>6, LowFds DEF Put
  <2> HIDE DEF new
  <2>8. \A d \in Fds : d \notin {fd0, fd1, org, out} => new[d] = table[d]
    BY <2>3, <2>4, <2>5, <2>7
  <2>9. \A d \in Fds : d # fd1 => new[d][1] # "write"
    BY <1>5, <2>1, <2>3, <2>4, <2>5, <2>7
  <2> QED BY <2>7, <2>8, <2>9
<1> DEFINE forked == [new EXCEPT ![1] = Wr(k), ![fd0] = Closed]
<1>7. /\ forked \in Tables
      /\ \A d \in Fds : forked[d][1] = "write" => forked[d] = Wr(k)
  <2> HIDE DEF new
  <2>1. forked \in [Fds -> Files]
    BY <1>3, <1>6, FileKinds
  <2>2. \A d \in Fds : forked[d] \in {Wr(k), Closed, new[d]}
    BY <1>6
  <2>3. Closed[1] # "write"
    BY DEF Closed
  <2>4. \A d \in Fds : new[d][1] = "write" => new[d] = Wr(k)
    BY <1>6
  <2> QED BY <2>1, <2>2, <2>3, <2>4 DEF Tables
<1>8. child' \in Processes /\ called' \in Seq(Nat) /\ child'.table \in {forked, StartTable}
  <2>1. Find(Cut(sep), at, Commands) \in SUBSET Nat
    BY <1>4, CutType, FindType
  <2>2. Fork(forked, Find(Cut(sep), at, Commands))
    BY <1>1
  <2> HIDE DEF forked
  <2> QED BY <1>4, <1>7, <2>1, <2>2, ForkType
<1>9. Len(pipes') = k /\ pipes' \in Seq(Seq(Nat))
  BY <1>2, <1>4 DEF k
<1> DEFINE frame == [f |-> "pipeline", fd0 |-> fd0, fd1 |-> fd1,
                     origin |-> org, tail |-> Behind(sep)]
<1>10. frame \in Frames
  <2>1. sep \in Nat
    BY <1>4, FindType DEF Bars
  <2>2. Behind(sep) \in Nat
    BY <2>1 DEF Behind
  <2> QED BY <1>3, <2>2 DEF Frames, High
<1>11. /\ stack' \in Seq(Frames) /\ stack' # <<>> /\ Head(stack').fd1 = fd1
       /\ \A i \in DOMAIN stack' : stack'[i] = frame \/ \E j \in DOMAIN stack : stack'[i] = stack[j]
  <2>1. stack' = <<frame>> \o stack
    BY <1>1
  <2>2. frame.fd1 = fd1
    OBVIOUS
  <2> HIDE DEF frame
  <2> QED BY <1>4, <1>10, <2>1, <2>2, PushType
<1>12. ShellTypeOK'
  <2>1. text' \in Seq(Tokens \cup {"end"})
    BY <1>1, <1>4, CutType
  <2> QED BY <1>2, <1>6, <1>8, <1>9, <1>11, <2>1 DEF ShellInv, ShellTypeOK, Tables
<1>13. KeepsTty'
  <2>1. \A d \in 0 .. 5 : new[d] = table[d]
    BY <1>3, <1>6, LowFds DEF High
  <2> QED BY <1>2, <2>1 DEF ShellInv, KeepsTty
<1>14. HighFrames'
  <2>1. /\ {frame.fd0, frame.fd1, frame.origin} \subseteq High \cup {NONE}
        /\ frame.fd0 = frame.fd1 => frame.fd0 = NONE
    BY <1>3
  <2> HIDE DEF frame
  <2> QED BY <1>11, <2>1 DEF ShellInv, HighFrames
<1>15. ShellWrites'
  BY <1>2, <1>6, <1>9, <1>11 DEF ShellWrites
<1>16. ChildWrites'
  <2> HIDE DEF forked
  <2> QED BY <1>2, <1>7, <1>8, <1>9, StartTableUnwritten DEF ChildWrites
<1>17. StdioRestored' /\ LeftCalled'
  BY <1>2, <1>11 DEF StdioRestored, LeftCalled
<1> QED BY <1>12, <1>13, <1>14, <1>15, <1>16, <1>17 DEF ShellInv

(* The frame on top of the stack. *)
LEMMA TopType ==
  ASSUME ShellInv, stack # <<>>
  PROVE  /\ Head(stack) \in Frames /\ Tail(stack) \in Seq(Frames)
         /\ {Head(stack).fd0, Head(stack).fd1, Head(stack).origin} \subseteq High \cup {NONE}
         /\ Head(stack).fd0 = Head(stack).fd1 => Head(stack).fd0 = NONE
         /\ \A i \in DOMAIN Tail(stack) : \E j \in DOMAIN stack : Tail(stack)[i] = stack[j]
<1>1. stack \in Seq(Frames)
  BY DEF ShellInv, ShellTypeOK
<1>2. 1 \in DOMAIN stack /\ Head(stack) = stack[1]
  BY <1>1
<1>3. \A i \in DOMAIN Tail(stack) : \E j \in DOMAIN stack : Tail(stack)[i] = stack[j]
  BY <1>1
<1>4. Head(stack) \in Frames /\ Tail(stack) \in Seq(Frames)
  BY <1>1
<1> QED BY <1>2, <1>3, <1>4 DEF ShellInv, HighFrames

LEMMA StartRightInv == ASSUME ShellInv, StartRight PROVE ShellInv'
<1> DEFINE p  == Head(stack)
           t1 == Dup2(table, p.fd0, 0)
<1>1. /\ pc = "waitLeft" /\ pc' = "run" /\ child' = NoChild /\ child = NoChild
      /\ table' = Close(t1, p.fd1) /\ at' = p.tail + 1 /\ stack' = stack /\ pipes' = pipes
      /\ typed' = typed /\ text' = text /\ lines' = lines /\ called' = called
      /\ exhausted' = exhausted
  BY DEF StartRight, Switch, input
<1>2. stack # <<>>
  BY <1>1 DEF ShellInv, LeftCalled
<1>3. /\ p \in Frames /\ {p.fd0, p.fd1} \subseteq High \cup {NONE}
      /\ p.fd0 = p.fd1 => p.fd0 = NONE
  BY <1>2, TopType
<1>4. table \in Tables
  BY TableType
<1> HIDE DEF p
<1>5. /\ t1 \in Tables
      /\ \A x \in Fds : x # 0 => t1[x] = table[x]
      /\ t1[0] # table[0] => p.fd0 \in Fds /\ t1[0] = table[p.fd0] /\ table[p.fd0] # Closed
  <2>1. p.fd0 \in Fds \cup {NONE} /\ 0 \in Fds
    BY <1>3, LowFds DEF High
  <2> QED BY <1>4, <2>1, Dup2Type
<1> HIDE DEF t1
<1>6. /\ table' \in Tables
      /\ \A x \in Fds : x # p.fd1 => table'[x] = t1[x]
      /\ p.fd1 \in Fds => table'[p.fd1] = Closed
  BY <1>1, <1>3, <1>5, CloseType DEF High
<1>7. KeepsTty'
  BY <1>3, <1>5, <1>6, LowFds DEF ShellInv, KeepsTty, High
<1>8. ShellWrites'
  <2>1. \A d \in Fds : d # p.fd1 => table[d][1] # "write"
    BY DEF ShellInv, ShellWrites, p
  <2>2. t1[0][1] # "write"
    <3>1. 0 \in Fds /\ 0 # p.fd1 /\ table[0][1] # "write"
      BY <1>3, <2>1, LowFds DEF High
    <3>2. p.fd0 \in Fds => p.fd0 # p.fd1
      BY <1>3, LowFds
    <3> QED BY <1>5, <2>1, <3>1, <3>2
  <2>3. Closed[1] # "write"
    BY DEF Closed
  <2>4. \A d \in Fds : table'[d][1] # "write"
    BY <1>5, <1>6, <2>1, <2>2, <2>3
  <2> QED BY <2>4 DEF ShellWrites
<1>9. ChildWrites'
  BY <1>1, StartTableUnwritten DEF ChildWrites, NoChild
<1>10. ShellTypeOK'
  <2>1. at' \in Nat
    BY <1>1, <1>3 DEF Frames
  <2> QED BY <1>1, <1>6, <2>1 DEF ShellInv, ShellTypeOK
<1>11. StdioRestored' /\ HighFrames' /\ LeftCalled'
  BY <1>1 DEF ShellInv, StdioRestored, HighFrames, LeftCalled
<1> QED BY <1>7, <1>8, <1>9, <1>10, <1>11 DEF ShellInv

LEMMA RunCommandInv == ASSUME ShellInv, RunCommand PROVE ShellInv'
<1>1. /\ pc = "run" /\ pc' = "wait" /\ Fork(table, Find(text, at, Commands))
      /\ UNCHANGED <<table, pipes, typed, text, lines, at, stack, exhausted>>
  BY DEF RunCommand, input, calls
<1>2. /\ called \in Seq(Nat) /\ table \in Tables /\ at \in Nat
      /\ text \in Seq(Tokens \cup {"end"})
  BY DEF ShellInv, ShellTypeOK
<1>3. Find(text, at, Commands) \in SUBSET Nat
  BY <1>2, FindType
<1>4. child' \in Processes /\ called' \in Seq(Nat) /\ child'.table \in {table, StartTable}
  BY <1>1, <1>2, <1>3, ForkType
<1>5. ShellTypeOK'
  BY <1>1, <1>4 DEF ShellInv, ShellTypeOK
<1>6. ChildWrites' /\ ShellWrites'
  BY <1>1, <1>4, StartTableUnwritten DEF ShellInv, ShellWrites, ChildWrites
<1>7. StdioRestored' /\ KeepsTty' /\ HighFrames' /\ LeftCalled'
  BY <1>1 DEF ShellInv, StdioRestored, KeepsTty, HighFrames, LeftCalled
<1> QED BY <1>5, <1>6, <1>7 DEF ShellInv

LEMMA NextInSequenceInv == ASSUME ShellInv, NextInSequence PROVE ShellInv'
<1>1. /\ pc = "return" /\ pc' = "run" /\ stack # <<>>
      /\ at' = Head(stack).tail /\ stack' = Tail(stack)
      /\ UNCHANGED <<table, pipes, child, typed, text, lines, called, exhausted>>
  BY DEF NextInSequence, input
<1>2. ShellTypeOK'
  <2>1. at' \in Nat /\ stack' \in Seq(Frames)
    BY <1>1, TopType DEF Frames
  <2> QED BY <1>1, <2>1 DEF ShellInv, ShellTypeOK
<1>3. HighFrames'
  BY <1>1, TopType DEF ShellInv, HighFrames
<1>4. ShellWrites' /\ ChildWrites' /\ StdioRestored' /\ KeepsTty' /\ LeftCalled'
  BY <1>1 DEF ShellInv, ShellWrites, ChildWrites, StdioRestored, KeepsTty, LeftCalled
<1> QED BY <1>2, <1>3, <1>4 DEF ShellInv

LEMMA EndPipelineInv == ASSUME ShellInv, EndPipeline PROVE ShellInv'
<1> DEFINE p  == Head(stack)
           t1 == Close(table, p.fd0)
<1>1. /\ pc = "return" /\ pc' = pc /\ stack # <<>>
      /\ table' = Dup2(t1, p.origin, 0) /\ stack' = Tail(stack)
      /\ UNCHANGED <<pipes, child, typed, text, lines, at, called, exhausted>>
  BY DEF EndPipeline, input, Unhook
<1>2. {p.fd0, p.origin} \subseteq High \cup {NONE} /\ stack' \in Seq(Frames)
  BY <1>1, TopType
<1>3. table \in Tables
  BY TableType
<1> HIDE DEF p
<1>4. /\ t1 \in Tables
      /\ \A x \in Fds : x # p.fd0 => t1[x] = table[x]
      /\ p.fd0 \in Fds => t1[p.fd0] = Closed
  BY <1>2, <1>3, CloseType DEF High
<1> HIDE DEF t1
<1>5. /\ table' \in Tables
      /\ \A x \in Fds : x # 0 => table'[x] = t1[x]
      /\ table'[0] # t1[0] =>
           p.origin \in Fds /\ table'[0] = t1[p.origin] /\ t1[p.origin] # Closed
  <2>1. p.origin \in Fds \cup {NONE} /\ 0 \in Fds
    BY <1>2, LowFds DEF High
  <2> DEFINE t2 == Dup2(t1, p.origin, 0)
  <2>2. /\ t2 \in Tables
        /\ \A x \in Fds : x # 0 => t2[x] = t1[x]
        /\ t2[0] # t1[0] => p.origin \in Fds /\ t2[0] = t1[p.origin] /\ t1[p.origin] # Closed
    BY <1>4, <2>1, Dup2Type
  <2> HIDE DEF t2
  <2>3. table' = t2
    BY <1>1 DEF t2
  <2> QED BY <2>2, <2>3
<1>6. KeepsTty'
  BY <1>2, <1>4, <1>5, LowFds DEF ShellInv, KeepsTty, High
<1>7. ShellWrites'
  <2>1. \A d \in Fds : table[d][1] # "write"
    BY <1>1 DEF ShellInv, ShellWrites
  <2>2. Closed[1] # "write"
    BY DEF Closed
  <2>3. \A d \in Fds : t1[d][1] # "write"
    BY <1>4, <2>1, <2>2
  <2>4. \A d \in Fds : table'[d][1] # "write"
    BY <1>5, <2>3, LowFds
  <2> QED BY <2>4 DEF ShellWrites
<1>8. ShellTypeOK'
  BY <1>1, <1>2, <1>5 DEF ShellInv, ShellTypeOK
<1>9. HighFrames'
  BY <1>1, TopType DEF ShellInv, HighFrames
<1>10. ChildWrites' /\ StdioRestored' /\ LeftCalled'
  BY <1>1 DEF ShellInv, ChildWrites, StdioRestored, LeftCalled
<1> QED BY <1>6, <1>7, <1>8, <1>9, <1>10 DEF ShellInv

LEMMA RestoreInv == ASSUME ShellInv, Restore PROVE ShellInv'
<1> DEFINE t1 == Dup2(table, origin, 0)
           t2 == Dup2(t1, origout, 1)
<1>1. /\ table' = Dup2(t2, origerr, 2) /\ pc = "return" /\ pc' = "prompt"
      /\ UNCHANGED <<pipes, child, typed, text, lines, at, stack, called, exhausted>>
  BY DEF Restore, Restored, input, calls
<1>2. /\ table \in [Fds -> Files] /\ table[3] = Tty(0) /\ table[4] = Tty(1)
      /\ table[5] = Tty(2) /\ \A d \in 0 .. 2 : Tty(d) # Closed
  BY TableType DEF ShellInv, KeepsTty, Tables, Tty, Closed
<1> HIDE DEF t2
<1>3. t1 = [table EXCEPT ![0] = Tty(0)]
  <2>1. table[3] # Closed /\ NONE # 3
    BY <1>2 DEF NONE
  <2> QED BY <1>2, <2>1 DEF Dup2, origin
<1> HIDE DEF t1
<1>4. t2 = [t1 EXCEPT ![1] = Tty(1)]
  <2>1. t1[4] = Tty(1) /\ t1[4] # Closed /\ NONE # 4
    BY <1>2, <1>3, LowFds DEF NONE
  <2> QED BY <2>1 DEF t2, Dup2, origout
<1>5. table' = [t2 EXCEPT ![2] = Tty(2)]
  <2>1. t2[5] = Tty(2) /\ t2[5] # Closed /\ NONE # 5
    BY <1>2, <1>3, <1>4, LowFds DEF NONE
  <2> QED BY <1>1, <2>1 DEF Dup2, origerr
<1>6. /\ table' \in Tables
      /\ table'[0] = Tty(0) /\ table'[1] = Tty(1) /\ table'[2] = Tty(2)
      /\ \A d \in Fds : d \notin {0, 1, 2} => table'[d] = table[d]
  BY <1>2, <1>3, <1>4, <1>5, LowFds, FileKinds DEF Tables
<1>7. KeepsTty' /\ StdioRestored'
  BY <1>2, <1>6, LowFds DEF KeepsTty, StdioRestored, ShellInv
<1>8. ShellWrites'
  <2>1. \A d : Tty(d)[1] # "write"
    BY DEF Tty
  <2> QED BY <1>1, <1>6, <2>1 DEF ShellInv, ShellWrites
<1>9. ShellTypeOK'
  BY <1>1, <1>6 DEF ShellInv, ShellTypeOK
<1>10. ChildWrites' /\ HighFrames' /\ LeftCalled'
  BY <1>1 DEF ShellInv, ChildWrites, HighFrames, LeftCalled
<1> QED BY <1>7, <1>8, <1>9, <1>10 DEF ShellInv

(* The steps that only move the program counter. *)
LEMMA CounterInv ==
  ASSUME ShellInv, PipeFails \/ CommandEnded \/ Quit PROVE ShellInv'
<1>1. /\ UNCHANGED <<table, pipes, child, typed, text, lines, at, stack, called>>
      /\ pc \in {"run", "wait", "prompt"} /\ pc' \in {"undefined", "return", "exited"}
      /\ exhausted' \in {exhausted, TRUE}
  BY DEF PipeFails, CommandEnded, Quit, input, calls
<1>2. ShellTypeOK'
  BY <1>1 DEF ShellInv, ShellTypeOK
<1>3. StdioRestored' /\ KeepsTty' /\ HighFrames' /\ LeftCalled' /\ ShellWrites' /\ ChildWrites'
  BY <1>1 DEF ShellInv, StdioRestored, KeepsTty, HighFrames, LeftCalled, ShellWrites, ChildWrites
<1> QED BY <1>2, <1>3 DEF ShellInv

(* A child only redirects to files, which are not pipes. *)
LEMMA RedirectType ==
  ASSUME NEW t \in Tables, NEW S
  PROVE  /\ Redirect(t, S) \in Tables
         /\ \A d \in Fds : Redirect(t, S)[d] \in {t[d], File}
BY FileKinds DEF Redirect, Tables

LEMMA ChildInv ==
  ASSUME ShellInv, ChildStep \/ Die PROVE ShellInv'
<1>1. UNCHANGED <<table, typed, text, lines, at, stack, pc, called, exhausted>>
  BY DEF ChildStep, Exec, Read, Write, Exit, Die, shellOnly, input, calls
<1>2. child \in Processes /\ pipes \in Seq(Seq(Nat))
  BY DEF ShellInv, ShellTypeOK
<1>3. /\ child' \in Processes /\ pipes' \in Seq(Seq(Nat)) /\ Len(pipes') = Len(pipes)
      /\ \A d \in Fds : child'.table[d] \in {child.table[d], StartTable[d], File}
  <2>1. CASE Exec
    <3>1. PICK n \in 0 .. MAX_OUTPUT, r \in BOOLEAN :
            child' = [child EXCEPT !.state = "running", !.todo = n, !.reads = r,
                                   !.table = Redirect(@, Redirected[text[child.at]])]
      BY <2>1 DEF Exec
    <3>2. n \in Nat /\ pipes' = pipes
      BY <2>1, ShellAssumption DEF Exec
    <3> DEFINE t == Redirect(child.table, Redirected[text[child.at]])
    <3>3. t \in Tables /\ \A d \in Fds : t[d] \in {child.table[d], File}
      BY <1>2, RedirectType DEF Processes
    <3>4. child' = [child EXCEPT !.state = "running", !.todo = n, !.reads = r, !.table = t]
      BY <3>1
    <3> HIDE DEF t
    <3>5. child' \in Processes /\ child'.table = t
      BY <1>2, <3>2, <3>3, <3>4 DEF Processes
    <3> QED BY <1>2, <3>2, <3>3, <3>5
  <2>2. CASE Exit \/ Die
    <3>1. child' = NoChild /\ pipes' = pipes
      BY <2>2 DEF Exit, Die
    <3>2. NoChild.table = StartTable
      BY DEF NoChild
    <3> QED BY <1>2, <3>1, <3>2, NoChildType
  <2>3. CASE Read
    <3> DEFINE k == child.table[0][2]
    <3>1. child' = child /\ pipes[k] # <<>> /\ pipes' = [pipes EXCEPT ![k] = Tail(@)]
      BY <2>3 DEF Read
    <3> HIDE DEF k
    <3>2. CASE k \in 1 .. Len(pipes)
      <4>1. Tail(pipes[k]) \in Seq(Nat)
        BY <1>2, <3>1, <3>2
      <4>2. pipes' \in Seq(Seq(Nat)) /\ Len(pipes') = Len(pipes)
        BY <1>2, <3>1, <3>2, <4>1, ExceptSeq
      <4> QED BY <1>2, <3>1, <4>2
    <3>3. CASE k \notin 1 .. Len(pipes)
      <4>1. pipes' = pipes
        BY <1>2, <3>1, <3>3
      <4> QED BY <1>2, <3>1, <4>1
    <3> QED BY <3>2, <3>3
  <2>4. CASE Write
    <3> DEFINE k == child.table[1][2]
    <3>1. /\ child.todo > 0 /\ child' = [child EXCEPT !.todo = @ - 1]
          /\ pipes' \in {pipes, [pipes EXCEPT ![k] = Append(@, child.at)]}
      BY <2>4 DEF Write, HasMore
    <3> HIDE DEF k
    <3>2. child' \in Processes /\ child'.table = child.table
      BY <1>2, <3>1 DEF Processes
    <3>3. child.at \in Nat
      BY <1>2 DEF Processes
    <3>4. pipes' \in Seq(Seq(Nat)) /\ Len(pipes') = Len(pipes)
      <4>1. CASE pipes' = pipes
        BY <1>2, <4>1
      <4>2. CASE k \in 1 .. Len(pipes) /\ pipes' = [pipes EXCEPT ![k] = Append(@, child.at)]
        <5>1. Append(pipes[k], child.at) \in Seq(Nat)
          BY <1>2, <3>3, <4>2
        <5> DEFINE e == Append(pipes[k], child.at)
        <5>2. pipes' = [pipes EXCEPT ![k] = e]
          BY <4>2
        <5> HIDE DEF e
        <5>3. e \in Seq(Nat)
          BY <5>1 DEF e
        <5> QED BY <1>2, <4>2, <5>2, <5>3, ExceptSeq
      <4>3. CASE k \notin 1 .. Len(pipes) /\ pipes' = [pipes EXCEPT ![k] = Append(@, child.at)]
        <5>1. pipes' = pipes
          BY <1>2, <4>3
        <5> QED BY <1>2, <5>1
      <4> QED BY <3>1, <4>1, <4>2, <4>3
    <3> QED BY <3>2, <3>4
  <2> QED BY <2>1, <2>2, <2>3, <2>4 DEF ChildStep
<1>4. ChildWrites'
  <2>1. File[1] # "write"
    BY DEF File
  <2> QED BY <1>1, <1>3, <2>1, StartTableUnwritten DEF ShellInv, ChildWrites
<1>5. ShellTypeOK'
  BY <1>1, <1>3 DEF ShellInv, ShellTypeOK
<1>6. StdioRestored' /\ KeepsTty' /\ HighFrames' /\ LeftCalled' /\ ShellWrites'
  BY <1>1, <1>3 DEF ShellInv, StdioRestored, KeepsTty, HighFrames, LeftCalled, ShellWrites
<1> QED BY <1>4, <1>5, <1>6 DEF ShellInv
-----------------------------------------------------------------------------
LEMMA NextInv == ShellInv /\ [ShellNext]_shellVars => ShellInv'
<1> SUFFICES ASSUME ShellInv, [ShellNext]_shellVars PROVE ShellInv'
  OBVIOUS
<1>1. CASE UNCHANGED shellVars
  <2>1. UNCHANGED <<table, pipes, child, typed, text, lines, at, stack, pc, called, exhausted>>
    BY <1>1 DEF shellVars, input, calls
  <2>2. ShellTypeOK'
    BY <2>1 DEF ShellInv, ShellTypeOK
  <2> QED BY <2>1, <2>2 DEF ShellInv, StdioRestored, KeepsTty, HighFrames, LeftCalled,
                            ShellWrites, ChildWrites
<1>2. CASE \E l \in Lines : ReadLine(l)
  BY <1>2, ReadLineInv
<1>3. CASE ShellStep
  BY <1>3, RunSequenceInv, RunPipelineInv, StartRightInv, RunCommandInv, NextInSequenceInv,
     EndPipelineInv, RestoreInv, CounterInv DEF ShellStep
<1>4. CASE Quit
  BY <1>4, CounterInv
<1>5. CASE ChildStep \/ Die
  BY <1>5, ChildInv
<1> QED BY <1>1, <1>2, <1>3, <1>4, <1>5 DEF ShellNext

(* The invariant holds for ever. *)
THEOREM ShellInvHolds == ShellSpec => []ShellInv
BY InitInv, NextInv, PTL DEF ShellSpec

(* Descriptors, processes, frames and the rest keep to their types. *)
THEOREM ShellTypeCorrect == ShellSpec => []ShellTypeOK
<1>1. ShellInv => ShellTypeOK
  BY DEF ShellInv
<1> QED BY <1>1, ShellInvHolds, PTL

(* Whatever lines are typed, whichever opens and forks fail in them and    *)
(* however small the table is, whenever the user is asked for a line, 0, 1 *)
(* and 2 are the terminal again.                                           *)
THEOREM StdioIsRestored == ShellSpec => []StdioRestored
<1>1. ShellInv => StdioRestored
  BY DEF ShellInv
<1> QED BY <1>1, ShellInvHolds, PTL

(* No process but the left command of the newest pipe, and the shell that  *)
(* waits for it, holds a write end, so a reader sees the end of its input. *)
THEOREM OnlyNewestWritten == ShellSpec => []OnlyNewestIsWritten
<1>1. ShellInv => OnlyNewestIsWritten
  <2> SUFFICES ASSUME ShellInv, NEW k \in 1 .. Len(pipes), Written(k)
               PROVE  pc = "waitLeft" /\ k = Len(pipes)
    BY DEF OnlyNewestIsWritten
  <2>1. PICK d \in Fds : table[d] = Wr(k) \/ child.table[d] = Wr(k)
    BY DEF Written
  <2>2. Wr(k)[1] = "write"
    BY DEF Wr
  <2>3. pc = "waitLeft" /\ Wr(k) = Wr(Len(pipes))
    BY <2>1, <2>2 DEF ShellInv, ShellWrites, ChildWrites
  <2> QED BY <2>3 DEF Wr
<1> QED BY <1>1, ShellInvHolds, PTL
-----------------------------------------------------------------------------
(* How many descriptors the shell loses: two per pipeline, until a call     *)
(* fails for want of one.                                                   *)

(* The read ends that calls of run_pipeline will close, and the write end   *)
(* that the inmost one will.                                                *)
IsPipeline(s, i) == i \in DOMAIN s /\ s[i].f = "pipeline"
Held(s) == {s[i].fd0 : i \in {j \in DOMAIN s : s[j].f = "pipeline"}}
Writing == IF pc = "waitLeft" THEN {Head(stack).fd1} ELSE {}
Open    == Fds \ Free(table)
Kept    == Open \ (Held(stack) \cup Writing)

Distinct(s) == \A i, j : IsPipeline(s, i) /\ IsPipeline(s, j) /\ i # j => s[i].fd0 # s[j].fd0

Balance ==
  /\ Held(stack) \cup Writing \subseteq Open
  /\ Distinct(stack)
  /\ pc = "waitLeft" => Head(stack).f = "pipeline" /\ Head(stack).fd1 \notin Held(stack)
  /\ pc = "prompt" => stack = <<>>
  /\ Cardinality(Kept) = 6 + 2 * Len(pipes)

LeakInv == ~exhausted => Balance
-----------------------------------------------------------------------------
LEMMA FdsFinite == IsFiniteSet(Fds) /\ Cardinality(Fds) = MAX_FDS /\ \A t : IsFiniteSet(Free(t))
<1>1. MAX_FDS - 1 \in Int /\ 0 \in Int /\ MAX_FDS \in Nat /\ MAX_FDS >= 6
  BY TableAssumption
<1>2. IsFiniteSet(Fds) /\ Cardinality(Fds) = MAX_FDS
  BY <1>1, FS_Interval DEF Fds
<1>3. \A t : Free(t) \subseteq Fds
  BY DEF Free
<1> QED BY <1>2, <1>3, FS_Subset

(* A nonempty set of descriptors has a last element. *)
LEMMA LastOf ==
  ASSUME NEW T, T \subseteq Fds, T # {}
  PROVE  \E x \in T : \A y \in T : y <= x
<1> DEFINE R == {ss \in Nat \X Nat : ss[1] < ss[2]}
           U == {MAX_FDS - x : x \in T}
<1>0. MAX_FDS \in Nat /\ \A x \in T : x \in Nat /\ x < MAX_FDS
  BY TableAssumption DEF Fds
<1>1. IsWellFoundedOn(R, Nat)
  BY NatLessThanWellFounded DEF OpToRel
<1>2. U \subseteq Nat /\ U # {}
  BY <1>0
<1>3. \E u \in U : \A v \in U : ~ (<<v, u>> \in R)
  <2> HIDE DEF R, U
  <2> QED BY <1>1, <1>2, WFMin
<1>4. PICK x \in T : \A y \in T : ~ (<<MAX_FDS - y, MAX_FDS - x>> \in R)
  <2> HIDE DEF R
  <2> QED BY <1>3
<1>5. ASSUME NEW y \in T PROVE y <= x
  <2>1. MAX_FDS - y \in Nat /\ MAX_FDS - x \in Nat
    BY <1>0
  <2>2. ~ (MAX_FDS - y < MAX_FDS - x)
    BY <1>4, <2>1
  <2> QED BY <1>0, <2>2
<1> QED BY <1>5

(* If there are n + 1 free descriptors there are n. *)
LEMMA NthBefore ==
  ASSUME NEW t, NEW n \in Nat, n >= 1, Nth(t, n + 1) # NONE
  PROVE  Nth(t, n) # NONE
<1> DEFINE Below(d) == {e \in Free(t) : e < d}
           S(x)     == {d \in Free(t) : Cardinality(Below(d)) = x - 1}
<1>1. \A x : Nth(t, x) = IF S(x) = {} THEN NONE ELSE CHOOSE d \in S(x) : TRUE
  BY DEF Nth
<1>2. PICK d \in Free(t) : Cardinality(Below(d)) = n + 1 - 1
  <2>1. S(n + 1) # {}
    <3> HIDE DEF S
    <3> QED BY <1>1
  <2> QED BY <2>1
<1>3. Below(d) # {} /\ Below(d) \subseteq Fds /\ IsFiniteSet(Below(d))
  <2>1. IsFiniteSet(Free(t)) /\ Below(d) \subseteq Free(t)
    BY FdsFinite
  <2>2. IsFiniteSet(Below(d))
    BY <2>1, FS_Subset
  <2>3. Cardinality(Below(d)) = n
    BY <1>2
  <2>4. Below(d) # {}
    BY <2>3, FS_EmptySet
  <2> QED BY <2>2, <2>4 DEF Free
<1>4. PICK m \in Below(d) : \A y \in Below(d) : y <= m
  BY <1>3, LastOf
<1>5. Below(m) = Below(d) \ {m}
  <2>1. \A x \in Free(t) : x \in Int
    BY LowFds DEF Free
  <2> QED BY <1>2, <1>4, <2>1
<1>6. Cardinality(Below(m)) = n - 1
  <2>1. Cardinality(Below(d) \ {m}) = Cardinality(Below(d)) - 1
    BY <1>3, <1>4, FS_RemoveElement
  <2> HIDE DEF Below
  <2> QED BY <1>2, <1>5, <2>1
<1>7. m \in S(n)
  BY <1>4, <1>6
<1>8. \A x : S(x) \subseteq Free(t)
  OBVIOUS
<1>9. NONE \notin Free(t)
  BY LowFds DEF Free
<1> HIDE DEF S
<1>10. (CHOOSE x \in S(n) : TRUE) \in S(n)
  BY <1>7
<1> QED BY <1>1, <1>7, <1>8, <1>9, <1>10
-----------------------------------------------------------------------------
(* Steps that open and close nothing and call nobody. *)
LEMMA SameBalance ==
  ASSUME LeakInv, Open' = Open, stack' = stack, Len(pipes') = Len(pipes),
         exhausted' \in {exhausted, TRUE}, exhausted \in BOOLEAN,
         pc' = "waitLeft" <=> pc = "waitLeft",
         pc' = "prompt" => pc = "prompt" \/ stack = <<>>
  PROVE  LeakInv'
<1> SUFFICES ASSUME ~exhausted' PROVE Balance'
  BY DEF LeakInv
<1>1. Balance
  BY DEF LeakInv
<1>2. Held(stack)' = Held(stack) /\ Writing' = Writing /\ (Distinct(stack) => Distinct(stack)')
  BY DEF Held, Writing, Distinct, IsPipeline
<1>3. Kept' = Kept
  BY <1>2 DEF Kept
<1> QED BY <1>1, <1>2, <1>3 DEF Balance

(* Only what 0, 1 and 2 refer to may change. *)
LEMMA SameOpen ==
  ASSUME ShellInv, ShellInv', \A d \in Fds : d \notin {0, 1, 2} => table'[d] = table[d]
  PROVE  Open' = Open
<1>1. \A d \in {0, 1, 2} : table[d] # Closed /\ table'[d] # Closed
  BY DEF ShellInv, KeepsTty
<1> QED BY <1>1 DEF Open, Free

LEMMA ReadLineLeak == ASSUME ShellInv, LeakInv, NEW l \in Lines, ReadLine(l) PROVE LeakInv'
<1>1. ShellInv'
  BY ReadLineInv
<1>2. \A d \in Fds : d \notin {0, 1, 2} => table'[d] = table[d]
  <2>1. table \in [Fds -> Files]
    BY TableType DEF Tables
  <2> QED BY <2>1 DEF ReadLine
<1>3. Open' = Open
  BY <1>1, <1>2, SameOpen
<1>4. /\ stack' = stack /\ pipes' = pipes /\ pc = "prompt" /\ pc' \in {"run", "exited"}
  BY DEF ReadLine
<1>5. exhausted' = (exhausted \/ Nth(table, 3) = NONE)
  BY DEF ReadLine
<1>6. exhausted' \in {exhausted, TRUE}
  <2>1. exhausted \in BOOLEAN
    BY DEF ShellInv, ShellTypeOK
  <2> QED BY <1>5, <2>1, Zenon
<1> QED BY <1>3, <1>4, <1>6, SameBalance DEF ShellInv, ShellTypeOK

LEMMA RestoreLeak == ASSUME ShellInv, LeakInv, Restore PROVE LeakInv'
<1>1. ShellInv'
  BY RestoreInv
<1>2. \A d \in Fds : d \notin {0, 1, 2} => table'[d] = table[d]
  <2> DEFINE t1 == Dup2(table, origin, 0)
             t2 == Dup2(t1, origout, 1)
  <2>1. /\ table \in Tables /\ {0, 1, 2} \subseteq Fds
        /\ origin \in Fds /\ origout \in Fds /\ origerr \in Fds
    BY TableType, LowFds DEF origin, origout, origerr
  <2>2. t1 \in Tables /\ \A x \in Fds : x # 0 => t1[x] = table[x]
    BY <2>1, Dup2Type
  <2> HIDE DEF t1
  <2>3. t2 \in Tables /\ \A x \in Fds : x # 1 => t2[x] = t1[x]
    BY <2>1, <2>2, Dup2Type
  <2> HIDE DEF t2
  <2> DEFINE t3 == Dup2(t2, origerr, 2)
  <2>4. \A x \in Fds : x # 2 => t3[x] = t2[x]
    BY <2>1, <2>3, Dup2Type
  <2>5. table' = t3
    BY DEF Restore, Restored, t1, t2
  <2> HIDE DEF t3
  <2> QED BY <2>2, <2>3, <2>4, <2>5
<1>3. Open' = Open
  BY <1>1, <1>2, SameOpen
<1>4. /\ stack = <<>> /\ stack' = stack /\ pipes' = pipes /\ exhausted' = exhausted
      /\ pc = "return" /\ pc' = "prompt"
  BY DEF Restore, calls
<1> QED BY <1>3, <1>4, SameBalance DEF ShellInv, ShellTypeOK

LEMMA QuietLeak ==
  ASSUME ShellInv, LeakInv, PipeFails \/ CommandEnded \/ Quit \/ RunCommand PROVE LeakInv'
<1>1. /\ table' = table /\ stack' = stack /\ pipes' = pipes /\ exhausted' \in {exhausted, TRUE}
      /\ pc # "waitLeft" /\ pc' \in {"undefined", "return", "exited", "wait"}
  BY DEF PipeFails, CommandEnded, Quit, RunCommand, calls
<1>2. Open' = Open
  BY <1>1 DEF Open, Free
<1> QED BY <1>1, <1>2, SameBalance DEF ShellInv, ShellTypeOK

LEMMA ChildLeak == ASSUME ShellInv, LeakInv, ChildStep \/ Die PROVE LeakInv'
<1>1. UNCHANGED <<table, stack, pc, exhausted>>
  BY DEF ChildStep, Exec, Read, Write, Exit, Die, shellOnly, calls
<1>2. Len(pipes') = Len(pipes)
  <2>1. pipes \in Seq(Seq(Nat))
    BY DEF ShellInv, ShellTypeOK
  <2>2. pipes' = pipes \/ \E k, v : pipes' = [pipes EXCEPT ![k] = v]
    <3>1. CASE Read
      BY <3>1 DEF Read
    <3>2. CASE Write
      BY <3>2 DEF Write
    <3>3. CASE Exec \/ Exit \/ Die
      BY <3>3 DEF Exec, Exit, Die
    <3> QED BY <3>1, <3>2, <3>3 DEF ChildStep
  <2> QED BY <2>1, <2>2
<1>3. Open' = Open
  BY <1>1 DEF Open, Free
<1> QED BY <1>1, <1>2, <1>3, SameBalance DEF ShellInv, ShellTypeOK
-----------------------------------------------------------------------------
(* A frame is put on the stack, and taken from it. *)
LEMMA Push ==
  ASSUME NEW s \in Seq(Frames), NEW frame \in Frames
  PROVE  LET t == <<frame>> \o s IN
         /\ Held(t) = Held(s) \cup (IF frame.f = "pipeline" THEN {frame.fd0} ELSE {})
         /\ Distinct(s) /\ (frame.f = "pipeline" => frame.fd0 \notin Held(s)) => Distinct(t)
<1> DEFINE t == <<frame>> \o s
<1>1. /\ t \in Seq(Frames) /\ Len(t) = Len(s) + 1 /\ t[1] = frame
      /\ \A i \in 1 .. Len(s) : t[i + 1] = s[i]
  OBVIOUS
<1>2. DOMAIN t = 1 .. Len(s) + 1 /\ DOMAIN s = 1 .. Len(s) /\ Len(s) \in Nat
  BY <1>1
<1> HIDE DEF t
<1>3. \A i \in DOMAIN t : i = 1 \/ (i - 1 \in DOMAIN s /\ t[i] = s[i - 1])
  <2> SUFFICES ASSUME NEW i \in DOMAIN t, i # 1 PROVE i - 1 \in DOMAIN s /\ t[i] = s[i - 1]
    OBVIOUS
  <2>1. i - 1 \in 1 .. Len(s) /\ i = (i - 1) + 1
    BY <1>2
  <2> QED BY <1>1, <1>2, <2>1
<1>4. \A i \in DOMAIN s : i + 1 \in DOMAIN t /\ t[i + 1] = s[i]
  BY <1>1, <1>2
<1>5. Held(t) = Held(s) \cup (IF frame.f = "pipeline" THEN {frame.fd0} ELSE {})
  <2>1. 1 \in DOMAIN t
    BY <1>2
  <2> QED BY <1>1, <1>3, <1>4, <2>1 DEF Held
<1>6. ASSUME Distinct(s), frame.f = "pipeline" => frame.fd0 \notin Held(s),
             NEW i, NEW j, IsPipeline(t, i), IsPipeline(t, j), i # j
      PROVE  t[i].fd0 # t[j].fd0
  <2>1. ASSUME NEW x, IsPipeline(t, x), x # 1
        PROVE  IsPipeline(s, x - 1) /\ t[x] = s[x - 1] /\ t[x].fd0 \in Held(s) /\ x \in Int
    BY <1>2, <1>3, <2>1 DEF IsPipeline, Held
  <2>2. CASE i # 1 /\ j # 1
    <3>1. i - 1 # j - 1
      BY <1>6, <2>1, <2>2
    <3> QED BY <1>6, <2>1, <2>2, <3>1 DEF Distinct
  <2>3. CASE i = 1
    BY <1>1, <1>6, <2>1, <2>3 DEF IsPipeline
  <2>4. CASE j = 1
    BY <1>1, <1>6, <2>1, <2>4 DEF IsPipeline
  <2> QED BY <2>2, <2>3, <2>4
<1>7. Distinct(s) /\ (frame.f = "pipeline" => frame.fd0 \notin Held(s)) => Distinct(t)
  BY <1>6 DEF Distinct
<1> QED BY <1>5, <1>7 DEF t

LEMMA Pop ==
  ASSUME NEW s \in Seq(Frames), s # <<>>, Distinct(s)
  PROVE  /\ Distinct(Tail(s))
         /\ Held(s) = Held(Tail(s)) \cup (IF Head(s).f = "pipeline" THEN {Head(s).fd0} ELSE {})
         /\ Head(s).f = "pipeline" => Head(s).fd0 \notin Held(Tail(s))
<1> DEFINE t == Tail(s)
<1>1. /\ Head(s) \in Frames /\ t \in Seq(Frames) /\ Head(s) = s[1] /\ 1 \in DOMAIN s
      /\ Len(s) \in Nat /\ Len(t) = Len(s) - 1
      /\ \A i \in 1 .. Len(s) - 1 : t[i] = s[i + 1]
  OBVIOUS
<1>2. s = <<Head(s)>> \o t
  OBVIOUS
<1>3. DOMAIN t = 1 .. Len(s) - 1 /\ DOMAIN s = 1 .. Len(s)
  BY <1>1
<1> HIDE DEF t
<1>4. Held(s) = Held(t) \cup (IF Head(s).f = "pipeline" THEN {Head(s).fd0} ELSE {})
  BY <1>1, <1>2, Push
<1>5. \A i \in DOMAIN t : t[i] = s[i + 1] /\ i + 1 \in DOMAIN s /\ i + 1 # 1
  BY <1>1, <1>3
<1>6. Distinct(t)
  <2> SUFFICES ASSUME NEW i, NEW j, IsPipeline(t, i), IsPipeline(t, j), i # j
               PROVE  t[i].fd0 # t[j].fd0
    BY DEF Distinct
  <2>1. i \in DOMAIN t /\ j \in DOMAIN t
    BY DEF IsPipeline
  <2>2. i + 1 # j + 1
    BY <1>3, <2>1
  <2> QED BY <1>5, <2>1, <2>2 DEF IsPipeline, Distinct
<1>7. ASSUME Head(s).f = "pipeline", Head(s).fd0 \in Held(t) PROVE FALSE
  <2>1. PICK i \in DOMAIN t : t[i].f = "pipeline" /\ Head(s).fd0 = t[i].fd0
    BY <1>7 DEF Held
  <2> QED BY <1>1, <1>5, <1>7, <2>1 DEF IsPipeline, Distinct
<1> QED BY <1>4, <1>6, <1>7 DEF t

LEMMA StackType == ShellInv => stack \in Seq(Frames) /\ pipes \in Seq(Seq(Nat)) /\ Len(pipes) \in Nat
BY DEF ShellInv, ShellTypeOK
-----------------------------------------------------------------------------
(* What open, dup and pipe add to the open descriptors of a table, and what *)
(* close and dup2 do to them.                                               *)
OpenIn(t) == Fds \ Free(t)

LEMMA PutOpens ==
  ASSUME NEW t \in Tables, NEW d \in Fds, NEW f \in Files, f # Closed
  PROVE  Put(t, d, f) \in Tables /\ OpenIn(Put(t, d, f)) = OpenIn(t) \cup {d}
BY LowFds DEF Put, Tables, OpenIn, Free

LEMMA CloseShuts ==
  ASSUME NEW t \in Tables, NEW d \in Fds
  PROVE  Close(t, d) \in Tables /\ OpenIn(Close(t, d)) = OpenIn(t) \ {d}
BY LowFds, FileKinds DEF Close, Put, Tables, OpenIn, Free

LEMMA Dup2Opens ==
  ASSUME NEW t \in Tables, NEW d \in Fds \cup {NONE}, NEW e \in OpenIn(t)
  PROVE  Dup2(t, d, e) \in Tables /\ OpenIn(Dup2(t, d, e)) = OpenIn(t)
BY LowFds DEF Dup2, Tables, OpenIn, Free

LEMMA KeptFinite == IsFiniteSet(Kept)
<1>1. Kept \subseteq Fds
  BY DEF Kept, Open
<1> QED BY <1>1, FdsFinite, FS_Subset

LEMMA RunSequenceLeak == ASSUME ShellInv, LeakInv, RunSequence PROVE LeakInv'
<1> SUFFICES ASSUME ~exhausted' PROVE Balance'
  BY DEF LeakInv
<1>1. /\ pc = "run" /\ pc' = "run" /\ table' = table /\ pipes' = pipes
      /\ exhausted' = exhausted
  BY DEF RunSequence
<1>2. Balance
  BY <1>1 DEF LeakInv
<1>3. PICK sep \in Find(text, at, {"semicolon"}) :
        stack' = <<[f |-> "sequence", fd0 |-> NONE, fd1 |-> NONE,
                    origin |-> NONE, tail |-> Behind(sep)]>> \o stack
  BY DEF RunSequence
<1> DEFINE frame == [f |-> "sequence", fd0 |-> NONE, fd1 |-> NONE,
                     origin |-> NONE, tail |-> Behind(sep)]
<1>4. frame \in Frames /\ frame.f # "pipeline"
  <2>1. sep \in Nat
    BY FindType DEF ShellInv, ShellTypeOK
  <2> QED BY <2>1 DEF Frames, Behind
<1>5. stack' = <<frame>> \o stack
  BY <1>3
<1> HIDE DEF frame
<1>6. Held(stack') = Held(stack) /\ Distinct(stack')
  BY <1>2, <1>4, <1>5, StackType, Push DEF Balance
<1>7. Writing = {} /\ Writing' = {} /\ Open' = Open
  BY <1>1 DEF Writing, Open, Free
<1> QED BY <1>1, <1>2, <1>6, <1>7 DEF Balance, Kept

LEMMA RunPipelineLeak == ASSUME ShellInv, LeakInv, RunPipeline PROVE LeakInv'
<1> SUFFICES ASSUME ~exhausted' PROVE Balance'
  BY DEF LeakInv
<1> DEFINE k   == Len(pipes) + 1
           fd0 == Nth(table, 1)
           fd1 == Nth(table, 2)
           org == Nth(table, 3)
           out == Nth(table, 4)
           t1  == Put(table, fd0, Rd(k))
           t2  == Put(t1, fd1, Wr(k))
           t3  == Put(t2, org, table[0])
           t4  == Put(t3, out, table[1])
<1>1. PICK sep \in Bars :
        stack' = <<[f |-> "pipeline", fd0 |-> fd0, fd1 |-> fd1,
                    origin |-> org, tail |-> Behind(sep)]>> \o stack
  BY DEF RunPipeline
<1>2. /\ pc = "run" /\ pipes' = Append(pipes, <<>>) /\ table' = t4
      /\ pc' = "waitLeft" /\ exhausted' = (exhausted \/ out = NONE)
  BY DEF RunPipeline
<1>3. Balance /\ out # NONE
  BY <1>2 DEF LeakInv
<1>4. org # NONE /\ fd1 # NONE /\ fd0 # NONE
  <2>1. Nth(table, 3 + 1) # NONE => Nth(table, 3) # NONE
    BY NthBefore
  <2>2. Nth(table, 2 + 1) # NONE => Nth(table, 2) # NONE
    BY NthBefore
  <2>3. Nth(table, 1 + 1) # NONE => Nth(table, 1) # NONE
    BY NthBefore
  <2> QED BY <1>3, <2>1, <2>2, <2>3
<1>5. /\ {fd0, fd1, org, out} \subseteq Free(table)
      /\ fd0 # fd1 /\ org # out /\ {fd0, fd1} \cap {org, out} = {}
  BY <1>3, <1>4, NthIsFree, NthsDiffer
<1>6. k \in Nat /\ table \in Tables /\ table[0] # Closed /\ table[1] # Closed
      /\ table[0] \in Files /\ table[1] \in Files
  BY StackType, TableType, LowFds DEF ShellInv, KeepsTty, Tables
<1> HIDE DEF k, fd0, fd1, org, out
<1>7. OpenIn(t4) = OpenIn(table) \cup {fd0, fd1, org, out}
  <2>1. fd0 \in Fds /\ fd1 \in Fds /\ org \in Fds /\ out \in Fds
    BY <1>5 DEF Free
  <2>2. /\ Rd(k) \in Files /\ Rd(k) # Closed
        /\ Wr(k) \in Files /\ Wr(k) # Closed
    BY <1>6, FileKinds DEF Rd, Wr, Closed
  <2>3. t1 \in Tables /\ OpenIn(t1) = OpenIn(table) \cup {fd0}
    BY <1>6, <2>1, <2>2, PutOpens
  <2> HIDE DEF t1
  <2>4. t2 \in Tables /\ OpenIn(t2) = OpenIn(t1) \cup {fd1}
    BY <2>1, <2>2, <2>3, PutOpens
  <2> HIDE DEF t2
  <2>5. t3 \in Tables /\ OpenIn(t3) = OpenIn(t2) \cup {org}
    BY <1>6, <2>1, <2>4, PutOpens
  <2> HIDE DEF t3
  <2>6. OpenIn(t4) = OpenIn(t3) \cup {out}
    BY <1>6, <2>1, <2>5, PutOpens
  <2> QED BY <2>3, <2>4, <2>5, <2>6
<1>8. Open' = Open \cup {fd0, fd1, org, out}
  <2> HIDE DEF t4
  <2> QED BY <1>2, <1>7 DEF Open, OpenIn, Free
<1> DEFINE frame == [f |-> "pipeline", fd0 |-> fd0, fd1 |-> fd1,
                     origin |-> org, tail |-> Behind(sep)]
<1>9. frame \in Frames /\ frame.f = "pipeline" /\ frame.fd0 = fd0 /\ frame.fd1 = fd1
  <2>1. sep \in Nat
    BY FindType DEF ShellInv, ShellTypeOK, Bars
  <2> QED BY <1>5, <2>1 DEF Frames, Behind, Free
<1>10. stack' = <<frame>> \o stack
  BY <1>1
<1> HIDE DEF frame
<1>11. Held(stack) \subseteq Open /\ Writing = {} /\ {fd0, fd1, org, out} \cap Open = {}
  BY <1>2, <1>3, <1>5 DEF Balance, Writing, Open
<1>12. Held(stack') = Held(stack) \cup {fd0} /\ Distinct(stack')
  <2>1. frame.fd0 \notin Held(stack)
    BY <1>9, <1>11
  <2> QED BY <1>3, <1>9, <1>10, <2>1, StackType, Push DEF Balance
<1>13. Head(stack') = frame
  BY <1>9, <1>10, StackType
<1>14. Writing' = {fd1}
  BY <1>2, <1>9, <1>13 DEF Writing
<1>15. Kept' = Kept \cup {org} \cup {out}
  BY <1>5, <1>8, <1>11, <1>12, <1>14 DEF Kept
<1>16. Cardinality(Kept') = 6 + 2 * Len(pipes')
  <2>1. org \notin Kept /\ out \notin Kept \cup {org}
    BY <1>5, <1>11 DEF Kept
  <2>2. /\ IsFiniteSet(Kept \cup {org})
        /\ Cardinality(Kept \cup {org}) = Cardinality(Kept) + 1
    BY <2>1, KeptFinite, FS_AddElement
  <2>3. Cardinality(Kept \cup {org} \cup {out}) = Cardinality(Kept \cup {org}) + 1
    BY <2>1, <2>2, FS_AddElement
  <2>4. Len(pipes') = Len(pipes) + 1 /\ Len(pipes) \in Nat
    BY <1>2, StackType
  <2>5. Cardinality(Kept) = 6 + 2 * Len(pipes)
    BY <1>3 DEF Balance
  <2> QED BY <1>15, <2>2, <2>3, <2>4, <2>5
<1>17. Held(stack') \cup Writing' \subseteq Open'
  BY <1>8, <1>11, <1>12, <1>14
<1>18. Head(stack').f = "pipeline" /\ Head(stack').fd1 \notin Held(stack')
  BY <1>5, <1>9, <1>11, <1>12, <1>13
<1> QED BY <1>2, <1>12, <1>16, <1>17, <1>18 DEF Balance

LEMMA StartRightLeak == ASSUME ShellInv, LeakInv, StartRight PROVE LeakInv'
<1> SUFFICES ASSUME ~exhausted' PROVE Balance'
  BY DEF LeakInv
<1> DEFINE p  == Head(stack)
           t1 == Dup2(table, p.fd0, 0)
           t2 == Close(t1, p.fd1)
<1>1. /\ pc = "waitLeft" /\ pc' = "run" /\ table' = t2 /\ stack' = stack
      /\ pipes' = pipes /\ exhausted' = exhausted
  BY DEF StartRight, Switch
<1>2. Balance
  BY <1>1 DEF LeakInv
<1>3. /\ p.fd0 \in Fds \cup {NONE} /\ p.fd1 \in Open /\ p.fd1 \in Fds
      /\ p.fd1 \notin Held(stack) /\ Writing = {p.fd1}
  <2>1. stack # <<>>
    BY <1>1 DEF ShellInv, LeftCalled
  <2> QED BY <1>1, <1>2, <2>1, TopType DEF Balance, Writing, High, Open
<1>4. table \in Tables /\ 0 \in OpenIn(table)
  BY TableType, LowFds DEF ShellInv, KeepsTty, OpenIn, Free
<1> HIDE DEF p
<1>5. t1 \in Tables /\ OpenIn(t1) = OpenIn(table)
  BY <1>3, <1>4, Dup2Opens
<1> HIDE DEF t1
<1>6. OpenIn(t2) = OpenIn(table) \ {p.fd1}
  BY <1>3, <1>5, CloseShuts
<1> HIDE DEF t2
<1>7. Open' = Open \ {p.fd1} /\ Writing' = {} /\ Held(stack)' = Held(stack)
  BY <1>1, <1>6 DEF Open, OpenIn, Free, Writing, Held
<1>8. Distinct(stack)'
  BY <1>1, <1>2 DEF Balance, Distinct, IsPipeline
<1>9. Kept' = Kept
  BY <1>3, <1>7 DEF Kept
<1>10. Held(stack)' \cup Writing' \subseteq Open'
  BY <1>2, <1>3, <1>7 DEF Balance
<1> QED BY <1>1, <1>2, <1>8, <1>9, <1>10 DEF Balance

LEMMA NextInSequenceLeak == ASSUME ShellInv, LeakInv, NextInSequence PROVE LeakInv'
<1> SUFFICES ASSUME ~exhausted' PROVE Balance'
  BY DEF LeakInv
<1>1. /\ pc = "return" /\ pc' = "run" /\ table' = table /\ pipes' = pipes
      /\ exhausted' = exhausted /\ stack # <<>> /\ Head(stack).f = "sequence"
      /\ stack' = Tail(stack)
  BY DEF NextInSequence
<1>2. Balance
  BY <1>1 DEF LeakInv
<1>3. Held(stack') = Held(stack) /\ Distinct(stack')
  <2>1. Head(stack).f # "pipeline" /\ stack \in Seq(Frames) /\ Distinct(stack)
    BY <1>1, <1>2, StackType DEF Balance
  <2>2. /\ Distinct(Tail(stack))
        /\ Held(stack) = Held(Tail(stack)) \cup (IF Head(stack).f = "pipeline"
                                                 THEN {Head(stack).fd0} ELSE {})
    BY <1>1, <2>1, Pop
  <2>3. Held(Tail(stack)) = Held(stack)
    BY <2>1, <2>2
  <2> QED BY <1>1, <2>2, <2>3
<1>4. Writing = {} /\ Writing' = {} /\ Open' = Open
  BY <1>1 DEF Writing, Open, Free
<1> QED BY <1>1, <1>2, <1>3, <1>4 DEF Balance, Kept

LEMMA EndPipelineLeak == ASSUME ShellInv, LeakInv, EndPipeline PROVE LeakInv'
<1> SUFFICES ASSUME ~exhausted' PROVE Balance'
  BY DEF LeakInv
<1> DEFINE p  == Head(stack)
           t1 == Close(table, p.fd0)
           t2 == Dup2(t1, p.origin, 0)
<1>1. /\ pc = "return" /\ pc' = "return" /\ table' = t2 /\ stack' = Tail(stack)
      /\ pipes' = pipes /\ exhausted' = exhausted /\ stack # <<>> /\ p.f = "pipeline"
  BY DEF EndPipeline, Unhook
<1>2. Balance
  BY <1>1 DEF LeakInv
<1>3. /\ Held(stack) = Held(stack') \cup {p.fd0} /\ p.fd0 \notin Held(stack')
      /\ Distinct(stack')
  BY <1>1, <1>2, StackType, Pop DEF Balance
<1>4. p.fd0 \in Open /\ p.fd0 \in Fds /\ p.fd0 # 0 /\ p.origin \in Fds \cup {NONE}
  BY <1>1, <1>2, <1>3, TopType, LowFds DEF Balance, Open, High
<1>5. table \in Tables /\ 0 \in OpenIn(table)
  BY TableType, LowFds DEF ShellInv, KeepsTty, OpenIn, Free
<1> HIDE DEF p
<1>6. t1 \in Tables /\ OpenIn(t1) = OpenIn(table) \ {p.fd0}
  BY <1>4, <1>5, CloseShuts
<1> HIDE DEF t1
<1>7. OpenIn(t2) = OpenIn(table) \ {p.fd0}
  <2>1. 0 \in OpenIn(t1)
    BY <1>4, <1>5, <1>6
  <2> QED BY <1>4, <1>6, <2>1, Dup2Opens
<1> HIDE DEF t2
<1>8. Open' = Open \ {p.fd0} /\ Writing = {} /\ Writing' = {}
  BY <1>1, <1>7 DEF Open, OpenIn, Free, Writing
<1>9. Kept' = Kept
  BY <1>3, <1>8 DEF Kept
<1>10. Held(stack') \cup Writing' \subseteq Open'
  BY <1>2, <1>3, <1>8 DEF Balance
<1> QED BY <1>1, <1>2, <1>3, <1>9, <1>10 DEF Balance

LEMMA InitLeak == ShellInit => LeakInv
<1> SUFFICES ASSUME ShellInit PROVE Balance
  BY DEF LeakInv
<1>1. /\ table = StartTable /\ pipes = <<>> /\ stack = <<>> /\ pc = "prompt"
  BY DEF ShellInit
<1>2. DOMAIN stack = {}
  BY <1>1
<1>3. Held(stack) = {} /\ Writing = {} /\ Distinct(stack)
  BY <1>1, <1>2 DEF Held, Writing, Distinct, IsPipeline
<1>4. PICK last \in Int : last = 5
  OBVIOUS
<1>5. Cardinality(0 .. last) = 6
  <2>1. \A b \in Int : Cardinality(0 .. b) = IF 0 > b THEN 0 ELSE b - 0 + 1
    BY FS_Interval
  <2> DEFINE size == Cardinality(0 .. last)
  <2>2. size = IF 0 > last THEN 0 ELSE last - 0 + 1
    BY <2>1, Zenon
  <2> HIDE DEF size
  <2>3. size = 6
    BY <1>4, <2>2
  <2> QED BY <2>3 DEF size
<1>6. Kept = 0 .. last
  <2>1. \A d \in Fds : d \in Nat
    BY TableAssumption DEF Fds
  <2>2. \A d : Tty(d) # Closed
    BY DEF Tty, Closed
  <2>3. \A d \in Fds : StartTable[d] # Closed <=> d <= 5
    BY <2>1, <2>2 DEF StartTable
  <2>4. \A d \in Fds : d <= 5 <=> d \in 0 .. 5
    BY <2>1
  <2>5. Open = 0 .. 5
    BY <1>1, <2>3, <2>4, LowFds DEF Open, Free
  <2> QED BY <1>3, <1>4, <2>5 DEF Kept
<1>7. Cardinality(Kept) = 6 + 2 * Len(pipes)
  BY <1>1, <1>5, <1>6
<1> QED BY <1>1, <1>3, <1>7 DEF Balance

LEMMA NextLeak == ShellInv /\ LeakInv /\ [ShellNext]_shellVars => LeakInv'
<1> SUFFICES ASSUME ShellInv, LeakInv, [ShellNext]_shellVars PROVE LeakInv'
  OBVIOUS
<1>1. CASE UNCHANGED shellVars
  <2>1. UNCHANGED <<table, pipes, stack, pc, exhausted>>
    BY <1>1 DEF shellVars, calls
  <2>2. Open' = Open
    BY <2>1 DEF Open, Free
  <2> QED BY <2>1, <2>2, SameBalance DEF ShellInv, ShellTypeOK
<1>2. CASE \E l \in Lines : ReadLine(l)
  BY <1>2, ReadLineLeak
<1>3. CASE ShellStep
  BY <1>3, RunSequenceLeak, RunPipelineLeak, StartRightLeak, NextInSequenceLeak,
     EndPipelineLeak, RestoreLeak, QuietLeak DEF ShellStep
<1>4. CASE Quit \/ ChildStep \/ Die
  BY <1>4, QuietLeak, ChildLeak
<1> QED BY <1>1, <1>2, <1>3, <1>4 DEF ShellNext

(* What is open is what the calls on the stack will close, and two copies   *)
(* per pipeline that nobody will (dsh.c:72, 73), until a call fails for     *)
(* want of a descriptor.                                                    *)
THEOREM LeakInvHolds == ShellSpec => []LeakInv
<1>1. ShellInit => ShellInv /\ LeakInv
  BY InitInv, InitLeak
<1>2. ShellInv /\ LeakInv /\ [ShellNext]_shellVars => (ShellInv /\ LeakInv)'
  BY NextInv, NextLeak
<1> QED BY <1>1, <1>2, PTL DEF ShellSpec

(* For any lines, any table and whatever its programs do, the shell has     *)
(* lost exactly two descriptors per pipeline when it reads from the user.   *)
THEOREM LeaksAreExact == ShellSpec => []LeakIsExact
<1>1. LeakInv => LeakIsExact
  <2> SUFFICES ASSUME LeakInv, pc = "prompt", ~exhausted
               PROVE  Cardinality(Fds \ Free(table)) = 6 + 2 * Len(pipes)
    BY DEF LeakIsExact
  <2>1. Balance /\ stack = <<>>
    BY DEF LeakInv, Balance
  <2>2. Held(stack) = {} /\ Writing = {}
    <3>1. DOMAIN stack = {}
      BY <2>1
    <3> QED BY <3>1 DEF Held, Writing
  <2> QED BY <2>1, <2>2 DEF Balance, Kept, Open
<1> QED BY <1>1, LeakInvHolds, PTL
-----------------------------------------------------------------------------
(* How far the shell is in a line that is read as it is meant to be        *)
(* (Spaced): the calls of run_pipeline lie above the one call of           *)
(* run_sequence there may be, which keeps the rest behind its semicolon.   *)
HasRest == stack # <<>> /\ stack[Len(stack)].f = "sequence"
InPipe  == stack # <<>> /\ Head(stack).f = "pipeline"
Stop    == IF HasRest THEN stack[Len(stack)].tail - 1 ELSE Len(typed) + 1
Here    == IF pc = "run" THEN at ELSE IF pc = "waitLeft" THEN Head(stack).tail ELSE Stop

Working == pc \in {"run", "waitLeft", "wait", "return"}

(* From here on the text is what was typed, with a terminator at Stop.     *)
RestIsTyped ==
  /\ Len(text) = Len(typed) + 2 /\ text[Len(typed) + 1] = "end"
  /\ Here \in Nat \ {0} /\ Stop \in Here .. Len(typed) + 1
  /\ text[Stop] = "end"
  /\ HasRest => Stop <= Len(typed) /\ typed[Stop] = "semicolon"
  /\ \A i \in Here .. Len(typed) : i # Stop => text[i] = typed[i]
  /\ stack # <<>> => \A i \in Here .. Stop - 1 : typed[i] # "semicolon"
  /\ \A i \in 1 .. Len(stack) - 1 : stack[i].f = "pipeline"

(* The command that comes next stands behind what separates it.            *)
Begins ==
  /\ pc = "run" => IF InPipe THEN at > 2 /\ typed[at - 2] = "bar"
                             ELSE at = 1 \/ typed[at - 1] = "semicolon"
  /\ pc = "waitLeft" => InPipe /\ Here > 1 /\ typed[Here - 1] = "bar"

CalledUpTo(h) ==
  /\ \A i \in DOMAIN called : /\ called[i] \in Words(typed) /\ called[i] < h
                              /\ i > 1 => called[i - 1] < called[i]
  /\ \A c \in Words(typed) : c < h => \E i \in DOMAIN called : called[i] = c

OrderInv ==
  /\ pc = "prompt" => stack = <<>>
  /\ pc \notin {"waitLeft", "wait"} => child = NoChild
  /\ Spaced(typed) =>
       /\ Working => RestIsTyped /\ Begins
       /\ Working \/ pc = "prompt" => CalledUpTo(Here)

(* Words of a line. *)
LEMMA LeastWord ==
  ASSUME NEW W \in SUBSET Nat, W # {}
  PROVE  Min(W) \in W /\ \A y \in W : Min(W) <= y
<1> DEFINE R == {ss \in Nat \X Nat : ss[1] < ss[2]}
           IsLeast(x) == \A y \in W : x <= y
<1>1. IsWellFoundedOn(R, Nat)
  BY NatLessThanWellFounded DEF OpToRel
<1>2. \E w \in W : \A v \in W : ~ (<<v, w>> \in R)
  <2> HIDE DEF R
  <2> QED BY <1>1, WFMin
<1>3. ASSUME NEW x \in Nat, NEW y \in Nat, ~ (<<y, x>> \in R) PROVE x <= y
  <2>1. ~ (y < x)
    BY <1>3, Zenon
  <2> QED BY <2>1
<1>4. \E w \in W : IsLeast(w)
  <2> HIDE DEF R
  <2> QED BY <1>2, <1>3
<1>5. Min(W) = CHOOSE x \in W : IsLeast(x)
  BY DEF Min
<1>6. Min(W) \in W /\ IsLeast(Min(W))
  <2> HIDE DEF IsLeast
  <2> QED BY <1>4, <1>5
<1> QED BY <1>6

LEMMA MinIs ==
  ASSUME NEW W \in SUBSET Nat, NEW w \in W, \A y \in W : w <= y
  PROVE  Min(W) = w
<1>1. Min(W) \in W /\ \A y \in W : Min(W) <= y
  BY LeastWord
<1>2. Min(W) <= w /\ w <= Min(W) /\ Min(W) \in Nat /\ w \in Nat
  BY <1>1
<1> HIDE DEF Min
<1> QED BY <1>2

LEMMA MaxIs ==
  ASSUME NEW W \in SUBSET Nat, NEW w \in W, \A y \in W : y <= w
  PROVE  Max(W) = w
<1> DEFINE IsLargest(x) == \A y \in W : x >= y
<1>1. IsLargest(w)
  OBVIOUS
<1>2. Max(W) = CHOOSE x \in W : IsLargest(x)
  BY DEF Max
<1>3. Max(W) \in W /\ IsLargest(Max(W))
  <2> HIDE DEF IsLargest
  <2> QED BY <1>1, <1>2
<1>4. Max(W) <= w /\ Max(W) >= w /\ Max(W) \in Nat /\ w \in Nat
  BY <1>3
<1> QED BY <1>4

LEMMA TokensDiffer ==
  /\ "end" \notin Tokens /\ Commands \subseteq Tokens
  /\ {"semicolon", "bar", "blank", "end"} \cap Commands = {}
BY ShellAssumption DEF Tokens

LEMMA SeparatorsType ==
  ASSUME NEW l \in Seq(Tokens)
  PROVE  /\ Separators(l) \in SUBSET (1 .. Len(l)) /\ Len(l) \in Nat
         /\ \A s \in Separators(l) : l[s] \notin Commands
BY TokensDiffer DEF Separators

(* The separator in front of a place. *)
LEMMA BeforeIs ==
  ASSUME NEW l \in Seq(Tokens), NEW s \in {0} \cup Separators(l), NEW i \in Nat, s < i,
         \A j \in s + 1 .. i - 1 : j \notin Separators(l)
  PROVE  Before(l, i) = s
<1> DEFINE B == {0} \cup {x \in Separators(l) : x < i}
<1>1. B \in SUBSET Nat /\ s \in B
  BY SeparatorsType
<1>2. \A y \in B : y <= s
  BY SeparatorsType
<1>3. Max(B) = s
  <2> HIDE DEF B
  <2> QED BY <1>1, <1>2, MaxIs
<1> QED BY <1>3 DEF Before

LEMMA WordsType ==
  ASSUME NEW l \in Seq(Tokens), NEW c \in Words(l)
  PROVE  c \in 1 .. Len(l) /\ l[c] \in Commands /\ c = CommandAfter(l, Before(l, c))
<1>1. PICK s \in {0} \cup Separators(l) : c = CommandAfter(l, s) /\ c # 0
  BY DEF Words
<1> DEFINE W == {i \in s + 1 .. Len(l) : l[i] \in Commands /\ Before(l, i) = s}
<1>2. W \in SUBSET Nat /\ W \subseteq 1 .. Len(l)
  BY SeparatorsType
<1>3. W # {} /\ c = Min(W)
  BY <1>1 DEF CommandAfter
<1>4. c \in W
  <2> HIDE DEF W
  <2> QED BY <1>2, <1>3, LeastWord
<1> QED BY <1>1, <1>2, <1>4

(* A piece of a line between two separators, from p on, and its first      *)
(* command.                                                                *)
Piece(l, s, p, e) ==
  /\ s \in {0} \cup Separators(l) /\ p \in Nat /\ e \in p .. Len(l) + 1
  /\ p = s + 1 \/ (p = s + 2 /\ l[s + 1] = "blank")
  /\ \A j \in p .. e - 1 : j \notin Separators(l)
First(l, p, e) == {i \in p .. e - 1 : l[i] \in Commands /\ \A j \in p .. i - 1 : l[j] \notin Commands}

LEMMA FirstIsWord ==
  ASSUME NEW l \in Seq(Tokens), NEW s, NEW p, NEW e, Piece(l, s, p, e)
  PROVE  /\ First(l, p, e) = {c \in Words(l) : p <= c /\ c < e}
         /\ \A c \in First(l, p, e) : CommandAfter(l, s) = c /\ Before(l, c) = s
<1>1. /\ s \in {0} \cup Separators(l) /\ s \in 0 .. Len(l) /\ p \in Nat /\ e \in Nat /\ s < p
      /\ e <= Len(l) + 1 /\ Len(l) \in Nat
  BY SeparatorsType DEF Piece
<1>2. \A j \in s + 1 .. e - 1 : j \notin Separators(l) /\ (j < p => l[j] \notin Commands)
  BY <1>1, SeparatorsType, TokensDiffer DEF Piece, Separators
<1>3. \A i \in p .. e - 1 : Before(l, i) = s
  <2> TAKE i \in p .. e - 1
  <2>1. i \in Nat /\ s < i /\ \A j \in s + 1 .. i - 1 : j \notin Separators(l)
    BY <1>1, <1>2
  <2> QED BY <1>1, <2>1, BeforeIs
<1> DEFINE W == {i \in s + 1 .. Len(l) : l[i] \in Commands /\ Before(l, i) = s}
<1>4. CommandAfter(l, s) = IF W = {} THEN 0 ELSE Min(W)
  BY DEF CommandAfter
<1>5. W \in SUBSET Nat
  BY <1>1
<1>6. ASSUME NEW c \in First(l, p, e)
      PROVE  CommandAfter(l, s) = c /\ Before(l, c) = s /\ c \in Words(l) /\ p <= c /\ c < e
  <2>1. c \in p .. e - 1 /\ l[c] \in Commands /\ \A j \in p .. c - 1 : l[j] \notin Commands
    BY <1>6 DEF First
  <2>2. c \in W
    BY <1>1, <1>3, <2>1
  <2>3. \A i \in W : c <= i
    BY <1>1, <1>2, <2>1
  <2>4. CommandAfter(l, s) = c
    <3> HIDE DEF W
    <3> QED BY <1>4, <1>5, <2>2, <2>3, MinIs
  <2>5. c # 0
    BY <1>1, <2>1
  <2> QED BY <1>1, <1>3, <2>1, <2>4, <2>5 DEF Words
<1>7. ASSUME NEW c \in Words(l), p <= c, c < e PROVE c \in First(l, p, e)
  <2>1. c \in 1 .. Len(l) /\ l[c] \in Commands /\ c = CommandAfter(l, Before(l, c))
    BY WordsType
  <2>2. c \in p .. e - 1 /\ Before(l, c) = s
    BY <1>1, <1>3, <1>7, <2>1
  <2>3. c \in W
    BY <1>1, <2>1, <2>2
  <2>4. \A i \in W : c <= i
    <3> HIDE DEF W
    <3> QED BY <1>4, <1>5, <2>1, <2>2, <2>3, LeastWord
  <2>5. \A j \in p .. c - 1 : l[j] \notin Commands
    BY <1>1, <1>3, <2>2, <2>4
  <2> QED BY <2>1, <2>2, <2>5 DEF First
<1> QED BY <1>6, <1>7

(* What strstr and strtok find in a text that is the line up to e. *)
LEMMA FindUpTo ==
  ASSUME NEW t \in Seq(Tokens \cup {"end"}), NEW l \in Seq(Tokens), NEW p \in Nat \ {0},
         NEW e \in p .. Len(l) + 1, e <= Len(t), t[e] = "end", \A i \in p .. e - 1 : t[i] = l[i],
         NEW S, "end" \notin S
  PROVE  /\ Find(t, p, S) =
              {j \in p .. e - 1 : l[j] \in S /\ \A i \in p .. j - 1 : l[i] \notin S}
         /\ Find(t, p, S) = {} => \A j \in p .. e - 1 : l[j] \notin S
<1> DEFINE F == {j \in p .. e - 1 : l[j] \in S /\ \A i \in p .. j - 1 : l[i] \notin S}
<1>1. Len(t) \in Nat /\ Len(l) \in Nat /\ e \in Nat
  OBVIOUS
<1>2. \A i \in p .. e - 1 : l[i] \in Tokens /\ l[i] # "end"
  BY <1>1, TokensDiffer, ElementOfSeq
<1>3. ASSUME NEW j \in F PROVE j \in Find(t, p, S)
  <2>1. j \in p .. e - 1 /\ l[j] \in S /\ \A i \in p .. j - 1 : l[i] \notin S
    OBVIOUS
  <2>2. j \in p .. Len(t) /\ t[j] \in S
    BY <1>1, <2>1
  <2>3. \A i \in p .. j - 1 : t[i] \notin S \cup {"end"}
    BY <1>1, <1>2, <2>1
  <2> QED BY <2>2, <2>3 DEF Find
<1>4. ASSUME NEW j \in Find(t, p, S) PROVE j \in F
  <2>1. j \in p .. Len(t) /\ t[j] \in S /\ \A i \in p .. j - 1 : t[i] \notin S \cup {"end"}
    BY <1>4 DEF Find
  <2>2. j # e /\ ~(e < j)
    BY <1>1, <2>1
  <2>3. j \in p .. e - 1
    BY <1>1, <2>1, <2>2
  <2> QED BY <1>1, <2>1, <2>3
<1>5. Find(t, p, S) = F
  BY <1>3, <1>4
<1>6. ASSUME NEW j \in p .. e - 1, l[j] \in S PROVE F # {}
  <2> DEFINE G == {i \in p .. e - 1 : l[i] \in S}
  <2>1. G \in SUBSET Nat /\ j \in G
    BY <1>6
  <2>2. Min(G) \in G /\ \A y \in G : Min(G) <= y
    <3> HIDE DEF G
    <3> QED BY <2>1, LeastWord
  <2>3. PICK m \in G : \A y \in G : m <= y
    BY <2>2
  <2>4. \A i \in p .. m - 1 : i \in p .. e - 1 /\ i < m
    BY <1>1
  <2>5. m \in F
    BY <1>1, <2>3, <2>4
  <2> QED BY <2>5
<1> QED BY <1>5, <1>6
-----------------------------------------------------------------------------
(* Every command once and in order. *)
LEMMA LineTypes ==
  ShellInv => /\ typed \in Seq(Tokens) /\ Len(typed) \in Nat
              /\ text \in Seq(Tokens \cup {"end"}) /\ Len(text) \in Nat
              /\ called \in Seq(Nat) /\ Len(called) \in Nat /\ DOMAIN called = 1 .. Len(called)
              /\ stack \in Seq(Frames) /\ Len(stack) \in Nat /\ DOMAIN stack = 1 .. Len(stack)
              /\ at \in Nat /\ child \in Processes
BY DEF ShellInv, ShellTypeOK

(* What run finds in the rest of the text is in the line as typed. *)
LEMMA FindInRest ==
  ASSUME ShellInv, RestIsTyped, pc = "run", NEW S, "end" \notin S
  PROVE  /\ Find(text, at, S) =
              {j \in at .. Stop - 1 : typed[j] \in S /\ \A i \in at .. j - 1 : typed[i] \notin S}
         /\ Find(text, at, S) = {} => \A j \in at .. Stop - 1 : typed[j] \notin S
<1>1. at \in Nat \ {0} /\ Stop \in at .. Len(typed) + 1 /\ Stop <= Len(text) /\ text[Stop] = "end"
  BY LineTypes DEF RestIsTyped, Here
<1>2. \A i \in at .. Stop - 1 : text[i] = typed[i]
  BY <1>1, LineTypes DEF RestIsTyped, Here
<1> QED BY <1>1, <1>2, LineTypes, FindUpTo

(* The first word of a piece is what is called next. *)
LEMMA CalledNext ==
  ASSUME ShellInv, NEW s, NEW p, NEW e, Piece(typed, s, p, e), CalledUpTo(p),
         NEW t, Fork(t, First(typed, p, e)), typed' = typed
  PROVE  /\ CalledUpTo(e)'
         /\ \/ child' = NoChild \/ child'.at = 0
            \/ /\ child'.at \in First(typed, p, e) /\ child'.at = CommandAfter(typed, s)
               /\ Before(typed, child'.at) = s
<1> DEFINE F == First(typed, p, e)
<1>1. PICK here \in IF F = {} THEN {0} ELSE F :
        /\ called' = IF here = 0 THEN called ELSE Append(called, here)
        /\ \/ child' = [NoChild EXCEPT !.at = here, !.state = "forked", !.table = t]
           \/ child' = NoChild
  BY DEF Fork
<1>2. /\ F = {c \in Words(typed) : p <= c /\ c < e}
      /\ \A c \in F : CommandAfter(typed, s) = c /\ Before(typed, c) = s
  BY LineTypes, FirstIsWord
<1>3. p \in Nat /\ e \in Nat /\ p <= e /\ \A c \in Words(typed) : c \in Nat \ {0}
  BY LineTypes, WordsType DEF Piece
<1>4. here = 0 <=> F = {}
  BY <1>2, <1>3
<1>5. Words(typed)' = Words(typed)
  BY DEF Words, CommandAfter, Before, Separators
<1> HIDE DEF F
<1>6. ASSUME F = {} PROVE CalledUpTo(e)'
  <2>1. called' = called
    BY <1>1, <1>4, <1>6
  <2>2. \A c \in Words(typed) : c < e => c < p
    BY <1>2, <1>3, <1>6
  <2>3. \A i \in DOMAIN called : called[i] < p => called[i] < e
    BY <1>3, LineTypes
  <2> QED BY <1>5, <2>1, <2>2, <2>3 DEF CalledUpTo
<1>7. ASSUME here \in F PROVE CalledUpTo(e)'
  <2> DEFINE n == Len(called)
  <2>1. /\ called' = Append(called, here) /\ here \in Nat /\ p <= here /\ here < e
        /\ here \in Words(typed)
    BY <1>1, <1>2, <1>3, <1>4, <1>7
  <2>2. /\ DOMAIN called' = 1 .. n + 1 /\ DOMAIN called = 1 .. n /\ n \in Nat
        /\ called'[n + 1] = here /\ \A i \in 1 .. n : called'[i] = called[i] /\ called[i] \in Nat
    BY <2>1, LineTypes, AppendProperties
  <2> HIDE DEF n
  <2>3. \A i \in 1 .. n : called[i] \in Words(typed) /\ called[i] < p
                          /\ (i > 1 => called[i - 1] < called[i])
    BY <2>2 DEF CalledUpTo
  <2>4. \A i \in 1 .. n : called'[i] < e /\ called'[i] < here
    BY <1>3, <2>1, <2>2, <2>3
  <2>5. \A i \in 1 .. n + 1 : i > 1 => called'[i - 1] < called'[i]
    <3> SUFFICES ASSUME NEW i \in 1 .. n + 1, i > 1 PROVE called'[i - 1] < called'[i]
      OBVIOUS
    <3>1. CASE i = n + 1
      <4>1. i - 1 \in 1 .. n
        BY <2>2, <3>1
      <4> QED BY <2>2, <2>4, <3>1, <4>1
    <3>2. CASE i # n + 1
      <4>1. i - 1 \in 1 .. n /\ i \in 1 .. n
        BY <2>2, <3>2
      <4> QED BY <2>2, <2>3, <4>1
    <3> QED BY <3>1, <3>2
  <2>6. \A i \in 1 .. n + 1 : called'[i] \in Words(typed) /\ called'[i] < e
    <3>1. \A i \in 1 .. n + 1 : i \in 1 .. n \/ i = n + 1
      BY <2>2
    <3> QED BY <2>1, <2>2, <2>3, <2>4, <3>1
  <2>7. ASSUME NEW c \in Words(typed), c < e PROVE \E i \in 1 .. n + 1 : called'[i] = c
    <3>1. CASE c < p
      <4>1. PICK i \in 1 .. n : called[i] = c
        BY <2>2, <3>1 DEF CalledUpTo
      <4> QED BY <2>2, <4>1
    <3>2. CASE ~ (c < p)
      <4>1. c \in F
        BY <1>2, <1>3, <2>7, <3>2
      <4>2. c = here
        BY <1>2, <1>7, <4>1
      <4>3. n + 1 \in 1 .. n + 1
        BY <2>2
      <4> QED BY <2>2, <4>2, <4>3
    <3> QED BY <3>1, <3>2
  <2> QED BY <1>5, <2>2, <2>5, <2>6, <2>7 DEF CalledUpTo
<1>8. CalledUpTo(e)'
  BY <1>1, <1>6, <1>7
<1>9. child' = NoChild \/ child'.at = here
  BY <1>1 DEF NoChild
<1>10. here = 0 \/ (here \in F /\ here = CommandAfter(typed, s) /\ Before(typed, here) = s)
  BY <1>1, <1>2, <1>4
<1> QED BY <1>8, <1>9, <1>10 DEF F

(* Nothing is called in between. *)
LEMMA CalledSame ==
  ASSUME ShellInv, NEW h \in Nat, CalledUpTo(h), NEW k \in Nat, h <= k,
         \A c \in h .. k - 1 : typed[c] \notin Commands,
         Here' = k, called' = called, typed' = typed
  PROVE  CalledUpTo(Here)'
<1>1. Words(typed)' = Words(typed)
  BY DEF Words, CommandAfter, Before, Separators
<1>2. \A c \in Words(typed) : c \in Nat /\ (c < k => c < h)
  <2> TAKE c \in Words(typed)
  <2>1. c \in Nat /\ typed[c] \in Commands
    BY LineTypes, WordsType
  <2> QED BY <2>1
<1>3. \A i \in DOMAIN called : called[i] < h => called[i] < k
  BY LineTypes
<1> HIDE DEF Here
<1> QED BY <1>1, <1>2, <1>3 DEF CalledUpTo

LEMMA CalledStays ==
  ASSUME NEW h, CalledUpTo(h), Here' = h, called' = called, typed' = typed
  PROVE  CalledUpTo(Here)'
<1>1. Words(typed)' = Words(typed)
  BY DEF Words, CommandAfter, Before, Separators
<1> QED BY <1>1 DEF CalledUpTo

LEMMA PushFrame ==
  ASSUME stack \in Seq(Frames), NEW frame \in Frames, stack' = <<frame>> \o stack
  PROVE  /\ stack' \in Seq(Frames) /\ stack' # <<>> /\ Len(stack') = Len(stack) + 1
         /\ Head(stack') = frame /\ stack'[1] = frame
         /\ \A i \in 1 .. Len(stack) : stack'[i + 1] = stack[i]
         /\ stack = <<>> => Len(stack) = 0 /\ Len(stack') = 1
         /\ stack # <<>> => Len(stack) \in 1 .. Len(stack)
OBVIOUS

LEMMA PopFrame ==
  ASSUME stack \in Seq(Frames), stack # <<>>, stack' = Tail(stack)
  PROVE  /\ stack' \in Seq(Frames) /\ Head(stack) = stack[1] /\ Head(stack) \in Frames
         /\ Len(stack) \in Nat \ {0} /\ Len(stack') = Len(stack) - 1
         /\ \A i \in 1 .. Len(stack) - 1 : stack'[i] = stack[i + 1]
         /\ stack' = <<>> <=> Len(stack) = 1
<1>1. /\ stack' \in Seq(Frames) /\ Head(stack) = stack[1] /\ Head(stack) \in Frames
      /\ Len(stack) \in Nat \ {0} /\ Len(stack') = Len(stack) - 1
      /\ \A i \in 1 .. Len(stack) - 1 : stack'[i] = stack[i + 1]
  OBVIOUS
<1>2. stack' = <<>> <=> Len(stack') = 0
  BY <1>1, EmptySeq
<1> QED BY <1>1, <1>2

LEMMA SpacedLine ==
  ASSUME Spaced(typed), NEW i \in 1 .. Len(typed), typed[i] = "bar"
  PROVE  i < Len(typed) /\ typed[i + 1] = "blank"
BY DEF Spaced

LEMMA ReadLineOrder == ASSUME ShellInv, OrderInv, NEW l \in Lines, ReadLine(l) PROVE OrderInv'
<1>1. /\ pc = "prompt" /\ pc' \in {"run", "exited"} /\ stack = <<>> /\ stack' = <<>>
      /\ child' = NoChild /\ typed' = l /\ text' = l \o <<"end", "end">> /\ at' = 1 /\ called' = <<>>
  BY DEF ReadLine, OrderInv
<1>2. l \in Seq(Tokens) /\ Len(l) \in Nat
  BY ShellAssumption
<1>3. /\ ~HasRest' /\ ~InPipe' /\ Stop' = Len(l) + 1
  BY <1>1 DEF HasRest, InPipe, Stop
<1>4. /\ Len(text') = Len(l) + 2 /\ text'[Len(l) + 1] = "end"
      /\ \A i \in 1 .. Len(l) : text'[i] = l[i]
  BY <1>1, <1>2
<1>5. Len(stack') = 0
  BY <1>1
<1>6. ASSUME pc' = "run" PROVE RestIsTyped' /\ Begins' /\ Here' = 1
  <2>1. Here' = 1
    BY <1>1, <1>6 DEF Here
  <2> QED BY <1>1, <1>2, <1>3, <1>4, <1>5, <1>6, <2>1 DEF RestIsTyped, Begins
<1>7. CalledUpTo(1)'
  <2>1. \A c \in Words(l) : ~ (c < 1)
    BY <1>2, WordsType
  <2>2. Words(typed)' = Words(l)
    BY <1>1 DEF Words, CommandAfter, Before, Separators
  <2>3. DOMAIN called' = {}
    BY <1>1
  <2> QED BY <2>1, <2>2, <2>3 DEF CalledUpTo
<1>8. pc' = "run" => CalledUpTo(Here)'
  BY <1>6, <1>7
<1> QED BY <1>1, <1>6, <1>8 DEF OrderInv, Working

(* The call of run_sequence is the first one: the rest behind a pipeline's *)
(* bar has no semicolon.                                                   *)
LEMMA RunSequenceOrder == ASSUME ShellInv, OrderInv, RunSequence PROVE OrderInv'
<1>1. PICK sep \in Find(text, at, {"semicolon"}) :
        /\ text' = Cut(sep)
        /\ stack' = <<[f |-> "sequence", fd0 |-> NONE, fd1 |-> NONE,
                       origin |-> NONE, tail |-> Behind(sep)]>> \o stack
  BY DEF RunSequence
<1>2. pc = "run" /\ pc' = "run" /\ UNCHANGED <<child, typed, at, called>>
  BY DEF RunSequence
<1>3. child' = NoChild
  BY <1>2 DEF OrderInv
<1>4. SUFFICES ASSUME Spaced(typed) PROVE RestIsTyped' /\ Begins' /\ CalledUpTo(Here)'
  <2>1. Spaced(typed)' => Spaced(typed)
    BY <1>2 DEF Spaced
  <2> QED BY <1>2, <1>3, <1>4, <2>1 DEF OrderInv
<1>5. RestIsTyped /\ Begins /\ CalledUpTo(Here) /\ Here = at
  BY <1>2, <1>4 DEF OrderInv, Working, Here
<1>6. /\ sep \in at .. Stop - 1 /\ typed[sep] = "semicolon"
  <2>1. "end" \notin {"semicolon"}
    OBVIOUS
  <2> QED BY <1>1, <1>2, <1>5, <2>1, FindInRest
<1>7. stack = <<>> /\ ~HasRest /\ ~InPipe /\ Stop = Len(typed) + 1
  BY <1>5, <1>6 DEF RestIsTyped, HasRest, Stop, InPipe
<1>8. sep \in Nat /\ at \in Nat \ {0} /\ Len(typed) \in Nat /\ sep <= Len(typed) /\ at <= sep
  BY <1>5, <1>6, <1>7, LineTypes DEF RestIsTyped
<1> DEFINE frame == [f |-> "sequence", fd0 |-> NONE, fd1 |-> NONE,
                     origin |-> NONE, tail |-> Behind(sep)]
<1>9. frame \in Frames /\ frame.tail = sep + 1 /\ frame.f = "sequence"
  BY <1>8 DEF Frames, Behind
<1>10. stack' = <<frame>> \o stack /\ stack \in Seq(Frames)
  BY <1>1, LineTypes
<1> HIDE DEF frame
<1>11. stack' # <<>> /\ Len(stack') = 1 /\ stack'[1] = frame /\ Head(stack') = frame
  BY <1>7, <1>9, <1>10, PushFrame
<1>12. HasRest' /\ ~InPipe' /\ Stop' = sep /\ Here' = at
  BY <1>2, <1>8, <1>9, <1>11 DEF HasRest, InPipe, Stop, Here
<1>13. /\ Len(text') = Len(text) /\ text'[sep] = "end"
       /\ \A i \in 1 .. Len(text) : i # sep => text'[i] = text[i]
  <2>1. Len(text) = Len(typed) + 2 /\ text \in Seq(Tokens \cup {"end"})
    BY <1>5, LineTypes DEF RestIsTyped
  <2> QED BY <1>1, <1>8, <2>1 DEF Cut
<1>14. RestIsTyped'
  <2>1. \A i \in 1 .. Len(stack') - 1 : FALSE
    BY <1>11
  <2>2. \A i \in at .. Len(typed) : i # sep => text'[i] = typed[i]
    <3>1. \A i \in at .. Len(typed) : i \in 1 .. Len(text) /\ i # Stop /\ text[i] = typed[i]
      BY <1>5, <1>7, <1>8 DEF RestIsTyped
    <3> QED BY <1>13, <3>1
  <2>3. \A i \in at .. sep - 1 : typed[i] # "semicolon"
    <3>1. "end" \notin {"semicolon"}
      OBVIOUS
    <3>2. Find(text, at, {"semicolon"}) =
            {j \in at .. Stop - 1 : /\ typed[j] \in {"semicolon"}
                                    /\ \A i \in at .. j - 1 : typed[i] \notin {"semicolon"}}
      BY <1>2, <1>5, <3>1, FindInRest
    <3> QED BY <1>1, <3>2
  <2>4. Len(text') = Len(typed) + 2 /\ text'[Len(typed) + 1] = "end"
    <3>1. Len(text) = Len(typed) + 2 /\ text[Len(typed) + 1] = "end"
      BY <1>5 DEF RestIsTyped
    <3>2. Len(typed) + 1 \in 1 .. Len(text) /\ Len(typed) + 1 # sep
      BY <1>8, <3>1
    <3> QED BY <1>13, <3>1, <3>2
  <2> QED BY <1>2, <1>6, <1>8, <1>12, <1>13, <2>1, <2>2, <2>3, <2>4 DEF RestIsTyped
<1>15. Begins'
  BY <1>2, <1>5, <1>7, <1>12 DEF Begins
<1>16. CalledUpTo(Here)'
  BY <1>2, <1>5, <1>12, CalledStays
<1> QED BY <1>14, <1>15, <1>16

(* The separator in front of the command that comes next. *)
Front == IF InPipe THEN at - 2 ELSE at - 1

LEMMA FrontPiece ==
  ASSUME ShellInv, RestIsTyped, Begins, Spaced(typed), pc = "run", NEW e \in at .. Stop,
         \A j \in at .. e - 1 : j \notin Separators(typed)
  PROVE  /\ Piece(typed, Front, at, e)
         /\ Front # 0 => typed[Front] = IF InPipe THEN "bar" ELSE "semicolon"
<1>1. /\ at \in Nat \ {0} /\ Stop \in at .. Len(typed) + 1 /\ Len(typed) \in Nat
      /\ e \in at .. Len(typed) + 1
  BY LineTypes DEF RestIsTyped, Here
<1>2. CASE InPipe
  <2>1. at > 2 /\ typed[at - 2] = "bar" /\ at - 2 \in 1 .. Len(typed)
    BY <1>1, <1>2 DEF Begins
  <2>2. typed[at - 2 + 1] = "blank"
    BY <2>1, SpacedLine
  <2> QED BY <1>1, <1>2, <2>1, <2>2 DEF Piece, Front, Separators
<1>3. CASE ~InPipe
  <2>1. at = 1 \/ (at - 1 \in 1 .. Len(typed) /\ typed[at - 1] = "semicolon")
    BY <1>1, <1>3 DEF Begins
  <2>2. at = at - 1 + 1 /\ at - 1 = 0 <=> at = 1
    BY <1>1
  <2> QED BY <1>1, <1>3, <2>1, <2>2 DEF Piece, Front, Separators
<1> QED BY <1>2, <1>3

(* The bar at which run_pipeline cuts, and the command in front of it. *)
LEMMA BarFound ==
  ASSUME ShellInv, RestIsTyped, Begins, Spaced(typed), pc = "run", NEW sep \in Bars
  PROVE  /\ sep \in at .. Stop - 1 /\ sep \in 1 .. Len(typed) /\ typed[sep] = "bar"
         /\ \A j \in at .. Stop - 1 : typed[j] # "semicolon"
         /\ \A j \in at .. sep - 1 : j \notin Separators(typed)
         /\ Piece(typed, Front, at, sep)
         /\ Find(Cut(sep), at, Commands) = First(typed, at, sep)
         /\ sep \in Separators(typed) /\ Before(typed, sep) = Front
         /\ Cut(sep)[sep] = "end" /\ Len(Cut(sep)) = Len(text)
         /\ \A i \in 1 .. Len(text) : i # sep => Cut(sep)[i] = text[i]
<1>0. /\ at \in Nat \ {0} /\ Stop \in at .. Len(typed) + 1 /\ Len(typed) \in Nat /\ Len(text) \in Nat
      /\ text \in Seq(Tokens \cup {"end"}) /\ Len(text) = Len(typed) + 2
  BY LineTypes DEF RestIsTyped, Here
<1>1. Find(text, at, {"semicolon"}) = {} /\ sep \in Find(text, at, {"bar"})
  BY DEF Bars
<1>2. "end" \notin {"semicolon"} /\ "end" \notin {"bar"} /\ "end" \notin Commands
  BY TokensDiffer
<1>3. \A j \in at .. Stop - 1 : typed[j] # "semicolon"
  BY <1>1, <1>2, FindInRest
<1>4. sep \in at .. Stop - 1 /\ typed[sep] = "bar" /\ \A j \in at .. sep - 1 : typed[j] # "bar"
  BY <1>1, <1>2, FindInRest
<1>5. sep \in 1 .. Len(typed) /\ sep \in at .. Stop /\ sep \in Nat
  BY <1>0, <1>4
<1>6. \A j \in at .. sep - 1 : j \notin Separators(typed)
  BY <1>0, <1>3, <1>4 DEF Separators
<1>7. Piece(typed, Front, at, sep)
  BY <1>5, <1>6, FrontPiece
<1>8. /\ Cut(sep)[sep] = "end" /\ Len(Cut(sep)) = Len(text)
      /\ \A i \in 1 .. Len(text) : i # sep => Cut(sep)[i] = text[i]
  BY <1>0, <1>5 DEF Cut
<1>9. Find(Cut(sep), at, Commands) = First(typed, at, sep)
  <2>1. Cut(sep) \in Seq(Tokens \cup {"end"})
    BY <1>0, CutType
  <2>2. \A i \in at .. sep - 1 : Cut(sep)[i] = typed[i]
    <3>1. \A i \in at .. sep - 1 : i \in 1 .. Len(text) /\ i \in at .. Len(typed) /\ i # Stop /\ i # sep
      BY <1>0, <1>4
    <3> QED BY <1>8, <3>1 DEF RestIsTyped, Here
  <2>3. sep \in at .. Len(typed) + 1 /\ sep <= Len(Cut(sep))
    BY <1>0, <1>4, <1>8
  <2> QED BY <1>0, <1>2, <1>8, <2>1, <2>2, <2>3, LineTypes, FindUpTo DEF First
<1>10. sep \in Separators(typed) /\ Before(typed, sep) = Front
  <2>1. sep \in Separators(typed)
    BY <1>4, <1>5 DEF Separators
  <2>2. /\ Front \in {0} \cup Separators(typed) /\ Front < sep
        /\ \A j \in Front + 1 .. sep - 1 : j \notin Separators(typed)
    BY <1>0, <1>4, <1>6, <1>7, SeparatorsType, LineTypes DEF Piece, Separators
  <2> QED BY <1>5, <2>1, <2>2, LineTypes, BeforeIs
<1> QED BY <1>3, <1>4, <1>5, <1>6, <1>7, <1>8, <1>9, <1>10

LEMMA RunPipelineOrder == ASSUME ShellInv, OrderInv, RunPipeline PROVE OrderInv'
<1>1a. PICK sep \in Bars : \E t, fd0, fd1, org :
         /\ text' = Cut(sep)
         /\ stack' = <<[f |-> "pipeline", fd0 |-> fd0, fd1 |-> fd1,
                        origin |-> org, tail |-> Behind(sep)]>> \o stack
         /\ Fork(t, Find(Cut(sep), at, Commands))
  BY DEF RunPipeline
<1>1. PICK t, fd0, fd1, org :
        /\ text' = Cut(sep)
        /\ stack' = <<[f |-> "pipeline", fd0 |-> fd0, fd1 |-> fd1,
                       origin |-> org, tail |-> Behind(sep)]>> \o stack
        /\ Fork(t, Find(Cut(sep), at, Commands))
  BY <1>1a
<1>2. pc = "run" /\ pc' = "waitLeft" /\ UNCHANGED <<typed, at>>
  BY DEF RunPipeline
<1>3. SUFFICES ASSUME Spaced(typed) PROVE RestIsTyped' /\ Begins' /\ CalledUpTo(Here)'
  <2>1. Spaced(typed)' => Spaced(typed)
    BY <1>2 DEF Spaced
  <2> QED BY <1>2, <1>3, <2>1 DEF OrderInv
<1>4. RestIsTyped /\ Begins /\ CalledUpTo(at) /\ Here = at
  BY <1>2, <1>3 DEF OrderInv, Working, Here
<1>5. /\ sep \in at .. Stop - 1 /\ sep \in 1 .. Len(typed) /\ typed[sep] = "bar"
      /\ \A j \in at .. Stop - 1 : typed[j] # "semicolon"
      /\ Piece(typed, Front, at, sep)
      /\ Find(Cut(sep), at, Commands) = First(typed, at, sep)
      /\ text'[sep] = "end" /\ Len(text') = Len(text)
      /\ \A i \in 1 .. Len(text) : i # sep => text'[i] = text[i]
  BY <1>1, <1>2, <1>3, <1>4, BarFound
<1>6. /\ sep \in Nat /\ at \in Nat \ {0} /\ Len(typed) \in Nat /\ Len(text) = Len(typed) + 2
      /\ Stop \in at .. Len(typed) + 1
  BY <1>4, <1>5, LineTypes DEF RestIsTyped
<1> DEFINE frame == [f |-> "pipeline", fd0 |-> fd0, fd1 |-> fd1,
                     origin |-> org, tail |-> Behind(sep)]
<1>7. frame.f = "pipeline" /\ frame.tail = sep + 1 /\ stack' = <<frame>> \o stack
  BY <1>1 DEF Behind
<1>8. stack \in Seq(Frames) /\ stack' \in Seq(Frames)
  <2>1. ShellInv'
    BY RunPipelineInv
  <2> QED BY <2>1 DEF ShellInv, ShellTypeOK
<1> HIDE DEF frame
<1>9. frame \in Frames
  <2>1. frame = stack'[1] /\ 1 \in DOMAIN stack'
    BY <1>7, <1>8
  <2> QED BY <1>8, <2>1
<1>10. /\ stack' # <<>> /\ Len(stack') = Len(stack) + 1 /\ Len(stack) \in Nat
       /\ Head(stack') = frame /\ stack'[1] = frame
       /\ \A i \in 1 .. Len(stack) : stack'[i + 1] = stack[i]
       /\ stack = <<>> => Len(stack) = 0
       /\ stack # <<>> => Len(stack) \in 1 .. Len(stack)
  BY <1>7, <1>8, <1>9, PushFrame
<1>11. InPipe' /\ HasRest' = HasRest /\ Stop' = Stop /\ Here' = sep + 1
  <2>1. InPipe' /\ Here' = sep + 1
    BY <1>2, <1>7, <1>10 DEF InPipe, Here
  <2>2. CASE stack = <<>>
    BY <1>2, <1>7, <1>10, <2>1, <2>2 DEF HasRest, Stop
  <2>3. CASE stack # <<>>
    <3>1. stack'[Len(stack')] = stack[Len(stack)]
      BY <1>10, <2>3
    <3> QED BY <1>2, <1>10, <2>1, <2>3, <3>1 DEF HasRest, Stop
  <2> QED BY <2>1, <2>2, <2>3
<1>12. RestIsTyped'
  <2>1. \A i \in 1 .. Len(stack') - 1 : stack'[i].f = "pipeline"
    <3> SUFFICES ASSUME NEW i \in 1 .. Len(stack') - 1 PROVE stack'[i].f = "pipeline"
      OBVIOUS
    <3>1. CASE i = 1
      BY <1>7, <1>10, <3>1
    <3>2. CASE i # 1
      <4>1. i - 1 \in 1 .. Len(stack) - 1 /\ i - 1 \in 1 .. Len(stack) /\ i = i - 1 + 1
        BY <1>10, <3>2
      <4>2. stack'[i] = stack[i - 1]
        BY <1>10, <4>1
      <4> QED BY <1>4, <4>1, <4>2 DEF RestIsTyped
    <3> QED BY <3>1, <3>2
  <2>2. \A i \in sep + 1 .. Len(typed) : i # Stop => text'[i] = typed[i]
    <3>1. \A i \in sep + 1 .. Len(typed) : i \in 1 .. Len(text) /\ i # sep /\ i \in at .. Len(typed)
      BY <1>5, <1>6
    <3> QED BY <1>4, <1>5, <3>1 DEF RestIsTyped
  <2>3. text'[Stop] = "end" /\ text'[Len(typed) + 1] = "end"
    <3>1. Stop \in 1 .. Len(text) /\ Len(typed) + 1 \in 1 .. Len(text) /\ sep # Stop
          /\ sep # Len(typed) + 1
      BY <1>5, <1>6
    <3> QED BY <1>4, <1>5, <3>1 DEF RestIsTyped
  <2>4. \A i \in sep + 1 .. Stop - 1 : typed[i] # "semicolon"
    BY <1>5, <1>6
  <2> QED BY <1>2, <1>4, <1>5, <1>6, <1>11, <2>1, <2>2, <2>3, <2>4 DEF RestIsTyped
<1>13. Begins'
  BY <1>2, <1>5, <1>6, <1>11 DEF Begins
<1>14. CalledUpTo(Here)'
  <2>1. Fork(t, First(typed, at, sep))
    BY <1>1, <1>5
  <2>2. CalledUpTo(sep)'
    BY <1>2, <1>4, <1>5, <2>1, CalledNext
  <2>3. \A c \in Words(typed) : c < sep + 1 => c < sep
    <3> SUFFICES ASSUME NEW c \in Words(typed) PROVE c # sep /\ c \in Nat
      BY <1>6
    <3> QED BY <1>5, LineTypes, WordsType, TokensDiffer
  <2>4. Words(typed)' = Words(typed)
    BY <1>2 DEF Words, CommandAfter, Before, Separators
  <2>5. \A i \in DOMAIN called' : called'[i] < sep => called'[i] < sep + 1
    <3>1. called' \in Seq(Nat)
      BY RunPipelineInv DEF ShellInv, ShellTypeOK
    <3> QED BY <1>6, <3>1
  <2> QED BY <1>11, <2>2, <2>3, <2>4, <2>5 DEF CalledUpTo
<1> QED BY <1>12, <1>13, <1>14

LEMMA StartRightOrder == ASSUME ShellInv, OrderInv, StartRight PROVE OrderInv'
<1>1. /\ pc = "waitLeft" /\ pc' = "run" /\ child = NoChild /\ at' = Head(stack).tail + 1
      /\ UNCHANGED <<child, typed, text, stack, called>>
  BY DEF StartRight, input
<1>2. SUFFICES ASSUME Spaced(typed) PROVE RestIsTyped' /\ Begins' /\ CalledUpTo(Here)'
  <2>1. Spaced(typed)' => Spaced(typed)
    BY <1>1 DEF Spaced
  <2> QED BY <1>1, <1>2, <2>1 DEF OrderInv
<1>3. RestIsTyped /\ Begins /\ CalledUpTo(Here)
  BY <1>1, <1>2 DEF OrderInv, Working
<1>4. /\ Here \in Nat \ {0} /\ Len(typed) \in Nat /\ Stop \in Here .. Len(typed) + 1
      /\ Here > 1 /\ typed[Here - 1] = "bar" /\ InPipe
  BY <1>1, <1>3, LineTypes DEF RestIsTyped, Begins
<1>5. Here <= Len(typed) /\ typed[Here] = "blank"
  <2>1. Here - 1 \in 1 .. Len(typed) /\ Here - 1 + 1 = Here
    BY <1>4
  <2> QED BY <1>2, <1>4, <2>1, SpacedLine
<1>6. /\ Stop' = Stop /\ HasRest' = HasRest /\ InPipe' /\ Here' = Here + 1 /\ at' = Here + 1
  BY <1>1, <1>4 DEF Stop, HasRest, InPipe, Here
<1>7. Here # Stop
  BY <1>3, <1>4, <1>5 DEF RestIsTyped, Stop
<1>8. RestIsTyped'
  <2>1. \A i \in Here + 1 .. Len(typed) : i \in Here .. Len(typed)
    BY <1>4
  <2>2. \A i \in Here + 1 .. Stop - 1 : i \in Here .. Stop - 1
    BY <1>4
  <2>3. Here + 1 \in Nat \ {0} /\ Stop \in Here + 1 .. Len(typed) + 1
    BY <1>4, <1>7
  <2> QED BY <1>1, <1>3, <1>6, <2>1, <2>2, <2>3 DEF RestIsTyped
<1>9. Begins'
  <2>1. at' - 2 = Here - 1 /\ at' > 2
    BY <1>4, <1>6
  <2> QED BY <1>1, <1>4, <1>6, <2>1 DEF Begins
<1>10. CalledUpTo(Here)'
  <2> DEFINE h == Here
  <2>1. h \in Nat /\ CalledUpTo(h) /\ typed[h] = "blank" /\ Here' = h + 1
    BY <1>3, <1>4, <1>5, <1>6
  <2> HIDE DEF h
  <2>2. h + 1 \in Nat /\ h <= h + 1 /\ \A c \in h .. h + 1 - 1 : typed[c] \notin Commands
    BY <2>1, TokensDiffer
  <2> QED BY <1>1, <2>1, <2>2, CalledSame
<1> QED BY <1>8, <1>9, <1>10

LEMMA RunCommandOrder == ASSUME ShellInv, OrderInv, RunCommand PROVE OrderInv'
<1>1. /\ pc = "run" /\ pc' = "wait" /\ UNCHANGED <<typed, text, stack, at>>
      /\ Find(text, at, {"semicolon", "bar"}) = {}
      /\ Fork(table, Find(text, at, Commands))
  BY DEF RunCommand, input, calls
<1>2. SUFFICES ASSUME Spaced(typed) PROVE RestIsTyped' /\ Begins' /\ CalledUpTo(Here)'
  <2>1. Spaced(typed)' => Spaced(typed)
    BY <1>1 DEF Spaced
  <2> QED BY <1>1, <1>2, <2>1 DEF OrderInv
<1>3. RestIsTyped /\ Begins /\ CalledUpTo(at) /\ Here = at
  BY <1>1, <1>2 DEF OrderInv, Working, Here
<1>4. /\ Stop' = Stop /\ HasRest' = HasRest /\ Here' = Stop
  BY <1>1 DEF Stop, HasRest, Here
<1>5. /\ at \in Nat \ {0} /\ Len(typed) \in Nat /\ Stop \in at .. Len(typed) + 1
  BY <1>3, LineTypes DEF RestIsTyped
<1>6. RestIsTyped'
  <2>1. \A i \in Stop .. Len(typed) : i \in at .. Len(typed)
    BY <1>5
  <2>2. \A i \in Stop .. Stop - 1 : FALSE
    BY <1>5
  <2>3. Stop \in Nat \ {0} /\ Stop \in Stop .. Len(typed) + 1
    BY <1>5
  <2> QED BY <1>1, <1>3, <1>4, <2>1, <2>2, <2>3 DEF RestIsTyped
<1>7. Begins'
  BY <1>1 DEF Begins
<1>8. Piece(typed, Front, at, Stop)
  <2>1. "end" \notin {"semicolon", "bar"}
    OBVIOUS
  <2>2. \A j \in at .. Stop - 1 : typed[j] \notin {"semicolon", "bar"}
    BY <1>1, <1>3, <2>1, FindInRest
  <2>3. \A j \in at .. Stop - 1 : j \notin Separators(typed)
    BY <2>2 DEF Separators
  <2> QED BY <1>1, <1>2, <1>3, <1>5, <2>3, FrontPiece
<1>9. Find(text, at, Commands) = First(typed, at, Stop)
  BY <1>1, <1>3, TokensDiffer, FindInRest DEF First
<1>10. CalledUpTo(Here)'
  <2> DEFINE e == Stop
  <2>1. Piece(typed, Front, at, e) /\ Fork(table, First(typed, at, e)) /\ typed' = typed
        /\ Here' = e
    BY <1>1, <1>4, <1>8, <1>9
  <2> HIDE DEF e
  <2>2. CalledUpTo(e)' /\ e' = e
    BY <1>3, <1>4, <2>1, CalledNext DEF e
  <2> QED BY <2>1, <2>2
<1> QED BY <1>6, <1>7, <1>10

(* A line has been run up to Stop. *)
LEMMA CommandEndedOrder == ASSUME ShellInv, OrderInv, CommandEnded PROVE OrderInv'
<1>1. /\ pc = "wait" /\ pc' = "return" /\ child = NoChild
      /\ UNCHANGED <<child, typed, text, stack, at, called>>
  BY DEF CommandEnded, input, calls
<1>2. /\ Stop' = Stop /\ HasRest' = HasRest /\ Here' = Here
  BY <1>1 DEF Stop, HasRest, Here
<1>3. Spaced(typed)' => Spaced(typed)
  BY <1>1 DEF Spaced
<1>4. RestIsTyped => RestIsTyped'
  BY <1>1, <1>2 DEF RestIsTyped
<1>5. CalledUpTo(Here) => CalledUpTo(Here)'
  BY <1>1, <1>2, CalledStays
<1> QED BY <1>1, <1>3, <1>4, <1>5 DEF OrderInv, Working, Begins

LEMMA NextInSequenceOrder == ASSUME ShellInv, OrderInv, NextInSequence PROVE OrderInv'
<1>1. /\ pc = "return" /\ pc' = "run" /\ stack # <<>> /\ Head(stack).f = "sequence"
      /\ at' = Head(stack).tail /\ stack' = Tail(stack)
      /\ UNCHANGED <<child, typed, text, called>>
  BY DEF NextInSequence, input
<1>2. child' = NoChild
  BY <1>1 DEF OrderInv
<1>3. SUFFICES ASSUME Spaced(typed) PROVE RestIsTyped' /\ Begins' /\ CalledUpTo(Here)'
  <2>1. Spaced(typed)' => Spaced(typed)
    BY <1>1 DEF Spaced
  <2> QED BY <1>1, <1>2, <1>3, <2>1 DEF OrderInv
<1>4. RestIsTyped /\ CalledUpTo(Here) /\ Here = Stop
  BY <1>1, <1>3 DEF OrderInv, Working, Here
<1>5. /\ stack \in Seq(Frames) /\ Head(stack) = stack[1] /\ Head(stack).tail \in Nat
      /\ Len(stack) \in Nat \ {0} /\ stack' = <<>> <=> Len(stack) = 1
  BY <1>1, LineTypes, PopFrame DEF Frames
<1>6. Len(stack) = 1 /\ stack' = <<>> /\ Len(stack') = 0
  <2>1. Len(stack) > 1 => 1 \in 1 .. Len(stack) - 1
    BY <1>5
  <2> QED BY <1>1, <1>4, <1>5, <2>1 DEF RestIsTyped
<1>7. HasRest /\ Stop = Head(stack).tail - 1 /\ at' = Stop + 1 /\ typed[Stop] = "semicolon"
      /\ Stop \in 1 .. Len(typed) /\ Len(typed) \in Nat
  BY <1>1, <1>4, <1>5, <1>6, LineTypes, SMTT(30) DEF RestIsTyped, HasRest, Stop
<1>8. ~HasRest' /\ ~InPipe' /\ Stop' = Len(typed) + 1 /\ Here' = Stop + 1
  BY <1>1, <1>6, <1>7 DEF HasRest, InPipe, Stop, Here
<1>9. RestIsTyped'
  <2>1. \A i \in Stop + 1 .. Len(typed) : i \in Stop .. Len(typed) /\ i # Stop
    BY <1>7
  <2>2. Stop + 1 \in Nat \ {0} /\ Len(typed) + 1 \in Stop + 1 .. Len(typed) + 1
    BY <1>7
  <2>3. \A i \in 1 .. Len(stack') - 1 : FALSE
    BY <1>6
  <2> QED BY <1>1, <1>4, <1>6, <1>8, <2>1, <2>2, <2>3 DEF RestIsTyped
<1>10. Begins'
  BY <1>1, <1>7, <1>8 DEF Begins
<1>11. CalledUpTo(Here)'
  <2> DEFINE h == Stop
  <2>1. h \in Nat /\ CalledUpTo(h) /\ typed[h] = "semicolon" /\ Here' = h + 1
    BY <1>4, <1>7, <1>8
  <2> HIDE DEF h
  <2>2. h + 1 \in Nat /\ h <= h + 1 /\ \A c \in h .. h + 1 - 1 : typed[c] \notin Commands
    BY <2>1, TokensDiffer
  <2> QED BY <1>1, <2>1, <2>2, CalledSame
<1> QED BY <1>9, <1>10, <1>11

LEMMA EndPipelineOrder == ASSUME ShellInv, OrderInv, EndPipeline PROVE OrderInv'
<1>1. /\ pc = "return" /\ pc' = "return" /\ stack # <<>> /\ Head(stack).f = "pipeline"
      /\ stack' = Tail(stack) /\ UNCHANGED <<child, typed, text, called, at>>
  BY DEF EndPipeline, input
<1>2. child' = NoChild
  BY <1>1 DEF OrderInv
<1>3. SUFFICES ASSUME Spaced(typed) PROVE RestIsTyped' /\ Begins' /\ CalledUpTo(Here)'
  <2>1. Spaced(typed)' => Spaced(typed)
    BY <1>1 DEF Spaced
  <2> QED BY <1>1, <1>2, <1>3, <2>1 DEF OrderInv
<1>4. RestIsTyped /\ CalledUpTo(Here) /\ Here = Stop
  BY <1>1, <1>3 DEF OrderInv, Working, Here
<1>5. /\ stack \in Seq(Frames) /\ Head(stack) = stack[1]
      /\ Len(stack) \in Nat \ {0} /\ stack' = <<>> <=> Len(stack) = 1
      /\ Len(stack') = Len(stack) - 1
      /\ \A i \in 1 .. Len(stack) - 1 : stack'[i] = stack[i + 1]
  BY <1>1, LineTypes, PopFrame
<1>6. HasRest' = HasRest /\ Stop' = Stop
  <2>1. CASE Len(stack) = 1
    BY <1>1, <1>5, <2>1 DEF HasRest, Stop
  <2>2. CASE Len(stack) # 1
    <3>1. Len(stack) - 1 \in 1 .. Len(stack) - 1 /\ Len(stack) - 1 + 1 = Len(stack)
      BY <1>5, <2>2
    <3>2. stack'[Len(stack')] = stack[Len(stack)] /\ stack' # <<>>
      BY <1>5, <2>2, <3>1
    <3> QED BY <1>1, <3>2 DEF HasRest, Stop
  <2> QED BY <2>1, <2>2
<1>7. Here' = Stop
  BY <1>1, <1>6 DEF Here
<1>8. RestIsTyped'
  <2>1. \A i \in 1 .. Len(stack') - 1 : stack'[i].f = "pipeline"
    <3> TAKE i \in 1 .. Len(stack') - 1
    <3>1. i \in 1 .. Len(stack) - 1 /\ i + 1 \in 1 .. Len(stack) - 1
      BY <1>5
    <3> QED BY <1>4, <1>5, <3>1 DEF RestIsTyped
  <2> QED BY <1>1, <1>4, <1>6, <1>7, <2>1 DEF RestIsTyped
<1>9. Begins'
  BY <1>1 DEF Begins
<1>10. CalledUpTo(Here)'
  BY <1>1, <1>4, <1>7, CalledStays
<1> QED BY <1>8, <1>9, <1>10

LEMMA RestoreOrder == ASSUME ShellInv, OrderInv, Restore PROVE OrderInv'
<1>1. /\ pc = "return" /\ pc' = "prompt" /\ stack = <<>>
      /\ UNCHANGED <<child, typed, text, stack, at, called>>
  BY DEF Restore, input, calls
<1>2. Here' = Here
  BY <1>1 DEF Here, Stop, HasRest
<1>3. Spaced(typed)' => Spaced(typed)
  BY <1>1 DEF Spaced
<1>4. CalledUpTo(Here) => CalledUpTo(Here)'
  BY <1>1, <1>2, CalledStays
<1> QED BY <1>1, <1>3, <1>4 DEF OrderInv, Working

LEMMA StopsOrder == ASSUME ShellInv, OrderInv, PipeFails \/ Quit PROVE OrderInv'
<1>1. pc \in {"prompt", "run"} /\ pc' \in {"exited", "undefined"} /\ child' = child
  BY DEF PipeFails, Quit
<1> QED BY <1>1 DEF OrderInv, Working

(* The child takes no part in the line, and there is none elsewhere. *)
LEMMA ChildWorks ==
  ASSUME OrderInv, ChildStep \/ Die
  PROVE  /\ pc \in {"waitLeft", "wait"} /\ child # NoChild
         /\ UNCHANGED <<table, typed, text, lines, at, stack, pc, called, exhausted>>
<1>1. child.state # "none"
  BY DEF ChildStep, Exec, Read, Write, Exit, Die
<1>2. child # NoChild
  BY <1>1 DEF NoChild
<1> QED BY <1>2 DEF OrderInv, ChildStep, Exec, Read, Write, Exit, Die, shellOnly, input, calls

LEMMA SameOrder ==
  ASSUME OrderInv, UNCHANGED <<typed, text, at, stack, pc, called>>,
         child' = child \/ pc \in {"waitLeft", "wait"}
  PROVE  OrderInv'
<1>1. /\ Stop' = Stop /\ HasRest' = HasRest /\ Here' = Here /\ InPipe' = InPipe
  BY DEF Stop, HasRest, Here, InPipe
<1>2. Spaced(typed)' => Spaced(typed)
  BY DEF Spaced
<1>3. RestIsTyped => RestIsTyped'
  BY <1>1 DEF RestIsTyped
<1>4. CalledUpTo(Here) => CalledUpTo(Here)'
  BY <1>1, CalledStays
<1>5. Begins => Begins'
  BY <1>1 DEF Begins
<1> QED BY <1>2, <1>3, <1>4, <1>5 DEF OrderInv, Working

LEMMA InitOrder == ShellInit => OrderInv
<1> SUFFICES ASSUME ShellInit PROVE OrderInv
  OBVIOUS
<1>1. /\ pc = "prompt" /\ stack = <<>> /\ child = NoChild /\ typed = <<>> /\ called = <<>>
  BY DEF ShellInit
<1>2. \A c \in Words(typed) : FALSE
  <2>1. <<>> \in Seq(Tokens) /\ \A c : c \notin 1 .. Len(<<>>)
    OBVIOUS
  <2> QED BY <1>1, <2>1, WordsType
<1>3. CalledUpTo(Here)
  BY <1>1, <1>2 DEF CalledUpTo
<1> QED BY <1>1, <1>3 DEF OrderInv, Working

LEMMA NextOrder == ShellInv /\ OrderInv /\ [ShellNext]_shellVars => OrderInv'
<1> SUFFICES ASSUME ShellInv, OrderInv, [ShellNext]_shellVars PROVE OrderInv'
  OBVIOUS
<1>1. CASE UNCHANGED shellVars
  BY <1>1, SameOrder DEF shellVars, input, calls
<1>2. CASE \E l \in Lines : ReadLine(l)
  BY <1>2, ReadLineOrder
<1>3. CASE ShellStep
  BY <1>3, RunSequenceOrder, RunPipelineOrder, StartRightOrder, RunCommandOrder,
     CommandEndedOrder, NextInSequenceOrder, EndPipelineOrder, RestoreOrder, StopsOrder
     DEF ShellStep
<1>4. CASE Quit
  BY <1>4, StopsOrder
<1>5. CASE ChildStep \/ Die
  BY <1>5, ChildWorks, SameOrder
<1> QED BY <1>1, <1>2, <1>3, <1>4, <1>5 DEF ShellNext

(* How far a line has been run: what was called so far are the commands in *)
(* front of the place the shell has got to, each once and from left to     *)
(* right, and from there on the text is still what was typed               *)
(* (dsh.c:69-108).                                                         *)
THEOREM OrderHolds == ShellSpec => []OrderInv
<1>1. ShellInit => ShellInv /\ OrderInv
  BY InitInv, InitOrder
<1>2. ShellInv /\ OrderInv /\ [ShellNext]_shellVars => (ShellInv /\ OrderInv)'
  BY NextInv, NextOrder
<1> QED BY <1>1, <1>2, PTL DEF ShellSpec

(* For any line with a blank behind each bar, when the shell reads from    *)
(* the user again it has called every command of the line once, from left  *)
(* to right (dsh.c:96-170).                                                *)
THEOREM EveryCommandIsCalled == ShellSpec => []CommandsRunInOrder
<1>1. ShellInv /\ OrderInv => CommandsRunInOrder
  <2> SUFFICES ASSUME ShellInv, OrderInv, pc = "prompt", Spaced(typed)
               PROVE  /\ \A c \in Words(typed) : \E i \in DOMAIN called : called[i] = c
                      /\ \A i \in DOMAIN called : /\ called[i] \in Words(typed)
                                                  /\ i > 1 => called[i - 1] < called[i]
    BY DEF CommandsRunInOrder
  <2>1. Here = Len(typed) + 1 /\ CalledUpTo(Here)
    BY DEF OrderInv, Here, Stop, HasRest
  <2>2. \A c \in Words(typed) : c < Len(typed) + 1
    <3> TAKE c \in Words(typed)
    <3>1. c \in 1 .. Len(typed) /\ Len(typed) \in Nat
      BY LineTypes, WordsType
    <3> QED BY <3>1
  <2> QED BY <2>1, <2>2 DEF CalledUpTo
<1> QED BY <1>1, ShellInvHolds, OrderHolds, PTL
-----------------------------------------------------------------------------
(* What 0, 1 and 2 refer to, and the copy of 0 that the first call of      *)
(* run_pipeline puts back.                                                 *)
Depth == IF HasRest THEN Len(stack) - 1 ELSE Len(stack)

WrittenBy(k, bar) ==
  \A i \in DOMAIN pipes[k] : pipes[k][i] = CommandAfter(typed, Before(typed, bar))

Channels ==
  /\ table[1] = Out /\ table[2] = Err
  /\ ~InPipe => table[0] = Null
  /\ pc = "run" /\ InPipe =>
       Len(pipes) > 0 /\ table[0] = Rd(Len(pipes)) /\ WrittenBy(Len(pipes), at - 2)
  /\ pc = "waitLeft" =>
       /\ Len(pipes) > 0 /\ WrittenBy(Len(pipes), Here - 1)
       /\ Head(stack).fd0 \in Fds /\ table[Head(stack).fd0] = Rd(Len(pipes))
       /\ child.at # 0 /\ child.table[1][1] = "write" =>
            child.at = CommandAfter(typed, Before(typed, Here - 1))
  /\ Depth > 0 =>
       /\ stack[Depth].origin \in Fds /\ table[stack[Depth].origin] = Null
       /\ stack[Depth].origin \notin Held(stack) \cup Writing

PlumbingInv ==
  /\ Plumbing
  /\ child.state = "running" => child.at # 0
  /\ Spaced(typed) /\ ~exhausted /\ Working => Channels

(* Pipes between neighbours. *)
LEMMA PutIs ==
  ASSUME NEW t \in Tables, NEW d \in Fds, NEW f \in Files
  PROVE  /\ Put(t, d, f) \in Tables /\ Put(t, d, f)[d] = f
         /\ \A x \in Fds : x # d => Put(t, d, f)[x] = t[x]
BY LowFds DEF Put, Tables

(* The table of the child that run_pipeline forks. *)
LEMMA ForkedIs ==
  ASSUME NEW n \in Tables, NEW f \in Files, NEW r \in Fds, r \notin {0, 1, 2}
  PROVE  LET t == [n EXCEPT ![1] = f, ![r] = Closed]
         IN t \in Tables /\ t[0] = n[0] /\ t[1] = f /\ t[2] = n[2]
BY LowFds, FileKinds DEF Tables

(* With one more descriptor free the four that run_pipeline takes exist    *)
(* and differ.                                                             *)
LEMMA FourFree ==
  ASSUME NEW t, Nth(t, 4) # NONE
  PROVE  /\ {Nth(t, 1), Nth(t, 2), Nth(t, 3), Nth(t, 4)} \subseteq Free(t)
         /\ \A m, n \in 1 .. 4 : m # n => Nth(t, m) # Nth(t, n)
<1>1. Nth(t, 3) # NONE
  BY NthBefore
<1>2. Nth(t, 2) # NONE
  BY <1>1, NthBefore
<1>3. Nth(t, 1) # NONE
  BY <1>2, NthBefore
<1>4. \A n \in 1 .. 4 : Nth(t, n) # NONE
  <2>1. \A n \in 1 .. 4 : n = 1 \/ n = 2 \/ n = 3 \/ n = 4
    OBVIOUS
  <2> QED BY <1>1, <1>2, <1>3, <2>1
<1>5. \A m, n \in 1 .. 4 : m # n => Nth(t, m) # Nth(t, n)
  BY <1>4, NthsDiffer
<1> QED BY <1>1, <1>2, <1>3, <1>5, NthIsFree

LEMMA NotClosed ==
  \A f : f \in {Null, Out, Err, File} \/ (\E k : f \in {Rd(k), Wr(k), Tty(k)}) => f # Closed
BY DEF Null, Out, Err, File, Rd, Wr, Tty, Closed

LEMMA NoChildIdle == NoChild.state = "none" /\ NoChild.at = 0
BY DEF NoChild

(* What a command must find on 0, 1 and 2. *)
LEMMA ChildPlumbed ==
  ASSUME typed' = typed, NEW c, c = child'.at,
         IF BarBefore(typed, c)
         THEN \E j \in 1 .. Len(pipes') :
                /\ child'.table[0] = Rd(j) /\ ~Written(j)'
                /\ \A i \in DOMAIN pipes'[j] : pipes'[j][i] = LeftOf(typed, c)
         ELSE child'.table[0] = Null,
         IF BarAfter(typed, c)
         THEN \E j \in 1 .. Len(pipes') : child'.table[1] = Wr(j) /\ pipes'[j] = <<>>
         ELSE child'.table[1] = Out,
         child'.table[2] = Err
  PROVE  Plumbing'
<1>1. \A j : Rd(j)[1] = "read" /\ Rd(j)[2] = j /\ Wr(j)[1] = "write" /\ Wr(j)[2] = j
  BY DEF Rd, Wr
<1>2. IF BarBefore(typed, c)
      THEN /\ child'.table[0][1] = "read"
           /\ ~Written(child.table[0][2])'
           /\ \A i \in DOMAIN pipes'[child'.table[0][2]] :
                pipes'[child'.table[0][2]][i] = LeftOf(typed, c)
      ELSE child'.table[0] = Null
  <2>1. CASE BarBefore(typed, c)
    <3>1. PICK j \in 1 .. Len(pipes') :
            /\ child'.table[0] = Rd(j) /\ ~Written(j)'
            /\ \A i \in DOMAIN pipes'[j] : pipes'[j][i] = LeftOf(typed, c)
      BY <2>1
    <3>2. child'.table[0][1] = "read" /\ child'.table[0][2] = j
      BY <1>1, <3>1
    <3>3. ~Written(child.table[0][2])'
      BY <3>1, <3>2 DEF Written
    <3> QED BY <2>1, <3>1, <3>2, <3>3
  <2>2. CASE ~BarBefore(typed, c)
    BY <2>2
  <2> QED BY <2>1, <2>2
<1>3. IF BarAfter(typed, c)
      THEN child'.table[1][1] = "write" /\ pipes'[child'.table[1][2]] = <<>>
      ELSE child'.table[1] = Out
  BY <1>1
<1> QED BY <1>2, <1>3 DEF Plumbing

(* No child, nothing to show. *)
LEMMA IdlePlumbing ==
  ASSUME child' = NoChild \/ child'.state # "forked", child'.state = "running" => child'.at # 0,
         Spaced(typed)' /\ ~exhausted' /\ Working' => Channels'
  PROVE  PlumbingInv'
BY NoChildIdle DEF PlumbingInv, Plumbing

LEMMA ReadLinePlumbing ==
  ASSUME ShellInv, OrderInv, NEW l \in Lines, ReadLine(l) PROVE PlumbingInv'
<1>1. /\ stack = <<>> /\ stack' = <<>> /\ child' = NoChild
      /\ exhausted' = (exhausted \/ Nth(table, 3) = NONE)
  BY DEF ReadLine, OrderInv
<1>2. ASSUME ~exhausted', Working' PROVE Channels'
  <2>1. Nth(table, 3) # NONE
    BY <1>1, <1>2
  <2>2. Nth(table, 2) # NONE
    BY <2>1, NthBefore
  <2>3. Nth(table, 1) # NONE
    BY <2>2, NthBefore
  <2>4. table' = [table EXCEPT ![0] = Null, ![1] = Out, ![2] = Err] /\ pc' = "run"
    BY <2>1, <2>2, <2>3 DEF ReadLine
  <2>5. table'[0] = Null /\ table'[1] = Out /\ table'[2] = Err
    BY <2>4, TableType, LowFds DEF Tables
  <2>6. ~InPipe' /\ ~HasRest' /\ ~ (Depth > 0)'
    BY <1>1 DEF InPipe, HasRest, Depth
  <2> QED BY <2>4, <2>5, <2>6 DEF Channels
<1> QED BY <1>1, <1>2, IdlePlumbing, NoChildIdle

(* Where the place in the line says the shell is in a pipeline. *)
LEMMA SequenceIsFirst ==
  ASSUME ShellInv, OrderInv, Spaced(typed), RunSequence PROVE stack = <<>>
<1>1. PICK sep \in Find(text, at, {"semicolon"}) : TRUE
  BY DEF RunSequence
<1>2. pc = "run" /\ RestIsTyped /\ Here = at
  BY DEF RunSequence, OrderInv, Working, Here
<1>3. "end" \notin {"semicolon"}
  OBVIOUS
<1>4. sep \in at .. Stop - 1 /\ typed[sep] = "semicolon"
  BY <1>1, <1>2, <1>3, FindInRest
<1> QED BY <1>2, <1>4 DEF RestIsTyped

LEMMA RunSequencePlumbing ==
  ASSUME ShellInv, OrderInv, PlumbingInv, RunSequence PROVE PlumbingInv'
<1>1. PICK frame : stack' = <<frame>> \o stack /\ frame.f = "sequence"
  BY SMTT(30) DEF RunSequence
<1>2. pc = "run" /\ pc' = "run" /\ UNCHANGED <<table, pipes, child, typed, exhausted, at>>
      /\ child = NoChild
  BY DEF RunSequence, OrderInv
<1>3. ASSUME Spaced(typed), ~exhausted PROVE Channels'
  <2>1. stack = <<>>
    BY <1>3, SequenceIsFirst
  <2>2. stack' = <<frame>>
    BY <1>1, <2>1
  <2>3. Len(stack') = 1 /\ stack' # <<>> /\ stack'[1] = frame /\ Head(stack') = frame
    BY <2>2
  <2>4. ~InPipe /\ ~InPipe' /\ ~ (Depth > 0)'
    BY <1>1, <2>1, <2>3 DEF InPipe, HasRest, Depth
  <2>5. Channels
    BY <1>2, <1>3 DEF PlumbingInv, Working
  <2> QED BY <1>2, <2>4, <2>5 DEF Channels
<1>4. Spaced(typed)' => Spaced(typed)
  BY <1>2 DEF Spaced
<1> QED BY <1>2, <1>3, <1>4, IdlePlumbing, NoChildIdle

(* Which frame is the first call of run_pipeline. *)
LEMMA DepthType ==
  ASSUME ShellInv
  PROVE  /\ Depth \in Nat /\ Depth <= Len(stack)
         /\ InPipe => Depth > 0
BY LineTypes DEF Depth, HasRest, InPipe

LEMMA PushDepth ==
  ASSUME ShellInv, NEW frame \in Frames, frame.f = "pipeline", stack' = <<frame>> \o stack
  PROVE  /\ InPipe' /\ HasRest' = HasRest /\ Depth' = Depth + 1
         /\ Head(stack') = frame
         /\ stack'[Depth + 1] = IF Depth = 0 THEN frame ELSE stack[Depth]
         /\ Held(stack') = Held(stack) \cup {frame.fd0}
<1>1. /\ stack \in Seq(Frames) /\ Len(stack) \in Nat /\ Depth \in Nat /\ Depth <= Len(stack)
  BY LineTypes, DepthType
<1>2. /\ stack' # <<>> /\ Len(stack') = Len(stack) + 1
      /\ Head(stack') = frame /\ stack'[1] = frame
      /\ \A i \in 1 .. Len(stack) : stack'[i + 1] = stack[i]
      /\ stack = <<>> => Len(stack) = 0
      /\ stack # <<>> => Len(stack) \in 1 .. Len(stack)
  BY <1>1, PushFrame
<1>3. HasRest' = HasRest
  <2>1. CASE stack = <<>>
    BY <1>2, <2>1 DEF HasRest
  <2>2. CASE stack # <<>>
    <3>1. stack'[Len(stack')] = stack[Len(stack)]
      BY <1>2, <2>2
    <3> QED BY <1>2, <2>2, <3>1 DEF HasRest
  <2> QED BY <2>1, <2>2
<1>4. Depth' = Depth + 1
  BY <1>1, <1>2, <1>3 DEF Depth
<1>5. Held(stack') = Held(stack) \cup {frame.fd0}
  <2>1. Held(<<frame>> \o stack) = Held(stack) \cup {frame.fd0}
    BY <1>1, Push
  <2> QED BY <2>1
<1>6. stack'[Depth + 1] = IF Depth = 0 THEN frame ELSE stack[Depth]
  <2>1. Depth # 0 => Depth \in 1 .. Len(stack)
    BY <1>1
  <2> QED BY <1>2, <2>1
<1> QED BY <1>2, <1>3, <1>4, <1>5, <1>6 DEF InPipe

LEMMA PopDepth ==
  ASSUME ShellInv, RestIsTyped, stack # <<>>, Head(stack).f = "pipeline", stack' = Tail(stack)
  PROVE  /\ HasRest' = HasRest /\ Depth' = Depth - 1 /\ Depth > 0
         /\ Depth > 1 => stack'[Depth - 1] = stack[Depth]
         /\ ~InPipe' => Depth = 1 /\ stack[Depth] = Head(stack)
<1>1. /\ stack \in Seq(Frames) /\ Head(stack) = stack[1]
      /\ Len(stack) \in Nat \ {0} /\ stack' = <<>> <=> Len(stack) = 1
      /\ Len(stack') = Len(stack) - 1
      /\ \A i \in 1 .. Len(stack) - 1 : stack'[i] = stack[i + 1]
      /\ stack' \in Seq(Frames)
  BY LineTypes, PopFrame
<1>2. HasRest' = HasRest
  <2>1. CASE Len(stack) = 1
    BY <1>1, <2>1 DEF HasRest
  <2>2. CASE Len(stack) # 1
    <3>1. Len(stack) - 1 \in 1 .. Len(stack) - 1 /\ Len(stack) - 1 + 1 = Len(stack)
      BY <1>1, <2>2
    <3>2. stack'[Len(stack')] = stack[Len(stack)] /\ stack' # <<>>
      BY <1>1, <2>2, <3>1
    <3> QED BY <3>2 DEF HasRest
  <2> QED BY <2>1, <2>2
<1>3. Depth' = Depth - 1 /\ Depth \in Nat /\ Depth > 0
  <2>1. InPipe
    BY DEF InPipe
  <2> QED BY <1>1, <1>2, <2>1, DepthType DEF Depth
<1>4. Depth > 1 => stack'[Depth - 1] = stack[Depth]
  <2>1. Depth > 1 => Depth - 1 \in 1 .. Len(stack) - 1 /\ Depth - 1 + 1 = Depth
    BY <1>1, <1>3, DepthType
  <2> QED BY <1>1, <2>1
<1>5. ASSUME ~InPipe' PROVE Depth = 1
  <2>1. CASE Len(stack) = 1
    BY <1>1, <2>1, <1>3, DepthType
  <2>2. CASE Len(stack) # 1
    <3>1. stack' # <<>> /\ 1 \in 1 .. Len(stack) - 1 /\ Head(stack') = stack'[1]
      BY <1>1, <2>2
    <3>2. stack[2].f # "pipeline"
      BY <1>1, <1>5, <3>1 DEF InPipe
    <3>3. Len(stack) = 2
      <4>1. Len(stack) > 2 => 2 \in 1 .. Len(stack) - 1
        BY <1>1
      <4>2. 2 \in 1 .. Len(stack) - 1 => stack[2].f = "pipeline"
        BY DEF RestIsTyped
      <4> QED BY <1>1, <2>2, <3>2, <4>1, <4>2
    <3>4. HasRest
      <4>1. 2 \in 1 .. Len(stack)
        BY <3>3
      <4>2. stack[2] \in Frames
        BY <1>1, <4>1, ElementOfSeq
      <4>3. stack[2].f \in {"sequence", "pipeline"}
        BY <4>2 DEF Frames
      <4> QED BY <3>2, <3>3, <4>3 DEF HasRest
    <3> QED BY <3>3, <3>4 DEF Depth
  <2> QED BY <2>1, <2>2
<1> QED BY <1>1, <1>2, <1>3, <1>4, <1>5

(* What a command that is called finds on 0, given what the shell has      *)
(* there. *)
LEMMA InputFits ==
  ASSUME ShellInv, OrderInv, Spaced(typed), Channels, pc = "run", NEW c, Before(typed, c) = Front
  PROVE  IF BarBefore(typed, c)
         THEN \E k \in 1 .. Len(pipes) :
                /\ table[0] = Rd(k)
                /\ \A i \in DOMAIN pipes[k] : pipes[k][i] = LeftOf(typed, c)
         ELSE table[0] = Null
<1>1. RestIsTyped /\ Begins /\ Here = at /\ at \in Nat \ {0} /\ Stop \in at .. Len(typed) + 1
  BY DEF OrderInv, Working, RestIsTyped, Here
<1>2. Front # 0 => typed[Front] = IF InPipe THEN "bar" ELSE "semicolon"
  <2>1. at \in at .. Stop /\ \A j \in at .. at - 1 : FALSE
    BY <1>1, LineTypes
  <2> QED BY <1>1, <2>1, FrontPiece
<1>3. CASE InPipe
  <2>1. at > 2 /\ Front = at - 2
    BY <1>1, <1>3 DEF Begins, Front
  <2>2. BarBefore(typed, c)
    BY <1>1, <1>2, <1>3, <2>1 DEF BarBefore
  <2>3. /\ Len(pipes) \in 1 .. Len(pipes) /\ table[0] = Rd(Len(pipes))
        /\ WrittenBy(Len(pipes), at - 2)
    BY <1>3, StackType DEF Channels
  <2> QED BY <2>1, <2>2, <2>3 DEF WrittenBy, LeftOf
<1>4. CASE ~InPipe
  <2>1. ~BarBefore(typed, c)
    BY <1>2, <1>4 DEF BarBefore
  <2> QED BY <1>4, <2>1 DEF Channels
<1> QED BY <1>3, <1>4

LEMMA FreshPipe ==
  ASSUME ShellInv, ShellInv', NEW k, k \in 1 .. Len(pipes), pc' # "waitLeft" \/ Len(pipes') > Len(pipes)
  PROVE  ~Written(k)'
<1>1. Len(pipes) \in Nat
  BY DEF ShellInv, ShellTypeOK
<1> SUFFICES ASSUME NEW d \in Fds, table'[d] = Wr(k) \/ child'.table[d] = Wr(k) PROVE FALSE
  BY DEF Written
<1>2. Wr(k)[1] = "write"
  BY DEF Wr
<1>3. pc' = "waitLeft" /\ Wr(k) = Wr(Len(pipes'))
  BY <1>2 DEF ShellInv, ShellWrites, ChildWrites
<1>4. k = Len(pipes')
  BY <1>3 DEF Wr
<1> QED BY <1>1, <1>3, <1>4

(* The separator behind a place. *)
LEMMA AfterIs ==
  ASSUME NEW l \in Seq(Tokens), NEW sep \in Separators(l), NEW p \in Nat, NEW c \in p .. sep - 1,
         \A j \in p .. sep - 1 : j \notin Separators(l)
  PROVE  LET S == {s \in Separators(l) : s > c} IN S # {} /\ Min(S) = sep
<1> DEFINE S == {s \in Separators(l) : s > c}
<1>1. /\ Separators(l) \in SUBSET Nat /\ sep \in Nat /\ c \in Nat /\ p <= c /\ c < sep
  BY SeparatorsType
<1>2. sep \in S /\ S \in SUBSET Nat
  BY <1>1
<1>3. \A s \in S : sep <= s
  <2> SUFFICES ASSUME NEW s \in Separators(l), s > c PROVE sep <= s
    OBVIOUS
  <2>1. s < sep => s \in p .. sep - 1
    BY <1>1
  <2> QED BY <1>1, <2>1
<1>4. Min(S) = sep
  <2> HIDE DEF S
  <2> QED BY <1>2, <1>3, MinIs
<1> QED BY <1>2, <1>4

LEMMA NoneAfter ==
  ASSUME NEW l \in Seq(Tokens), NEW e \in Nat, NEW p \in Nat, NEW c \in p .. e - 1,
         \A j \in p .. e - 1 : j \notin Separators(l),
         e <= Len(l) => l[e] = "semicolon"
  PROVE  ~BarAfter(l, c)
<1>1. Separators(l) \in SUBSET (1 .. Len(l)) /\ Len(l) \in Nat
  BY SeparatorsType
<1>2. CASE e <= Len(l)
  <2>1. e \in 1 .. Len(l)
    BY <1>1, <1>2
  <2>2. e \in Separators(l) /\ l[e] # "bar"
    BY <1>2, <2>1 DEF Separators
  <2> QED BY <2>2, AfterIs DEF BarAfter
<1>3. CASE e > Len(l)
  <2>1. \A s \in Separators(l) : ~ (s > c)
    <3> TAKE s \in Separators(l)
    <3>1. s > c => s \in p .. e - 1
      BY <1>1, <1>3
    <3> QED BY <3>1
  <2> QED BY <2>1 DEF BarAfter
<1> QED BY <1>1, <1>2, <1>3

(* The four descriptors run_pipeline takes, and the two tables. *)
LEMMA NewPipe ==
  ASSUME ShellInv, Nth(table, 4) # NONE
  PROVE  LET k   == Len(pipes) + 1
             fd0 == Nth(table, 1)
             fd1 == Nth(table, 2)
             org == Nth(table, 3)
             out == Nth(table, 4)
             new == Put(Put(Put(Put(table, fd0, Rd(k)), fd1, Wr(k)), org, table[0]),
                        out, table[1])
             forked == [new EXCEPT ![1] = Wr(k), ![fd0] = Closed]
         IN
         /\ {fd0, fd1, org, out} \subseteq Free(table) /\ {fd0, fd1, org, out} \subseteq Fds
         /\ fd0 # fd1 /\ fd0 # org /\ fd0 # out /\ fd1 # org /\ fd1 # out /\ org # out
         /\ \A d \in 0 .. 5 : d \notin {fd0, fd1, org, out}
         /\ \A d \in {fd0, fd1, org, out} : table[d] = Closed
         /\ new \in Tables /\ new[fd0] = Rd(k) /\ new[fd1] = Wr(k) /\ new[org] = table[0]
         /\ \A d \in Fds : d \notin {fd0, fd1, org, out} => new[d] = table[d]
         /\ \A d \in {0, 1, 2} : new[d] = table[d] /\ d \in Fds /\ d # fd0
         /\ forked \in Tables /\ forked[0] = table[0] /\ forked[1] = Wr(k) /\ forked[2] = table[2]
<1> DEFINE k   == Len(pipes) + 1
           fd0 == Nth(table, 1)
           fd1 == Nth(table, 2)
           org == Nth(table, 3)
           out == Nth(table, 4)
           new == Put(Put(Put(Put(table, fd0, Rd(k)), fd1, Wr(k)), org, table[0]),
                      out, table[1])
           forked == [new EXCEPT ![1] = Wr(k), ![fd0] = Closed]
<1> SUFFICES
      /\ {fd0, fd1, org, out} \subseteq Free(table) /\ {fd0, fd1, org, out} \subseteq Fds
      /\ fd0 # fd1 /\ fd0 # org /\ fd0 # out /\ fd1 # org /\ fd1 # out /\ org # out
      /\ \A d \in 0 .. 5 : d \notin {fd0, fd1, org, out}
      /\ \A d \in {fd0, fd1, org, out} : table[d] = Closed
      /\ new \in Tables /\ new[fd0] = Rd(k) /\ new[fd1] = Wr(k) /\ new[org] = table[0]
      /\ \A d \in Fds : d \notin {fd0, fd1, org, out} => new[d] = table[d]
      /\ \A d \in {0, 1, 2} : new[d] = table[d] /\ d \in Fds /\ d # fd0
      /\ forked \in Tables /\ forked[0] = table[0] /\ forked[1] = Wr(k) /\ forked[2] = table[2]
  OBVIOUS
<1> HIDE DEF forked, new
<1>0. k \in Nat /\ table \in Tables
  <2>1. Len(pipes) \in Nat
    BY DEF ShellInv, ShellTypeOK
  <2> QED BY <2>1, TableType
<1>1. /\ {fd0, fd1, org, out} \subseteq Free(table) /\ {fd0, fd1, org, out} \subseteq Fds
      /\ fd0 # fd1 /\ fd0 # org /\ fd0 # out /\ fd1 # org /\ fd1 # out /\ org # out
      /\ \A d \in 0 .. 5 : d \notin {fd0, fd1, org, out}
      /\ \A d \in {fd0, fd1, org, out} : table[d] = Closed
  <2>2. /\ {fd0, fd1, org, out} \subseteq Free(table)
        /\ fd0 # fd1 /\ fd0 # org /\ fd0 # out /\ fd1 # org /\ fd1 # out /\ org # out
    BY FourFree
  <2>3. \A d \in Free(table) : table[d] = Closed /\ d \in Fds
    BY DEF Free
  <2>4. \A d \in 0 .. 5 : table[d] # Closed
    BY DEF ShellInv, KeepsTty
  <2> HIDE DEF fd0, fd1, org, out
  <2> QED BY <2>2, <2>3, <2>4
<1>2. /\ new \in Tables /\ new[fd0] = Rd(k) /\ new[fd1] = Wr(k) /\ new[org] = table[0]
       /\ \A d \in Fds : d \notin {fd0, fd1, org, out} => new[d] = table[d]
  <2> DEFINE t1 == Put(table, fd0, Rd(k))
             t2 == Put(t1, fd1, Wr(k))
             f0 == table[0]
             f1 == table[1]
             t3 == Put(t2, org, f0)
  <2>1. Rd(k) \in Files /\ Wr(k) \in Files /\ f0 \in Files /\ f1 \in Files
    BY <1>0, FileKinds, LowFds DEF Tables
  <2>3. fd0 \in Fds /\ fd1 \in Fds /\ org \in Fds /\ out \in Fds
    BY <1>1
  <2> HIDE DEF k, fd0, fd1, org, out, f0, f1
  <2>4. t1 \in Tables /\ t1[fd0] = Rd(k) /\ \A x \in Fds : x # fd0 => t1[x] = table[x]
    BY <1>0, <2>1, <2>3, PutIs
  <2> HIDE DEF t1
  <2>5. t2 \in Tables /\ t2[fd1] = Wr(k) /\ \A x \in Fds : x # fd1 => t2[x] = t1[x]
    BY <2>1, <2>3, <2>4, PutIs
  <2> HIDE DEF t2
  <2>6. t3 \in Tables /\ t3[org] = f0 /\ \A x \in Fds : x # org => t3[x] = t2[x]
    BY <2>1, <2>3, <2>5, PutIs
  <2> HIDE DEF t3
  <2> DEFINE t4 == Put(t3, out, f1)
  <2>7. t4 \in Tables /\ \A x \in Fds : x # out => t4[x] = t3[x]
    BY <2>1, <2>3, <2>6, PutIs
  <2>8. new = t4
    BY DEF new, t4, t1, t2, t3, f0, f1
  <2> HIDE DEF t4
  <2> QED BY <1>1, <2>3, <2>4, <2>5, <2>6, <2>7, <2>8 DEF f0
<1> HIDE DEF k, fd0, fd1, org, out
<1>3. \A d \in {0, 1, 2} : new[d] = table[d] /\ d \in Fds /\ d # fd0
  BY <1>1, <1>2, LowFds
<1>4. /\ forked \in Tables /\ forked[0] = table[0] /\ forked[1] = Wr(k) /\ forked[2] = table[2]
  <2>1. Wr(k) \in Files /\ fd0 \in Fds /\ fd0 \notin {0, 1, 2}
    BY <1>1, <1>0, <1>3, FileKinds
  <2>2. forked = [new EXCEPT ![1] = Wr(k), ![fd0] = Closed]
    BY DEF forked
  <2>3. forked \in Tables /\ forked[0] = new[0] /\ forked[1] = Wr(k) /\ forked[2] = new[2]
    BY <1>2, <2>1, <2>2, ForkedIs
  <2> QED BY <1>3, <2>3
<1> QED BY <1>1, <1>2, <1>3, <1>4

LEMMA RunPipelinePlumbing ==
  ASSUME ShellInv, OrderInv, LeakInv, PlumbingInv, RunPipeline PROVE PlumbingInv'
<1> DEFINE k   == Len(pipes) + 1
           fd0 == Nth(table, 1)
           fd1 == Nth(table, 2)
           org == Nth(table, 3)
           out == Nth(table, 4)
           new == Put(Put(Put(Put(table, fd0, Rd(k)), fd1, Wr(k)), org, table[0]),
                      out, table[1])
           forked == [new EXCEPT ![1] = Wr(k), ![fd0] = Closed]
<1>1. PICK sep \in Bars :
        /\ text' = Cut(sep)
        /\ stack' = <<[f |-> "pipeline", fd0 |-> fd0, fd1 |-> fd1,
                       origin |-> org, tail |-> Behind(sep)]>> \o stack
        /\ Fork(forked, Find(Cut(sep), at, Commands))
  BY DEF RunPipeline
<1>2. /\ pc = "run" /\ pipes' = Append(pipes, <<>>) /\ table' = new
      /\ pc' = "waitLeft" /\ exhausted' = (exhausted \/ out = NONE)
      /\ typed' = typed /\ at' = at
  BY DEF RunPipeline
<1>3. ShellInv'
  BY RunPipelineInv
<1> DEFINE frame == [f |-> "pipeline", fd0 |-> fd0, fd1 |-> fd1,
                     origin |-> org, tail |-> Behind(sep)]
<1>4. frame.f = "pipeline" /\ frame.fd0 = fd0 /\ frame.fd1 = fd1 /\ frame.origin = org
      /\ frame.tail = sep + 1 /\ stack' = <<frame>> \o stack
  BY <1>1 DEF Behind
<1> HIDE DEF frame, forked, new
<1>5. frame \in Frames
  <2>1. stack \in Seq(Frames) /\ stack' \in Seq(Frames)
    BY <1>3 DEF ShellInv, ShellTypeOK
  <2>2. frame = stack'[1] /\ 1 \in DOMAIN stack'
    BY <1>4, <2>1
  <2> QED BY <2>1, <2>2
<1>6. SUFFICES ASSUME Spaced(typed), ~exhausted'
               PROVE  Channels' /\ Plumbing'
  <2>1. Spaced(typed)' => Spaced(typed)
    BY <1>2 DEF Spaced
  <2>2. child'.state = "running" => FALSE
    BY <1>1, NoChildIdle DEF Fork, NoChild
  <2> QED BY <1>6, <2>1, <2>2 DEF PlumbingInv, Plumbing
<1>7. /\ RestIsTyped /\ Begins /\ CalledUpTo(at) /\ Here = at /\ Channels /\ Balance
  BY <1>2, <1>6 DEF OrderInv, PlumbingInv, LeakInv, Working, Here
<1>8. /\ sep \in at .. Stop - 1 /\ sep \in 1 .. Len(typed) /\ typed[sep] = "bar"
      /\ \A j \in at .. sep - 1 : j \notin Separators(typed)
      /\ Piece(typed, Front, at, sep)
      /\ Find(Cut(sep), at, Commands) = First(typed, at, sep)
      /\ sep \in Separators(typed) /\ Before(typed, sep) = Front
  BY <1>2, <1>6, <1>7, BarFound
<1>9. /\ {fd0, fd1, org, out} \subseteq Free(table) /\ {fd0, fd1, org, out} \subseteq Fds
      /\ fd0 # fd1 /\ fd0 # org /\ fd0 # out /\ fd1 # org /\ fd1 # out /\ org # out
      /\ \A d \in 0 .. 5 : d \notin {fd0, fd1, org, out}
      /\ \A d \in {fd0, fd1, org, out} : table[d] = Closed
      /\ new \in Tables /\ new[fd0] = Rd(k) /\ new[fd1] = Wr(k) /\ new[org] = table[0]
      /\ \A d \in Fds : d \notin {fd0, fd1, org, out} => new[d] = table[d]
      /\ \A d \in {0, 1, 2} : new[d] = table[d] /\ d \in Fds /\ d # fd0
      /\ forked \in Tables /\ forked[0] = table[0] /\ forked[1] = Wr(k) /\ forked[2] = table[2]
  <2>1. Nth(table, 4) # NONE
    BY <1>2, <1>6
  <2> QED BY <2>1, NewPipe DEF new, forked
<1>10. k \in Nat /\ Len(pipes) \in Nat /\ pipes \in Seq(Seq(Nat)) /\ table \in Tables
       /\ Len(pipes') = k /\ pipes'[k] = <<>> /\ \A i \in 1 .. Len(pipes) : pipes'[i] = pipes[i]
  <2>1. pipes \in Seq(Seq(Nat)) /\ Len(pipes) \in Nat /\ <<>> \in Seq(Nat)
    BY DEF ShellInv, ShellTypeOK
  <2> QED BY <1>2, <2>1, TableType, AppendProperties
<1> HIDE DEF k, fd0, fd1, org, out
<1>14. /\ CalledUpTo(sep)'
       /\ \/ child' = NoChild \/ child'.at = 0
          \/ /\ child'.at \in First(typed, at, sep) /\ child'.at = CommandAfter(typed, Front)
             /\ Before(typed, child'.at) = Front
  <2>1. Fork(forked, First(typed, at, sep))
    BY <1>1, <1>8
  <2> QED BY <1>2, <1>7, <1>8, <2>1, CalledNext
<1>15. /\ InPipe' /\ HasRest' = HasRest /\ Depth' = Depth + 1 /\ Head(stack') = frame
       /\ stack'[Depth + 1] = IF Depth = 0 THEN frame ELSE stack[Depth]
       /\ Held(stack') = Held(stack) \cup {fd0} /\ Depth \in Nat
  BY <1>4, <1>5, PushDepth, DepthType
<1>16. Here' = sep + 1 /\ Here' - 1 = sep /\ Writing' = {fd1}
  BY <1>2, <1>4, <1>8, <1>15, LineTypes DEF Here, Writing
<1>17. Channels'
  <2>1. table'[1] = Out /\ table'[2] = Err
    BY <1>2, <1>7, <1>9 DEF Channels
  <2>2. WrittenBy(Len(pipes), Here - 1)'
    BY <1>10 DEF WrittenBy
  <2>3. Head(stack').fd0 \in Fds /\ table'[Head(stack').fd0] = Rd(Len(pipes'))
    BY <1>2, <1>4, <1>9, <1>10, <1>15
  <2>4. child'.at # 0 => child'.at = CommandAfter(typed, Before(typed, Here - 1))'
    <3>1. CommandAfter(typed, Before(typed, Here - 1))' = CommandAfter(typed, Front)
      BY <1>2, <1>8, <1>16
    <3> QED BY <1>14, <3>1, NoChildIdle
  <2>5. /\ stack'[Depth'].origin \in Fds /\ table'[stack'[Depth'].origin] = Null
        /\ stack'[Depth'].origin \notin Held(stack') \cup Writing'
    <3>0. Held(stack) \subseteq Open
      BY <1>7 DEF Balance
    <3>1. CASE Depth = 0
      <4>1. stack'[Depth'].origin = org /\ table[0] = Null
        BY <1>4, <1>7, <1>15, <3>1, DepthType DEF Channels
      <4>2. org \notin Held(stack)
        BY <1>9, <3>0 DEF Open
      <4> QED BY <1>2, <1>9, <1>15, <1>16, <4>1, <4>2
    <3>2. CASE Depth # 0
      <4> DEFINE o == stack[Depth].origin
      <4>1. stack'[Depth'] = stack[Depth] /\ Depth > 0
        BY <1>15, <3>2
      <4>2. o \in Fds /\ table[o] = Null /\ o \notin Held(stack)
        BY <1>7, <4>1 DEF Channels
      <4>3. o \notin {fd0, fd1, org, out}
        BY <1>9, <4>2, NotClosed
      <4> QED BY <1>2, <1>9, <1>15, <1>16, <4>1, <4>2, <4>3
    <3> QED BY <3>1, <3>2
  <2>6. Len(pipes') > 0 /\ pc' # "run"
    BY <1>2, <1>10
  <2> QED BY <1>15, <2>1, <2>2, <2>3, <2>4, <2>5, <2>6 DEF Channels
<1>18. Plumbing'
  <2> DEFINE c == child'.at
  <2> SUFFICES ASSUME child'.state = "forked", c # 0 PROVE Plumbing'
    BY DEF Plumbing
  <2>1. c \in First(typed, at, sep) /\ Before(typed, c) = Front
    BY <1>14, NoChildIdle
  <2>2. child'.table = forked
    BY <1>1, NoChildIdle DEF Fork, NoChild
  <2>3. BarAfter(typed, c)
    <3>1. c \in at .. sep - 1
      BY <2>1 DEF First
    <3>2. typed \in Seq(Tokens) /\ at \in Nat /\ sep \in Nat
      BY <1>8, LineTypes
    <3> HIDE DEF c
    <3> QED BY <1>8, <3>1, <3>2, AfterIs DEF BarAfter
  <2>4. \E j \in 1 .. Len(pipes') : child'.table[1] = Wr(j) /\ pipes'[j] = <<>>
    BY <1>10, <1>9, <2>2 DEF k
  <2>5. child'.table[2] = Err
    BY <1>7, <1>9, <2>2 DEF Channels
  <2>6. IF BarBefore(typed, c)
        THEN \E j \in 1 .. Len(pipes') :
               /\ child'.table[0] = Rd(j) /\ ~Written(j)'
               /\ \A i \in DOMAIN pipes'[j] : pipes'[j][i] = LeftOf(typed, c)
        ELSE child'.table[0] = Null
    <3> HIDE DEF c
    <3>1. CASE BarBefore(typed, c)
      <4>1. PICK j \in 1 .. Len(pipes) :
              /\ table[0] = Rd(j)
              /\ \A i \in DOMAIN pipes[j] : pipes[j][i] = LeftOf(typed, c)
        BY <1>2, <1>6, <1>7, <2>1, <3>1, InputFits
      <4>2. pipes'[j] = pipes[j] /\ j \in 1 .. Len(pipes')
        BY <1>10 DEF k
      <4>3. ~Written(j)'
        <5>1. Len(pipes') > Len(pipes)
          BY <1>10 DEF k
        <5> QED BY <1>3, <5>1, FreshPipe
      <4> QED BY <1>9, <2>2, <3>1, <4>1, <4>2, <4>3
    <3>2. CASE ~BarBefore(typed, c)
      <4>1. table[0] = Null
        BY <1>2, <1>6, <1>7, <2>1, <3>2, InputFits
      <4> QED BY <1>9, <2>2, <3>2, <4>1
    <3> QED BY <3>1, <3>2
  <2> HIDE DEF c
  <2>7. c = child'.at
    BY DEF c
  <2> QED BY <1>2, <2>3, <2>4, <2>5, <2>6, <2>7, ChildPlumbed
<1> QED BY <1>17, <1>18

(* The copy of 0 is none of the descriptors the shell works on. *)
LEMMA OriginIsHigh ==
  ASSUME ShellInv, Depth > 0, stack[Depth].origin \in Fds
  PROVE  stack[Depth].origin \in High /\ stack[Depth].origin \notin {0, 1, 2}
<1>1. Depth \in DOMAIN stack
  BY DepthType, LineTypes
<1> QED BY <1>1, LowFds DEF ShellInv, HighFrames, High

LEMMA StartRightPlumbing ==
  ASSUME ShellInv, OrderInv, LeakInv, PlumbingInv, StartRight PROVE PlumbingInv'
<1> DEFINE p  == Head(stack)
           t1 == Dup2(table, p.fd0, 0)
           o  == stack[Depth].origin
<1>1. /\ pc = "waitLeft" /\ pc' = "run" /\ child' = NoChild
      /\ table' = Close(t1, p.fd1) /\ at' = p.tail + 1
      /\ UNCHANGED <<pipes, typed, stack, exhausted>>
  BY DEF StartRight, Switch, input
<1>2. SUFFICES ASSUME Spaced(typed), ~exhausted PROVE Channels'
  <2>1. Spaced(typed)' => Spaced(typed)
    BY <1>1 DEF Spaced
  <2> QED BY <1>1, <1>2, <2>1, IdlePlumbing, NoChildIdle
<1>3. Channels /\ Begins /\ RestIsTyped /\ Here = p.tail /\ Here \in Nat
  BY <1>1, <1>2 DEF PlumbingInv, OrderInv, Working, Here, RestIsTyped
<1>4. /\ InPipe /\ p.fd0 \in Fds /\ table[p.fd0] = Rd(Len(pipes)) /\ Len(pipes) > 0
      /\ WrittenBy(Len(pipes), Here - 1) /\ Len(pipes) \in Nat
      /\ table[1] = Out /\ table[2] = Err
  BY <1>1, <1>3, StackType DEF Channels, Begins
<1>5. p.fd1 \in High \cup {NONE} /\ p.fd1 \in Fds \cup {NONE} /\ p.fd1 \notin {0, 1, 2}
      /\ (p.fd1 = p.fd0 => FALSE)
  <2>1. stack # <<>>
    BY <1>4 DEF InPipe
  <2> QED BY <1>4, <2>1, TopType, LowFds DEF High
<1>6. /\ InPipe' /\ HasRest' = HasRest /\ Depth' = Depth /\ Depth > 0
      /\ Held(stack') = Held(stack) /\ Writing' = {} /\ Writing = {p.fd1} /\ at' - 2 = Here - 1
  <2>1. InPipe' /\ HasRest' = HasRest
    BY <1>1, <1>4 DEF InPipe, HasRest
  <2>2. Depth' = Depth /\ Depth > 0
    BY <1>1, <1>4, <2>1, DepthType DEF Depth
  <2> QED BY <1>1, <1>3, <2>1, <2>2 DEF Writing
<1>7. o \in Fds /\ table[o] = Null /\ o \notin Held(stack) /\ o # p.fd1 /\ o # 0
  BY <1>3, <1>6, OriginIsHigh DEF Channels
<1> HIDE DEF p
<1>8. /\ t1 \in Tables /\ t1[0] = Rd(Len(pipes)) /\ \A x \in Fds : x # 0 => t1[x] = table[x]
  <2>1. table[p.fd0] # Closed
    BY <1>4, NotClosed
  <2>2. p.fd0 # NONE
    BY <1>4, LowFds
  <2>3. t1 = [table EXCEPT ![0] = table[p.fd0]]
    BY <2>1, <2>2 DEF Dup2
  <2> HIDE DEF t1
  <2>4. table[p.fd0] \in Files /\ table \in Tables
    BY <1>4, TableType DEF Tables
  <2> QED BY <1>4, <2>3, <2>4, LowFds DEF Tables
<1> HIDE DEF t1
<1>9. \A x \in Fds : x # p.fd1 => table'[x] = t1[x]
  BY <1>1, <1>5, <1>8, CloseType
<1>10. /\ table'[0] = Rd(Len(pipes)) /\ table'[1] = Out /\ table'[2] = Err
  BY <1>4, <1>5, <1>8, <1>9, LowFds
<1>11. table'[o] = Null
  BY <1>7, <1>8, <1>9
<1>12. WrittenBy(Len(pipes), at - 2)' /\ Len(pipes) \in 1 .. Len(pipes')
  BY <1>1, <1>4, <1>6 DEF WrittenBy
<1>13. stack'[Depth'] = stack[Depth]
  BY <1>1, <1>6
<1>14. Len(pipes') > 0 /\ table'[0] = Rd(Len(pipes')) /\ WrittenBy(Len(pipes), at - 2)'
  BY <1>1, <1>4, <1>10, <1>12
<1> QED BY <1>1, <1>6, <1>7, <1>10, <1>11, <1>13, <1>14 DEF Channels

LEMMA RunCommandPlumbing ==
  ASSUME ShellInv, OrderInv, PlumbingInv, RunCommand PROVE PlumbingInv'
<1>1. /\ pc = "run" /\ pc' = "wait" /\ UNCHANGED <<table, pipes, typed, stack, exhausted>>
      /\ Find(text, at, {"semicolon", "bar"}) = {}
      /\ Fork(table, Find(text, at, Commands))
  BY DEF RunCommand, input, calls
<1>2. SUFFICES ASSUME Spaced(typed), ~exhausted PROVE Channels' /\ Plumbing'
  <2>1. Spaced(typed)' => Spaced(typed)
    BY <1>1 DEF Spaced
  <2>2. child'.state # "running"
    BY <1>1, NoChildIdle DEF Fork, NoChild
  <2> QED BY <1>1, <1>2, <2>1, <2>2 DEF PlumbingInv, Plumbing
<1>3. RestIsTyped /\ Begins /\ CalledUpTo(at) /\ Here = at /\ Channels
  BY <1>1, <1>2 DEF OrderInv, PlumbingInv, Working, Here
<1>4. Channels'
  <2>1. InPipe' = InPipe /\ HasRest' = HasRest /\ Depth' = Depth /\ Writing' = Writing
    BY <1>1 DEF InPipe, HasRest, Depth, Writing
  <2> QED BY <1>1, <1>3, <2>1 DEF Channels
<1>5. at \in Nat \ {0} /\ Len(typed) \in Nat /\ Stop \in at .. Len(typed) + 1 /\ typed \in Seq(Tokens)
  BY <1>3, LineTypes DEF RestIsTyped
<1>6. \A j \in at .. Stop - 1 : j \notin Separators(typed)
  <2>1. "end" \notin {"semicolon", "bar"}
    OBVIOUS
  <2>2. \A j \in at .. Stop - 1 : typed[j] \notin {"semicolon", "bar"}
    BY <1>1, <1>3, <2>1, FindInRest
  <2> QED BY <2>2 DEF Separators
<1>7. Piece(typed, Front, at, Stop)
  BY <1>1, <1>2, <1>3, <1>5, <1>6, FrontPiece
<1>8. Find(text, at, Commands) = First(typed, at, Stop)
  BY <1>1, <1>3, TokensDiffer, FindInRest DEF First
<1>9. \/ child' = NoChild \/ child'.at = 0
      \/ child'.at \in First(typed, at, Stop) /\ Before(typed, child'.at) = Front
  BY <1>1, <1>3, <1>7, <1>8, CalledNext
<1>10. Plumbing'
  <2> DEFINE c == child'.at
  <2> SUFFICES ASSUME child'.state = "forked", c # 0 PROVE Plumbing'
    BY DEF Plumbing
  <2>1. c \in First(typed, at, Stop) /\ Before(typed, c) = Front
    BY <1>9, NoChildIdle
  <2>2. child'.table = table
    BY <1>1, NoChildIdle DEF Fork, NoChild
  <2>3. c = child'.at
    OBVIOUS
  <2> HIDE DEF c
  <2>4. ~BarAfter(typed, c)
    <3>1. c \in at .. Stop - 1 /\ at \in Nat /\ Stop \in Nat
      BY <1>5, <2>1 DEF First
    <3>2. Stop <= Len(typed) => typed[Stop] = "semicolon"
      BY <1>3, <1>5 DEF RestIsTyped, Stop
    <3> QED BY <1>5, <1>6, <3>1, <3>2, NoneAfter
  <2>5. IF BarBefore(typed, c)
        THEN \E j \in 1 .. Len(pipes') :
               /\ child'.table[0] = Rd(j) /\ ~Written(j)'
               /\ \A i \in DOMAIN pipes'[j] : pipes'[j][i] = LeftOf(typed, c)
        ELSE child'.table[0] = Null
    <3>1. CASE BarBefore(typed, c)
      <4>1. PICK j \in 1 .. Len(pipes) :
              /\ table[0] = Rd(j)
              /\ \A i \in DOMAIN pipes[j] : pipes[j][i] = LeftOf(typed, c)
        BY <1>1, <1>2, <1>3, <2>1, <3>1, InputFits
      <4>2. ~Written(j)'
        <5>1. ShellInv' /\ pc' # "waitLeft"
          BY <1>1, RunCommandInv
        <5> QED BY <5>1, FreshPipe
      <4> QED BY <1>1, <2>2, <3>1, <4>1, <4>2
    <3>2. CASE ~BarBefore(typed, c)
      <4>1. table[0] = Null
        BY <1>1, <1>2, <1>3, <2>1, <3>2, InputFits
      <4> QED BY <2>2, <3>2, <4>1
    <3> QED BY <3>1, <3>2
  <2>6. child'.table[1] = Out /\ child'.table[2] = Err
    BY <1>3, <2>2 DEF Channels
  <2> QED BY <1>1, <2>3, <2>4, <2>5, <2>6, ChildPlumbed
<1> QED BY <1>4, <1>10

LEMMA CommandEndedPlumbing ==
  ASSUME OrderInv, PlumbingInv, CommandEnded PROVE PlumbingInv'
<1>1. /\ pc = "wait" /\ pc' = "return" /\ child' = NoChild
      /\ UNCHANGED <<table, pipes, typed, stack, exhausted>>
  BY DEF CommandEnded, input, calls
<1>2. ASSUME Spaced(typed), ~exhausted PROVE Channels'
  <2>1. InPipe' = InPipe /\ HasRest' = HasRest /\ Depth' = Depth /\ Writing' = Writing
    BY <1>1 DEF InPipe, HasRest, Depth, Writing
  <2>2. Channels
    BY <1>1, <1>2 DEF PlumbingInv, Working
  <2> QED BY <1>1, <2>1, <2>2 DEF Channels
<1>3. Spaced(typed)' => Spaced(typed)
  BY <1>1 DEF Spaced
<1> QED BY <1>1, <1>2, <1>3, IdlePlumbing, NoChildIdle

(* run_sequence was the first call: 0 is /dev/null again. *)
LEMMA NextInSequencePlumbing ==
  ASSUME ShellInv, OrderInv, PlumbingInv, NextInSequence PROVE PlumbingInv'
<1>1. /\ pc = "return" /\ pc' = "run" /\ stack # <<>> /\ Head(stack).f = "sequence"
      /\ stack' = Tail(stack) /\ UNCHANGED <<table, pipes, child, typed, exhausted>>
  BY DEF NextInSequence, input
<1>2. child' = NoChild
  BY <1>1 DEF OrderInv
<1>3. ASSUME Spaced(typed), ~exhausted PROVE Channels'
  <2>1. RestIsTyped /\ Channels
    BY <1>1, <1>3 DEF OrderInv, PlumbingInv, Working
  <2>2. /\ stack \in Seq(Frames) /\ Head(stack) = stack[1]
        /\ Len(stack) \in Nat \ {0} /\ stack' = <<>> <=> Len(stack) = 1
    BY <1>1, LineTypes, PopFrame
  <2>3. Len(stack) > 1 => 1 \in 1 .. Len(stack) - 1
    BY <2>2
  <2>4. stack' = <<>>
    BY <1>1, <2>1, <2>2, <2>3 DEF RestIsTyped
  <2>5. Len(stack') = 0
    BY <2>4
  <2>6. ~InPipe' /\ ~ (Depth > 0)'
    BY <2>4, <2>5 DEF InPipe, HasRest, Depth
  <2>7. ~InPipe
    BY <1>1 DEF InPipe
  <2> QED BY <1>1, <2>1, <2>6, <2>7 DEF Channels
<1>4. Spaced(typed)' => Spaced(typed)
  BY <1>1 DEF Spaced
<1> QED BY <1>1, <1>2, <1>3, <1>4, IdlePlumbing, NoChildIdle

LEMMA EndPipelinePlumbing ==
  ASSUME ShellInv, OrderInv, LeakInv, PlumbingInv, EndPipeline PROVE PlumbingInv'
<1> DEFINE p  == Head(stack)
           t1 == Close(table, p.fd0)
           o  == stack[Depth].origin
<1>1. /\ pc = "return" /\ pc' = "return" /\ stack # <<>> /\ p.f = "pipeline"
      /\ table' = Dup2(t1, p.origin, 0) /\ stack' = Tail(stack)
      /\ UNCHANGED <<pipes, child, typed, exhausted>>
  BY DEF EndPipeline, Unhook, input
<1>2. child' = NoChild
  BY <1>1 DEF OrderInv
<1>3. SUFFICES ASSUME Spaced(typed), ~exhausted PROVE Channels'
  <2>1. Spaced(typed)' => Spaced(typed)
    BY <1>1 DEF Spaced
  <2> QED BY <1>1, <1>2, <1>3, <2>1, IdlePlumbing, NoChildIdle
<1>4. RestIsTyped /\ Channels /\ Balance
  BY <1>1, <1>3 DEF OrderInv, PlumbingInv, LeakInv, Working
<1>5. /\ HasRest' = HasRest /\ Depth' = Depth - 1 /\ Depth > 0 /\ Depth \in Nat
      /\ Depth > 1 => stack'[Depth - 1] = stack[Depth]
      /\ ~InPipe' => stack[Depth] = p
  BY <1>1, <1>4, PopDepth, DepthType
<1>6. /\ Held(stack) = Held(stack') \cup {p.fd0} /\ Writing' = {}
  <2>1. Held(stack) = Held(Tail(stack)) \cup {p.fd0}
    BY <1>1, <1>4, StackType, Pop DEF Balance
  <2> QED BY <1>1, <2>1 DEF Writing
<1>7. o \in Fds /\ table[o] = Null /\ o \notin Held(stack) /\ o \notin {0, 1, 2}
  BY <1>4, <1>5, OriginIsHigh DEF Channels
<1>8. p.fd0 \in High \cup {NONE} /\ p.origin \in Fds \cup {NONE} /\ p.fd0 \in Fds \cup {NONE}
      /\ p.fd0 \notin {0, 1, 2}
  BY <1>1, TopType, LowFds DEF High
<1> HIDE DEF p
<1>9. t1 \in Tables /\ \A x \in Fds : x # p.fd0 => t1[x] = table[x]
  BY <1>8, TableType, CloseType
<1> HIDE DEF t1
<1>10. \A x \in Fds : x # 0 => table'[x] = t1[x]
  <2>1. 0 \in Fds
    BY LowFds
  <2> DEFINE d == p.origin
  <2>2. table' = Dup2(t1, d, 0) /\ d \in Fds \cup {NONE} /\ t1 \in Tables
    BY <1>1, <1>8, <1>9
  <2> HIDE DEF d
  <2>3. \A x \in Fds : x # 0 => Dup2(t1, d, 0)[x] = t1[x]
    BY <2>1, <2>2, Dup2Type
  <2> QED BY <2>2, <2>3
<1>11. table'[1] = Out /\ table'[2] = Err /\ table'[o] = Null /\ t1[o] = Null
  <2>1. o # p.fd0 /\ o # 0
    BY <1>6, <1>7
  <2>2. 1 \in Fds /\ 2 \in Fds /\ table[1] = Out /\ table[2] = Err
    BY <1>4, LowFds DEF Channels
  <2>3. t1[1] = Out /\ t1[2] = Err
    BY <1>8, <1>9, <2>2
  <2>4. t1[o] = Null
    BY <1>7, <1>9, <2>1
  <2> QED BY <1>7, <1>10, <2>1, <2>2, <2>3, <2>4
<1>12. ~InPipe' => table'[0] = Null
  <2> SUFFICES ASSUME ~InPipe' PROVE table'[0] = Null
    OBVIOUS
  <2>1. p.origin = o
    BY <1>5
  <2>2. o # NONE /\ t1[o] # Closed
    BY <1>7, <1>11, LowFds, NotClosed
  <2>3. table' = [t1 EXCEPT ![0] = t1[o]]
    BY <1>1, <2>1, <2>2 DEF Dup2
  <2>4. t1 \in [Fds -> Files] /\ 0 \in Fds
    BY <1>9, LowFds DEF Tables
  <2> QED BY <1>11, <2>3, <2>4
<1>13. Depth' > 0 => /\ stack'[Depth'].origin = o /\ o \notin Held(stack') \cup Writing'
  BY <1>5, <1>6, <1>7
<1> QED BY <1>1, <1>7, <1>11, <1>12, <1>13 DEF Channels

LEMMA StopsPlumbing ==
  ASSUME OrderInv, PipeFails \/ Quit \/ Restore PROVE PlumbingInv'
<1>1. pc \in {"prompt", "run", "return"} /\ pc' \in {"exited", "undefined", "prompt"} /\ child' = child
  BY DEF PipeFails, Quit, Restore
<1>2. child' = NoChild
  BY <1>1 DEF OrderInv
<1>3. ~Working'
  BY <1>1 DEF Working
<1> QED BY <1>2, <1>3, IdlePlumbing, NoChildIdle

(* A child takes from pipes; only the one on the left of the newest pipe   *)
(* adds to it.                                                             *)
LEMMA ChildTouches ==
  ASSUME ShellInv, OrderInv, PlumbingInv, ChildStep \/ Die
  PROVE  /\ child' = NoChild \/ (child'.state = "running" /\ child'.at = child.at /\ child.at # 0
                                 /\ child'.table[1] \in {child.table[1], File}
                                 /\ child'.table[0] \in {child.table[0], File})
         /\ Len(pipes') = Len(pipes)
         /\ \A k \in 1 .. Len(pipes) : \A i \in DOMAIN pipes'[k] :
              \/ \E j \in DOMAIN pipes[k] : pipes'[k][i] = pipes[k][j]
              \/ /\ child.state = "running" /\ child.table[1][1] = "write"
                 /\ child.table[1][2] = k /\ pipes'[k][i] = child.at
<1>0. child \in Processes /\ pipes \in Seq(Seq(Nat)) /\ Len(pipes) \in Nat
  BY DEF ShellInv, ShellTypeOK
<1>1. CASE Exec
  <2>1. PICK n \in 0 .. MAX_OUTPUT, r \in BOOLEAN :
          child' = [child EXCEPT !.state = "running", !.todo = n, !.reads = r,
                                 !.table = Redirect(@, Redirected[text[child.at]])]
    BY <1>1 DEF Exec
  <2>2. pipes' = pipes /\ child.at # 0
    BY <1>1 DEF Exec
  <2> DEFINE t == Redirect(child.table, Redirected[text[child.at]])
  <2>3. t[1] \in {child.table[1], File} /\ t[0] \in {child.table[0], File}
    BY <1>0, RedirectType, LowFds DEF Processes
  <2>4. child' = [child EXCEPT !.state = "running", !.todo = n, !.reads = r, !.table = t]
    BY <2>1
  <2> HIDE DEF t
  <2>5. child'.state = "running" /\ child'.at = child.at /\ child'.table = t
    BY <1>0, <2>4 DEF Processes
  <2> QED BY <2>2, <2>3, <2>5
<1>2. CASE Exit \/ Die
  <2>1. child' = NoChild /\ pipes' = pipes
    BY <1>2 DEF Exit, Die
  <2> QED BY <2>1
<1>3. CASE Read
  <2> DEFINE q == child.table[0][2]
  <2>1. /\ child' = child /\ pipes[q] # <<>> /\ pipes' = [pipes EXCEPT ![q] = Tail(@)]
        /\ child.state = "running"
    BY <1>3 DEF Read
  <2> HIDE DEF q
  <2>2. child.at # 0
    BY <2>1 DEF PlumbingInv
  <2>3. Len(pipes') = Len(pipes)
    BY <1>0, <2>1
  <2>4. ASSUME NEW k \in 1 .. Len(pipes), NEW i \in DOMAIN pipes'[k]
        PROVE  \E j \in DOMAIN pipes[k] : pipes'[k][i] = pipes[k][j]
    <3>1. CASE k # q
      <4>1. pipes'[k] = pipes[k]
        BY <1>0, <2>1, <3>1
      <4> QED BY <2>4, <4>1
    <3>2. CASE k = q
      <4>1. pipes'[k] = Tail(pipes[k]) /\ pipes[k] \in Seq(Nat) /\ pipes[k] # <<>>
        BY <1>0, <2>1, <3>2
      <4>2. i \in 1 .. Len(pipes[k]) - 1 /\ i + 1 \in DOMAIN pipes[k]
            /\ pipes'[k][i] = pipes[k][i + 1]
        BY <2>4, <4>1
      <4> QED BY <4>2
    <3> QED BY <3>1, <3>2
  <2> QED BY <2>1, <2>2, <2>3, <2>4
<1>4. CASE Write
  <2> DEFINE q == child.table[1][2]
  <2>1. /\ child.state = "running" /\ child' = [child EXCEPT !.todo = @ - 1]
        /\ pipes' = IF child.table[1][1] = "write"
                    THEN [pipes EXCEPT ![q] = Append(@, child.at)] ELSE pipes
    BY <1>4 DEF Write, IsPipe
  <2>2. child.at # 0
    BY <2>1 DEF PlumbingInv
  <2>3. child'.state = "running" /\ child'.at = child.at /\ child'.table = child.table
    BY <1>0, <2>1 DEF Processes
  <2>4. q = child.table[1][2]
    OBVIOUS
  <2> HIDE DEF q
  <2>5. Len(pipes') = Len(pipes)
    BY <1>0, <2>1
  <2>6. ASSUME NEW k \in 1 .. Len(pipes), NEW i \in DOMAIN pipes'[k]
        PROVE  \/ \E j \in DOMAIN pipes[k] : pipes'[k][i] = pipes[k][j]
               \/ child.table[1][1] = "write" /\ k = q /\ pipes'[k][i] = child.at
    <3>1. CASE child.table[1][1] # "write" \/ k # q
      <4>1. pipes'[k] = pipes[k]
        BY <1>0, <2>1, <3>1
      <4> QED BY <2>6, <4>1
    <3>2. CASE child.table[1][1] = "write" /\ k = q
      <4>1. pipes'[k] = Append(pipes[k], child.at) /\ pipes[k] \in Seq(Nat) /\ child.at \in Nat
        BY <1>0, <2>1, <3>2 DEF Processes
      <4>2. \/ i \in 1 .. Len(pipes[k]) /\ pipes'[k][i] = pipes[k][i]
            \/ pipes'[k][i] = child.at
        BY <2>6, <4>1
      <4> QED BY <3>2, <4>1, <4>2
    <3> QED BY <3>1, <3>2
  <2> QED BY <2>1, <2>2, <2>3, <2>4, <2>5, <2>6
<1> QED BY <1>1, <1>2, <1>3, <1>4 DEF ChildStep

(* The channels of a line while a command runs. *)
LEMMA ChildPlumbing ==
  ASSUME ShellInv, OrderInv, PlumbingInv, ChildStep \/ Die PROVE PlumbingInv'
<1>1. /\ pc \in {"waitLeft", "wait"}
      /\ UNCHANGED <<table, typed, text, lines, at, stack, pc, called, exhausted>>
  BY ChildWorks
<1>2. child \in Processes /\ pipes \in Seq(Seq(Nat)) /\ Len(pipes) \in Nat
  BY DEF ShellInv, ShellTypeOK
<1>3. /\ child' = NoChild \/ (child'.state = "running" /\ child'.at = child.at /\ child.at # 0
                              /\ child'.table[1] \in {child.table[1], File}
                              /\ child'.table[0] \in {child.table[0], File})
      /\ Len(pipes') = Len(pipes)
      /\ \A k \in 1 .. Len(pipes) : \A i \in DOMAIN pipes'[k] :
           \/ \E j \in DOMAIN pipes[k] : pipes'[k][i] = pipes[k][j]
           \/ /\ child.state = "running" /\ child.table[1][1] = "write"
              /\ child.table[1][2] = k /\ pipes'[k][i] = child.at
  BY ChildTouches
<1>4. ASSUME Spaced(typed), ~exhausted, Working PROVE Channels'
  <2>1. Channels
    BY <1>4 DEF PlumbingInv
  <2>2. InPipe' = InPipe /\ HasRest' = HasRest /\ Depth' = Depth /\ Writing' = Writing /\ Here' = Here
    BY <1>1 DEF InPipe, HasRest, Depth, Writing, Here, Stop
  <2>3. ASSUME pc = "waitLeft"
        PROVE  /\ WrittenBy(Len(pipes), Here - 1)'
               /\ child'.at # 0 /\ child'.table[1][1] = "write" =>
                    child'.at = CommandAfter(typed, Before(typed, Here - 1))
    <3> DEFINE left == CommandAfter(typed, Before(typed, Here - 1))
               k    == Len(pipes)
    <3>1. /\ k \in 1 .. Len(pipes) /\ \A j \in DOMAIN pipes[k] : pipes[k][j] = left
          /\ child.at # 0 /\ child.table[1][1] = "write" => child.at = left
      BY <1>2, <2>1, <2>3 DEF Channels, WrittenBy
    <3>2. File[1] # "write"
      BY DEF File
    <3> HIDE DEF left
    <3>3. child'.at # 0 /\ child'.table[1][1] = "write" => child'.at = left
      BY <1>3, <3>1, <3>2, NoChildIdle
    <3>4. \A i \in DOMAIN pipes'[k] : pipes'[k][i] = left
      <4>1. child.state = "running" => child.at # 0
        BY DEF PlumbingInv
      <4> HIDE DEF k
      <4> QED BY <1>3, <3>1, <4>1
    <3>5. left' = left /\ k' = k
      BY <1>1, <1>3, <2>2 DEF left
    <3>6. WrittenBy(Len(pipes), Here - 1)'
      BY <1>1, <1>3, <2>2, <3>4 DEF WrittenBy, left
    <3> QED BY <3>3, <3>6 DEF left
  <2> QED BY <1>1, <1>3, <2>1, <2>2, <2>3 DEF Channels
<1>5. (Spaced(typed)' => Spaced(typed)) /\ (Working' => Working)
  BY <1>1 DEF Spaced, Working
<1>6. child' = NoChild \/ child'.state # "forked"
  BY <1>3
<1>7. child'.state = "running" => child'.at # 0
  BY <1>3, NoChildIdle
<1> QED BY <1>1, <1>4, <1>5, <1>6, <1>7, IdlePlumbing

LEMMA SamePlumbing ==
  ASSUME PlumbingInv, UNCHANGED shellVars PROVE PlumbingInv'
<1>1. /\ Stop' = Stop /\ HasRest' = HasRest /\ Here' = Here /\ InPipe' = InPipe
      /\ Depth' = Depth /\ Writing' = Writing
  BY DEF shellVars, input, calls, Stop, HasRest, Here, InPipe, Depth, Writing
<1>2. (Spaced(typed)' => Spaced(typed)) /\ Working' = Working
  BY DEF shellVars, input, Spaced, Working
<1>3. Channels => Channels'
  BY <1>1 DEF Channels, shellVars, input, calls, WrittenBy
<1>4. Plumbing => Plumbing'
  BY <1>2 DEF Plumbing, Written, shellVars, input, calls
<1> QED BY <1>2, <1>3, <1>4 DEF PlumbingInv, shellVars

LEMMA InitPlumbing == ShellInit => PlumbingInv
<1> SUFFICES ASSUME ShellInit PROVE PlumbingInv
  OBVIOUS
<1>1. pc = "prompt" /\ child = NoChild
  BY DEF ShellInit
<1> QED BY <1>1, NoChildIdle DEF PlumbingInv, Plumbing, Working

LEMMA NextPlumbing ==
  ShellInv /\ OrderInv /\ LeakInv /\ PlumbingInv /\ [ShellNext]_shellVars => PlumbingInv'
<1> SUFFICES ASSUME ShellInv, OrderInv, LeakInv, PlumbingInv, [ShellNext]_shellVars
             PROVE  PlumbingInv'
  OBVIOUS
<1>1. CASE UNCHANGED shellVars
  BY <1>1, SamePlumbing
<1>2. CASE \E l \in Lines : ReadLine(l)
  BY <1>2, ReadLinePlumbing
<1>3. CASE ShellStep
  BY <1>3, RunSequencePlumbing, RunPipelinePlumbing, StartRightPlumbing, RunCommandPlumbing,
     CommandEndedPlumbing, NextInSequencePlumbing, EndPipelinePlumbing, StopsPlumbing
     DEF ShellStep
<1>4. CASE Quit
  BY <1>4, StopsPlumbing
<1>5. CASE ChildStep \/ Die
  BY <1>5, ChildPlumbing
<1> QED BY <1>1, <1>2, <1>3, <1>4, <1>5 DEF ShellNext

(* Where 0, 1 and 2 of the shell lead while it works on a line, what the   *)
(* newest pipe holds, and which copy of 0 the first call of run_pipeline   *)
(* puts back (dsh.c:70-86).                                                *)
THEOREM ChannelsHold == ShellSpec => []PlumbingInv
<1>1. ShellInit => ShellInv /\ OrderInv /\ LeakInv /\ PlumbingInv
  BY InitInv, InitOrder, InitLeak, InitPlumbing
<1>2. ShellInv /\ OrderInv /\ LeakInv /\ PlumbingInv /\ [ShellNext]_shellVars =>
        (ShellInv /\ OrderInv /\ LeakInv /\ PlumbingInv)'
  BY NextInv, NextOrder, NextLeak, NextPlumbing
<1> QED BY <1>1, <1>2, PTL DEF ShellSpec

(* For any line with a blank behind each bar, until descriptors run out:   *)
(* a command starts with /dev/null or the output of the command left of    *)
(* it on 0, N.stdout or an empty pipe on 1, N.stderr on 2, and nobody can  *)
(* write any more to what it reads (dsh.c:70-86, 216-223).                 *)
THEOREM NeighboursArePlumbed == ShellSpec => []Plumbing
<1>1. PlumbingInv => Plumbing
  BY DEF PlumbingInv
<1> QED BY <1>1, ChannelsHold, PTL
-----------------------------------------------------------------------------
(* What the command that runs is connected to, as long as it runs, and     *)
(* that nobody but a command writes.                                       *)
Linked ==
  /\ table[0] = Null \/ \E k \in 1 .. Len(pipes) :
                          table[0] = Rd(k) /\ (pc = "waitLeft" => k # Len(pipes))
  /\ child.at # 0 =>
       /\ child.table[0] \in {table[0], File}
       /\ child.table[1] \in {IF pc = "waitLeft" THEN Wr(Len(pipes)) ELSE Out, File}
       /\ called # <<>> /\ child.at = called[Len(called)]

FlowInv ==
  /\ \A k \in 1 .. Len(pipes) : \A i \in DOMAIN pipes[k] : pipes[k][i] # 0
  /\ Meant /\ pc \in {"waitLeft", "wait"} => Linked

LEMMA ForkCalls ==
  ASSUME ShellInv, NEW t, NEW W, W \subseteq Nat, Fork(t, W)
  PROVE  child'.at # 0 =>
           /\ child'.table = t /\ child'.state = "forked" /\ child'.at \in W
           /\ called' # <<>> /\ child'.at = called'[Len(called')]
<1> SUFFICES ASSUME child'.at # 0
             PROVE  /\ child'.table = t /\ child'.state = "forked" /\ child'.at \in W
                    /\ called' # <<>> /\ child'.at = called'[Len(called')]
  OBVIOUS
<1>1. PICK here \in IF W = {} THEN {0} ELSE W :
        /\ called' = IF here = 0 THEN called ELSE Append(called, here)
        /\ \/ child' = [NoChild EXCEPT !.at = here, !.state = "forked", !.table = t]
           \/ child' = NoChild
  BY DEF Fork
<1>2. child' = [NoChild EXCEPT !.at = here, !.state = "forked", !.table = t]
  BY <1>1, NoChildIdle
<1>3. child'.at = here /\ child'.state = "forked" /\ child'.table = t
  BY <1>2 DEF NoChild
<1>4. here # 0 /\ here \in W /\ called' = Append(called, here) /\ here \in Nat
  BY <1>1, <1>3
<1>5. called' # <<>> /\ called'[Len(called')] = here
  BY <1>4, LineTypes, AppendProperties
<1> QED BY <1>3, <1>4, <1>5

LEMMA WordsFound == ASSUME NEW t, NEW i \in Nat, NEW S PROVE Find(t, i, S) \subseteq Nat
BY DEF Find

LEMMA RunPipelineFlow ==
  ASSUME ShellInv, OrderInv, LeakInv, PlumbingInv, FlowInv, RunPipeline PROVE FlowInv'
<1> DEFINE k   == Len(pipes) + 1
           fd0 == Nth(table, 1)
           fd1 == Nth(table, 2)
           org == Nth(table, 3)
           out == Nth(table, 4)
           new == Put(Put(Put(Put(table, fd0, Rd(k)), fd1, Wr(k)), org, table[0]),
                      out, table[1])
           forked == [new EXCEPT ![1] = Wr(k), ![fd0] = Closed]
<1>1. PICK sep \in Bars : Fork(forked, Find(Cut(sep), at, Commands))
  BY DEF RunPipeline
<1>2. /\ pc = "run" /\ pipes' = Append(pipes, <<>>) /\ table' = new
      /\ pc' = "waitLeft" /\ exhausted' = (exhausted \/ out = NONE)
      /\ typed' = typed
  BY DEF RunPipeline
<1>3. /\ pipes \in Seq(Seq(Nat)) /\ Len(pipes) \in Nat /\ Len(pipes') = k /\ pipes'[k] = <<>>
      /\ \A i \in 1 .. Len(pipes) : pipes'[i] = pipes[i]
  <2>1. pipes \in Seq(Seq(Nat)) /\ Len(pipes) \in Nat /\ <<>> \in Seq(Nat)
    BY DEF ShellInv, ShellTypeOK
  <2> QED BY <1>2, <2>1, AppendProperties
<1> HIDE DEF forked, new
<1>4. \A j \in 1 .. Len(pipes') : \A i \in DOMAIN pipes'[j] : pipes'[j][i] # 0
  <2>1. \A j \in 1 .. Len(pipes') : j \in 1 .. Len(pipes) \/ j = k
    BY <1>3
  <2> HIDE DEF k
  <2> QED BY <1>3, <2>1 DEF FlowInv
<1>5. ASSUME Spaced(typed), ~exhausted' PROVE Linked'
  <2>1. Nth(table, 4) # NONE
    BY <1>2, <1>5
  <2>2. new[0] = table[0] /\ forked[0] = table[0] /\ forked[1] = Wr(k)
    BY <2>1, NewPipe DEF new, forked
  <2>3. Channels /\ ~exhausted
    BY <1>2, <1>5 DEF PlumbingInv, Working
  <2>4. table[0] = Null \/ \E j \in 1 .. Len(pipes) : table[0] = Rd(j)
    BY <1>2, <1>3, <2>3 DEF Channels
  <2>5. \A j \in 1 .. Len(pipes) : j \in 1 .. Len(pipes') /\ j # Len(pipes')
    BY <1>3
  <2>6. child'.at # 0 =>
          child'.table = forked /\ called' # <<>> /\ child'.at = called'[Len(called')]
    <3>1. Find(Cut(sep), at, Commands) \subseteq Nat
      BY LineTypes, WordsFound
    <3> QED BY <1>1, <3>1, ForkCalls
  <2> HIDE DEF k
  <2> QED BY <1>2, <1>3, <2>2, <2>4, <2>5, <2>6 DEF Linked
<1>6. Spaced(typed)' => Spaced(typed)
  BY <1>2 DEF Spaced
<1> QED BY <1>4, <1>5, <1>6 DEF FlowInv, Meant

LEMMA RunCommandFlow ==
  ASSUME ShellInv, PlumbingInv, FlowInv, RunCommand PROVE FlowInv'
<1>1. /\ pc = "run" /\ pc' = "wait" /\ UNCHANGED <<table, pipes, typed, exhausted>>
      /\ Fork(table, Find(text, at, Commands))
  BY DEF RunCommand, input, calls
<1>2. ASSUME Meant PROVE Linked'
  <2>1. Channels
    BY <1>1, <1>2 DEF PlumbingInv, Working, Meant
  <2>2. Len(pipes) \in Nat
    BY StackType
  <2>3. table[0] = Null \/ \E j \in 1 .. Len(pipes) : table[0] = Rd(j)
    BY <1>1, <2>1, <2>2 DEF Channels
  <2>4. child'.at # 0 =>
          child'.table = table /\ called' # <<>> /\ child'.at = called'[Len(called')]
    <3>1. Find(text, at, Commands) \subseteq Nat
      BY LineTypes, WordsFound
    <3> QED BY <1>1, <3>1, ForkCalls
  <2>5. table[1] = Out
    BY <2>1 DEF Channels
  <2> QED BY <1>1, <2>3, <2>4, <2>5 DEF Linked
<1>3. Meant' => Meant
  BY <1>1 DEF Meant, Spaced
<1> QED BY <1>1, <1>2, <1>3 DEF FlowInv

LEMMA ChildFlow ==
  ASSUME ShellInv, OrderInv, PlumbingInv, FlowInv, ChildStep \/ Die PROVE FlowInv'
<1>1. /\ pc \in {"waitLeft", "wait"}
      /\ UNCHANGED <<table, typed, stack, pc, called, exhausted>>
  BY ChildWorks
<1>2. /\ child' = NoChild \/ (child'.state = "running" /\ child'.at = child.at /\ child.at # 0
                              /\ child'.table[1] \in {child.table[1], File}
                              /\ child'.table[0] \in {child.table[0], File})
      /\ Len(pipes') = Len(pipes)
      /\ \A k \in 1 .. Len(pipes) : \A i \in DOMAIN pipes'[k] :
           \/ \E j \in DOMAIN pipes[k] : pipes'[k][i] = pipes[k][j]
           \/ /\ child.state = "running" /\ child.table[1][1] = "write"
              /\ child.table[1][2] = k /\ pipes'[k][i] = child.at
  BY ChildTouches
<1>3. child.state = "running" => child.at # 0
  BY DEF PlumbingInv
<1>4. \A k \in 1 .. Len(pipes) : \A i \in DOMAIN pipes'[k] : pipes'[k][i] # 0
  BY <1>2, <1>3 DEF FlowInv
<1>5. ASSUME Meant PROVE Linked'
  <2>1. Linked
    BY <1>1, <1>5 DEF FlowInv
  <2>2. /\ (IF pc = "waitLeft" THEN Wr(Len(pipes)) ELSE Out)' =
             IF pc = "waitLeft" THEN Wr(Len(pipes)) ELSE Out
    BY <1>1, <1>2
  <2>3. child'.at # 0 => child'.at = child.at /\ child.at # 0
          /\ child'.table[1] \in {child.table[1], File} /\ child'.table[0] \in {child.table[0], File}
    BY <1>2, NoChildIdle
  <2> QED BY <1>1, <1>2, <2>1, <2>2, <2>3 DEF Linked
<1>6. Meant' => Meant
  BY <1>1 DEF Meant, Spaced
<1> QED BY <1>1, <1>2, <1>4, <1>5, <1>6 DEF FlowInv

LEMMA NextFlow ==
  ShellInv /\ OrderInv /\ LeakInv /\ PlumbingInv /\ FlowInv /\ [ShellNext]_shellVars => FlowInv'
<1> SUFFICES ASSUME ShellInv, OrderInv, LeakInv, PlumbingInv, FlowInv, [ShellNext]_shellVars
             PROVE  FlowInv'
  OBVIOUS
<1>1. CASE UNCHANGED shellVars
  <2>1. Meant' = Meant
    BY <1>1 DEF Meant, Spaced, shellVars, input
  <2> QED BY <1>1, <2>1 DEF FlowInv, Linked, shellVars
<1>2. ASSUME UNCHANGED pipes, pc' \notin {"waitLeft", "wait"} PROVE FlowInv'
  BY <1>2 DEF FlowInv
<1>3. CASE (\E l \in Lines : ReadLine(l)) \/ Quit
  BY <1>2, <1>3 DEF ReadLine, Quit
<1>4. CASE RunSequence \/ PipeFails \/ StartRight \/ CommandEnded
  BY <1>2, <1>4 DEF RunSequence, PipeFails, StartRight, CommandEnded
<1>5. CASE NextInSequence \/ EndPipeline \/ Restore
  BY <1>2, <1>5 DEF NextInSequence, EndPipeline, Restore
<1>6. CASE ChildStep \/ Die
  BY <1>6, ChildFlow
<1> QED BY <1>1, <1>3, <1>4, <1>5, <1>6, RunPipelineFlow, RunCommandFlow DEF ShellNext, ShellStep

(* As long as a command runs it is connected as it was when it was forked, *)
(* but for what it redirects itself (dsh.c:27-62), and what is written to  *)
(* a pipe is written by a command.                                         *)
THEOREM FlowHolds == ShellSpec => []FlowInv
<1>1. ShellInit => FlowInv
  BY DEF ShellInit, FlowInv
<1>2. FlowInv /\ (ShellInv /\ OrderInv /\ LeakInv /\ PlumbingInv) /\ [ShellNext]_shellVars => FlowInv'
  BY NextFlow
<1> QED BY <1>1, <1>2, ShellInvHolds, OrderHolds, LeakInvHolds, ChannelsHold, PTL DEF ShellSpec
-----------------------------------------------------------------------------
(* The words of a line and the one called last. *)
LEMMA LargestOf ==
  ASSUME NEW N \in Nat, NEW T, T \subseteq 0 .. N, T # {}
  PROVE  \E x \in T : \A y \in T : y <= x
<1> DEFINE U == {N - x : x \in T}
<1>1. U \in SUBSET Nat /\ U # {}
  <2>1. \A x \in T : x \in 0 .. N /\ N - x \in Nat
    OBVIOUS
  <2> QED BY <2>1
<1>2. PICK u \in U : \A v \in U : u <= v
  <2> HIDE DEF U
  <2> QED BY <1>1, LeastWord
<1>3. PICK x \in T : u = N - x
  OBVIOUS
<1>4. \A y \in T : y \in 0 .. N /\ N - x <= N - y
  BY <1>2, <1>3
<1>5. \A y \in T : y <= x
  BY <1>4
<1> QED BY <1>5

LEMMA BeforeType ==
  ASSUME NEW l \in Seq(Tokens), NEW i \in Nat \ {0}
  PROVE  /\ Before(l, i) \in {0} \cup Separators(l) /\ Before(l, i) \in Nat /\ Before(l, i) < i
         /\ \A s \in Separators(l) : s < i => s <= Before(l, i)
<1> DEFINE B == {0} \cup {s \in Separators(l) : s < i}
<1>1. B \subseteq 0 .. Len(l) /\ B # {} /\ B \in SUBSET Nat /\ Len(l) \in Nat
  BY SeparatorsType
<1>2. PICK m \in B : \A y \in B : y <= m
  <2> HIDE DEF B
  <2> QED BY <1>1, LargestOf
<1>3. Max(B) = m
  <2> HIDE DEF B
  <2> QED BY <1>1, <1>2, MaxIs
<1>4. Before(l, i) = m
  BY <1>3 DEF Before
<1> QED BY <1>1, <1>2, <1>4

LEMMA AfterIsWord ==
  ASSUME NEW l \in Seq(Tokens), NEW s \in {0} \cup Separators(l), CommandAfter(l, s) # 0
  PROVE  LET c == CommandAfter(l, s)
         IN /\ c \in Words(l) /\ c \in Nat /\ s < c /\ Before(l, c) = s
            /\ \A w \in Words(l) : Before(l, w) = s => w = c
<1> DEFINE c == CommandAfter(l, s)
           W == {i \in s + 1 .. Len(l) : l[i] \in Commands /\ Before(l, i) = s}
<1>1. s \in Nat /\ W \in SUBSET Nat
  BY SeparatorsType
<1>2. c = IF W = {} THEN 0 ELSE Min(W)
  BY DEF CommandAfter
<1>3. c \in W
  <2> HIDE DEF c, W
  <2> QED BY <1>1, <1>2, LeastWord DEF c
<1>4. c \in Words(l)
  BY DEF Words
<1>5. \A w \in Words(l) : Before(l, w) = s => w = c
  BY WordsType
<1> QED BY <1>1, <1>3, <1>4, <1>5

(* The command left of a bar is the word in front of the one behind it. *)
LEMMA LeftPrecedes ==
  ASSUME NEW l \in Seq(Tokens), NEW c \in Words(l)
  PROVE  Neighbour(l, c) = 0 \/ TheUser!Precedes(Neighbour(l, c), c, Words(l))
<1> DEFINE s == Before(l, c)
           r == Before(l, s)
           b == CommandAfter(l, r)
<1> SUFFICES ASSUME BarBefore(l, c), b # 0 PROVE TheUser!Precedes(b, c, Words(l))
  BY DEF Neighbour, LeftOf
<1>1. \A w \in Words(l) : w \in Nat \ {0} /\ Before(l, w) \in {0} \cup Separators(l)
        /\ Before(l, w) \in Nat /\ Before(l, w) < w
        /\ (\A x \in Separators(l) : x < w => x <= Before(l, w))
        /\ w = CommandAfter(l, Before(l, w))
  <2> TAKE w \in Words(l)
  <2>1. w \in Nat \ {0} /\ w = CommandAfter(l, Before(l, w))
    BY WordsType
  <2> QED BY <2>1, BeforeType
<1>2. s \in Separators(l) /\ s \in Nat \ {0} /\ s < c
  BY <1>1, SeparatorsType DEF BarBefore
<1>3. /\ r \in {0} \cup Separators(l) /\ r \in Nat /\ r < s
      /\ \A x \in Separators(l) : x < s => x <= r
  <2> HIDE DEF s
  <2> QED BY <1>2, BeforeType
<1>4. /\ b \in Words(l) /\ b \in Nat /\ r < b /\ Before(l, b) = r
  <2> HIDE DEF r
  <2> QED BY <1>3, AfterIsWord
<1>5. c \in Nat /\ c = CommandAfter(l, s) /\ \A x \in Separators(l) : x \in Nat /\ (x < c => x <= s)
  BY <1>1, SeparatorsType
<1> HIDE DEF s, r, b
<1>6. b < c
  BY <1>1, <1>2, <1>3, <1>4, <1>5
<1>7. ASSUME NEW w \in Words(l), ~ (w <= b), ~ (c <= w) PROVE FALSE
  <2> DEFINE t == Before(l, w)
  <2>1. /\ w \in Nat /\ t \in {0} \cup Separators(l) /\ t \in Nat /\ t < w
        /\ \A x \in Separators(l) : x < w => x <= t
        /\ w = CommandAfter(l, t)
    BY <1>1
  <2> HIDE DEF t
  <2>2. b < w /\ w < c
    BY <1>4, <1>5, <1>7, <2>1
  <2>3. r <= t
    BY <1>3, <1>4, <2>1, <2>2
  <2>4. t # s
    BY <1>5, <2>1, <2>2
  <2>5. t < s
    BY <1>2, <1>5, <2>1, <2>2, <2>4
  <2>6. t = r
    BY <1>3, <2>1, <2>3, <2>5
  <2> QED BY <1>4, <2>1, <2>2, <2>6 DEF b
<1> QED BY <1>4, <1>6, <1>7 DEF TheUser!Precedes

LEMMA LatestIsLargest ==
  ASSUME ShellInv, NEW h, CalledUpTo(h)
  PROVE  \A i \in DOMAIN called : called[i] <= called[Len(called)]
<1> DEFINE n == Len(called)
           T == {i \in 1 .. n : ~ (called[i] <= called[n])}
<1>1. n \in Nat /\ DOMAIN called = 1 .. n /\ \A i \in 1 .. n : called[i] \in Nat
  BY LineTypes
<1>2. ASSUME T # {} PROVE FALSE
  <2>1. T \subseteq 0 .. n
    BY <1>1
  <2>2. PICK x \in T : \A y \in T : y <= x
    <3> HIDE DEF T, n
    <3> QED BY <1>1, <1>2, <2>1, LargestOf
  <2>3. x \in 1 .. n /\ ~ (called[x] <= called[n])
    BY <2>2
  <2> HIDE DEF n
  <2>4. called[n] \in Nat /\ called[x] \in Nat /\ x # n
    BY <1>1, <2>3
  <2>5. x + 1 \in 1 .. n /\ x + 1 > 1 /\ x + 1 - 1 = x
    BY <1>1, <2>3, <2>4
  <2>6. called[x] < called[x + 1] /\ called[x + 1] \in Nat
    <3> DEFINE y == x + 1
    <3>1. y \in DOMAIN called /\ y > 1 /\ y - 1 = x
      BY <1>1, <2>5
    <3> HIDE DEF y
    <3>2. called[y - 1] < called[y]
      BY <3>1 DEF CalledUpTo
    <3>3. called[x] < called[y] /\ called[y] \in Nat
      BY <1>1, <3>1, <3>2
    <3> QED BY <3>3 DEF y
  <2>7. ~ (called[x + 1] <= called[n])
    BY <2>3, <2>4, <2>6
  <2>8. x + 1 <= x
    BY <2>2, <2>5, <2>7 DEF n
  <2> QED BY <1>1, <2>3, <2>8
<1> QED BY <1>1, <1>2
-----------------------------------------------------------------------------
(* The shell as its user sees it. *)
LEMMA MeantStays == UNCHANGED <<typed, exhausted>> => Meant' = Meant /\ Asked' = Asked
BY DEF Meant, Spaced, Asked, Neighbour, BarBefore, LeftOf, Words, CommandAfter, Before, Separators

LEMMA UserStays ==
  ASSUME UNCHANGED <<typed, exhausted>>,
         Meant => called' = called /\ Runs' = Runs /\ Unread' = Unread /\ Unasked' = Unasked
  PROVE  UNCHANGED TheUser!lineVars
<1>1. Meant' = Meant /\ Asked' = Asked
  BY MeantStays
<1>2. CASE Meant
  BY <1>1, <1>2 DEF TheUser!lineVars, Latest
<1>3. CASE ~Meant
  <2>1. Runs = FALSE /\ Runs' = FALSE
    BY <1>1, <1>3 DEF Runs
  <2> QED BY <1>1, <1>3, <2>1 DEF TheUser!lineVars, Latest, Unread, Unasked
<1> QED BY <1>2, <1>3

LEMMA NobodyReads == child.at = 0 => Runs = FALSE /\ Unread = <<>>
BY DEF Runs, Unread

LEMMA NobodyReadsNext == child'.at = 0 => Runs' = FALSE /\ Unread' = <<>>
BY DEF Runs, Unread

(* A step of the shell that forks nothing. *)
LEMMA QuietStep ==
  ASSUME UNCHANGED <<typed, exhausted, called>>, child = NoChild, child' = NoChild,
         Unasked' = Unasked
  PROVE  UNCHANGED TheUser!lineVars
<1>1. Runs' = Runs /\ Unread' = Unread
  BY NobodyReads, NobodyReadsNext, NoChildIdle
<1> QED BY <1>1, UserStays

LEMMA AtBarIs == AtBar <=> pc = "waitLeft" \/ (pc = "run" /\ InPipe)
BY DEF AtBar, InPipe

LEMMA SequenceIsLast ==
  ASSUME ShellInv, OrderInv, Spaced(typed), NextInSequence PROVE stack' = <<>>
<1>1. /\ pc = "return" /\ stack # <<>> /\ Head(stack).f = "sequence" /\ stack' = Tail(stack)
  BY DEF NextInSequence
<1>2. RestIsTyped
  BY <1>1 DEF OrderInv, Working
<1>3. /\ stack \in Seq(Frames) /\ Head(stack) = stack[1]
      /\ Len(stack) \in Nat \ {0} /\ stack' = <<>> <=> Len(stack) = 1
  BY <1>1, LineTypes, PopFrame
<1>4. Len(stack) > 1 => 1 \in 1 .. Len(stack) - 1
  BY <1>3
<1> QED BY <1>1, <1>2, <1>3, <1>4 DEF RestIsTyped

LEMMA QuietSteps ==
  ASSUME ShellInv, OrderInv, ~exhausted',
         RunSequence \/ PipeFails \/ CommandEnded \/ NextInSequence \/ EndPipeline \/ Restore \/ Quit
  PROVE  UNCHANGED TheUser!lineVars
<1>1. /\ UNCHANGED <<typed, exhausted, called>> /\ child' = child
      /\ pc \in {"run", "wait", "return", "prompt"}
  BY DEF RunSequence, PipeFails, CommandEnded, NextInSequence, EndPipeline, Restore, Quit,
         input, calls
<1>2. CASE ~Meant
  BY <1>1, <1>2, UserStays
<1>3. CASE Meant
  <2>1. Spaced(typed)
    BY <1>3 DEF Meant
  <2>2. child' = NoChild \/ CommandEnded
    BY <1>1 DEF OrderInv, RunSequence, PipeFails, NextInSequence, EndPipeline, Restore, Quit
  <2>3. child = NoChild /\ child' = NoChild
    BY <1>1, <2>2 DEF CommandEnded
  <2>4. ~AtBar /\ ~AtBar'
    <3>1. CASE RunSequence
      <4>1. pc = "run" /\ pc' = "run" /\ stack = <<>>
        BY <2>1, <3>1, SequenceIsFirst DEF RunSequence
      <4>2. PICK frame : stack' = <<frame>> \o <<>> /\ frame.f = "sequence"
        BY <3>1, <4>1, SMTT(30) DEF RunSequence
      <4>3. Head(stack').f = "sequence"
        BY <4>2
      <4> QED BY <4>1, <4>3 DEF AtBar
    <3>2. CASE NextInSequence
      <4>1. stack' = <<>> /\ pc = "return" /\ pc' = "run"
        BY <2>1, <3>2, SequenceIsLast DEF NextInSequence
      <4> QED BY <4>1 DEF AtBar
    <3>3. CASE PipeFails
      BY <3>3 DEF PipeFails
    <3>4. CASE CommandEnded \/ EndPipeline \/ Restore \/ Quit
      BY <3>4 DEF AtBar, CommandEnded, EndPipeline, Restore, Quit
    <3> QED BY <3>1, <3>2, <3>3, <3>4
  <2>5. Unasked = <<>> /\ Unasked' = <<>>
    BY <2>4 DEF Unasked
  <2> QED BY <1>1, <2>3, <2>5, QuietStep
<1> QED BY <1>2, <1>3

LEMMA StartRightUser ==
  ASSUME ShellInv, OrderInv, StartRight PROVE UNCHANGED TheUser!lineVars
<1>1. /\ pc = "waitLeft" /\ pc' = "run" /\ child = NoChild /\ child' = NoChild
      /\ at' = Head(stack).tail + 1 /\ UNCHANGED <<pipes, typed, stack, called, exhausted>>
  BY DEF StartRight, input
<1>2. CASE ~Meant
  BY <1>1, <1>2, UserStays
<1>3. CASE Meant
  <2>1. InPipe
    BY <1>1, <1>3 DEF OrderInv, Working, Begins, Meant
  <2>2. Head(stack).tail \in Nat
    BY <2>1, TopType DEF InPipe, Frames
  <2>3. AtBar /\ AtBar' /\ Bar = Head(stack).tail - 1 /\ Bar' = at' - 2
    BY <1>1, <2>1 DEF AtBar, Bar, InPipe
  <2>4. Bar' = Bar
    BY <1>1, <2>2, <2>3
  <2>5. CommandAfter(typed, Bar)' = CommandAfter(typed, Bar)
    BY <1>1, <2>4 DEF CommandAfter, Before, Separators
  <2>6. Unasked' = Unasked
    BY <1>1, <2>3, <2>5, MeantStays DEF Unasked
  <2> QED BY <1>1, <2>6, QuietStep
<1> QED BY <1>2, <1>3
-----------------------------------------------------------------------------
(* Steps of the user's shell. *)
LEMMA LatestIs ==
  ASSUME ShellInv, NEW h \in Nat \ {0}, CalledUpTo(h), Meant
  PROVE  Latest \in Nat /\ Latest < h /\ \A c \in Words(typed) : c < h => c <= Latest
<1>1. /\ called \in Seq(Nat) /\ Len(called) \in Nat /\ DOMAIN called = 1 .. Len(called)
      /\ \A c \in Words(typed) : c \in Nat
  <2>1. \A c \in Words(typed) : c \in Nat
    BY LineTypes, WordsType
  <2> QED BY <2>1, LineTypes
<1>2. CASE called = <<>>
  <2>1. Latest = 0
    BY <1>2 DEF Latest
  <2>2. \A c \in Words(typed) : ~ (c < h)
    BY <1>2 DEF CalledUpTo
  <2> QED BY <2>1, <2>2
<1>3. CASE called # <<>>
  <2> DEFINE n == Len(called)
  <2>1. Latest = called[n] /\ n \in DOMAIN called
    BY <1>1, <1>3 DEF Latest
  <2>2. \A i \in DOMAIN called : called[i] <= called[n]
    BY LatestIsLargest
  <2>3. called[n] \in Nat /\ called[n] < h
    BY <1>1, <2>1 DEF CalledUpTo
  <2>4. \A c \in Words(typed) : c < h => \E i \in DOMAIN called : called[i] = c
    BY DEF CalledUpTo
  <2> HIDE DEF n
  <2> QED BY <2>1, <2>2, <2>3, <2>4
<1> QED BY <1>2, <1>3

LEMMA ReadLineUser ==
  ASSUME ShellInv, OrderInv, NEW l \in Lines, ReadLine(l), ~exhausted'
  PROVE  TheUser!NewLine
<1>1. /\ pc = "prompt" /\ pc' \in {"run", "exited"} /\ stack = <<>> /\ stack' = <<>>
      /\ child = NoChild /\ child' = NoChild /\ typed' = l /\ called' = <<>>
  BY DEF ReadLine, OrderInv
<1>2. l \in Seq(Tokens)
  BY ShellAssumption
<1>3. Runs = FALSE /\ Runs' = FALSE /\ Unread' = <<>>
  BY <1>1, NobodyReads, NobodyReadsNext, NoChildIdle
<1>4. Latest' = 0
  BY <1>1 DEF Latest
<1>5. ~AtBar'
  BY <1>1 DEF AtBar
<1>6. Unasked' = <<>>
  BY <1>5 DEF Unasked
<1>7. \A c \in DOMAIN Asked : c <= Latest
  <2> SUFFICES ASSUME Meant PROVE \A c \in Words(typed) : c <= Latest
    BY DEF Asked
  <2>1. CalledUpTo(Len(typed) + 1)
    BY <1>1 DEF OrderInv, Here, Stop, HasRest, Meant
  <2>2. \A c \in Words(typed) : c < Len(typed) + 1
    <3> TAKE c \in Words(typed)
    <3>1. c \in 1 .. Len(typed) /\ Len(typed) \in Nat
      BY LineTypes, WordsType
    <3> QED BY <3>1
  <2>3. Len(typed) + 1 \in Nat \ {0}
    BY LineTypes
  <2> QED BY <2>1, <2>2, <2>3, LatestIs
<1>8. \A c \in DOMAIN Asked' : Asked'[c] = 0 \/ TheUser!Precedes(Asked'[c], c, DOMAIN Asked')
  <2>1. CASE Meant'
    <3>1. Asked' = [c \in Words(l) |-> Neighbour(l, c)]
      BY <1>1, <2>1 DEF Asked, Neighbour, BarBefore, LeftOf, Words, CommandAfter, Before, Separators
    <3>2. DOMAIN Asked' = Words(l) /\ \A c \in Words(l) : Asked'[c] = Neighbour(l, c)
      BY <3>1
    <3> QED BY <1>2, <3>2, LeftPrecedes
  <2>2. CASE ~Meant'
    <3>1. DOMAIN Asked' = {}
      BY <2>2 DEF Asked
    <3> QED BY <3>1
  <2> QED BY <2>1, <2>2
<1> QED BY <1>3, <1>4, <1>6, <1>7, <1>8 DEF TheUser!NewLine, TheUser!Idle

(* The shell forks for a piece of the line: the command there is called,   *)
(* unless there is none.                                                   *)
LEMMA ForkUser ==
  ASSUME ShellInv, OrderInv, PlumbingInv, FlowInv, Meant, UNCHANGED <<typed, exhausted>>,
         pc = "run", NEW e, Piece(typed, Front, at, e),
         e \in Separators(typed) \cup {Len(typed) + 1},
         NEW t, Fork(t, First(typed, at, e)), Unasked' = <<>>, table'[0] = table[0],
         \A k \in 1 .. Len(pipes) : pipes'[k] = pipes[k]
  PROVE  (\E c \in DOMAIN Asked : TheUser!Call(c)) \/ UNCHANGED TheUser!lineVars
<1> DEFINE F == First(typed, at, e)
<1>1. PICK here \in IF F = {} THEN {0} ELSE F :
        /\ called' = IF here = 0 THEN called ELSE Append(called, here)
        /\ \/ child' = [NoChild EXCEPT !.at = here, !.state = "forked", !.table = t]
           \/ child' = NoChild
  BY DEF Fork
<1>2. /\ F = {c \in Words(typed) : at <= c /\ c < e}
      /\ \A c \in F : CommandAfter(typed, Front) = c /\ Before(typed, c) = Front
  BY LineTypes, FirstIsWord
<1>3. /\ RestIsTyped /\ Begins /\ CalledUpTo(at) /\ at \in Nat \ {0} /\ Channels /\ Spaced(typed)
      /\ Stop \in at .. Len(typed) + 1
  BY DEF OrderInv, PlumbingInv, Working, Here, RestIsTyped, Meant
<1>4. /\ e \in Nat /\ at <= e /\ typed \in Seq(Tokens) /\ Len(typed) \in Nat
      /\ \A c \in Words(typed) : c \in Nat \ {0}
  BY LineTypes, WordsType DEF Piece
<1>5. child = NoChild /\ Runs = FALSE /\ Unread = <<>>
  <2>1. child = NoChild
    BY DEF OrderInv
  <2> QED BY <2>1, NobodyReads, NoChildIdle
<1>6. Front # 0 => typed[Front] = IF InPipe THEN "bar" ELSE "semicolon"
  <2>1. at \in at .. Stop /\ \A j \in at .. at - 1 : FALSE
    BY <1>3, LineTypes
  <2> QED BY <1>3, <2>1, FrontPiece
<1>7. AtBar => InPipe /\ Bar = Front
  BY AtBarIs DEF Bar, Front
<1>8. CASE F = {}
  <2>1. called' = called /\ child'.at = 0
    BY <1>1, <1>8, NoChildIdle DEF NoChild
  <2>2. Runs' = FALSE /\ Unread' = <<>>
    BY <2>1, NobodyReadsNext
  <2>3. CommandAfter(typed, Front) = 0
    <3> SUFFICES ASSUME CommandAfter(typed, Front) # 0 PROVE FALSE
      OBVIOUS
    <3> DEFINE c == CommandAfter(typed, Front)
    <3>1. Front \in {0} \cup Separators(typed) /\ Front \in Nat
      BY <1>4, SeparatorsType DEF Piece
    <3>2. c \in Words(typed) /\ c \in Nat /\ Front < c /\ Before(typed, c) = Front
      BY <1>4, <3>1, AfterIsWord
    <3>3. c \in 1 .. Len(typed) /\ typed[c] \in Commands
      BY <1>4, <3>2, WordsType
    <3> HIDE DEF c
    <3>4. at <= c
      <4>1. at = Front + 1 \/ (at = Front + 2 /\ typed[Front + 1] = "blank")
        BY DEF Piece
      <4>2. c # Front + 1 \/ typed[Front + 1] # "blank"
        BY <3>3, TokensDiffer
      <4> HIDE DEF Front
      <4> QED BY <1>3, <3>1, <3>2, <4>1, <4>2
    <3>5. c < e
      <4>1. CASE e = Len(typed) + 1
        BY <1>4, <3>3, <4>1
      <4>2. CASE e \in Separators(typed)
        <5>1. c # e
          BY <1>4, <3>3, <4>2, SeparatorsType
        <5>2. e < c => e <= Front
          BY <1>4, <3>2, <3>3, <4>2, BeforeType
        <5>3. Front < e
          BY <1>3, <1>4, <3>1 DEF Piece
        <5> HIDE DEF Front
        <5> QED BY <1>4, <3>1, <3>2, <5>1, <5>2, <5>3
      <4> QED BY <4>1, <4>2
    <3> QED BY <1>2, <1>8, <3>2, <3>4, <3>5
  <2>4. Unasked = <<>>
    BY <1>7, <2>3 DEF Unasked
  <2> QED BY <1>5, <2>1, <2>2, <2>4, UserStays
<1>9. CASE F # {}
  <2>1. here \in F /\ here \in Words(typed) /\ at <= here /\ here < e /\ here \in Nat \ {0}
    BY <1>1, <1>2, <1>4, <1>9
  <2>2. called' = Append(called, here) /\ (child'.at # 0 => child'.at = here)
    BY <1>1, <2>1, NoChildIdle DEF NoChild
  <2>3. Before(typed, here) = Front /\ CommandAfter(typed, Front) = here
    BY <1>2, <2>1
  <2>4. Meant' /\ Asked' = Asked
    BY MeantStays
  <2>5. Latest' = here
    <3>1. called' # <<>> /\ called'[Len(called')] = here
      BY <2>1, <2>2, LineTypes, AppendProperties
    <3> QED BY <2>4, <3>1 DEF Latest
  <2>6. DOMAIN Asked = Words(typed) /\ Asked[here] = Neighbour(typed, here)
    BY <2>1 DEF Asked
  <2>7. /\ Latest \in Nat /\ Latest < at /\ \A c \in Words(typed) : c < at => c <= Latest
    BY <1>3, LatestIs
  <2>8. Latest < here
    BY <1>3, <2>1, <2>7
  <2>9. \A b \in Words(typed) : b < here => b <= Latest
    <3> SUFFICES ASSUME NEW b \in Words(typed), b < here, ~ (b < at) PROVE FALSE
      BY <2>7
    <3>1. at <= b /\ b < e
      <4>1. at \in Nat /\ b \in Nat /\ here \in Nat /\ e \in Nat /\ b < here /\ here < e /\ ~ (b < at)
        BY <1>3, <1>4, <2>1
      <4> QED BY <4>1
    <3>2. b \in F
      BY <1>2, <3>1
    <3>3. b = here
      BY <1>2, <2>3, <3>2
    <3> QED BY <2>1, <3>3
  <2>10. Runs' \in BOOLEAN
    BY DEF Runs, Meant, Spaced
  <2>11. Unread' = IF Runs' /\ Asked[here] # 0 THEN Unasked ELSE <<>>
    <3>1. CASE ~Runs'
      BY <3>1 DEF Unread
    <3>2. CASE Runs' /\ InPipe
      <4> DEFINE n == Len(pipes)
      <4>1. /\ n > 0 /\ table[0] = Rd(n) /\ WrittenBy(n, at - 2) /\ n \in 1 .. Len(pipes)
        BY <1>3, <3>2, StackType DEF Channels
      <4>2. AtBar /\ Bar = Front /\ Front = at - 2 /\ Front # 0
        BY <1>3, <3>2, AtBarIs DEF Bar, Front, Begins
      <4>3. Unasked = pipes[n]
        BY <2>1, <2>3, <4>2 DEF Unasked
      <4>4. Unread' = pipes[n]
        <5>1. table'[0][1] = "read" /\ table'[0][2] = n
          BY <4>1 DEF Rd
        <5> QED BY <3>2, <4>1, <5>1 DEF Unread, IsPipe
      <4>5. BarBefore(typed, here)
        BY <1>6, <2>3, <3>2, <4>2 DEF BarBefore
      <4>6. Asked[here] = CommandAfter(typed, Before(typed, Front))
        BY <2>3, <2>6, <4>5 DEF Neighbour, LeftOf
      <4>7. ASSUME Asked[here] = 0 PROVE pipes[n] = <<>>
        <5>1. pipes[n] \in Seq(Nat)
          BY <4>1, StackType
        <5>2. \A i \in DOMAIN pipes[n] : pipes[n][i] = 0 /\ pipes[n][i] # 0
          BY <4>1, <4>2, <4>6, <4>7 DEF WrittenBy, FlowInv
        <5> HIDE DEF n
        <5> DEFINE q == pipes[n]
        <5>3. q \in Seq(Nat) /\ DOMAIN q = {}
          BY <5>1, <5>2
        <5> HIDE DEF q
        <5>4. Len(q) = 0
          BY <5>3
        <5> QED BY <5>3, <5>4, EmptySeq DEF q
      <4> QED BY <3>2, <4>3, <4>4, <4>7
    <3>3. CASE ~InPipe
      <4>1. ~BarBefore(typed, here)
        BY <1>6, <2>3, <3>3 DEF BarBefore
      <4>2. Asked[here] = 0
        BY <2>6, <4>1 DEF Neighbour
      <4>3. table'[0] = Null /\ Null[1] # "read"
        BY <1>3, <3>3 DEF Channels, Null
      <4>4. Unread' = <<>>
        BY <4>3 DEF Unread, IsPipe
      <4> QED BY <4>2, <4>4
    <3> QED BY <3>1, <3>2, <3>3
  <2>12. TheUser!Call(here)
    BY <1>5, <2>4, <2>5, <2>6, <2>8, <2>9, <2>10, <2>11 DEF TheUser!Call
  <2> QED BY <2>1, <2>6, <2>12
<1> QED BY <1>8, <1>9

LEMMA RunCommandUser ==
  ASSUME ShellInv, OrderInv, PlumbingInv, FlowInv, RunCommand
  PROVE  (\E c \in DOMAIN Asked : TheUser!Call(c)) \/ UNCHANGED TheUser!lineVars
<1>1. /\ pc = "run" /\ pc' = "wait" /\ UNCHANGED <<table, pipes, typed, stack, exhausted>>
      /\ Find(text, at, {"semicolon", "bar"}) = {}
      /\ Fork(table, Find(text, at, Commands))
  BY DEF RunCommand, input, calls
<1>2. CASE ~Meant
  BY <1>1, <1>2, UserStays
<1>3. CASE Meant
  <2>1. RestIsTyped /\ Begins /\ Spaced(typed)
    BY <1>1, <1>3 DEF OrderInv, Working, Meant
  <2>2. at \in Nat \ {0} /\ Len(typed) \in Nat /\ Stop \in at .. Len(typed) + 1
    BY <1>1, <2>1, LineTypes DEF RestIsTyped, Here
  <2>3. Piece(typed, Front, at, Stop)
    <3>1. "end" \notin {"semicolon", "bar"}
      OBVIOUS
    <3>2. \A j \in at .. Stop - 1 : typed[j] \notin {"semicolon", "bar"}
      BY <1>1, <2>1, <3>1, FindInRest
    <3>3. \A j \in at .. Stop - 1 : j \notin Separators(typed)
      BY <3>2 DEF Separators
    <3> QED BY <1>1, <2>1, <2>2, <3>3, FrontPiece
  <2>4. Fork(table, First(typed, at, Stop))
    BY <1>1, <2>1, TokensDiffer, FindInRest DEF First
  <2>5. Stop \in Separators(typed) \cup {Len(typed) + 1}
    <3>1. CASE HasRest
      <4>1. Stop \in 1 .. Len(typed) /\ typed[Stop] = "semicolon"
        BY <2>1, <2>2, <3>1 DEF RestIsTyped
      <4> QED BY <4>1 DEF Separators
    <3>2. CASE ~HasRest
      BY <3>2 DEF Stop
    <3> QED BY <3>1, <3>2
  <2>6. ~AtBar'
    BY <1>1 DEF AtBar
  <2>7. Unasked' = <<>>
    BY <2>6 DEF Unasked
  <2> QED BY <1>1, <1>3, <2>3, <2>4, <2>5, <2>7, ForkUser
<1> QED BY <1>2, <1>3

LEMMA RunPipelineUser ==
  ASSUME ShellInv, OrderInv, PlumbingInv, FlowInv, RunPipeline, ~exhausted'
  PROVE  (\E c \in DOMAIN Asked : TheUser!Call(c)) \/ UNCHANGED TheUser!lineVars
<1> DEFINE k   == Len(pipes) + 1
           fd0 == Nth(table, 1)
           fd1 == Nth(table, 2)
           org == Nth(table, 3)
           out == Nth(table, 4)
           new == Put(Put(Put(Put(table, fd0, Rd(k)), fd1, Wr(k)), org, table[0]),
                      out, table[1])
           forked == [new EXCEPT ![1] = Wr(k), ![fd0] = Closed]
<1>1. PICK sep \in Bars : Fork(forked, Find(Cut(sep), at, Commands))
  BY DEF RunPipeline
<1>2. /\ pc = "run" /\ pipes' = Append(pipes, <<>>) /\ table' = new
      /\ pc' = "waitLeft" /\ exhausted' = (exhausted \/ out = NONE) /\ typed' = typed
  BY DEF RunPipeline
<1>3. exhausted' = exhausted /\ out # NONE
  BY <1>2 DEF ShellInv, ShellTypeOK
<1>4. new[0] = table[0]
  BY <1>3, NewPipe
<1>5. pipes'[Len(pipes')] = <<>> /\ \A i \in 1 .. Len(pipes) : pipes'[i] = pipes[i]
  <2>1. pipes \in Seq(Seq(Nat)) /\ Len(pipes) \in Nat /\ <<>> \in Seq(Nat)
    BY DEF ShellInv, ShellTypeOK
  <2> QED BY <1>2, <2>1, AppendProperties
<1> HIDE DEF forked, new
<1>6. CASE ~Meant
  BY <1>2, <1>3, <1>6, UserStays
<1>7. CASE Meant
  <2>1. RestIsTyped /\ Begins /\ Spaced(typed)
    BY <1>2, <1>7 DEF OrderInv, Working, Meant
  <2>2. /\ Piece(typed, Front, at, sep) /\ sep \in Separators(typed)
        /\ Find(Cut(sep), at, Commands) = First(typed, at, sep)
    BY <1>2, <2>1, BarFound
  <2>3. Unasked' = <<>>
    BY <1>5 DEF Unasked
  <2>4. UNCHANGED <<typed, exhausted>> /\ table'[0] = table[0]
    BY <1>2, <1>3, <1>4
  <2> QED BY <1>1, <1>2, <1>5, <1>7, <2>2, <2>3, <2>4, ForkUser
<1> QED BY <1>6, <1>7

(* What a command reads was left for it; what it writes goes to the next.  *)
LEMMA ChildUser ==
  ASSUME ShellInv, OrderInv, PlumbingInv, FlowInv, ChildStep \/ Die
  PROVE  TheUser!Read \/ TheUser!Write \/ TheUser!End \/ UNCHANGED TheUser!lineVars
<1>1. /\ pc \in {"waitLeft", "wait"}
      /\ UNCHANGED <<table, typed, at, stack, pc, called, exhausted>>
  BY ChildWorks
<1>2. child \in Processes /\ pipes \in Seq(Seq(Nat)) /\ Len(pipes) \in Nat
  BY DEF ShellInv, ShellTypeOK
<1>3. CASE ~Meant
  BY <1>1, <1>3, UserStays
<1>4. CASE Meant
  <2>1. Linked /\ Channels /\ Begins
    BY <1>1, <1>4 DEF FlowInv, PlumbingInv, OrderInv, Working, Meant
  <2>2. child.state = "running" => child.at # 0 /\ Runs = TRUE
    BY <1>4 DEF PlumbingInv, Runs, Meant, Spaced
  <2>3. Meant' = Meant /\ Asked' = Asked /\ Latest' = Latest /\ AtBar' = AtBar /\ Bar' = Bar
    <3>1. Meant' = Meant /\ Asked' = Asked
      BY <1>1, MeantStays
    <3>2. Latest' = Latest /\ AtBar' = AtBar /\ Bar' = Bar
      BY <1>1, <3>1 DEF Latest, AtBar, Bar
    <3> QED BY <3>1, <3>2
  <2>4. CommandAfter(typed, Bar)' = CommandAfter(typed, Bar)
    BY <1>1, <2>3 DEF CommandAfter, Before, Separators
  <2>5. child'.at = child.at => Runs' = Runs
    BY <2>3 DEF Runs
  <2>6. /\ Null[1] # "read" /\ File[1] = "file" /\ Out[1] = "out"
        /\ \A j : Rd(j)[1] = "read" /\ Rd(j)[2] = j /\ Wr(j)[1] = "write" /\ Wr(j)[2] = j
    BY DEF Null, File, Out, Rd, Wr
  <2>7. pc # "waitLeft" => Unasked = <<>> /\ Unasked' = <<>>
    <3>1. pc # "waitLeft" => ~AtBar
      BY <1>1 DEF AtBar
    <3> QED BY <2>3, <3>1 DEF Unasked
  <2>8. pipes' = pipes => Unasked' = Unasked
    BY <2>3, <2>4 DEF Unasked
  <2>9. CASE Exec
    <3>1. PICK n \in 0 .. MAX_OUTPUT, r \in BOOLEAN :
            child' = [child EXCEPT !.state = "running", !.todo = n, !.reads = r,
                                   !.table = Redirect(@, Redirected[text[child.at]])]
      BY <2>9 DEF Exec
    <3>2. child'.at = child.at /\ pipes' = pipes
      BY <1>2, <2>9, <3>1 DEF Exec, Processes
    <3>3. Unread' = Unread
      BY <1>1, <2>5, <3>2 DEF Unread
    <3> QED BY <1>1, <2>5, <2>8, <3>2, <3>3, UserStays
  <2>10. CASE Exit \/ Die
    <3>1. child' = NoChild /\ pipes' = pipes
      BY <2>10 DEF Exit, Die
    <3>2. Runs' = FALSE /\ Unread' = <<>>
      BY <3>1, NobodyReadsNext, NoChildIdle
    <3>3. CASE Runs
      <4>1. TheUser!End
        BY <2>3, <2>8, <3>1, <3>2, <3>3 DEF TheUser!End
      <4> QED BY <4>1
    <3>4. CASE ~Runs
      <4>1. child.at = 0
        BY <1>4, <3>4 DEF Runs
      <4> QED BY <1>1, <2>8, <3>1, <3>2, <4>1, NobodyReads, UserStays
    <3> QED BY <3>3, <3>4
  <2>11. CASE Read
    <3> DEFINE q == child.table[0][2]
    <3>1. /\ child' = child /\ child.state = "running" /\ child.table[0][1] = "read"
          /\ pipes[q] # <<>> /\ pipes' = [pipes EXCEPT ![q] = Tail(@)]
      BY <2>11 DEF Read, IsPipe
    <3>2. child.table[0] = table[0] /\ table[0] # Null
      BY <2>1, <2>2, <2>6, <3>1 DEF Linked
    <3>3. PICK k \in 1 .. Len(pipes) : table[0] = Rd(k) /\ (pc = "waitLeft" => k # Len(pipes))
      BY <2>1, <3>2 DEF Linked
    <3>4. q = k
      BY <2>6, <3>2, <3>3
    <3> HIDE DEF q
    <3>5. pipes'[k] = Tail(pipes[k]) /\ (pc = "waitLeft" => pipes'[Len(pipes')] = pipes[Len(pipes)])
      BY <1>2, <3>1, <3>3, <3>4
    <3>6. Runs /\ Runs' = Runs
      BY <2>2, <2>5, <3>1
    <3>7. Unread = pipes[k] /\ Unread' = pipes'[k]
      BY <1>1, <2>6, <3>3, <3>6 DEF Unread, IsPipe
    <3>8. Unasked' = Unasked
      <4>1. CASE pc = "waitLeft"
        BY <2>3, <2>4, <3>5, <4>1 DEF Unasked
      <4>2. CASE pc # "waitLeft"
        BY <2>7, <4>2
      <4> QED BY <4>1, <4>2
    <3>9. TheUser!Read
      BY <2>3, <3>1, <3>4, <3>5, <3>6, <3>7, <3>8 DEF TheUser!Read
    <3> QED BY <3>9
  <2>12. CASE Write
    <3> DEFINE q == child.table[1][2]
    <3>1. /\ child.state = "running" /\ child' = [child EXCEPT !.todo = @ - 1]
          /\ pipes' = IF child.table[1][1] = "write"
                      THEN [pipes EXCEPT ![q] = Append(@, child.at)] ELSE pipes
      BY <2>12 DEF Write, IsPipe
    <3>2. child'.at = child.at /\ child.at # 0 /\ Runs /\ Runs' = Runs
      <4>1. child'.at = child.at
        BY <1>2, <3>1 DEF Processes
      <4> QED BY <2>2, <2>5, <3>1, <4>1
    <3>3. CASE child.table[1][1] # "write"
      <4>1. pipes' = pipes
        BY <3>1, <3>3
      <4>2. Unread' = Unread
        BY <1>1, <3>2, <4>1 DEF Unread
      <4> QED BY <1>1, <2>8, <3>2, <4>1, <4>2, UserStays
    <3>4. CASE child.table[1][1] = "write"
      <4> DEFINE n == Len(pipes)
      <4>1. pc = "waitLeft" /\ child.table[1] = Wr(n)
        BY <2>1, <2>6, <3>2, <3>4 DEF Linked
      <4>2. q = n /\ n \in 1 .. Len(pipes)
        BY <1>2, <2>1, <2>6, <4>1 DEF Channels
      <4> HIDE DEF q
      <4>3. /\ pipes'[n] = Append(pipes[n], child.at) /\ Len(pipes') = n
            /\ \A k \in 1 .. Len(pipes) : k # n => pipes'[k] = pipes[k]
        BY <1>2, <3>1, <3>4, <4>2
      <4>4. Unread' = Unread
        <5>1. CASE table[0] = Null
          BY <1>1, <2>6, <5>1 DEF Unread, IsPipe
        <5>2. ASSUME NEW k \in 1 .. Len(pipes), table[0] = Rd(k), k # n PROVE Unread' = Unread
          <6>1. table[0][2] = k /\ table'[0] = table[0] /\ pipes'[k] = pipes[k]
            BY <1>1, <2>6, <4>3, <5>2
          <6> HIDE DEF n
          <6> QED BY <3>2, <6>1 DEF Unread
        <5> QED BY <2>1, <4>1, <5>1, <5>2 DEF Linked
      <4>5. /\ AtBar /\ Bar = Here - 1 /\ Here - 1 \in Separators(typed)
            /\ child.at = CommandAfter(typed, Before(typed, Bar))
        <5>1. AtBar /\ Bar = Here - 1
          BY <4>1 DEF AtBar, Bar, Here
        <5>2. Here \in Nat /\ Here > 1 /\ Here - 1 \in 1 .. Len(typed) /\ typed[Here - 1] = "bar"
          <6>1. RestIsTyped /\ Len(typed) \in Nat
            BY <1>1, <1>4, LineTypes DEF OrderInv, Working, Meant
          <6>2. Here > 1 /\ typed[Here - 1] = "bar"
            BY <2>1, <4>1 DEF Begins
          <6>3. Here \in Nat /\ Stop \in Here .. Len(typed) + 1
            BY <6>1 DEF RestIsTyped
          <6> QED BY <6>1, <6>2, <6>3
        <5>3. child.at = CommandAfter(typed, Before(typed, Here - 1))
          BY <2>1, <3>2, <3>4, <4>1 DEF Channels
        <5> QED BY <5>1, <5>2, <5>3 DEF Separators
      <4> DEFINE c == CommandAfter(typed, Bar)
      <4>6. CASE c = 0
        <5>1. Unasked = <<>> /\ Unasked' = <<>>
          BY <2>4, <4>6 DEF Unasked
        <5> QED BY <1>1, <3>2, <4>4, <5>1, UserStays
      <4>7. CASE c # 0
        <5>1. Unasked = pipes[n] /\ Unasked' = pipes'[n]
          BY <1>4, <2>3, <2>4, <4>3, <4>5, <4>7 DEF Unasked
        <5>2. c \in Words(typed) /\ Before(typed, c) = Bar
          BY <4>5, <4>7, LineTypes, AfterIsWord
        <5>3. Bar # 0 /\ typed[Bar] = "bar"
          BY <2>1, <4>1, <4>5, SeparatorsType, LineTypes DEF Begins
        <5>4. Neighbour(typed, c) = child.at
          <6> HIDE DEF c
          <6> QED BY <4>5, <5>2, <5>3 DEF Neighbour, BarBefore, LeftOf
        <5>5. Latest = child.at
          BY <1>4, <2>1, <3>2 DEF Latest, Linked
        <5>6. \E x \in DOMAIN Asked : Asked[x] = Latest
          <6> HIDE DEF c
          <6>1. c \in DOMAIN Asked /\ Asked[c] = Neighbour(typed, c)
            BY <1>4, <5>2 DEF Asked
          <6> QED BY <5>4, <5>5, <6>1
        <5>7. TheUser!Write
          BY <2>3, <3>2, <4>3, <4>4, <5>1, <5>5, <5>6 DEF TheUser!Write
        <5> QED BY <5>7
      <4> QED BY <4>6, <4>7
    <3> QED BY <3>3, <3>4
  <2> QED BY <2>9, <2>10, <2>11, <2>12 DEF ChildStep
<1> QED BY <1>3, <1>4

LEMMA SpentUser ==
  ASSUME exhausted, exhausted', exhausted' = exhausted PROVE UNCHANGED TheUser!lineVars
<1>1. ~Meant /\ ~Meant'
  BY DEF Meant
<1>2. Runs = FALSE /\ Runs' = FALSE
  BY <1>1 DEF Runs
<1>3. Asked' = Asked
  BY <1>1 DEF Asked
<1> QED BY <1>1, <1>2, <1>3 DEF TheUser!lineVars, Latest, Unread, Unasked

LEMMA NextUser ==
  ShellInv /\ OrderInv /\ PlumbingInv /\ FlowInv /\ ShellInv' /\ [ShellNext]_shellVars
    => [TheUser!Next]_TheUser!lineVars
<1> SUFFICES ASSUME ShellInv, OrderInv, PlumbingInv, FlowInv, ShellInv', [ShellNext]_shellVars
             PROVE  TheUser!Next \/ UNCHANGED TheUser!lineVars
  OBVIOUS
<1>1. exhausted \in BOOLEAN /\ exhausted' \in BOOLEAN
  BY DEF ShellInv, ShellTypeOK
<1>2. CASE UNCHANGED shellVars
  <2>1. UNCHANGED <<typed, exhausted, called, child, table, pipes, pc, stack, at>>
    BY <1>2 DEF shellVars, input, calls
  <2>2. Meant' = Meant /\ Runs' = Runs /\ Unread' = Unread /\ AtBar' = AtBar /\ Bar' = Bar
    BY <2>1, MeantStays DEF Runs, Unread, AtBar, Bar
  <2>3. CommandAfter(typed, Bar)' = CommandAfter(typed, Bar)
    BY <2>1, <2>2 DEF CommandAfter, Before, Separators
  <2>4. Unasked' = Unasked
    BY <2>1, <2>2, <2>3 DEF Unasked
  <2> QED BY <2>1, <2>2, <2>4, UserStays
<1>3. exhausted => exhausted' = exhausted
  <2>1. CASE (\E l \in Lines : ReadLine(l)) \/ Quit
    BY <1>1, <2>1 DEF ReadLine, Quit
  <2>2. CASE ShellStep
    BY <1>1, <2>2 DEF ShellStep, RunSequence, RunPipeline, PipeFails, StartRight, RunCommand,
       CommandEnded, NextInSequence, EndPipeline, Restore
  <2>3. CASE ChildStep \/ Die
    BY <2>3, ChildWorks
  <2>4. CASE UNCHANGED shellVars
    BY <2>4 DEF shellVars
  <2> QED BY <2>1, <2>2, <2>3, <2>4 DEF ShellNext
<1>4. CASE exhausted
  BY <1>3, <1>4, SpentUser
<1>5. CASE ~exhausted /\ exhausted'
  BY <1>5 DEF TheUser!Next
<1>6. CASE ~exhausted /\ ~exhausted' /\ ShellNext
  <2>1. TheUser!Promised \/ UNCHANGED TheUser!lineVars
    <3>1. CASE \E l \in Lines : ReadLine(l)
      BY <1>6, <3>1, ReadLineUser DEF TheUser!Promised
    <3>2. CASE RunPipeline
      BY <1>6, <3>2, RunPipelineUser DEF TheUser!Promised
    <3>3. CASE RunCommand
      BY <3>3, RunCommandUser DEF TheUser!Promised
    <3>4. CASE ChildStep \/ Die
      BY <3>4, ChildUser DEF TheUser!Promised
    <3>5. CASE RunSequence \/ PipeFails \/ CommandEnded \/ NextInSequence \/ EndPipeline
               \/ Restore \/ Quit
      BY <1>6, <3>5, QuietSteps
    <3>6. CASE StartRight
      BY <3>6, StartRightUser
    <3> QED BY <1>6, <3>1, <3>2, <3>3, <3>4, <3>5, <3>6 DEF ShellNext, ShellStep
  <2> QED BY <1>6, <2>1 DEF TheUser!Next
<1> QED BY <1>1, <1>2, <1>4, <1>5, <1>6

LEMMA InitUser == ShellInit => TheUser!Init
<1> SUFFICES ASSUME ShellInit PROVE TheUser!Init
  OBVIOUS
<1>1. /\ typed = <<>> /\ child = NoChild /\ called = <<>> /\ exhausted = FALSE /\ pc = "prompt"
  BY DEF ShellInit
<1>2. Words(typed) = {}
  <2>1. <<>> \in Seq(Tokens) /\ \A c : c \notin 1 .. Len(<<>>)
    OBVIOUS
  <2> QED BY <1>1, <2>1, WordsType
<1>3. Asked = [c \in {} |-> 0]
  <2>1. (IF Meant THEN Words(typed) ELSE {}) = {}
    BY <1>2
  <2> QED BY <2>1 DEF Asked
<1>4. Runs = FALSE /\ Unread = <<>>
  BY <1>1, NobodyReads, NoChildIdle
<1>5. Latest = 0 /\ Unasked = <<>>
  BY <1>1 DEF Latest, Unasked, AtBar
<1> QED BY <1>1, <1>3, <1>4, <1>5 DEF TheUser!Init, TheUser!Idle

(* Behind the recursion, the copies of 0 and the two ends of every pipe    *)
(* (dsh.c:69-170) there is for the user but a row of commands, called once *)
(* each and in order, each of which can read exactly what the one left of  *)
(* its bar has written - until descriptors run out.                        *)
THEOREM ShellImplements == ShellSpec => ImplementsPipelines
<1>1. ShellInit => TheUser!Init
  BY InitUser
<1>2. (ShellInv /\ OrderInv /\ PlumbingInv /\ FlowInv) /\ ShellInv' /\ [ShellNext]_shellVars
        => [TheUser!Next]_TheUser!lineVars
  BY NextUser
<1> QED BY <1>1, <1>2, ShellInvHolds, OrderHolds, ChannelsHold, FlowHolds, PTL
        DEF ShellSpec, ImplementsPipelines, TheUser!Spec
=============================================================================
