-------------------------------- MODULE Shell --------------------------------
(***************************************************************************)
(* dsh.c: a shell that runs a line as a sequence of pipelines, with its    *)
(* standard descriptors pointed at files and its own kept as copies.  The  *)
(* shell runs one child at a time: it waits for a command before it starts *)
(* the next one of the pipeline.  A token stands for one character, a      *)
(* command for a word of one letter; arguments have no part in this.       *)
(***************************************************************************)
EXTENDS Integers, Sequences, FiniteSets

CONSTANTS
  Commands,      (* names of programs                                      *)
  Lines,         (* lines the user may type, sequences of tokens           *)
  Redirected,    (* descriptors a command redirects to a file: 0, 1, 2     *)
  MAX_FDS,       (* size of the table of descriptors, RLIMIT_NOFILE        *)
  PIPE_SIZE,     (* what a pipe holds                                      *)
  MAX_OUTPUT,    (* bound: what a program may write                        *)
  MAX_LINES,     (* bound: lines typed                                     *)
  FORK_MAY_FAIL

Tokens == Commands \cup {"blank", "semicolon", "bar"}

ASSUME ShellAssumption ==
  /\ {"blank", "semicolon", "bar", "end"} \cap Commands = {}
  /\ Lines \subseteq Seq(Tokens)
  /\ Redirected \in [Commands -> SUBSET (0 .. 2)]
  /\ PIPE_SIZE \in Nat /\ MAX_OUTPUT \in Nat /\ MAX_LINES \in Nat
  /\ FORK_MAY_FAIL \in BOOLEAN

(* Room for the six descriptors the shell starts with. *)
ASSUME TableAssumption == MAX_FDS \in Nat /\ MAX_FDS >= 6

VARIABLES
  table,      (* what each descriptor of the shell refers to               *)
  pipes,      (* per call of pipe, the commands whose output it holds      *)
  child,      (* the process the shell waits for                           *)
  typed, text, (* the line as typed; the same with terminators put in       *)
  at,         (* where run() was called                                    *)
  stack,      (* the calls of run_sequence and run_pipeline, inmost first  *)
  pc, lines,
  called,     (* history: the commands of this line that were forked       *)
  exhausted   (* history: a call failed for want of descriptors            *)

input  == <<typed, text, lines>>
calls  == <<at, stack>>
shellVars   == <<table, pipes, child, input, calls, pc, called, exhausted>>
-----------------------------------------------------------------------------
(* Descriptors. *)
Fds     == 0 .. MAX_FDS - 1
NONE    == -1
Closed  == <<"closed", 0>>
Tty(d)  == <<"tty", d>>
Out     == <<"out", 0>>
Err     == <<"err", 0>>
Null    == <<"null", 0>>
File    == <<"file", 0>>
Rd(k)   == <<"read", k>>
Wr(k)   == <<"write", k>>

Free(t)       == {d \in Fds : t[d] = Closed}

(* The n-th call that takes a descriptor gets the n-th lowest free one.    *)
Nth(t, n)     == LET S == {d \in Free(t) : Cardinality({e \in Free(t) : e < d}) = n - 1}
                 IN IF S = {} THEN NONE ELSE CHOOSE d \in S : TRUE
Dup2(t, d, e) == IF d = NONE \/ t[d] = Closed THEN t ELSE [t EXCEPT ![e] = t[d]]
Put(t, d, f)  == IF d = NONE THEN t ELSE [t EXCEPT ![d] = f]
Close(t, d)   == Put(t, d, Closed)

(* Before the first line: the copies of 0, 1 and 2 are 3, 4 and 5. *)
origin  == 3
origout == 4
origerr == 5
StartTable ==
  [d \in Fds |-> IF d <= 2 THEN Tty(d) ELSE IF d <= 5 THEN Tty(d - 3) ELSE Closed]
-----------------------------------------------------------------------------
(* strstr, strtok: the first place of a token of S from i on, if there is  *)
(* one before the terminator.                                              *)
Find(t, i, S) == {j \in i .. Len(t) : /\ t[j] \in S
                                      /\ \A l \in i .. j - 1 : t[l] \notin S \cup {"end"}}
Cut(i)        == [text EXCEPT ![i] = "end"]

NoChild  == [at |-> 0, state |-> "none", table |-> StartTable, todo |-> 0, reads |-> FALSE]

ShellInit ==
  /\ table = StartTable
  /\ pipes = <<>>
  /\ child = NoChild
  /\ typed = <<>> /\ text = <<>> /\ lines = 0
  /\ at = 1 /\ stack = <<>>
  /\ pc = "prompt"
  /\ called = <<>>
  /\ exhausted = FALSE

(* main reads a line, opens the three files of this line, points 1, 0 and *)
(* 2 at them and closes the descriptors they were opened on.  Where an     *)
(* open fails the standard descriptor stays what it was, but without       *)
(* N.stdout the shell gives up.                                            *)
ReadLine(l) ==
  LET fd == Nth(table, 1)  fderr == Nth(table, 2)  fdin == Nth(table, 3)
  IN /\ pc = "prompt"
     /\ lines < MAX_LINES
     /\ lines' = lines + 1
     /\ typed' = l
     /\ text' = l \o <<"end", "end">>
     /\ at' = 1
     /\ called' = <<>>
     /\ exhausted' = (exhausted \/ fdin = NONE)
     /\ IF fd = NONE THEN pc' = "exited" /\ UNCHANGED table
        ELSE /\ pc' = "run"
             /\ table' = [table EXCEPT ![0] = IF fdin = NONE THEN @ ELSE Null,
                                       ![1] = Out,
                                       ![2] = IF fderr = NONE THEN @ ELSE Err]
     /\ UNCHANGED <<pipes, child, stack>>

(* run finds a semicolon and calls run_sequence. *)
BehindAgain(sep) == sep  (* faulty: the rest starts at the separator *)
Behind(sep)      == sep + 1

RunSequence ==
  /\ pc = "run"
  /\ \E sep \in Find(text, at, {"semicolon"}) :
       /\ text' = Cut(sep)
       /\ stack' = <<[f |-> "sequence", fd0 |-> NONE, fd1 |-> NONE,
                      origin |-> NONE, tail |-> Behind(sep)]>> \o stack
  /\ UNCHANGED <<table, pipes, child, typed, lines, at, pc, called, exhausted>>

(* fork: the child starts with descriptors t and the first word of what is *)
(* left of the text.  A fork that fails makes no child, and wait returns   *)
(* at once.                                                                *)
Fork(t, words) ==
  \E here \in IF words = {} THEN {0} ELSE words :
    /\ called' = IF here = 0 THEN called ELSE Append(called, here)
    /\ \/ child' = [NoChild EXCEPT !.at = here, !.state = "forked", !.table = t]
       \/ FORK_MAY_FAIL /\ child' = NoChild

(* run finds a bar and calls run_pipeline, which makes a pipe and two      *)
(* copies and starts the command on the left.                              *)
Bars == IF Find(text, at, {"semicolon"}) = {} THEN Find(text, at, {"bar"}) ELSE {}

RunPipeline ==
  LET k   == Len(pipes) + 1
      fd0 == Nth(table, 1)  fd1 == Nth(table, 2)
      org == Nth(table, 3)  out == Nth(table, 4)
      new == Put(Put(Put(Put(table, fd0, Rd(k)), fd1, Wr(k)), org, table[0]),
                 out, table[1])
  IN /\ pc = "run"
     /\ fd1 # NONE
     /\ \E sep \in Bars :
          /\ text' = Cut(sep)
          /\ stack' = <<[f |-> "pipeline", fd0 |-> fd0, fd1 |-> fd1,
                         origin |-> org, tail |-> Behind(sep)]>> \o stack
          /\ Fork([new EXCEPT ![1] = Wr(k), ![fd0] = Closed], Find(Cut(sep), at, Commands))
     /\ pipes' = Append(pipes, <<>>)
     /\ table' = new
     /\ exhausted' = (exhausted \/ out = NONE)
     /\ pc' = "waitLeft"
     /\ UNCHANGED <<typed, lines, at>>

(* pipe fails and run_pipeline goes on with the two numbers that happen to *)
(* be in its array: the model stops.                                       *)
PipeFails ==
  /\ pc = "run"
  /\ Bars # {}
  /\ Nth(table, 2) = NONE
  /\ pc' = "undefined"
  /\ exhausted' = TRUE
  /\ UNCHANGED <<table, pipes, child, input, calls, called>>

(* wait returns; the right hand side reads the pipe and starts behind the  *)
(* character that follows the bar.                                         *)
SwitchOpen(p) == Dup2(table, p.fd0, 0)  (* faulty: the write end stays open *)
Switch(p)     == Close(Dup2(table, p.fd0, 0), p.fd1)

StartRight ==
  /\ pc = "waitLeft"
  /\ child = NoChild
  /\ table' = Switch(Head(stack))
  /\ at' = Head(stack).tail + 1
  /\ pc' = "run"
  /\ UNCHANGED <<pipes, child, input, stack, called, exhausted>>

RunCommand ==
  /\ pc = "run"
  /\ Find(text, at, {"semicolon", "bar"}) = {}
  /\ Fork(table, Find(text, at, Commands))
  /\ pc' = "wait"
  /\ UNCHANGED <<table, pipes, input, calls, exhausted>>

CommandEnded ==
  /\ pc = "wait"
  /\ child = NoChild
  /\ pc' = "return"
  /\ UNCHANGED <<table, pipes, child, input, calls, called, exhausted>>

(* run returns into run_sequence, run_pipeline or main. *)
NextInSequence ==
  /\ pc = "return"
  /\ stack # <<>> /\ Head(stack).f = "sequence"
  /\ at' = Head(stack).tail
  /\ stack' = Tail(stack)
  /\ pc' = "run"
  /\ UNCHANGED <<table, pipes, child, input, called, exhausted>>

UnhookOpen(p) == Dup2(table, p.origin, 0)  (* faulty: the read end stays open *)
UnhookKept(p) == Close(table, p.fd0)       (* faulty: 0 stays the pipe *)
Unhook(p)     == Dup2(Close(table, p.fd0), p.origin, 0)

EndPipeline ==
  /\ pc = "return"
  /\ stack # <<>> /\ Head(stack).f = "pipeline"
  /\ table' = Unhook(Head(stack))
  /\ stack' = Tail(stack)
  /\ UNCHANGED <<pipes, child, input, at, pc, called, exhausted>>

RestoredTwo == Dup2(Dup2(table, origin, 0), origout, 1)  (* faulty: 2 is forgotten *)
Restored    == Dup2(Dup2(Dup2(table, origin, 0), origout, 1), origerr, 2)

Restore ==
  /\ pc = "return"
  /\ stack = <<>>
  /\ table' = Restored
  /\ pc' = "prompt"
  /\ UNCHANGED <<pipes, child, input, calls, called, exhausted>>

(* The end of the input. *)
Quit ==
  /\ pc = "prompt"
  /\ pc' = "exited"
  /\ UNCHANGED <<table, pipes, child, input, calls, called, exhausted>>

ShellStep == \/ RunSequence \/ RunPipeline \/ PipeFails \/ StartRight \/ RunCommand
             \/ CommandEnded \/ NextInSequence \/ EndPipeline \/ Restore
-----------------------------------------------------------------------------
(* The child: exec_command, and the program it turns into. *)
shellOnly == <<table, input, calls, pc, called, exhausted>>

(* exec_command redirects, if it still gets a descriptor for the file, and *)
(* the program starts; it may read its input to the end and write.         *)
Redirect(t, S) == [d \in Fds |-> IF d \in S /\ Free(t) # {} THEN File ELSE t[d]]

Exec ==
  /\ child.state = "forked"
  /\ child.at # 0
  /\ \E n \in 0 .. MAX_OUTPUT, r \in BOOLEAN :
       child' = [child EXCEPT !.state = "running", !.todo = n, !.reads = r,
                              !.table = Redirect(@, Redirected[text[child.at]])]
  /\ UNCHANGED <<pipes, shellOnly>>

(* No such program, no word at all, too many arguments, or a signal. *)
Die ==
  /\ child.state # "none"
  /\ child' = NoChild
  /\ UNCHANGED <<pipes, shellOnly>>

IsPipe(f, end) == f[1] = end
Written(k)     == \E d \in Fds : table[d] = Wr(k) \/ child.table[d] = Wr(k)

Read ==
  LET k == child.table[0][2]
  IN /\ child.state = "running" /\ child.reads
     /\ IsPipe(child.table[0], "read")
     /\ pipes[k] # <<>>
     /\ pipes' = [pipes EXCEPT ![k] = Tail(@)]
     /\ UNCHANGED <<child, shellOnly>>

Blocked == /\ IsPipe(child.table[1], "write")
           /\ Len(pipes[child.table[1][2]]) >= PIPE_SIZE

HasMore      == child.todo > 0

Write ==
  LET k == child.table[1][2]
  IN /\ child.state = "running" /\ HasMore
     /\ ~Blocked
     /\ child' = [child EXCEPT !.todo = @ - 1]
     /\ pipes' = IF IsPipe(child.table[1], "write")
                 THEN [pipes EXCEPT ![k] = Append(@, child.at)] ELSE pipes
     /\ UNCHANGED shellOnly

(* The end of what descriptor 0 gives: never of a terminal, and of a pipe  *)
(* only when it is empty and nobody could still write to it.  /dev/null is *)
(* open for writing only: reading from it fails.                           *)
AtEnd == LET f == child.table[0]
         IN \/ f \in {Null, Out, File}
            \/ IsPipe(f, "read") /\ pipes[f[2]] = <<>> /\ ~Written(f[2])

Exit ==
  /\ child.state = "running" /\ child.todo = 0
  /\ child.reads => AtEnd
  /\ child' = NoChild
  /\ UNCHANGED <<pipes, shellOnly>>

ChildStep == Exec \/ Read \/ Write \/ Exit \/ (child.at = 0 /\ Die)

ShellNext ==
  \/ \E l \in Lines : ReadLine(l)
  \/ Quit
  \/ ShellStep
  \/ ChildStep
        \/ Die

ShellSpec == ShellInit /\ [][ShellNext]_shellVars

(* The kernel runs the shell and its child; the user may stop typing. *)
ShellFairSpec == ShellSpec /\ WF_shellVars(ShellStep) /\ WF_shellVars(ChildStep)
=============================================================================
