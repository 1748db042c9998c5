----------------------------- MODULE ShellSafety -----------------------------
(* What the shell of dsh.c promises about descriptors, pipes and order. *)
EXTENDS Shell, FiniteSetsExt

FileTypes == {"closed", "tty", "out", "err", "null", "file", "read", "write"}
Files     == FileTypes \X Nat
Tables    == [Fds -> Files]
Frames    == [f : {"sequence", "pipeline"}, fd0 : Fds \cup {NONE}, fd1 : Fds \cup {NONE},
              origin : Fds \cup {NONE}, tail : Nat]
Processes == [at : Nat, state : {"none", "forked", "running"}, table : Tables,
              todo : Nat, reads : BOOLEAN]

(* Every variable keeps to its type. *)
ShellTypeOK ==
  /\ table \in Tables
  /\ pipes \in Seq(Seq(Nat))
  /\ child \in Processes
  /\ typed \in Seq(Tokens) /\ text \in Seq(Tokens \cup {"end"})
  /\ at \in Nat /\ lines \in Nat
  /\ stack \in Seq(Frames)
  /\ pc \in {"prompt", "run", "waitLeft", "wait", "return", "exited", "undefined"}
  /\ called \in Seq(Nat)
  /\ exhausted \in BOOLEAN

(* When the shell reads from the user again, 0, 1 and 2 are the terminal   *)
(* and so are its copies (dsh.c:236-240): whatever the line was, whichever *)
(* opens and forks failed, no command leaves its redirections behind.      *)
(* Where pipe fails the model stops: its numbers are then not set (71).    *)
StdioRestored ==
  pc = "prompt" => \A d \in 0 .. 2 : table[d] = Tty(d) /\ table[3 + d] = Tty(d)
-----------------------------------------------------------------------------
(* How a user reads a line: words between separators. *)
Separators(l)    == {i \in 1 .. Len(l) : l[i] \in {"semicolon", "bar"}}
Before(l, i)     == Max({0} \cup {s \in Separators(l) : s < i})
CommandAfter(l, s) ==
  LET W == {i \in s + 1 .. Len(l) : l[i] \in Commands /\ Before(l, i) = s}
  IN IF W = {} THEN 0 ELSE Min(W)
Words(l)         == {CommandAfter(l, s) : s \in {0} \cup Separators(l)} \ {0}
BarBefore(l, i)  == Before(l, i) # 0 /\ l[Before(l, i)] = "bar"
BarAfter(l, i)   == LET S == {s \in Separators(l) : s > i} IN S # {} /\ l[Min(S)] = "bar"
LeftOf(l, i)     == CommandAfter(l, Before(l, Before(l, i)))

(* run_pipeline skips the character behind the bar: only lines with a      *)
(* blank there are read as the user means them.                            *)
Spaced(l) == \A i \in 1 .. Len(l) : l[i] = "bar" => i < Len(l) /\ l[i + 1] = "blank"

(* A command starts with its neighbours' pipes: what it reads was written  *)
(* by the command left of it and nobody can still write there, what it     *)
(* writes goes into an empty pipe if there is a command to its right.      *)
(* The ends of a line are /dev/null and N.stdout; the terminal is out of   *)
(* reach.  All this until descriptors run out (dsh.c:216-223, 70-86).      *)
Plumbing ==
  child.state = "forked" /\ child.at # 0 /\ Spaced(typed) /\ ~exhausted =>
    LET in == child.table[0]  out == child.table[1]  c == child.at
    IN /\ IF BarBefore(typed, c)
          THEN /\ in[1] = "read"
               /\ ~Written(in[2])
               /\ \A i \in DOMAIN pipes[in[2]] : pipes[in[2]][i] = LeftOf(typed, c)
          ELSE in = Null
       /\ IF BarAfter(typed, c) THEN out[1] = "write" /\ pipes[out[2]] = <<>>
                               ELSE out = Out
       /\ child.table[2] = Err

(* Only the newest pipe can still be written to, and only while the shell  *)
(* waits for its left command (dsh.c:76-83): no copy of a write end gets   *)
(* into a later command, where it would keep a reader from ever ending.    *)
OnlyNewestIsWritten ==
  \A k \in 1 .. Len(pipes) : Written(k) => pc = "waitLeft" /\ k = Len(pipes)

(* The recursion of run, run_sequence and run_pipeline calls every command *)
(* of the line once, from left to right (dsh.c:96-170).                    *)
CommandsRunInOrder ==
  pc = "prompt" /\ Spaced(typed) =>
    /\ \A c \in Words(typed) : \E i \in DOMAIN called : called[i] = c
    /\ \A i \in DOMAIN called : /\ called[i] \in Words(typed)
                                /\ i > 1 => called[i - 1] < called[i]

(* run_pipeline never closes its two copies (dsh.c:72, 73): each pipeline  *)
(* costs the shell two descriptors, and nothing else costs any.            *)
LeakIsExact ==
  pc = "prompt" /\ ~exhausted => Cardinality(Fds \ Free(table)) = 6 + 2 * Len(pipes)

(* A line ends and the user gets the shell back, even when descriptors run *)
(* out in the middle of it, unless a command writes more than a pipe holds *)
(* (its reader is started only when it has ended, dsh.c:80) or reads the   *)
(* terminal because /dev/null could not be opened.  It takes the close of  *)
(* every write end, in the shell and its children, for a reader to end.    *)
PipeIsFull    == child.todo > 0 /\ Blocked
ReadsTerminal == child.reads /\ child.table[0][1] = "tty"
LineEnds ==
  pc = "run" ~> pc \in {"prompt", "exited", "undefined"} \/ PipeIsFull \/ ReadsTerminal
-----------------------------------------------------------------------------
(* The shell as its user sees it, in a line that is read as it is meant    *)
(* and until descriptors run out.  The command that runs is the child; it  *)
(* reads what 0 of the shell reads.  What it writes for the next one is in *)
(* the newest pipe until that one is forked.                               *)
Meant == Spaced(typed) /\ ~exhausted
Runs  == Meant /\ child.at # 0

Neighbour(l, c) == IF BarBefore(l, c) THEN LeftOf(l, c) ELSE 0

AtBar == \/ pc = "waitLeft"
         \/ pc = "run" /\ stack # <<>> /\ Head(stack).f = "pipeline"
Bar   == IF pc = "run" THEN at - 2 ELSE Head(stack).tail - 1

Asked   == [c \in IF Meant THEN Words(typed) ELSE {} |-> Neighbour(typed, c)]
Latest  == IF Meant /\ called # <<>> THEN called[Len(called)] ELSE 0
Unread  == IF Runs /\ IsPipe(table[0], "read") THEN pipes[table[0][2]] ELSE <<>>
Unasked == IF Meant /\ AtBar /\ CommandAfter(typed, Bar) # 0 THEN pipes[Len(pipes)] ELSE <<>>

TheUser == INSTANCE Pipelines WITH
  left    <- Asked,
  last    <- Latest,
  running <- Runs,
  unread  <- Unread,
  written <- Unasked,
  spent   <- exhausted

(* Commands run once and in order, and each can read exactly what the one  *)
(* left of its bar has written: nothing is lost on the way through the     *)
(* recursion, two pipes and the copies of 0 (dsh.c:69-170), nothing comes  *)
(* from elsewhere, and the only excuse is a table that is full.            *)
ImplementsPipelines == TheUser!Spec
=============================================================================
