----------------------------- MODULE MCPrograms -----------------------------
(***************************************************************************)
(* The programs that run by themselves: the one that runs is chosen once,  *)
(* and the others stay as they begin, so their states add up and do not    *)
(* multiply.                                                               *)
(***************************************************************************)
EXTENDS ShellSafety, LineEditorSafety, RequestLog, Sessions, Filter, Counter, HeapDump

VARIABLE program

vars == <<shellVars, editorVars, logVars, sessionVars, filterVars, counterVars,
          heapVars, program>>

Only(name) ==
  /\ program = name /\ UNCHANGED program
  /\ name = "shell"    \/ UNCHANGED shellVars
  /\ name = "editor"   \/ UNCHANGED editorVars
  /\ name = "log"      \/ UNCHANGED logVars
  /\ name = "sessions" \/ UNCHANGED sessionVars
  /\ name = "filter"   \/ UNCHANGED filterVars
  /\ name = "counter"  \/ UNCHANGED counterVars
  /\ name = "heap"     \/ UNCHANGED heapVars

Init ==
  /\ program \in {"shell", "editor", "log", "sessions", "filter", "counter", "heap"}
  /\ ShellInit /\ EditorInit /\ LogInit /\ SessionInit /\ FilterInit /\ CounterInit
  /\ HeapInit
  /\ program # "sessions" => existing = {} /\ ~writable
  /\ program # "filter" => unread = <<>> /\ tool = "safe"
  /\ tool = "safe" => Len(unread) <= 1  \* safe ends with its first call

Next ==
  \/ Only("shell") /\ ShellNext
  \/ Only("editor") /\ EditorNext
  \/ Only("log") /\ LogNext
  \/ Only("sessions") /\ SessionNext
  \/ Only("filter") /\ FilterNext
  \/ Only("counter") /\ CounterNext
  \/ Only("heap") /\ HeapNext

(* Fair are the steps of the shell, of its child, and of every program     *)
(* that makes itself a folder.                                             *)
OneProgram ==
  /\ Init /\ [][Next]_vars
  /\ WF_vars(Only("shell") /\ ShellStep) /\ WF_vars(Only("shell") /\ ChildStep)
  /\ \A p \in Programs : WF_vars(Only("sessions") /\ SessionStep(p))
-----------------------------------------------------------------------------
(* Lines for the shell: one to three commands in every arrangement, a      *)
(* redirected command on each side of a bar, and lines written badly.      *)
a == "a"
r == "r"   \* redirects its output
q == "q"   \* redirects its input
Names == {a, r, q}
Redirections == [n \in Names |-> CASE n = a -> {} [] n = r -> {1} [] n = q -> {0}]
bar == <<"bar", "blank">>
Good == { <<a>>, <<a, "semicolon", a>>, <<a>> \o bar \o <<a>>,
          <<a>> \o bar \o <<a>> \o bar \o <<a>>,
          <<a>> \o bar \o <<a, "semicolon", a>>, <<a, "semicolon", a>> \o bar \o <<a>>,
          <<r>> \o bar \o <<q>>, <<a, "bar", "blank">> }
Bad  == { <<a, "bar", a>>, <<a, "bar", "semicolon", a>>, <<>> }
AllLines == Good \cup Bad

(* Lines for the filter: the word, its halves and a terminator, up to      *)
(* three in a line.                                                        *)
Pieces == {Evolution, SubSeq(Evolution, 1, 4), SubSeq(Evolution, 5, 9), <<"nul">>}
Letters == {"e", "v", "o", "l", "u", "t", "i", "n", "G", "O", "D", "nul"}
Texts == {FlattenSeq(s) : s \in UNION {[1 .. n -> Pieces] : n \in 1 .. 3}}
=============================================================================
