------------------------------- MODULE Filter -------------------------------
(***************************************************************************)
(* hw3: safecat.c reads lines and hands them to safewrite (safeprep.c),    *)
(* which writes them with every "evolution" replaced by "GOD"; safe.c does *)
(* the same to the first write of any program it is preloaded into.  A     *)
(* text is a sequence of bytes, of which only these are told apart.        *)
(***************************************************************************)
EXTENDS Integers, SequencesExt

CONSTANTS
  Bytes,               (* the bytes that are told apart                    *)
  Inputs,              (* what the lines of the input can be, and what can *)
                       (* stand in memory where another program writes     *)
  MAX_INPUT,           \* bound on their number
  BUFFER               (* size of buffer, 1024                             *)

Evolution == <<"e", "v", "o", "l", "u", "t", "i", "o", "n">>
GOD       == <<"G", "O", "D">>

ASSUME FilterAssumption ==
  /\ {"e", "v", "o", "l", "u", "t", "i", "n", "G", "O", "D", "nul"} \subseteq Bytes
  /\ Inputs \subseteq Seq(Bytes)
  /\ MAX_INPUT \in Nat /\ BUFFER \in Nat

VARIABLES
  unread,              (* the lines not yet read                           *)
  tool,                (* "safecat", or "safe" in another program          *)
  buf, count,          (* the arguments of safewrite                       *)
  buffer, ret,         (* what has been copied, what is left to copy       *)
  filter,              (* "read", "replace", "stopped", or "undefined"     *)
  asked, output        (* history: the arguments, and what was written     *)

filterVars == <<unread, tool, buf, count, buffer, ret, filter, asked, output>>

FilterInit ==
  /\ unread \in UNION {[1 .. n -> Inputs] : n \in 0 .. MAX_INPUT}
  /\ tool \in {"safecat", "safe"}
  /\ buf = <<>> /\ count = 0 /\ buffer = <<>> /\ ret = <<>>
  /\ filter = "read" /\ asked = <<>> /\ output = <<>>

(* A C string ends at the first terminator. *)
Ends(s)      == {i \in 1 .. Len(s) : s[i] = "nul"}
Cstring(s)   == IF Ends(s) = {} THEN s ELSE SubSeq(s, 1, Min(Ends(s)) - 1)

Begins(text, n) ==
  /\ buf' = text /\ count' = n /\ asked' = Append(asked, [buf |-> text, count |-> n])
  /\ buffer' = <<>> /\ ret' = Cstring(text) /\ filter' = "replace"

(* safecat: getline gives a line and its length, or -1 at the end of the    *)
(* input.  The loop only stops at 0: it goes on for ever with the line it   *)
(* has, which is not set up if there never was one.                         *)
GetLine ==
  /\ filter = "read" /\ tool = "safecat" /\ unread # <<>>
  /\ unread' = Tail(unread) /\ Begins(Head(unread), Len(Head(unread)))
  /\ UNCHANGED <<tool, output>>

EndOfInput ==
  /\ filter = "read" /\ tool = "safecat" /\ unread = <<>>
  /\ count' = -1 /\ buffer' = <<>> /\ ret' = Cstring(buf)
  /\ filter' \in IF asked = <<>> THEN {"replace", "undefined"} ELSE {"replace"}
  /\ UNCHANGED <<unread, tool, buf, asked, output>>

(* safe: the program calls write for the first bytes of what it has at buf. *)
(* The string that begins there is another matter: it may be longer or, if  *)
(* there is a terminator among the bytes to be written, shorter.            *)
CallWrite ==
  /\ filter = "read" /\ tool = "safe" /\ unread # <<>>
  /\ unread' = Tail(unread)
  /\ \E n \in 0 .. Len(Head(unread)) : Begins(Head(unread), n)
  /\ UNCHANGED <<tool, output>>

Found == {i \in 1 .. Len(ret) - 8 : SubSeq(ret, i, i + 8) = Evolution}
First == Min(Found)

ByTheWord(n) == n - 9  \* faulty
Shorter(n)   == n - 6

Replace ==
  /\ filter = "replace" /\ Found # {}
  /\ buffer' = buffer \o SubSeq(ret, 1, First - 1) \o GOD
  /\ ret' = SubSeq(ret, First + 9, Len(ret))
  /\ count' = Shorter(count)
  /\ UNCHANGED <<unread, tool, buf, filter, asked, output>>

(* safewrite copies the result over the line, where what was behind it      *)
(* stays, and writes count bytes, none if count is negative.                *)
Over(s, t) == s \o <<"nul">> \o SubSeq(t, Len(s) + 2, Len(t))

Fits(s) == Len(s) < BUFFER

FinishSafecat ==
  LET text == Over(buffer \o ret, buf)
  IN /\ filter = "replace" /\ Found = {} /\ tool = "safecat"
     /\ IF Fits(buffer \o ret)
        THEN /\ filter' = "read" /\ buf' = text
             /\ output' = IF count < 0 THEN output ELSE Append(output, SubSeq(text, 1, count))
        ELSE filter' = "undefined" /\ UNCHANGED <<buf, output>>
     /\ UNCHANGED <<unread, tool, count, buffer, ret, asked>>

(* safe writes a copy of the result, no bytes if count is negative, and     *)
(* ends the program after this one write.  The copy has room for all but    *)
(* its terminator, so that strcpy writes one byte behind it: that may go    *)
(* well, or not.  Nor may more be written than there is.                    *)
FinishSafe ==
  LET text == buffer \o ret
  IN /\ filter = "replace" /\ Found = {} /\ tool = "safe"
     /\ \/ /\ Fits(text) /\ count <= Len(text)
           /\ filter' = "stopped" /\ output' = Append(output, SubSeq(text, 1, count))
        \/ filter' = "undefined" /\ UNCHANGED output
     /\ UNCHANGED <<unread, tool, buf, count, buffer, ret, asked>>

FilterNext == GetLine \/ EndOfInput \/ CallWrite \/ Replace \/ FinishSafecat \/ FinishSafe
FilterSpec == FilterInit /\ [][FilterNext]_filterVars
-----------------------------------------------------------------------------
(* The same by one byte at a time. *)
Ended(u)    == Len(u) >= 9 /\ SubSeq(u, Len(u) - 8, Len(u)) = Evolution
Add(t, b)   == LET u == Append(t, b)
               IN IF Ended(u) THEN SubSeq(u, 1, Len(u) - 9) \o GOD ELSE u
FilteredTo(s) ==
  LET to[n \in 0 .. Len(s)] == IF n = 0 THEN <<>> ELSE Add(to[n - 1], s[n]) IN to
Filtered(s) == FilteredTo(s)[Len(s)]

(* What a call comes to: of its string, filtered, as many bytes as it asked *)
(* for less those that the filter took away, wherever in the string that    *)
(* was; with safecat, what stood in the line behind the filtered string     *)
(* follows it.                                                              *)
Outcome(by, call) ==
  LET string   == Cstring(call.buf)
      filtered == Filtered(string)
      text     == IF by = "safe" THEN filtered ELSE Over(filtered, call.buf)
  IN SubSeq(text, 1, call.count - (Len(string) - Len(filtered)))

(* Every call has written what it comes to, however often the word stands   *)
(* in its string, once and in order; after the last line nothing more is    *)
(* written, although safecat never stops.  A line without a terminator is   *)
(* written whole and filtered.  But safe, asked for the first four bytes of *)
(* the word, writes none.                                                   *)
WrittenAsFiltered ==
  filter \in {"read", "stopped"} =>
    /\ Len(output) = Len(asked)
    /\ \A i \in 1 .. Len(output) : output[i] = Outcome(tool, asked[i])
=============================================================================
