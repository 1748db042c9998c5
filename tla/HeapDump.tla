------------------------------ MODULE HeapDump ------------------------------
(***************************************************************************)
(* hw6: heapdump.c prints what it reads between a first chunk and the      *)
(* break, and along the list of free chunks; main.c gives it something to  *)
(* print.  The heap is that of a C library without caches per thread, as   *)
(* main.c takes it to be: a chunk has its size one word behind its start,  *)
(* its memory two words behind it, and there, while it is free, the start  *)
(* of the next free one.  Addresses count words.                           *)
(***************************************************************************)
EXTENDS Integers, SequencesExt

CONSTANTS
  SMALL, LARGE,        (* words of a chunk of 200 and of 1000 bytes        *)
  ROUND,               (* chunks of the first rounds, 5; twice that later  *)
  MINSIZE,             (* words of the smallest chunk                      *)
  MAX_TOP              (* bound: words in the last chunk after a call      *)

ASSUME HeapAssumption ==
  /\ {SMALL, LARGE, ROUND, MINSIZE, MAX_TOP} \subseteq Nat /\ 0 < ROUND
  /\ 3 < MINSIZE /\ MINSIZE <= SMALL /\ SMALL < LARGE /\ MINSIZE <= MAX_TOP

VARIABLES
  heap, live, list,    (* sizes of the chunks; those in use; the list of   *)
                       (* those that are free, last freed first            *)
  wild, brk,           (* the last chunk, which is free, and the break     *)
  part, turn,          (* main: the loop it is in and the turn of it,      *)
  chunks, hdr,         (* and its variables                                *)
  walk, chunk, shown   (* what is being printed, where, and what has been  *)

heapState == <<heap, live, list, wild, brk>>
heapVars  == <<heapState, part, turn, chunks, hdr, walk, chunk, shown>>

HeapInit ==
  /\ heap = <<>> /\ live = {} /\ list = <<>> /\ wild = 0 /\ brk = MINSIZE
  /\ part = 1 /\ turn = 1 /\ chunks = <<>> /\ hdr = 0
  /\ walk = "none" /\ chunk = 0 /\ shown = <<>>
-----------------------------------------------------------------------------
(* What the words of memory hold: a size with the bit that says whether    *)
(* the chunk before is in use, and the links of the list, round its header.*)
BIN         == -9
JUNK        == -1
Mem(h)      == h + 2
Size(a)     == IF a - 1 = wild THEN brk - wild
               ELSE IF a - 1 \in DOMAIN heap THEN heap[a - 1] ELSE JUNK
PrevUsed(a) == \A h \in DOMAIN heap : h + heap[h] = a - 1 => h \in live
Ring        == <<BIN>> \o list \o <<BIN>>
Places(a)   == {i \in 1 .. Len(list) + 1 : Mem(Ring[i]) = a}
Link(a)     == IF Places(a) = {} THEN JUNK ELSE Ring[Min(Places(a)) + 1]
-----------------------------------------------------------------------------
(* The library. *)
With(f, x, y) == [z \in DOMAIN f \cup {x} |-> IF z = x THEN y ELSE f[z]]

Breaks(w) == {w + n : n \in MINSIZE .. MAX_TOP}

(* No free chunk in the list is as large as what main asks for: they are   *)
(* put away in other lists, and the memory comes from the last chunk.      *)
malloc(i, n) ==
  /\ \A k \in 1 .. Len(list) : heap[list[k]] < n
  /\ heap' = With(heap, wild, n)
  /\ live' = live \cup {wild}
  /\ list' = <<>>
  /\ wild' = wild + n
  /\ brk' \in IF brk >= wild' + MINSIZE THEN {brk} ELSE Breaks(wild')
  /\ chunks' = With(chunks, i, Mem(wild))
  /\ UNCHANGED hdr

(* A chunk is joined with the free ones on both sides of it, which leave   *)
(* the list; unless that takes it to the last chunk, it enters the list.   *)
free(i) ==
  LET h      == chunks[i] - 2
      joined == {g \in DOMAIN heap \ live : g + heap[g] = h \/ g = h + heap[h]} \cup {h}
      first  == Min(joined)
      last   == Max(joined)
      end    == last + heap[last]
      kept   == [g \in DOMAIN heap \ joined |-> heap[g]]
      others == RemoveFirst(RemoveFirst(list, first), last)
  IN /\ live' = live \ {h}
     /\ IF end = wild
        THEN heap' = kept /\ wild' = first /\ list' = others
        ELSE heap' = With(kept, first, end - first) /\ list' = <<first>> \o others
             /\ UNCHANGED wild
     /\ UNCHANGED <<brk, chunks, hdr>>

malloc_trim ==
  /\ brk' \in {b \in Breaks(wild) : b <= brk}
  /\ UNCHANGED <<heap, live, list, wild, chunks, hdr>>
-----------------------------------------------------------------------------
(* main is loops, some of one turn, each of one call and of what it prints *)
(* after it.  To find the header of the list it frees a chunk while the    *)
(* list is empty and reads the link in it; another chunk keeps it apart    *)
(* from the last one (find_freelist, the ninth loop to the twelfth).       *)
PTR    == 2 * ROUND
PTR2   == PTR + 1
BOTTOM == PTR + 2

UpTo(n)     == [k \in 1 .. n |-> k - 1]
DownFrom(n) == [k \in 1 .. n |-> n - k]
Even        == [k \in 1 .. ROUND |-> 2 * k - 2]
OddShort    == [k \in 1 .. ROUND - 1 |-> 2 * k - 1]  \* faulty
Odd         == [k \in 1 .. ROUND |-> 2 * k - 1]
TwoSwapped  == <<PTR2, PTR>>  \* faulty
Two         == <<PTR, PTR2>>

Loop(call, over, dump) == [call |-> call, over |-> over, dump |-> dump]

main == <<
  Loop("large", <<BOTTOM>>, "heap"),        Loop("trim", <<0>>, "heap"),
  Loop("malloc", UpTo(ROUND), "heap"),      Loop("free", DownFrom(ROUND), "heap"),
  Loop("malloc", UpTo(ROUND), "none"),      Loop("free", UpTo(ROUND), "heap"),
  Loop("trim", <<0>>, "heap"),
  Loop("malloc", UpTo(2 * ROUND), "none"),
  Loop("malloc", Two, "none"),              Loop("free", <<PTR>>, "none"),
  Loop("header", <<PTR>>, "none"),          Loop("free", <<PTR2>>, "none"),
  Loop("free", Even, "list"),               Loop("free", Odd, "list"),
  Loop("malloc", UpTo(2 * ROUND), "none"),  Loop("free", Even, "list"),
  Loop("large", <<PTR>>, "list") >>

Turns == main[part].over
Index == Turns[turn]

Advance == IF turn < Len(Turns) THEN turn' = turn + 1 /\ UNCHANGED part
                                ELSE turn' = 1 /\ part' = part + 1

Printed == \/ walk = "none"
           \/ walk = "heap" /\ ~ chunk < brk
           \/ walk = "list" /\ chunk + 1 = hdr

Begin == LET dump == main[part].dump
         IN /\ walk' = dump /\ shown' = <<>>
            /\ chunk' = CASE dump = "heap" -> (chunks[BOTTOM] - 1)'
                           [] dump = "list" -> (Mem(Link(hdr)) - 1)'
                           [] dump = "none" -> 0

Calls(name) == main[part].call = name

Call ==
  /\ Printed /\ part <= Len(main)
  /\ \/ Calls("malloc") /\ malloc(Index, SMALL)
     \/ Calls("large")  /\ malloc(Index, LARGE)
     \/ Calls("free")   /\ free(Index)
     \/ Calls("trim")   /\ malloc_trim
     \/ Calls("header") /\ hdr' = Mem(Link(chunks[Index])) /\ UNCHANGED <<heapState, chunks>>
  /\ Advance /\ Begin
-----------------------------------------------------------------------------
(* heapdump.c.  A chunk is in use if the one behind it says so; the last   *)
(* one has none behind it.                                                 *)
Mark(a)    == IF a + Size(a) < brk /\ PrevUsed(a + Size(a)) THEN "A" ELSE "F"
Shown(a)   == <<Mark(a), Size(a), a>>

print_chunk(next) ==
  IF Size(chunk) = JUNK
  THEN walk' = "undefined" /\ UNCHANGED <<chunk, shown>>
  ELSE shown' = Append(shown, Shown(chunk)) /\ chunk' = next /\ UNCHANGED walk

print_heap ==
  /\ walk = "heap" /\ chunk < brk
  /\ print_chunk(chunk + Size(chunk))
  /\ UNCHANGED <<heapState, part, turn, chunks, hdr>>

print_freelist ==
  /\ walk = "list" /\ chunk + 1 # hdr
  /\ print_chunk(Mem(Link(chunk + 1)) - 1)
  /\ UNCHANGED <<heapState, part, turn, chunks, hdr>>

HeapNext == Call \/ print_heap \/ print_freelist
HeapSpec == HeapInit /\ [][HeapNext]_heapVars
-----------------------------------------------------------------------------
(* What a dump should say: of the heap every chunk in the order of their   *)
(* addresses, of the list every chunk in the order of the list.            *)
AllChunks == DOMAIN heap \cup {wild}
Told(h)   == << IF h \in live THEN "A" ELSE "F", Size(h + 1), h + 1 >>

HeapTold ==
  /\ \A k \in 1 .. Len(shown) : \E h \in AllChunks : shown[k] = Told(h)
  /\ \A k \in 1 .. Len(shown) : \A j \in 1 .. k - 1 : shown[j][3] < shown[k][3]
  /\ \A k \in 1 .. Len(shown) : \A h \in AllChunks :
       h + 1 < shown[k][3] => \E j \in 1 .. k - 1 : shown[j] = Told(h)
  /\ Printed => \A h \in AllChunks : \E k \in 1 .. Len(shown) : shown[k] = Told(h)

ListTold ==
  /\ Len(shown) <= Len(list) /\ \A k \in 1 .. Len(shown) : shown[k] = Told(list[k])
  /\ Printed => Len(shown) = Len(list)

(* Both walks print the truth, chunk by chunk, and end with all of it      *)
(* printed: the bit in the chunk behind, the last chunk that has none      *)
(* behind it, the header found by main and the links agree with the heap,  *)
(* whatever was joined and wherever the break is.                          *)
DumpIsTrue ==
  /\ walk # "undefined"
  /\ walk = "heap" => HeapTold
  /\ walk = "list" => ListTold

(* Whenever main asks for memory, no free chunk on the list is as large:   *)
(* every loop that asks begins with what the one before left joined to the *)
(* last chunk, and the last call, for a large chunk, finds a list of small *)
(* ones that nothing has joined.                                           *)
NothingFits ==
  part <= Len(main) =>
    /\ Calls("malloc") => \A k \in 1 .. Len(list) : heap[list[k]] < SMALL
    /\ Calls("large")  => \A k \in 1 .. Len(list) : heap[list[k]] < LARGE
=============================================================================
