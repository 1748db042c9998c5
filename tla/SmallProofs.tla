----------------------------- MODULE SmallProofs -----------------------------
(* Theorems on counter.c, on the session folders and the requests of hw7,     *)
(* on the filters of hw3 and on the heap dump of hw6.                         *)
EXTENDS Counter, Sessions, RequestLog, Filter, HeapDump, FiniteSetTheorems,
        SequenceTheorems, WellFoundedInduction, TLAPS

(***************************************************************************)
(* counter.c.                                                              *)
(***************************************************************************)
CounterInv == incs \in Nat /\ CountIsLate

(* Whatever its caller does, the counter is one behind on the thirteenth   *)
(* and fourteenth call after a reset and exact otherwise.                  *)
THEOREM CounterIsLate == CounterSpec => []CountIsLate
<1>1. CounterInit => CounterInv
  BY DEF CounterInit, CounterInv, CountIsLate
<1>2. CounterInv /\ [CounterNext]_counterVars => CounterInv'
  <2> SUFFICES ASSUME CounterInv, [CounterNext]_counterVars PROVE CounterInv'
    OBVIOUS
  <2> USE DEF CounterInv, CountIsLate
  <2>1. CASE inc
    BY <2>1 DEF inc, TakenBack, MadeUp
  <2>2. CASE reset
    BY <2>2 DEF reset
  <2>3. CASE UNCHANGED counterVars
    BY <2>3 DEF counterVars
  <2> QED BY <2>1, <2>2, <2>3 DEF CounterNext
<1> QED BY <1>1, <1>2, PTL DEF CounterSpec, CounterInv

(***************************************************************************)
(* The session folders.                                                    *)
(***************************************************************************)
SessionTypeOK ==
  /\ folders \subseteq Nat /\ existing \subseteq folders
  /\ stage \in [Programs -> {"make", "look", "run"}]
  /\ counter_of \in [Programs -> Nat]
  /\ own \in [Programs -> Nat \cup {NoFolder}]
  /\ reads \in [Programs -> Int]

(* Where a program is in its search: what it has tried is taken, and the   *)
(* folder it made exists, for good.                                        *)
Searches ==
  /\ \A p \in Programs : \A n \in Nat :
       stage[p] = "make" /\ n < counter_of[p] /\ writable => n \in folders
  /\ \A p \in Programs : \A n \in Nat :
       stage[p] = "look" /\ n < counter_of[p] => n \in folders
  /\ \A p \in Programs : own[p] # NoFolder <=> stage[p] # "make"
  /\ \A p \in Programs : own[p] # NoFolder =>
       writable /\ \A n \in Nat : n <= own[p] => n \in folders
  /\ \A n \in folders : n \in existing \/ \E q \in Programs : own[q] = n

SessionInv == SessionTypeOK /\ Searches /\ FoldersAreOwn /\ ReadsOwnUnless

LEMMA SessionInitInv == SessionInit => SessionInv
BY OldAssumption DEF SessionInit, SessionInv, SessionTypeOK, Searches, FoldersAreOwn, ReadsOwnUnless, NoFolder

LEMMA MakeInv ==
  ASSUME SessionInv, NEW p \in Programs, Make(p)
  PROVE  SessionInv'
<1> USE DEF NoFolder
<1>0. SessionTypeOK /\ Searches /\ FoldersAreOwn /\ ReadsOwnUnless
  BY DEF SessionInv
<1>1. CASE Taken(counter_of[p])
  <2>1. /\ counter_of' = [counter_of EXCEPT ![p] = @ + 1]
        /\ UNCHANGED <<folders, existing, writable, stage, own, reads>>
    BY <1>1 DEF Make, Try
  <2>2. SessionTypeOK'
    BY <1>0, <2>1 DEF SessionTypeOK
  <2>3. \A q \in Programs : counter_of'[q] = IF q = p THEN counter_of[p] + 1 ELSE counter_of[q]
    BY <1>0, <2>1 DEF SessionTypeOK
  <2>4. counter_of[p] \in Nat /\ (writable => counter_of[p] \in folders) /\ stage[p] = "make"
    BY <1>0, <1>1 DEF SessionTypeOK, Taken, Make
  <2>5. Searches'
    BY <1>0, <2>1, <2>3, <2>4 DEF Searches
  <2>6. FoldersAreOwn' /\ ReadsOwnUnless'
    BY <1>0, <2>1 DEF FoldersAreOwn, ReadsOwnUnless
  <2> QED BY <2>2, <2>5, <2>6 DEF SessionInv
<1>2. CASE ~Taken(counter_of[p])
  <2> DEFINE m == counter_of[p]
  <2>1. /\ folders' = folders \cup {m}
        /\ own' = [own EXCEPT ![p] = m]
        /\ counter_of' = [counter_of EXCEPT ![p] = 0]
        /\ stage' = [stage EXCEPT ![p] = IF p \in Terminals THEN "look" ELSE "run"]
        /\ UNCHANGED <<existing, writable, reads>>
        /\ stage[p] = "make"
    BY <1>2 DEF Make
  <2>2. m \in Nat /\ m \notin folders /\ writable
    BY <1>0, <1>2 DEF SessionTypeOK, Taken
  <2> HIDE DEF m
  <2>3. SessionTypeOK'
    BY <1>0, <2>1, <2>2 DEF SessionTypeOK
  <2>4. \A q \in Programs : /\ own'[q] = (IF q = p THEN m ELSE own[q])
                            /\ counter_of'[q] = (IF q = p THEN 0 ELSE counter_of[q])
                            /\ q # p => stage'[q] = stage[q]
    BY <1>0, <2>1 DEF SessionTypeOK
  <2>5. stage'[p] \in {"look", "run"} /\ own[p] = NoFolder /\ (p \in Terminals => stage'[p] = "look")
    BY <1>0, <2>1 DEF SessionTypeOK, Searches
  <2>6. \A n \in Nat : n < m => n \in folders
    BY <1>0, <2>1, <2>2 DEF Searches, m
  <2>7. Searches'
    <3>1. (\A q \in Programs : \A n \in Nat :
             stage[q] = "make" /\ n < counter_of[q] /\ writable => n \in folders)'
      BY <1>0, <2>1, <2>4, <2>5 DEF Searches
    <3>2. (\A q \in Programs : \A n \in Nat :
             stage[q] = "look" /\ n < counter_of[q] => n \in folders)'
      BY <1>0, <2>1, <2>4, <2>5 DEF Searches
    <3>3. (\A q \in Programs : own[q] # NoFolder <=> stage[q] # "make")'
      BY <1>0, <2>2, <2>4, <2>5 DEF Searches
    <3>4. (\A q \in Programs : own[q] # NoFolder =>
             writable /\ \A n \in Nat : n <= own[q] => n \in folders)'
      <4> SUFFICES ASSUME NEW q \in Programs, own'[q] # NoFolder, NEW n \in Nat, n <= own'[q]
                   PROVE  writable' /\ n \in folders'
        BY <1>0, <2>1, <2>2, <2>4 DEF Searches
      <4>1. CASE q = p
        BY <4>1, <2>1, <2>2, <2>4, <2>6
      <4>2. CASE q # p
        BY <4>2, <1>0, <2>1, <2>2, <2>4 DEF Searches
      <4> QED BY <4>1, <4>2
    <3>5. (\A n \in folders : n \in existing \/ \E q \in Programs : own[q] = n)'
      <4> SUFFICES ASSUME NEW n \in folders' PROVE n \in existing \/ \E q \in Programs : own'[q] = n
        BY <2>1
      <4>1. CASE n = m
        BY <4>1, <2>4
      <4>2. CASE n \in folders /\ n \notin existing
        <5>1. PICK q \in Programs : own[q] = n
          BY <4>2, <1>0 DEF Searches
        <5>2. n # NoFolder
          BY <4>2, <1>0 DEF SessionTypeOK
        <5> QED BY <5>1, <5>2, <2>4, <2>5
      <4> QED BY <4>1, <4>2, <2>1
    <3> QED BY <3>1, <3>2, <3>3, <3>4, <3>5 DEF Searches
  <2>8. \A q \in Programs : own[q] # NoFolder => own[q] \in folders
    BY <1>0 DEF Searches, SessionTypeOK
  <2>9. FoldersAreOwn'
    BY <1>0, <2>1, <2>2, <2>4, <2>8 DEF FoldersAreOwn, SessionTypeOK
  <2>10. ReadsOwnUnless'
    <3> SUFFICES ASSUME NEW t \in Terminals, stage'[t] = "run"
                 PROVE  \/ reads'[t] = own'[t]
                        \/ /\ reads'[t] > own'[t]
                           /\ \/ \E q \in Programs : own'[q] > own'[t]
                              \/ \E n \in existing' : n > own'[t]
      BY DEF ReadsOwnUnless
    <3>1. t \in Programs /\ t # p
      BY <2>5 DEF Programs
    <3>2. stage[t] = "run" /\ own'[t] = own[t] /\ own[t] \in Nat
      BY <3>1, <2>4, <1>0 DEF Searches, SessionTypeOK
    <3>3. \A q \in Programs : own[q] > own[t] => own'[q] = own[q]
      BY <3>2, <2>4, <2>5
    <3> QED BY <3>1, <3>2, <3>3, <2>1, <1>0 DEF ReadsOwnUnless
  <2> QED BY <2>3, <2>7, <2>9, <2>10 DEF SessionInv
<1> QED BY <1>1, <1>2

LEMMA LookInv ==
  ASSUME SessionInv, NEW p \in Programs, Look(p)
  PROVE  SessionInv'
<1> USE DEF NoFolder
<1>0. SessionTypeOK /\ Searches /\ FoldersAreOwn /\ ReadsOwnUnless
  BY DEF SessionInv
<1>1. stage[p] = "look" /\ UNCHANGED <<folders, existing, writable, own>> /\ counter_of[p] \in Nat
  BY <1>0 DEF Look, SessionTypeOK
<1>2. FoldersAreOwn'
  BY <1>0, <1>1 DEF FoldersAreOwn
<1>3. CASE counter_of[p] \in folders
  <2>1. counter_of' = [counter_of EXCEPT ![p] = @ + 1] /\ UNCHANGED <<stage, reads>>
    BY <1>3 DEF Look, Try
  <2>2. SessionTypeOK'
    BY <1>0, <1>1, <2>1 DEF SessionTypeOK
  <2>3. \A q \in Programs : counter_of'[q] = IF q = p THEN counter_of[p] + 1 ELSE counter_of[q]
    BY <1>0, <2>1 DEF SessionTypeOK
  <2>4. Searches'
    BY <1>0, <1>1, <1>3, <2>1, <2>3 DEF Searches
  <2>5. ReadsOwnUnless'
    BY <1>0, <1>1, <2>1 DEF ReadsOwnUnless
  <2> QED BY <1>2, <2>2, <2>4, <2>5 DEF SessionInv
<1>4. CASE counter_of[p] \notin folders
  <2> DEFINE m == counter_of[p]
  <2>1. /\ reads' = [reads EXCEPT ![p] = m - 1]
        /\ stage' = [stage EXCEPT ![p] = "run"]
        /\ UNCHANGED counter_of
    BY <1>4 DEF Look, LastSeen
  <2>2. SessionTypeOK'
    BY <1>0, <1>1, <2>1 DEF SessionTypeOK
  <2>3. \A q \in Programs : stage'[q] = (IF q = p THEN "run" ELSE stage[q])
    BY <1>0, <2>1 DEF SessionTypeOK
  <2>4. Searches'
    BY <1>0, <1>1, <2>1, <2>3 DEF Searches
  <2>5. own[p] \in Nat /\ own[p] < m
    <3>1. own[p] \in Nat /\ own[p] \in folders /\ \A n \in Nat : n <= own[p] => n \in folders
      BY <1>0, <1>1 DEF Searches, SessionTypeOK
    <3> QED BY <3>1, <1>1, <1>4
  <2>6. \A n \in Nat : n < m => n \in folders
    BY <1>0, <1>1 DEF Searches
  <2>7. ReadsOwnUnless'
    <3> SUFFICES ASSUME NEW t \in Terminals, stage'[t] = "run"
                 PROVE  \/ reads'[t] = own[t]
                        \/ /\ reads'[t] > own[t]
                           /\ \/ \E q \in Programs : own[q] > own[t]
                              \/ \E n \in existing : n > own[t]
      BY <1>1 DEF ReadsOwnUnless
    <3>0. t \in Programs
      BY DEF Programs
    <3>1. CASE t # p
      <4>1. reads'[t] = reads[t] /\ stage[t] = "run"
        BY <3>0, <3>1, <2>1, <2>3, <1>0 DEF SessionTypeOK
      <4> QED BY <4>1, <1>0 DEF ReadsOwnUnless
    <3>2. CASE t = p
      <4>1. reads'[t] = m - 1
        BY <3>2, <2>1, <1>0 DEF SessionTypeOK
      <4>2. CASE m - 1 = own[t]
        BY <4>1, <4>2
      <4>3. CASE m - 1 # own[t]
        <5>1. own[t] + 1 \in folders /\ own[t] + 1 > own[t] /\ m - 1 > own[t]
          BY <3>2, <4>3, <2>5, <2>6, <1>1
        <5>2. own[t] + 1 \in existing \/ \E q \in Programs : own[q] = own[t] + 1
          BY <5>1, <1>0 DEF Searches
        <5> QED BY <4>1, <5>1, <5>2
      <4> QED BY <4>2, <4>3
    <3> QED BY <3>1, <3>2
  <2> QED BY <1>2, <2>2, <2>4, <2>7 DEF SessionInv
<1> QED BY <1>3, <1>4

LEMMA SessionNextInv == SessionInv /\ [SessionNext]_sessionVars => SessionInv'
<1> SUFFICES ASSUME SessionInv, [SessionNext]_sessionVars PROVE SessionInv'
  OBVIOUS
<1>1. CASE UNCHANGED sessionVars
  BY <1>1 DEF sessionVars, SessionInv, SessionTypeOK, Searches, FoldersAreOwn, ReadsOwnUnless
<1>2. CASE SessionNext
  BY <1>2, MakeInv, LookInv DEF SessionNext, SessionStep
<1> QED BY <1>1, <1>2

(* The search for a folder keeps its invariant.                            *)
THEOREM SessionsAreSafe == SessionSpec => []SessionInv
BY SessionInitInv, SessionNextInv, PTL DEF SessionSpec

(* However many programs start at once and whatever folders there are, no  *)
(* two of them get the same one.                                           *)
THEOREM EveryFolderIsOwn == SessionSpec => []FoldersAreOwn
<1>1. SessionInv => FoldersAreOwn
  BY DEF SessionInv
<1> QED BY <1>1, SessionsAreSafe, PTL

(* A terminal reads from the folder of its own shell unless there was one  *)
(* with a higher number.                                                   *)
THEOREM TerminalReadsOwn == SessionSpec => []ReadsOwnUnless
<1>1. SessionInv => ReadsOwnUnless
  BY DEF SessionInv
<1> QED BY <1>1, SessionsAreSafe, PTL

(***************************************************************************)
(* The requests of hw7.                                                    *)
(***************************************************************************)
(* Without a race at most one passenger is between reading and writing a   *)
(* counter, and what it has read is the value.                             *)
Alone ==
  ~raced =>
    /\ \A p, q \in Callers :
         place[p] = place[q] /\ place[p] \in {"counting", "starting"} => p = q
    /\ \A p \in Callers : place[p] = "counting" => seen[p] = wait_count
    /\ \A p \in Callers : place[p] = "starting" => seen[p] = start

Stopped == beside => \E p \in Callers : place[p] = "count"

LogInv == LogTypeOK /\ NeverAhead /\ ExactUnlessRaced /\ Alone /\ BesideOnlyLater /\ Stopped

LEMMA RequestsFinite == IsFiniteSet(Requests)
<1>1. IsFiniteSet(1 .. CALLS)
  BY LogAssumption, FS_Interval
<1> QED BY <1>1, LogAssumption, FS_Product DEF Requests

LEMMA HistoriesFinite ==
  LogTypeOK => /\ IsFiniteSet(counted) /\ Cardinality(counted) \in Nat
               /\ IsFiniteSet(begun) /\ Cardinality(begun) \in Nat
<1> SUFFICES ASSUME LogTypeOK PROVE /\ IsFiniteSet(counted) /\ Cardinality(counted) \in Nat
                                    /\ IsFiniteSet(begun) /\ Cardinality(begun) \in Nat
  OBVIOUS
<1>1. counted \in SUBSET Requests /\ begun \in SUBSET Requests
  BY DEF LogTypeOK
<1> QED BY <1>1, RequestsFinite, FS_Subset, FS_CardinalityType

(* First requests of everybody but one are fewer than there are passengers. *)
LEMMA OneIsMissing ==
  ASSUME NEW p \in Callers, NEW S \in SUBSET ((Callers \ {p}) \X {1})
  PROVE  Cardinality(S) < WAITLIST
<1> DEFINE T == Callers \ {p}
           f == [r \in S |-> r[1]]
<1>1. IsFiniteSet(T) /\ Cardinality(T) = Cardinality(Callers) - 1 /\ Cardinality(Callers) \in Nat
  BY LogAssumption, FS_RemoveElement, FS_CardinalityType
<1>2. f \in Injection(S, T)
  BY DEF Injection, IsInjective
<1>3. IsFiniteSet(S) /\ Cardinality(S) <= Cardinality(T)
  <2> HIDE DEF f, T
  <2> QED BY <1>1, <1>2, FS_Injection
<1>4. Cardinality(S) \in Nat
  BY <1>3, FS_CardinalityType
<1> QED BY <1>1, <1>3, <1>4, LogAssumption

LEMMA LogInitInv == LogInit => LogInv
<1> SUFFICES ASSUME LogInit PROVE LogInv
  OBVIOUS
<1>1. LogTypeOK
  <2>1. \A r \in Requests : ~Counted(r[1], r[2]) /\ ~(r[2] <= call[r[1]])
    BY LogAssumption DEF LogInit, Requests, Counted
  <2>2. counted = {r \in Requests : Counted(r[1], r[2])}
    BY <2>1 DEF LogInit
  <2>3. begun = {r \in Requests : r[2] <= call[r[1]]}
    BY <2>1 DEF LogInit
  <2>4. call \in [Callers -> 0 .. CALLS]
    BY LogAssumption DEF LogInit
  <2> QED BY <2>2, <2>3, <2>4 DEF LogInit, LogTypeOK
<1>2. Cardinality({}) = 0
  BY FS_EmptySet
<1> QED BY <1>1, <1>2 DEF LogInit, LogInv, NeverAhead, ExactUnlessRaced, Alone, BesideOnlyLater, Stopped

LEMMA PostInv ==
  ASSUME LogInv, NEW p \in Callers, Post(p)
  PROVE  LogInv'
<1>1. /\ place[p] = "post" /\ place' = [place EXCEPT ![p] = "count"] /\ call[p] < CALLS
      /\ ~beside /\ beside' = (wait_count >= WAITLIST)
      /\ UNCHANGED <<wait_count, start, seen, call, counted, begun, raced>>
  BY DEF Post, Move, Full
<1>2. \A q \in Callers : place'[q] = IF q = p THEN "count" ELSE place[q]
  BY <1>1 DEF LogInv, LogTypeOK
<1>3. LogTypeOK'
  <2>1. counted' = {r \in Requests : Counted(r[1], r[2])'}
    <3>1. \A q \in Callers : \A k : Counted(q, k)' <=> Counted(q, k)
      BY <1>1, <1>2 DEF Counted
    <3> QED BY <3>1, <1>1 DEF LogInv, LogTypeOK, Requests
  <2> QED BY <2>1, <1>1, <1>2 DEF LogInv, LogTypeOK, Requests
<1>4. NeverAhead' /\ ExactUnlessRaced' /\ Alone'
  BY <1>1, <1>2 DEF LogInv, NeverAhead, ExactUnlessRaced, Alone
<1>5. BesideOnlyLater' /\ Stopped'
  <2> SUFFICES ASSUME beside' PROVE BesideOnlyLater' /\ Stopped'
    BY DEF BesideOnlyLater, Stopped
  <2>1. Cardinality(counted) >= WAITLIST
    BY <1>1, HistoriesFinite, LogAssumption DEF LogInv, NeverAhead, LogTypeOK
  <2>2. \E q \in Callers : call[q] > 0
    <3> SUFFICES ASSUME \A q \in Callers : call[q] = 0 PROVE FALSE
      BY LogAssumption DEF LogInv, LogTypeOK
    <3>1. counted \in SUBSET ((Callers \ {p}) \X {1})
      <4> SUFFICES ASSUME NEW r \in counted PROVE r \in (Callers \ {p}) \X {1}
        OBVIOUS
      <4>1. r \in Callers \X (1 .. CALLS) /\ Counted(r[1], r[2])
        BY DEF LogInv, LogTypeOK, Requests
      <4>2. r[2] = 1 /\ r[1] # p
        BY <4>1, <1>1, LogAssumption DEF Counted
      <4> QED BY <4>1, <4>2
    <3> QED BY <3>1, <2>1, OneIsMissing, HistoriesFinite, LogAssumption DEF LogInv
  <2> QED BY <2>1, <2>2, <1>1, <1>2 DEF BesideOnlyLater, Stopped
<1> QED BY <1>3, <1>4, <1>5 DEF LogInv

LEMMA LoadInv ==
  ASSUME LogInv, NEW p \in Callers, CountLoad(p) \/ StartLoad(p)
  PROVE  LogInv'
<1>1. /\ ~beside /\ UNCHANGED <<wait_count, start, call, counted, begun, beside>>
      /\ \/ /\ place[p] = "count" /\ place' = [place EXCEPT ![p] = "counting"]
            /\ seen' = [seen EXCEPT ![p] = wait_count]
            /\ raced' = (raced \/ \E q \in Callers : place[q] = "counting")
         \/ /\ place[p] = "start" /\ place' = [place EXCEPT ![p] = "starting"]
            /\ seen' = [seen EXCEPT ![p] = start]
            /\ raced' = (raced \/ \E q \in Callers : place[q] = "starting")
  BY DEF CountLoad, StartLoad, Load, Move
<1>2. \A q \in Callers : q # p => place'[q] = place[q] /\ seen'[q] = seen[q]
  BY <1>1 DEF LogInv, LogTypeOK
<1>3. \/ place[p] = "count" /\ place'[p] = "counting" /\ seen'[p] = wait_count
      \/ place[p] = "start" /\ place'[p] = "starting" /\ seen'[p] = start
  BY <1>1 DEF LogInv, LogTypeOK
<1>4. LogTypeOK'
  <2>1. counted' = {r \in Requests : Counted(r[1], r[2])'}
    <3>1. \A q \in Callers : \A k : Counted(q, k)' <=> Counted(q, k)
      BY <1>1, <1>2, <1>3 DEF Counted
    <3> QED BY <3>1, <1>1 DEF LogInv, LogTypeOK, Requests
  <2>2. raced' \in BOOLEAN
    BY <1>1 DEF LogInv, LogTypeOK
  <2>3. \A q \in Callers : place'[q] # "post" => call'[q] < CALLS
    BY <1>1, <1>2, <1>3 DEF LogInv, LogTypeOK
  <2>4. place' \in [Callers -> {"post", "count", "counting", "start", "starting"}]
    BY <1>1 DEF LogInv, LogTypeOK
  <2>5. seen' \in [Callers -> Nat]
    BY <1>1 DEF LogInv, LogTypeOK
  <2> QED BY <2>1, <2>2, <2>3, <2>4, <2>5, <1>1 DEF LogInv, LogTypeOK, Requests
<1>5. NeverAhead' /\ ExactUnlessRaced'
  BY <1>1, <1>2, <1>3 DEF LogInv, NeverAhead, ExactUnlessRaced
<1>6. Alone'
  <2> SUFFICES ASSUME ~raced' PROVE Alone'
    BY DEF Alone
  <2>1. ~raced /\ \A q \in Callers : place[q] # place'[p]
    BY <1>1, <1>3
  <2> QED BY <2>1, <1>1, <1>2, <1>3 DEF LogInv, Alone
<1> QED BY <1>1, <1>4, <1>5, <1>6 DEF LogInv, BesideOnlyLater, Stopped

LEMMA CountStoreInv ==
  ASSUME LogInv, NEW p \in Callers, CountStore(p)
  PROVE  LogInv'
<1>1. /\ ~beside /\ place[p] = "counting" /\ place' = [place EXCEPT ![p] = "start"]
      /\ wait_count' = seen[p] + 1 /\ counted' = counted \cup {<<p, call[p] + 1>>}
      /\ UNCHANGED <<start, seen, call, begun, beside, raced>>
  BY DEF CountStore, Move, OneMore, Request
<1>2. \A q \in Callers : place'[q] = IF q = p THEN "start" ELSE place[q]
  BY <1>1 DEF LogInv, LogTypeOK
<1>3. <<p, call[p] + 1>> \in Requests /\ <<p, call[p] + 1>> \notin counted
  BY <1>1, LogAssumption DEF LogInv, LogTypeOK, Requests, Counted
<1>4. Cardinality(counted') = Cardinality(counted) + 1 /\ Cardinality(counted) \in Nat
  BY <1>1, <1>3, HistoriesFinite, FS_AddElement DEF LogInv
<1>5. LogTypeOK'
  <2>1. counted' = {r \in Requests : Counted(r[1], r[2])'}
    <3>1. \A r \in Requests : Counted(r[1], r[2])' <=> Counted(r[1], r[2]) \/ r = <<p, call[p] + 1>>
      BY <1>1, <1>2 DEF Counted, Requests
    <3> QED BY <3>1, <1>1, <1>3 DEF LogInv, LogTypeOK
  <2> QED BY <2>1, <1>1, <1>2 DEF LogInv, LogTypeOK, Requests
<1>6. NeverAhead'
  <2>1. seen[p] \in Nat /\ seen[p] <= Cardinality(counted)
    BY <1>1 DEF LogInv, LogTypeOK, NeverAhead
  <2>2. wait_count' <= Cardinality(counted')
    BY <2>1, <1>1, <1>4
  <2>3. \A q \in Callers : place'[q] = "counting" => seen'[q] <= Cardinality(counted')
    <3> SUFFICES ASSUME NEW q \in Callers, place'[q] = "counting"
                 PROVE  seen[q] <= Cardinality(counted')
      BY <1>1
    <3>1. seen[q] \in Nat /\ seen[q] <= Cardinality(counted)
      BY <1>2 DEF LogInv, LogTypeOK, NeverAhead
    <3> QED BY <3>1, <1>4
  <2>4. \A q \in Callers : place'[q] = "starting" => seen[q] <= Cardinality(begun)
    BY <1>2 DEF LogInv, NeverAhead
  <2> QED BY <2>2, <2>3, <2>4, <1>1 DEF LogInv, NeverAhead
<1>7. ExactUnlessRaced'
  BY <1>1, <1>4 DEF LogInv, ExactUnlessRaced, Alone
<1>8. Alone'
  <2> SUFFICES ASSUME ~raced PROVE Alone'
    BY <1>1 DEF Alone
  <2>1. \A q \in Callers : place'[q] \in {"counting", "starting"} =>
          q # p /\ place'[q] = place[q] /\ place[q] # "counting"
    BY <1>1, <1>2 DEF LogInv, Alone
  <2> QED BY <2>1, <1>1 DEF LogInv, Alone
<1> QED BY <1>1, <1>5, <1>6, <1>7, <1>8 DEF LogInv, BesideOnlyLater, Stopped

LEMMA StartStoreInv ==
  ASSUME LogInv, NEW p \in Callers, StartStore(p)
  PROVE  LogInv'
<1>1. /\ ~beside /\ place[p] = "starting" /\ place' = [place EXCEPT ![p] = "post"]
      /\ start' = seen[p] + 1 /\ begun' = begun \cup {<<p, call[p] + 1>>}
      /\ call' = [call EXCEPT ![p] = call[p] + 1]
      /\ UNCHANGED <<wait_count, seen, counted, beside, raced>>
  BY DEF StartStore, Move, OneMore, Request
<1>2. \A q \in Callers : /\ place'[q] = (IF q = p THEN "post" ELSE place[q])
                         /\ call'[q] = (IF q = p THEN call[p] + 1 ELSE call[q])
  BY <1>1 DEF LogInv, LogTypeOK
<1>3. <<p, call[p] + 1>> \in Requests /\ <<p, call[p] + 1>> \notin begun /\ call[p] + 1 \in 1 .. CALLS
  BY <1>1, LogAssumption DEF LogInv, LogTypeOK, Requests
<1>4. Cardinality(begun') = Cardinality(begun) + 1 /\ Cardinality(begun) \in Nat
  BY <1>1, <1>3, HistoriesFinite, FS_AddElement DEF LogInv
<1>5. LogTypeOK'
  <2>1. counted' = {r \in Requests : Counted(r[1], r[2])'}
    <3>1. \A r \in Requests : Counted(r[1], r[2])' <=> Counted(r[1], r[2])
      BY <1>1, <1>2, LogAssumption DEF LogInv, LogTypeOK, Counted, Requests
    <3> QED BY <3>1, <1>1 DEF LogInv, LogTypeOK
  <2>2. begun' = {r \in Requests : r[2] <= call'[r[1]]}
    <3>1. \A r \in Requests : r[2] <= call'[r[1]] <=> r[2] <= call[r[1]] \/ r = <<p, call[p] + 1>>
      BY <1>1, <1>2, LogAssumption DEF LogInv, LogTypeOK, Requests
    <3> QED BY <3>1, <1>1, <1>3 DEF LogInv, LogTypeOK
  <2>3. \A q \in Callers : place'[q] # "post" => call'[q] < CALLS
    BY <1>2 DEF LogInv, LogTypeOK
  <2>4. call' \in [Callers -> 0 .. CALLS]
    BY <1>1, <1>3 DEF LogInv, LogTypeOK
  <2> QED BY <2>1, <2>2, <2>3, <2>4, <1>1 DEF LogInv, LogTypeOK, Requests
<1>6. NeverAhead'
  <2>1. seen[p] \in Nat /\ seen[p] <= Cardinality(begun)
    BY <1>1 DEF LogInv, LogTypeOK, NeverAhead
  <2>2. start' <= Cardinality(begun')
    BY <2>1, <1>1, <1>4
  <2>3. \A q \in Callers : place'[q] = "starting" => seen'[q] <= Cardinality(begun')
    <3> SUFFICES ASSUME NEW q \in Callers, place'[q] = "starting"
                 PROVE  seen[q] <= Cardinality(begun')
      BY <1>1
    <3>1. seen[q] \in Nat /\ seen[q] <= Cardinality(begun)
      BY <1>2 DEF LogInv, LogTypeOK, NeverAhead
    <3> QED BY <3>1, <1>4
  <2>4. \A q \in Callers : place'[q] = "counting" => seen[q] <= Cardinality(counted)
    BY <1>2 DEF LogInv, NeverAhead
  <2> QED BY <2>2, <2>3, <2>4, <1>1 DEF LogInv, NeverAhead
<1>7. ExactUnlessRaced'
  BY <1>1, <1>4 DEF LogInv, ExactUnlessRaced, Alone
<1>8. Alone'
  <2> SUFFICES ASSUME ~raced PROVE Alone'
    BY <1>1 DEF Alone
  <2>1. \A q \in Callers : place'[q] \in {"counting", "starting"} =>
          q # p /\ place'[q] = place[q] /\ place[q] # "starting"
    BY <1>1, <1>2 DEF LogInv, Alone
  <2> QED BY <2>1, <1>1 DEF LogInv, Alone
<1> QED BY <1>1, <1>5, <1>6, <1>7, <1>8 DEF LogInv, BesideOnlyLater, Stopped

LEMMA LogNextInv == LogInv /\ [LogNext]_logVars => LogInv'
<1> SUFFICES ASSUME LogInv, [LogNext]_logVars PROVE LogInv'
  OBVIOUS
<1>1. CASE UNCHANGED logVars
  BY <1>1 DEF logVars, LogInv, LogTypeOK, Requests, Counted, NeverAhead, ExactUnlessRaced,
              Alone, BesideOnlyLater, Stopped
<1>2. CASE LogNext
  BY <1>2, PostInv, LoadInv, CountStoreInv, StartStoreInv DEF LogNext, LogStep
<1> QED BY <1>1, <1>2

(* The requests keep their invariant.                                      *)
THEOREM LogInvHolds == LogSpec => []LogInv
BY LogInitInv, LogNextInv, PTL DEF LogSpec

(* Lost updates make wait_count and start fall behind, never run ahead, and *)
(* without two passengers between reading and writing they are exact.      *)
THEOREM CountersAreNeverAhead == LogSpec => []CountersFollow
<1>1. LogInv => CountersFollow
  BY DEF LogInv, CountersFollow
<1> QED BY <1>1, LogInvHolds, PTL

(* The index leaves waitlist only after as many requests as it has entries, *)
(* and never in the first round.                                           *)
THEOREM WaitlistHoldsFirstRound == LogSpec => []BesideOnlyLater
<1>1. LogInv => BesideOnlyLater
  BY DEF LogInv
<1> QED BY <1>1, LogInvHolds, PTL

(* With one trip per passenger, as shipped, it never does.                 *)
THEOREM OneTripIsSafe == CALLS = 1 => (LogSpec => []~beside)
<1> SUFFICES ASSUME CALLS = 1 PROVE LogSpec => []~beside
  OBVIOUS
<1>1. LogInv => ~beside
  <2> SUFFICES ASSUME LogInv, beside PROVE FALSE
    OBVIOUS
  <2>1. PICK p \in Callers : place[p] = "count"
    BY DEF LogInv, Stopped
  <2>2. counted \in SUBSET ((Callers \ {p}) \X {1})
    <3> SUFFICES ASSUME NEW r \in counted PROVE r \in (Callers \ {p}) \X {1}
      OBVIOUS
    <3>1. r \in Callers \X (1 .. 1) /\ Counted(r[1], r[2])
      BY DEF LogInv, LogTypeOK, Requests
    <3>2. r[2] = 1 /\ (r[1] = p => call[p] = 0)
      BY <3>1, <2>1 DEF LogInv, LogTypeOK
    <3> QED BY <3>1, <3>2, <2>1 DEF Counted
  <2> QED BY <2>2, OneIsMissing, HistoriesFinite, LogAssumption DEF LogInv, BesideOnlyLater
<1> QED BY <1>1, LogInvHolds, PTL

(***************************************************************************)
(* The filters of hw3.                                                     *)
(***************************************************************************)
(* What holds nowhere fails first somewhere. *)
LEMMA FirstOf ==
  ASSUME NEW W \in SUBSET Nat, W # {}
  PROVE  \E w \in W : \A v \in W : w <= v
<1> DEFINE R == {ss \in Nat \X Nat : ss[1] < ss[2]}
<1>1. IsWellFoundedOn(R, Nat)
  BY NatLessThanWellFounded DEF OpToRel
<1>2. \E w \in W : \A v \in W : ~ (<<v, w>> \in R)
  <2> HIDE DEF R
  <2> QED BY <1>1, WFMin
<1>3. ASSUME NEW x \in Nat, NEW y \in Nat, ~ (<<y, x>> \in R) PROVE x <= y
  <2>1. ~ (y < x)
    BY <1>3, Zenon
  <2> QED BY <2>1
<1> HIDE DEF R
<1> QED BY <1>2, <1>3

LEMMA LeastOf ==
  ASSUME NEW W \in SUBSET Nat, W # {}
  PROVE  Min(W) \in W /\ \A v \in W : Min(W) <= v
<1> DEFINE IsLeast(x) == \A v \in W : x <= v
<1>1. \E w \in W : IsLeast(w)
  BY FirstOf
<1>2. Min(W) = CHOOSE x \in W : IsLeast(x)
  BY DEF Min
<1> HIDE DEF IsLeast
<1>3. Min(W) \in W /\ IsLeast(Min(W))
  BY <1>1, <1>2
<1> QED BY <1>3 DEF IsLeast

(* The function defined byte by byte exists: a first length for which it   *)
(* does not is the length of one that does, and one byte more.             *)
LEMMA FilteredToIs ==
  ASSUME NEW s, Len(s) \in Nat
  PROVE  /\ FilteredTo(s)[0] = <<>>
         /\ \A n \in 1 .. Len(s) : FilteredTo(s)[n] = Add(FilteredTo(s)[n - 1], s[n])
<1> DEFINE Is(g, m) == g = [n \in 0 .. m |-> IF n = 0 THEN <<>> ELSE Add(g[n - 1], s[n])]
           Fails    == {m \in Nat : ~ \E g : Is(g, m)}
<1>1. Fails = {}
  <2> SUFFICES ASSUME Fails # {} PROVE FALSE
    OBVIOUS
  <2>1. PICK m \in Fails : \A v \in Fails : m <= v
    <3> HIDE DEF Fails
    <3>1. Fails \in SUBSET Nat
      BY DEF Fails
    <3> QED BY <3>1, FirstOf
  <2>2. m \in Nat /\ ~ \E g : Is(g, m)
    OBVIOUS
  <2>3. m # 0
    <3> SUFFICES ASSUME m = 0 PROVE FALSE
      OBVIOUS
    <3> DEFINE g == [n \in 0 .. 0 |-> <<>>]
    <3>1. Is(g, 0)
      OBVIOUS
    <3> QED BY <2>2, <3>1
  <2>4. PICK g : Is(g, m - 1)
    <3>1. m - 1 \in Nat /\ ~ (m <= m - 1)
      BY <2>2, <2>3
    <3>2. m - 1 \notin Fails
      BY <2>1, <3>1
    <3> QED BY <3>1, <3>2
  <2> DEFINE h == [n \in 0 .. m |-> IF n = m THEN Add(g[m - 1], s[m]) ELSE g[n]]
  <2>5. Is(h, m)
    <3>1. \A n \in 0 .. m : h[n] = IF n = 0 THEN <<>> ELSE Add(h[n - 1], s[n])
      <4> TAKE n \in 0 .. m
      <4>1. CASE n = m
        <5>1. h[m - 1] = g[m - 1] /\ h[m] = Add(g[m - 1], s[m])
          BY <2>2, <2>3
        <5> QED BY <2>3, <4>1, <5>1
      <4>2. CASE n # m
        <5>1. n \in 0 .. m - 1
          BY <2>2, <4>2
        <5>2. g[n] = IF n = 0 THEN <<>> ELSE Add(g[n - 1], s[n])
          <6> DEFINE d(k) == IF k = 0 THEN <<>> ELSE Add(g[k - 1], s[k])
          <6>1. g = [k \in 0 .. m - 1 |-> d(k)]
            BY <2>4
          <6> HIDE DEF d
          <6>2. g[n] = d(n)
            BY <5>1, <6>1
          <6> QED BY <6>2 DEF d
        <5>3. h[n] = g[n] /\ (n # 0 => h[n - 1] = g[n - 1])
          BY <2>2, <4>2
        <5> QED BY <5>2, <5>3
      <4> QED BY <4>1, <4>2
    <3> DEFINE d(k) == IF k = 0 THEN <<>> ELSE Add(h[k - 1], s[k])
    <3>2. \A k \in 0 .. m : h[k] = d(k)
      BY <3>1
    <3>3. h = [k \in 0 .. m |-> h[k]]
      OBVIOUS
    <3> HIDE DEF d, h
    <3>4. h = [k \in 0 .. m |-> d(k)]
      BY <3>2, <3>3
    <3> QED BY <3>4 DEF d
  <2> QED BY <2>2, <2>5
<1> DEFINE f == FilteredTo(s)
           d(k) == IF k = 0 THEN <<>> ELSE Add(f[k - 1], s[k])
<1>2. \E g : Is(g, Len(s))
  BY <1>1
<1>3. f = CHOOSE g : Is(g, Len(s))
  BY DEF FilteredTo
<1>4. Is(f, Len(s))
  <2> HIDE DEF Is, f
  <2> QED BY <1>2, <1>3
<1>5. f = [k \in 0 .. Len(s) |-> d(k)]
  BY <1>4
<1> HIDE DEF f, d
<1>6. \A k \in 0 .. Len(s) : f[k] = d(k)
  BY <1>5
<1>7. f[0] = d(0) /\ \A k \in 1 .. Len(s) : f[k] = d(k) /\ k # 0
  BY <1>6
<1>8. d(0) = <<>> /\ \A k : k # 0 => d(k) = Add(f[k - 1], s[k])
  BY DEF d
<1>9. f[0] = <<>> /\ \A k \in 1 .. Len(s) : f[k] = Add(f[k - 1], s[k])
  BY <1>7, <1>8
<1> QED BY <1>9 DEF f

(* The word has nine letters, and none of them ends GOD. *)
LEMMA WordIs ==
  /\ Evolution \in Seq(Bytes) /\ Len(Evolution) = 9 /\ \A k \in 1 .. 9 : Evolution[k] # "D"
  /\ GOD \in Seq(Bytes) /\ Len(GOD) = 3 /\ GOD[3] = "D"
<1>0. {"e", "v", "o", "l", "u", "t", "i", "n", "G", "O", "D"} \subseteq Bytes
  BY FilterAssumption
<1>1. Evolution \in Seq(Bytes) /\ Len(Evolution) = 9
  <2>1. Len(Evolution) = 9
    BY DEF Evolution
  <2>2. Evolution \in Seq(Bytes)
    BY <1>0 DEF Evolution
  <2> QED BY <2>1, <2>2
<1>2. \A k \in 1 .. 9 : Evolution[k] # "D"
  <2>1. \A k \in 1 .. 9 : k \in {1, 2, 3, 4, 5, 6, 7, 8, 9}
    OBVIOUS
  <2>2. /\ Evolution[1] = "e" /\ Evolution[2] = "v" /\ Evolution[3] = "o" /\ Evolution[4] = "l"
        /\ Evolution[5] = "u" /\ Evolution[6] = "t" /\ Evolution[7] = "i" /\ Evolution[8] = "o"
        /\ Evolution[9] = "n"
    BY DEF Evolution
  <2>3. \A k \in {1, 2, 3, 4, 5, 6, 7, 8, 9} : Evolution[k] \in {"e", "v", "o", "l", "u", "t", "i", "n"}
    BY <2>2
  <2>4. "D" \notin {"e", "v", "o", "l", "u", "t", "i", "n"}
    OBVIOUS
  <2> QED BY <2>1, <2>3, <2>4
<1>3. GOD \in Seq(Bytes) /\ Len(GOD) = 3 /\ GOD[3] = "D"
  <2>1. Len(GOD) = 3 /\ GOD[3] = "D"
    BY DEF GOD
  <2>2. GOD \in Seq(Bytes)
    BY <1>0 DEF GOD
  <2> QED BY <2>1, <2>2
<1> QED BY <1>1, <1>2, <1>3

(* Copying a piece of the rest without the word in it adds that piece.     *)
LEMMA CopiedPiece ==
  ASSUME NEW b \in Seq(Bytes), b = <<>> \/ b[Len(b)] = "D",
         NEW r \in Seq(Bytes), NEW q \in 1 .. Len(r),
         q >= 9 => SubSeq(r, q - 8, q) # Evolution
  PROVE  Add(b \o SubSeq(r, 1, q - 1), r[q]) = b \o SubSeq(r, 1, q)
<1> DEFINE u == b \o SubSeq(r, 1, q)
<1>1. /\ q \in Nat /\ Len(r) \in Nat /\ Len(b) \in Nat /\ \A i \in 1 .. q : r[i] \in Bytes
  OBVIOUS
<1>2. /\ SubSeq(r, 1, q) \in Seq(Bytes) /\ Len(SubSeq(r, 1, q)) = q
      /\ \A i \in 1 .. q : SubSeq(r, 1, q)[i] = r[i]
  BY <1>1, SubSeqProperties
<1>3. /\ u \in Seq(Bytes) /\ Len(u) = Len(b) + q
      /\ \A i \in 1 .. Len(b) + q : u[i] = IF i <= Len(b) THEN b[i] ELSE r[i - Len(b)]
  <2>1. /\ u \in Seq(Bytes) /\ Len(u) = Len(b) + q
        /\ \A i \in 1 .. Len(b) + q :
             u[i] = IF i <= Len(b) THEN b[i] ELSE SubSeq(r, 1, q)[i - Len(b)]
    BY <1>2, ConcatProperties
  <2>2. \A i \in 1 .. Len(b) + q : ~ (i <= Len(b)) => i - Len(b) \in 1 .. q
    BY <1>1
  <2> QED BY <1>2, <2>1, <2>2
<1>4. Append(b \o SubSeq(r, 1, q - 1), r[q]) = u
  <2> DEFINE p == SubSeq(r, 1, q - 1)
  <2>1. p \in Seq(Bytes) /\ Len(p) = q - 1 /\ \A i \in 1 .. q - 1 : p[i] = r[i]
    BY <1>1, SubSeqProperties
  <2> HIDE DEF p
  <2>2. /\ b \o p \in Seq(Bytes) /\ Len(b \o p) = Len(b) + (q - 1)
        /\ \A i \in 1 .. Len(b) + (q - 1) : (b \o p)[i] = IF i <= Len(b) THEN b[i] ELSE p[i - Len(b)]
    <3>1. /\ b \o p \in Seq(Bytes) /\ Len(b \o p) = Len(b) + Len(p)
          /\ \A i \in 1 .. Len(b) + Len(p) :
               (b \o p)[i] = IF i <= Len(b) THEN b[i] ELSE p[i - Len(b)]
      BY <2>1, ConcatProperties
    <3> QED BY <2>1, <3>1
  <2> DEFINE v == b \o p
             w == Append(v, r[q])
  <2>3. /\ w \in Seq(Bytes) /\ Len(w) = Len(v) + 1 /\ w[Len(v) + 1] = r[q]
        /\ \A i \in 1 .. Len(v) : w[i] = v[i]
    BY <1>1, <2>2, AppendProperties
  <2>4. Len(w) = Len(u)
    BY <1>1, <1>3, <2>2, <2>3
  <2> HIDE DEF v, w, u
  <2>5. \A i \in 1 .. Len(w) : w[i] = u[i]
    <3> TAKE i \in 1 .. Len(w)
    <3>0. Len(v) = Len(b) + (q - 1) /\ Len(w) = Len(b) + q
      BY <2>2, <2>3 DEF v
    <3>1. CASE i = Len(b) + q
      BY <1>1, <1>3, <2>3, <3>0, <3>1
    <3>2. CASE i # Len(b) + q
      <4>1. i \in 1 .. Len(v) /\ i \in 1 .. Len(b) + (q - 1) /\ i \in 1 .. Len(b) + q
        BY <1>1, <3>0, <3>2
      <4>2. w[i] = IF i <= Len(b) THEN b[i] ELSE p[i - Len(b)]
        BY <2>2, <2>3, <4>1 DEF v
      <4>3. ~ (i <= Len(b)) => i - Len(b) \in 1 .. q - 1
        BY <1>1, <4>1
      <4> QED BY <1>3, <2>1, <4>1, <4>2, <4>3
    <3> QED BY <3>1, <3>2
  <2>6. w = u
    BY <1>3, <2>3, <2>4, <2>5, SeqEqual
  <2> QED BY <2>6 DEF w, v, p
<1> HIDE DEF u
<1>5. ~Ended(u)
  <2> SUFFICES ASSUME Len(u) >= 9, SubSeq(u, Len(u) - 8, Len(u)) = Evolution PROVE FALSE
    BY DEF Ended
  <2>1. \A k \in 1 .. 9 : u[Len(u) + k - 9] = Evolution[k]
    <3>1. \A i \in Len(u) - 8 .. Len(u) : u[i] \in Bytes
      BY <1>1, <1>3
    <3>2. \A i \in 1 .. Len(u) - (Len(u) - 8) + 1 :
             SubSeq(u, Len(u) - 8, Len(u))[i] = u[Len(u) - 8 + i - 1]
      BY <1>1, <1>3, <3>1, SubSeqProperties
    <3>3. \A k \in 1 .. 9 : k \in 1 .. Len(u) - (Len(u) - 8) + 1
                            /\ Len(u) - 8 + k - 1 = Len(u) + k - 9
      BY <1>1, <1>3
    <3> QED BY <3>2, <3>3
  <2>2. CASE q >= 9
    <3> DEFINE e == SubSeq(r, q - 8, q)
    <3>1. /\ e \in Seq(Bytes) /\ Len(e) = 9 /\ \A k \in 1 .. 9 : e[k] = r[q + k - 9]
      <4>1. \A i \in q - 8 .. q : r[i] \in Bytes
        BY <1>1, <2>2
      <4>2. /\ e \in Seq(Bytes) /\ Len(e) = (IF q - 8 <= q THEN q - (q - 8) + 1 ELSE 0)
            /\ \A i \in 1 .. q - (q - 8) + 1 : e[i] = r[q - 8 + i - 1]
        BY <1>1, <4>1, SubSeqProperties
      <4>3. \A k \in 1 .. 9 : k \in 1 .. q - (q - 8) + 1 /\ q - 8 + k - 1 = q + k - 9
        BY <1>1
      <4>4. (IF q - 8 <= q THEN q - (q - 8) + 1 ELSE 0) = 9
        BY <1>1
      <4> HIDE DEF e
      <4> QED BY <4>2, <4>3, <4>4
    <3> HIDE DEF e
    <3>2. \A k \in 1 .. 9 : e[k] = Evolution[k]
      <4> TAKE k \in 1 .. 9
      <4>1. /\ Len(u) + k - 9 \in 1 .. Len(b) + q /\ ~ (Len(u) + k - 9 <= Len(b))
            /\ Len(u) + k - 9 - Len(b) = q + k - 9
        BY <1>1, <1>3, <2>2
      <4> DEFINE i == Len(u) + k - 9
      <4>2. i \in 1 .. Len(b) + q /\ ~ (i <= Len(b)) /\ i - Len(b) = q + k - 9
        BY <4>1
      <4>3. u[i] = Evolution[k]
        BY <2>1
      <4> HIDE DEF i
      <4>4. u[i] = r[i - Len(b)]
        BY <1>3, <4>2
      <4> QED BY <3>1, <4>2, <4>3, <4>4
    <3>3. e = Evolution
      <4>1. Len(e) = Len(Evolution) /\ \A k \in 1 .. Len(e) : e[k] = Evolution[k]
        BY <3>1, <3>2, WordIs
      <4> QED BY <3>1, <4>1, WordIs, SeqEqual
    <3> QED BY <2>2, <3>3 DEF e
  <2>3. CASE ~ (q >= 9)
    <3>1. b # <<>> /\ b[Len(b)] = "D" /\ Len(b) # 0
      <4>1. b = <<>> => Len(b) = 0
        OBVIOUS
      <4>2. Len(b) # 0
        BY <1>1, <1>3, <2>3
      <4> QED BY <4>1, <4>2
    <3>2. 9 - q \in 1 .. 9 /\ Len(u) + (9 - q) - 9 = Len(b) /\ Len(b) \in 1 .. Len(b) + q
      BY <1>1, <1>3, <2>3, <3>1
    <3>3. u[Len(b)] = b[Len(b)]
      BY <1>1, <1>3, <3>2
    <3>4. u[Len(b)] = Evolution[9 - q]
      BY <2>1, <3>2
    <3> QED BY <3>1, <3>2, <3>3, <3>4, WordIs
  <2> QED BY <2>2, <2>3
<1> QED BY <1>4, <1>5 DEF Add, u

(* What a piece of a text is. *)
LEMMA PieceIs ==
  ASSUME NEW r \in Seq(Bytes), NEW a \in Nat, NEW z \in Nat,
         a >= 1, a <= z + 1, z <= Len(r)
  PROVE  /\ SubSeq(r, a, z) \in Seq(Bytes) /\ Len(SubSeq(r, a, z)) = z - a + 1
         /\ \A k \in 1 .. z - a + 1 : /\ SubSeq(r, a, z)[k] = r[a + k - 1]
                                      /\ a + k - 1 \in 1 .. Len(r)
<1> DEFINE x == SubSeq(r, a, z)
<1>1. \A k \in a .. z : r[k] \in Bytes
  OBVIOUS
<1>2. /\ x \in Seq(Bytes) /\ Len(x) = (IF a <= z THEN z - a + 1 ELSE 0)
      /\ \A k \in 1 .. z - a + 1 : x[k] = r[a + k - 1]
  BY <1>1, SubSeqProperties
<1>3. (IF a <= z THEN z - a + 1 ELSE 0) = z - a + 1
  OBVIOUS
<1>4. \A k \in 1 .. z - a + 1 : a + k - 1 \in 1 .. Len(r)
  OBVIOUS
<1> HIDE DEF x
<1>5. /\ x \in Seq(Bytes) /\ Len(x) = z - a + 1
      /\ \A k \in 1 .. z - a + 1 : x[k] = r[a + k - 1]
  BY <1>2, <1>3
<1> QED BY <1>4, <1>5 DEF x

LEMMA JoinedIs ==
  ASSUME NEW b \in Seq(Bytes), NEW r \in Seq(Bytes), NEW n \in 0 .. Len(r)
  PROVE  /\ b \o SubSeq(r, 1, n) \in Seq(Bytes) /\ Len(b \o SubSeq(r, 1, n)) = Len(b) + n
         /\ \A k \in 1 .. Len(b) + n :
              (b \o SubSeq(r, 1, n))[k] = IF k <= Len(b) THEN b[k] ELSE r[k - Len(b)]
<1> DEFINE w == SubSeq(r, 1, n)
<1>1. n \in Nat /\ 1 <= n + 1 /\ n <= Len(r) /\ Len(b) \in Nat /\ n - 1 + 1 = n
  OBVIOUS
<1>2. w \in Seq(Bytes) /\ Len(w) = n - 1 + 1 /\ \A k \in 1 .. n - 1 + 1 : w[k] = r[1 + k - 1]
  BY <1>1, PieceIs
<1> HIDE DEF w
<1>3. w \in Seq(Bytes) /\ Len(w) = n /\ \A k \in 1 .. n : w[k] = r[k]
  <2>1. \A k \in 1 .. n : 1 + k - 1 = k
    BY <1>1
  <2> QED BY <1>1, <1>2, <2>1
<1>4. /\ b \o w \in Seq(Bytes) /\ Len(b \o w) = Len(b) + Len(w)
      /\ \A k \in 1 .. Len(b) + Len(w) : (b \o w)[k] = IF k <= Len(b) THEN b[k] ELSE w[k - Len(b)]
  BY <1>3, ConcatProperties
<1>5. \A k \in 1 .. Len(b) + n : ~ (k <= Len(b)) => k - Len(b) \in 1 .. n
  BY <1>1
<1>6. \A k \in 1 .. Len(b) + n : (b \o w)[k] = IF k <= Len(b) THEN b[k] ELSE r[k - Len(b)]
  BY <1>3, <1>4, <1>5
<1> QED BY <1>3, <1>4, <1>6 DEF w

LEMMA AppendedIs ==
  ASSUME NEW b \in Seq(Bytes), NEW r \in Seq(Bytes), NEW q \in 1 .. Len(r)
  PROVE  Append(b \o SubSeq(r, 1, q - 1), r[q]) = b \o SubSeq(r, 1, q)
<1> DEFINE v == b \o SubSeq(r, 1, q - 1)
           u == b \o SubSeq(r, 1, q)
           w == Append(v, r[q])
<1>1. q - 1 \in 0 .. Len(r) /\ q \in 0 .. Len(r) /\ r[q] \in Bytes /\ Len(b) \in Nat /\ q \in Nat
  OBVIOUS
<1>2. /\ v \in Seq(Bytes) /\ Len(v) = Len(b) + (q - 1)
      /\ \A k \in 1 .. Len(b) + (q - 1) : v[k] = IF k <= Len(b) THEN b[k] ELSE r[k - Len(b)]
  <2> DEFINE n == q - 1
  <2>1. n \in 0 .. Len(r)
    BY <1>1
  <2> HIDE DEF n, v
  <2>2. v = b \o SubSeq(r, 1, n)
    BY DEF n, v
  <2>3. /\ v \in Seq(Bytes) /\ Len(v) = Len(b) + n
        /\ \A k \in 1 .. Len(b) + n : v[k] = IF k <= Len(b) THEN b[k] ELSE r[k - Len(b)]
    BY <2>1, <2>2, JoinedIs
  <2> QED BY <2>3 DEF n
<1>3. /\ u \in Seq(Bytes) /\ Len(u) = Len(b) + q
      /\ \A k \in 1 .. Len(b) + q : u[k] = IF k <= Len(b) THEN b[k] ELSE r[k - Len(b)]
  BY <1>1, JoinedIs
<1> HIDE DEF v, u
<1>4. /\ w \in Seq(Bytes) /\ Len(w) = Len(v) + 1 /\ w[Len(v) + 1] = r[q]
      /\ \A k \in 1 .. Len(v) : w[k] = v[k]
  BY <1>1, <1>2, AppendProperties
<1>5. Len(v) + 1 = Len(b) + q /\ Len(b) + q - Len(b) = q /\ ~ (Len(b) + q <= Len(b))
  BY <1>1, <1>2
<1> HIDE DEF w
<1>6. \A k \in 1 .. Len(w) : w[k] = u[k]
  <2> TAKE k \in 1 .. Len(w)
  <2>0. k \in 1 .. Len(b) + q
    BY <1>4, <1>5
  <2>1. CASE k = Len(b) + q
    BY <1>3, <1>4, <1>5, <2>0, <2>1
  <2>2. CASE k # Len(b) + q
    <3>1. k \in 1 .. Len(v) /\ k \in 1 .. Len(b) + (q - 1)
      BY <1>1, <1>2, <2>0, <2>2
    <3> QED BY <1>2, <1>3, <1>4, <2>0, <3>1
  <2> QED BY <2>1, <2>2
<1>7. Len(w) = Len(u)
  BY <1>3, <1>4, <1>5
<1>8. w = u
  BY <1>3, <1>4, <1>6, <1>7, SeqEqual
<1> QED BY <1>8 DEF w, v, u

(* Where the word ends it becomes GOD. *)
LEMMA WordCut ==
  ASSUME NEW b \in Seq(Bytes), NEW r \in Seq(Bytes), NEW i \in 1 .. Len(r) - 8,
         SubSeq(r, i, i + 8) = Evolution
  PROVE  Add(b \o SubSeq(r, 1, (i + 8) - 1), r[i + 8]) = (b \o SubSeq(r, 1, i - 1)) \o GOD
<1> DEFINE e == i + 8
           u == b \o SubSeq(r, 1, e)
           y == b \o SubSeq(r, 1, i - 1)
<1>1. /\ Len(b) \in Nat /\ Len(r) \in Nat /\ i \in Nat /\ i >= 1 /\ i + 8 <= Len(r)
      /\ e \in 1 .. Len(r) /\ e \in 0 .. Len(r) /\ i - 1 \in 0 .. Len(r)
  OBVIOUS
<1>2. Append(b \o SubSeq(r, 1, e - 1), r[e]) = u
  <2> HIDE DEF e
  <2> QED BY <1>1, AppendedIs
<1>3. /\ u \in Seq(Bytes) /\ Len(u) = Len(b) + e
      /\ \A k \in 1 .. Len(b) + e : u[k] = IF k <= Len(b) THEN b[k] ELSE r[k - Len(b)]
  <2> HIDE DEF e
  <2> QED BY <1>1, JoinedIs
<1>4. /\ y \in Seq(Bytes) /\ Len(y) = Len(b) + (i - 1)
      /\ \A k \in 1 .. Len(b) + (i - 1) : y[k] = IF k <= Len(b) THEN b[k] ELSE r[k - Len(b)]
  <2> DEFINE n == i - 1
  <2>1. n \in 0 .. Len(r)
    BY <1>1
  <2> HIDE DEF n, y
  <2>2. y = b \o SubSeq(r, 1, n)
    BY DEF n, y
  <2>3. /\ y \in Seq(Bytes) /\ Len(y) = Len(b) + n
        /\ \A k \in 1 .. Len(b) + n : y[k] = IF k <= Len(b) THEN b[k] ELSE r[k - Len(b)]
    BY <2>1, <2>2, JoinedIs
  <2> QED BY <2>3 DEF n
<1> HIDE DEF u, y
<1> DEFINE l == Len(u)
<1>5. l \in Nat /\ l >= 9 /\ l = Len(b) + (i + 8) /\ l = Len(b) + e
  BY <1>1, <1>3
<1>6. Ended(u)
  <2> DEFINE a == l - 8
             x == SubSeq(u, a, l)
  <2>1. x \in Seq(Bytes) /\ Len(x) = 9 /\ \A k \in 1 .. 9 : x[k] = u[l - 8 + k - 1]
    <3>1. a \in Nat /\ a >= 1 /\ l <= Len(u) /\ a <= l + 1 /\ l \in Nat /\ l - a + 1 = 9
      BY <1>5
    <3>2. u \in Seq(Bytes)
      BY <1>3
    <3> HIDE DEF a, l
    <3>3. /\ x \in Seq(Bytes) /\ Len(x) = l - a + 1
          /\ \A k \in 1 .. l - a + 1 : x[k] = u[a + k - 1]
      BY <3>1, <3>2, PieceIs
    <3> HIDE DEF x
    <3>4. x \in Seq(Bytes) /\ Len(x) = 9 /\ \A k \in 1 .. 9 : x[k] = u[a + k - 1]
      BY <3>1, <3>3
    <3> QED BY <3>4 DEF a
  <2>2. \A k \in 1 .. 9 : SubSeq(r, i, i + 8)[k] = r[i + k - 1]
    <3>1. e \in Nat /\ i <= e + 1 /\ e - i + 1 = 9 /\ e <= Len(r)
      BY <1>1
    <3> HIDE DEF e
    <3>2. \A k \in 1 .. e - i + 1 : SubSeq(r, i, e)[k] = r[i + k - 1]
      BY <1>1, <3>1, PieceIs
    <3>3. \A k \in 1 .. 9 : SubSeq(r, i, e)[k] = r[i + k - 1]
      BY <3>1, <3>2
    <3> QED BY <3>3 DEF e
  <2>3. \A k \in 1 .. 9 : x[k] = Evolution[k]
    <3> TAKE k \in 1 .. 9
    <3> DEFINE at == l - 8 + k - 1
    <3>1. at \in 1 .. Len(b) + e /\ ~ (at <= Len(b)) /\ at - Len(b) = i + k - 1
      BY <1>1, <1>5
    <3>2. x[k] = u[at]
      BY <2>1
    <3> HIDE DEF at, x
    <3>3. u[at] = r[at - Len(b)]
      BY <1>3, <3>1
    <3> QED BY <2>2, <3>1, <3>2, <3>3
  <2> HIDE DEF x
  <2>4. Len(x) = Len(Evolution) /\ \A k \in 1 .. Len(x) : x[k] = Evolution[k]
    BY <2>1, <2>3, WordIs
  <2>5. x = Evolution
    BY <2>1, <2>4, WordIs, SeqEqual
  <2> QED BY <1>5, <2>5 DEF Ended, x, a
<1>7. SubSeq(u, 1, l - 9) = y
  <2> DEFINE n == l - 9
             x == SubSeq(u, 1, n)
  <2>1. n \in Nat /\ 1 <= n + 1 /\ n - 1 + 1 = n /\ n <= Len(u) /\ n = Len(b) + (i - 1)
    BY <1>1, <1>5
  <2> HIDE DEF n
  <2>2. x \in Seq(Bytes) /\ Len(x) = n /\ \A k \in 1 .. n : x[k] = u[1 + k - 1]
    <3>1. /\ x \in Seq(Bytes) /\ Len(x) = n - 1 + 1
          /\ \A k \in 1 .. n - 1 + 1 : x[k] = u[1 + k - 1]
      BY <1>3, <2>1, PieceIs, SMTT(30)
    <3> HIDE DEF x
    <3> QED BY <2>1, <3>1
  <2> HIDE DEF x
  <2>3. Len(x) = Len(y)
    BY <1>4, <2>1, <2>2
  <2>4. \A k \in 1 .. Len(x) : x[k] = y[k]
    <3> TAKE k \in 1 .. Len(x)
    <3>1. k \in 1 .. n /\ 1 + k - 1 = k /\ k \in 1 .. Len(b) + (i - 1) /\ k \in 1 .. Len(b) + e
      BY <1>1, <2>1, <2>2
    <3>2. x[k] = u[k]
      BY <2>2, <3>1
    <3> QED BY <1>3, <1>4, <3>1, <3>2
  <2>5. x = y
    BY <1>4, <2>2, <2>3, <2>4, SeqEqual
  <2> QED BY <2>5 DEF x, n
<1> QED BY <1>2, <1>6, <1>7 DEF Add, y

(* What is left of a text, and what is left of that. *)
LEMMA RestIs ==
  ASSUME NEW s \in Seq(Bytes), NEW p \in 0 .. Len(s)
  PROVE  /\ SubSeq(s, p + 1, Len(s)) \in Seq(Bytes)
         /\ Len(SubSeq(s, p + 1, Len(s))) = Len(s) - p
         /\ \A k \in 1 .. Len(s) - p : /\ SubSeq(s, p + 1, Len(s))[k] = s[p + k]
                                       /\ p + k \in 1 .. Len(s)
<1> DEFINE a == p + 1
           z == Len(s)
           x == SubSeq(s, a, z)
<1>1. z \in Nat /\ p \in Nat /\ p <= z
  OBVIOUS
<1>2. /\ a \in Nat /\ a >= 1 /\ a <= z + 1 /\ z <= Len(s) /\ z - a + 1 = z - p
      /\ \A k \in 1 .. z - p : a + k - 1 = p + k /\ p + k \in 1 .. z
  <2> HIDE DEF z
  <2>1. z <= Len(s)
    BY <1>1 DEF z
  <2> QED BY <1>1, <2>1
<1> HIDE DEF a, z
<1>3. /\ x \in Seq(Bytes) /\ Len(x) = z - a + 1
      /\ \A k \in 1 .. z - a + 1 : x[k] = s[a + k - 1]
  BY <1>1, <1>2, PieceIs
<1> HIDE DEF x
<1>4. /\ x \in Seq(Bytes) /\ Len(x) = z - p
      /\ \A k \in 1 .. z - p : x[k] = s[p + k] /\ p + k \in 1 .. z
  BY <1>2, <1>3
<1> QED BY <1>4 DEF x, a, z

CopiedTo(s, p, b, r) ==
  /\ s \in Seq(Bytes) /\ p \in 0 .. Len(s)
  /\ b \in Seq(Bytes) /\ b = FilteredTo(s)[p] /\ (b = <<>> \/ b[Len(b)] = "D")
  /\ r \in Seq(Bytes) /\ r = SubSeq(s, p + 1, Len(s))
WordFree(r, m) == \A i \in 1 .. m - 8 : SubSeq(r, i, i + 8) # Evolution
CopiedOn(s, p, b, r, m) == FilteredTo(s)[p + m] = b \o SubSeq(r, 1, m)

(* As long as the word does not end, the rest is copied as it is. *)
LEMMA CopiedUpTo ==
  ASSUME NEW s, NEW p, NEW b, NEW r, CopiedTo(s, p, b, r),
         NEW m \in 0 .. Len(s) - p, WordFree(r, m)
  PROVE  CopiedOn(s, p, b, r, m)
<1> DEFINE last == p + m
<1>0. /\ s \in Seq(Bytes) /\ p \in 0 .. Len(s)
      /\ b \in Seq(Bytes) /\ b = FilteredTo(s)[p] /\ (b = <<>> \/ b[Len(b)] = "D")
      /\ r \in Seq(Bytes) /\ r = SubSeq(s, p + 1, Len(s))
      /\ \A i \in 1 .. m - 8 : SubSeq(r, i, i + 8) # Evolution
  BY DEF CopiedTo, WordFree
<1>1. /\ last - p = m /\ Len(s) \in Nat /\ p \in Nat /\ p <= Len(s) /\ last \in Nat /\ last <= Len(s) /\ p <= last
      /\ Len(r) = Len(s) - p /\ \A k \in 1 .. Len(s) - p : r[k] = s[p + k]
  <2>1. /\ Len(r) = Len(s) - p /\ \A k \in 1 .. Len(s) - p : r[k] = s[p + k]
    BY <1>0, RestIs
  <2> QED BY <1>0, <2>1
<1> HIDE DEF last
<1> DEFINE Holds(q) == FilteredTo(s)[q] = b \o SubSeq(r, 1, q - p)
           Fails    == {q \in p .. last : ~Holds(q)}
<1>2. Fails = {}
  <2> SUFFICES ASSUME Fails # {} PROVE FALSE
    OBVIOUS
  <2>1. PICK q \in Fails : \A v \in Fails : q <= v
    <3> HIDE DEF Holds
    <3>1. Fails \in SUBSET Nat
      BY <1>1
    <3> HIDE DEF Fails
    <3> QED BY <3>1, FirstOf
  <2>2. q \in p .. last /\ q \in Nat /\ q >= p /\ q <= last /\ ~Holds(q)
    <3> HIDE DEF Holds
    <3> QED BY <1>1
  <2>3. q # p
    <3>1. SubSeq(r, 1, 0) = <<>>
      BY SubSeqEmpty
    <3>2. b \o <<>> = b
      BY <1>0, ConcatEmptySeq
    <3>3. p - p = 0
      BY <1>1
    <3> QED BY <1>0, <2>2, <3>1, <3>2, <3>3
  <2>4. Holds(q - 1)
    <3> HIDE DEF Holds
    <3>1. q - 1 \in p .. last /\ ~ (q <= q - 1)
      BY <1>1, <2>2, <2>3
    <3>2. q - 1 \notin Fails
      BY <2>1, <3>1
    <3> QED BY <3>1, <3>2
  <2> DEFINE n == q - p
  <2>5. /\ n \in 1 .. Len(r) /\ n \in 1 .. Len(s) - p /\ q \in 1 .. Len(s) /\ n - 1 = q - 1 - p
        /\ p + n = q /\ n <= m /\ m \in Nat /\ n \in Nat
    BY <1>1, <2>2, <2>3
  <2>6. n >= 9 => SubSeq(r, n - 8, n) # Evolution
    <3>1. n >= 9 => n - 8 \in 1 .. m - 8 /\ n - 8 + 8 = n
      <4> HIDE DEF n
      <4> QED BY <2>5
    <3> QED BY <1>0, <1>1, <3>1
  <2> HIDE DEF n
  <2>7. Add(b \o SubSeq(r, 1, n - 1), r[n]) = b \o SubSeq(r, 1, n)
    BY <1>0, <2>5, <2>6, CopiedPiece
  <2>8. FilteredTo(s)[q] = Add(FilteredTo(s)[q - 1], s[q])
    BY <1>1, <2>5, FilteredToIs
  <2>9. r[n] = s[q]
    BY <1>1, <2>5
  <2>10. FilteredTo(s)[q] = b \o SubSeq(r, 1, n)
    BY <2>4, <2>5, <2>7, <2>8, <2>9
  <2> QED BY <2>2, <2>10 DEF n
<1>3. last \in p .. last
  BY <1>1
<1> HIDE DEF Holds
<1>4. Holds(last)
  BY <1>2, <1>3
<1> QED BY <1>1, <1>4 DEF Holds, last, CopiedOn

LEMMA RestOfRest ==
  ASSUME NEW s \in Seq(Bytes), NEW p \in 0 .. Len(s), NEW q \in p .. Len(s),
         NEW r \in Seq(Bytes), r = SubSeq(s, p + 1, Len(s))
  PROVE  SubSeq(r, (q - p) + 1, Len(r)) = SubSeq(s, q + 1, Len(s))
<1> DEFINE j == q - p
           x == SubSeq(r, j + 1, Len(r))
           y == SubSeq(s, q + 1, Len(s))
<1>1. /\ Len(s) \in Nat /\ p \in Nat /\ q \in Nat /\ q >= p /\ q <= Len(s) /\ j \in Nat
      /\ q \in 0 .. Len(s)
  OBVIOUS
<1>2. /\ Len(r) = Len(s) - p /\ \A k \in 1 .. Len(s) - p : r[k] = s[p + k]
  BY RestIs
<1>3. j \in 0 .. Len(r) /\ Len(r) - j = Len(s) - q
  BY <1>1, <1>2
<1>4. \A k \in 1 .. Len(s) - q : j + k \in 1 .. Len(s) - p /\ p + (j + k) = q + k
  BY <1>1
<1>5. /\ y \in Seq(Bytes) /\ Len(y) = Len(s) - q
      /\ \A k \in 1 .. Len(s) - q : y[k] = s[q + k]
  BY <1>1, RestIs
<1> HIDE DEF j
<1>6. /\ x \in Seq(Bytes) /\ Len(x) = Len(r) - j
      /\ \A k \in 1 .. Len(r) - j : x[k] = r[j + k]
  BY <1>3, RestIs
<1> HIDE DEF x, y
<1>7. \A k \in 1 .. Len(s) - q : x[k] = y[k]
  <2> TAKE k \in 1 .. Len(s) - q
  <2>1. r[j + k] = s[p + (j + k)]
    BY <1>2, <1>4
  <2> QED BY <1>3, <1>4, <1>5, <1>6, <2>1
<1>8. Len(x) = Len(y) /\ \A k \in 1 .. Len(x) : x[k] = y[k]
  BY <1>3, <1>5, <1>6, <1>7
<1>9. x = y
  BY <1>5, <1>6, <1>8, SeqEqual
<1> QED BY <1>9 DEF x, y, j

LEMMA WordReplaced ==
  ASSUME NEW s, NEW p, NEW b, NEW r, CopiedTo(s, p, b, r),
         NEW i \in 1 .. Len(r) - 8, SubSeq(r, i, i + 8) = Evolution,
         \A j \in 1 .. i - 1 : SubSeq(r, j, j + 8) # Evolution
  PROVE  \E q \in 0 .. Len(s) : CopiedTo(s, q, (b \o SubSeq(r, 1, i - 1)) \o GOD,
                                        SubSeq(r, i + 9, Len(r)))
<1> DEFINE e == i + 8
           m == e - 1
           q == p + e
           cut == (b \o SubSeq(r, 1, i - 1)) \o GOD
<1>0. /\ s \in Seq(Bytes) /\ p \in 0 .. Len(s) /\ b \in Seq(Bytes)
      /\ r \in Seq(Bytes) /\ r = SubSeq(s, p + 1, Len(s))
  BY DEF CopiedTo
<1>1. /\ Len(s) \in Nat /\ p \in Nat /\ p <= Len(s)
      /\ Len(r) = Len(s) - p /\ \A k \in 1 .. Len(s) - p : r[k] = s[p + k]
  <2>1. Len(r) = Len(s) - p /\ \A k \in 1 .. Len(s) - p : r[k] = s[p + k]
    <3> DEFINE w == SubSeq(s, p + 1, Len(s))
    <3>1. Len(w) = Len(s) - p /\ \A k \in 1 .. Len(s) - p : w[k] = s[p + k]
      BY <1>0, RestIs, ZenonT(40)
    <3>2. r = w
      BY <1>0
    <3> HIDE DEF w
    <3> QED BY <3>1, <3>2
  <2>2. Len(s) \in Nat /\ p \in Nat /\ p <= Len(s)
    BY <1>0
  <2> QED BY <2>1, <2>2
<1>2. /\ m \in 0 .. Len(s) - p /\ m - 8 = i - 1
      /\ q \in 1 .. Len(s) /\ q \in p .. Len(s) /\ q \in 0 .. Len(s) /\ q - 1 = p + m
      /\ e \in 1 .. Len(s) - p /\ (q - p) + 1 = i + 9
  <2>1. i \in Nat /\ i >= 1 /\ i <= Len(s) - p - 8
    BY <1>1
  <2> QED BY <1>1, <2>1
<1>3. Add(b \o SubSeq(r, 1, m), r[e]) = cut
  BY <1>0, WordCut, Zenon
<1>4. r[e] = s[q]
  BY <1>1, <1>2
<1>5. cut \in Seq(Bytes) /\ cut[Len(cut)] = "D"
  <2> DEFINE h == i - 1
             d == b \o SubSeq(r, 1, h)
  <2>1. h \in 0 .. Len(r)
    BY <1>1, <1>2
  <2> HIDE DEF h
  <2>2. d \in Seq(Bytes)
    BY <1>0, <2>1, JoinedIs
  <2> HIDE DEF d
  <2>7. GOD \in Seq(Bytes)
    BY WordIs
  <2>3. /\ d \o GOD \in Seq(Bytes) /\ Len(d \o GOD) = Len(d) + Len(GOD)
        /\ \A k \in 1 .. Len(d) + Len(GOD) :
             (d \o GOD)[k] = IF k <= Len(d) THEN d[k] ELSE GOD[k - Len(d)]
    BY <2>2, <2>7, ConcatProperties, ZenonT(40)
  <2>4. /\ Len(d) + 3 \in 1 .. Len(d) + Len(GOD) /\ ~ (Len(d) + 3 <= Len(d))
        /\ Len(d) + 3 - Len(d) = 3 /\ Len(d) + Len(GOD) = Len(d) + 3
    BY <2>2, WordIs
  <2>5. (d \o GOD)[Len(d) + 3] = GOD[3]
    BY <2>3, <2>4
  <2>6. d \o GOD \in Seq(Bytes) /\ (d \o GOD)[Len(d \o GOD)] = "D"
    BY <2>3, <2>4, <2>5, WordIs
  <2> QED BY <2>6 DEF d, h
<1>6. SubSeq(r, i + 9, Len(r)) \in Seq(Bytes)
  BY <1>0, <1>1
<1> HIDE DEF e, m, q
<1>7. FilteredTo(s)[p + m] = b \o SubSeq(r, 1, m)
  <2>1. WordFree(r, m)
    BY <1>2 DEF WordFree
  <2>2. CopiedOn(s, p, b, r, m)
    BY <1>2, <2>1, CopiedUpTo
  <2> QED BY <2>2 DEF CopiedOn
<1>8. FilteredTo(s)[q] = Add(FilteredTo(s)[q - 1], s[q])
  BY <1>1, <1>2, FilteredToIs
<1> HIDE DEF cut
<1>9. FilteredTo(s)[q] = cut
  BY <1>2, <1>3, <1>4, <1>7, <1>8
<1>10. SubSeq(r, i + 9, Len(r)) = SubSeq(s, q + 1, Len(s))
  <2>1. SubSeq(r, (q - p) + 1, Len(r)) = SubSeq(s, q + 1, Len(s))
    BY <1>0, <1>2, RestOfRest
  <2> QED BY <1>2, <2>1
<1>11. CopiedTo(s, q, cut, SubSeq(r, i + 9, Len(r)))
  BY <1>0, <1>2, <1>5, <1>6, <1>9, <1>10 DEF CopiedTo
<1> QED BY <1>2, <1>11 DEF cut

-----------------------------------------------------------------------------
FilterTypeOK ==
  /\ unread \in Seq(Inputs) /\ tool \in {"safecat", "safe"}
  /\ buf \in Seq(Bytes) /\ count \in Int /\ buffer \in Seq(Bytes) /\ ret \in Seq(Bytes)
  /\ filter \in {"read", "replace", "stopped", "undefined"}
  /\ asked \in Seq([buf : Inputs, count : Nat]) /\ output \in Seq(Seq(Bytes))

(* Until a call is done, what it has copied is its string filtered up to    *)
(* where the rest begins, and count has lost what the two together have.    *)
Halfway(args) ==
  /\ buf = args.buf /\ args.count <= Len(buf) /\ (tool = "safecat" => args.count = Len(buf))
  /\ count = args.count - (Len(Cstring(buf)) - (Len(buffer) + Len(ret)))
  /\ count <= args.count
  /\ \E p \in 0 .. Len(Cstring(buf)) : CopiedTo(Cstring(buf), p, buffer, ret)

(* Either it has a line, or it is called once more with a negative count.   *)
HasLine == Len(output) + 1 = Len(asked) /\ Halfway(asked[Len(asked)])
HasNone == count < 0 /\ tool = "safecat" /\ Len(output) = Len(asked)

WrittenSoFar == \A i \in 1 .. Len(output) : output[i] = Outcome(tool, asked[i])

FilterInv ==
  /\ FilterTypeOK
  /\ WrittenSoFar
  /\ Len(output) <= Len(asked)
  /\ filter \in {"read", "stopped"} => Len(output) = Len(asked)
  /\ filter = "replace" => HasLine \/ HasNone

LEMMA AllOf ==
  ASSUME NEW s \in Seq(Bytes)
  PROVE  SubSeq(s, 1, Len(s)) = s
<1> DEFINE n == Len(s)
           x == SubSeq(s, 1, n)
<1>1. n \in Nat /\ 1 <= n + 1 /\ n - 1 + 1 = n
  OBVIOUS
<1>2. n <= Len(s)
  OBVIOUS
<1> HIDE DEF n
<1>3. x \in Seq(Bytes) /\ Len(x) = n - 1 + 1 /\ \A k \in 1 .. n - 1 + 1 : x[k] = s[1 + k - 1]
  BY <1>1, <1>2, PieceIs
<1> HIDE DEF x
<1>4. \A k \in 1 .. n : 1 + k - 1 = k
  BY <1>1
<1>5. x \in Seq(Bytes) /\ Len(x) = n /\ \A k \in 1 .. n : x[k] = s[k]
  BY <1>1, <1>3, <1>4
<1>6. Len(x) = Len(s) /\ \A k \in 1 .. Len(x) : x[k] = s[k]
  BY <1>5 DEF n
<1>7. x = s
  BY <1>5, <1>6, SeqEqual
<1> QED BY <1>7 DEF x, n

LEMMA CstringIs ==
  ASSUME NEW s \in Seq(Bytes)
  PROVE  /\ Cstring(s) \in Seq(Bytes) /\ Len(Cstring(s)) <= Len(s)
<1>1. CASE Ends(s) = {}
  BY <1>1 DEF Cstring
<1>2. CASE Ends(s) # {}
  <2>1. Ends(s) \in SUBSET Nat
    BY DEF Ends
  <2>2. Min(Ends(s)) \in Ends(s)
    BY <1>2, <2>1, LeastOf
  <2> DEFINE m == Min(Ends(s))
             n == m - 1
  <2>3. m \in 1 .. Len(s)
    BY <2>2 DEF Ends
  <2> HIDE DEF m
  <2>4. n \in Nat /\ 1 <= n + 1 /\ n <= Len(s) /\ n - 1 + 1 = n
    BY <2>3
  <2> HIDE DEF n
  <2>5. SubSeq(s, 1, n) \in Seq(Bytes) /\ Len(SubSeq(s, 1, n)) = n - 1 + 1
    BY <2>4, PieceIs
  <2>6. Cstring(s) = SubSeq(s, 1, n)
    BY <1>2 DEF Cstring, m, n
  <2> QED BY <1>2, <2>4, <2>5, <2>6
<1> QED BY <1>1, <1>2

LEMMA FirstFound ==
  ASSUME ret \in Seq(Bytes)
  PROVE  /\ Found = {} => WordFree(ret, Len(ret))
         /\ Found # {} => /\ First \in 1 .. Len(ret) - 8
                          /\ SubSeq(ret, First, First + 8) = Evolution
                          /\ \A j \in 1 .. First - 1 : SubSeq(ret, j, j + 8) # Evolution
<1>1. Found = {} => WordFree(ret, Len(ret))
  BY DEF Found, WordFree
<1>2. ASSUME Found # {}
      PROVE  /\ First \in 1 .. Len(ret) - 8
             /\ SubSeq(ret, First, First + 8) = Evolution
             /\ \A j \in 1 .. First - 1 : SubSeq(ret, j, j + 8) # Evolution
  <2>1. Found \in SUBSET Nat
    BY DEF Found
  <2>2. First \in Found /\ \A v \in Found : First <= v
    BY <1>2, <2>1, LeastOf DEF First
  <2>3. First \in 1 .. Len(ret) - 8 /\ SubSeq(ret, First, First + 8) = Evolution
    BY <2>2 DEF Found
  <2>4. ASSUME NEW j \in 1 .. First - 1 PROVE SubSeq(ret, j, j + 8) # Evolution
    <3>1. j \in 1 .. Len(ret) - 8 /\ ~ (First <= j)
      BY <2>3
    <3> QED BY <2>2, <3>1 DEF Found
  <2> QED BY <2>3, <2>4
<1> QED BY <1>1, <1>2

(* Without the word in it, the rest is the end of what is written. *)
LEMMA WholeIs ==
  ASSUME NEW s, NEW p, NEW b, NEW r, CopiedTo(s, p, b, r), WordFree(r, Len(r))
  PROVE  b \o r = Filtered(s)
<1>0. /\ s \in Seq(Bytes) /\ p \in 0 .. Len(s) /\ r \in Seq(Bytes) /\ r = SubSeq(s, p + 1, Len(s))
  BY DEF CopiedTo
<1>1. Len(r) = Len(s) - p
  BY <1>0, RestIs
<1> DEFINE m == Len(r)
<1>2. m \in 0 .. Len(s) - p /\ p + m = Len(s)
  BY <1>0, <1>1
<1>3. SubSeq(r, 1, m) = r
  BY <1>0, AllOf
<1>4. WordFree(r, m)
  OBVIOUS
<1> HIDE DEF m
<1>5. CopiedOn(s, p, b, r, m)
  BY <1>2, <1>4, CopiedUpTo
<1> QED BY <1>2, <1>3, <1>5 DEF CopiedOn, Filtered

LEMMA OverIs ==
  ASSUME NEW s \in Seq(Bytes), NEW t \in Seq(Bytes)
  PROVE  Over(s, t) \in Seq(Bytes) /\ Len(Over(s, t)) >= Len(t)
<1> DEFINE nul  == <<"nul">>
           x    == s \o nul
           tail == SubSeq(t, Len(s) + 2, Len(t))
           y    == x \o tail
<1>1. nul \in Seq(Bytes) /\ Len(nul) = 1
  <2>1. "nul" \in Bytes
    BY FilterAssumption
  <2> QED BY <2>1
<1>2. Len(s) \in Nat /\ Len(t) \in Nat
  OBVIOUS
<1>3. tail \in Seq(Bytes) /\ Len(s) + 1 + Len(tail) >= Len(t) /\ Len(tail) \in Nat
  <2> DEFINE a == Len(s) + 2
             z == Len(t)
  <2>1. \A k \in a .. z : t[k] \in Bytes
    BY <1>2
  <2>2. a \in Nat /\ z \in Nat
    BY <1>2
  <2> HIDE DEF a, z
  <2>3. /\ SubSeq(t, a, z) \in Seq(Bytes)
        /\ Len(SubSeq(t, a, z)) = IF a <= z THEN z - a + 1 ELSE 0
    BY <2>1, <2>2, SubSeqProperties
  <2>4. SubSeq(t, a, z) \in Seq(Bytes) /\ a - 1 + Len(SubSeq(t, a, z)) >= z
    <3> DEFINE v == SubSeq(t, a, z)
    <3>1. v \in Seq(Bytes) /\ Len(v) = IF a <= z THEN z - a + 1 ELSE 0
      BY <2>3
    <3> HIDE DEF v
    <3>2. CASE a <= z
      <4>1. Len(v) = z - a + 1
        BY <3>1, <3>2
      <4>2. v \in Seq(Bytes) /\ a - 1 + Len(v) >= z
        BY <2>2, <3>1, <4>1
      <4> QED BY <4>2 DEF v
    <3>3. CASE ~ (a <= z)
      <4>1. Len(v) = 0
        BY <3>1, <3>3
      <4>2. v \in Seq(Bytes) /\ a - 1 + Len(v) >= z
        BY <2>2, <3>1, <3>3, <4>1
      <4> QED BY <4>2 DEF v
    <3> QED BY <3>2, <3>3
  <2> HIDE DEF tail
  <2>5. tail = SubSeq(t, a, z)
    BY DEF tail, a, z
  <2>6. tail \in Seq(Bytes) /\ a - 1 + Len(tail) >= z
    BY <2>4, <2>5
  <2>7. Len(tail) \in Nat /\ a = Len(s) + 2 /\ z = Len(t)
    BY <2>6 DEF a, z
  <2>8. a - 1 = Len(s) + 1
    BY <1>2, <2>7
  <2> QED BY <2>6, <2>7, <2>8
<1> HIDE DEF nul, tail
<1>4. x \in Seq(Bytes) /\ Len(x) = Len(s) + 1
  <2>1. x \in Seq(Bytes) /\ Len(x) = Len(s) + Len(nul)
    BY <1>1, ConcatProperties
  <2> HIDE DEF x
  <2> QED BY <1>1, <2>1
<1> HIDE DEF x
<1>5. y \in Seq(Bytes) /\ Len(y) = Len(x) + Len(tail)
  BY <1>3, <1>4, ConcatProperties
<1> HIDE DEF y
<1>6. Len(y) >= Len(t)
  BY <1>2, <1>3, <1>4, <1>5
<1>7. y = Over(s, t)
  BY DEF Over, x, y, nul, tail
<1> QED BY <1>5, <1>6, <1>7

(* The first bytes, none if their number is negative. *)
LEMMA FirstBytes ==
  ASSUME NEW s \in Seq(Bytes), NEW n \in Int, n <= Len(s)
  PROVE  SubSeq(s, 1, n) \in Seq(Bytes)
<1>1. CASE n >= 0
  <2>1. n \in Nat /\ 1 <= n + 1
    BY <1>1
  <2> QED BY <2>1, PieceIs
<1>2. CASE n < 0
  BY <1>2
<1> QED BY <1>1, <1>2

LEMMA FilterInitially == FilterInit => FilterInv
<1> SUFFICES ASSUME FilterInit PROVE FilterInv
  OBVIOUS
<1>1. unread \in Seq(Inputs)
  BY DEF FilterInit
<1>2. asked = <<>> /\ output = <<>> /\ Len(output) = 0 /\ Len(asked) = 0
  BY DEF FilterInit
<1>3. WrittenSoFar
  BY <1>2 DEF WrittenSoFar
<1>4. FilterTypeOK
  BY <1>1 DEF FilterInit, FilterTypeOK
<1> QED BY <1>2, <1>3, <1>4 DEF FilterInit, FilterInv

(* A call begins with nothing copied and all of its string to copy. *)
LEMMA CallsKeeps ==
  ASSUME FilterInv, filter = "read", unread # <<>>, unread' = Tail(unread),
         UNCHANGED <<tool, output>>,
         NEW n \in 0 .. Len(Head(unread)), tool = "safecat" => n = Len(Head(unread)),
         buf' = Head(unread), count' = n,
         asked' = Append(asked, [buf |-> Head(unread), count |-> n]),
         buffer' = <<>>, ret' = Cstring(Head(unread)), filter' = "replace"
  PROVE  FilterInv'
<1> DEFINE s    == Head(unread)
           args == [buf |-> s, count |-> n]
<1>0. FilterTypeOK /\ WrittenSoFar /\ Len(output) = Len(asked)
  BY DEF FilterInv
<1>1. /\ s \in Inputs /\ s \in Seq(Bytes) /\ unread' \in Seq(Inputs) /\ Len(s) \in Nat
      /\ n \in Nat /\ n <= Len(s) /\ (tool = "safecat" => n = Len(s))
  BY <1>0, FilterAssumption DEF FilterTypeOK
<1>2. /\ buf' = s /\ count' = n /\ asked' = Append(asked, args)
      /\ buffer' = <<>> /\ ret' = Cstring(s) /\ filter' = "replace"
  OBVIOUS
<1> HIDE DEF s
<1>3. args \in [buf : Inputs, count : Nat] /\ args.buf = s /\ args.count = n
  BY <1>1
<1> HIDE DEF args
<1>4. /\ asked' \in Seq([buf : Inputs, count : Nat]) /\ Len(asked') = Len(asked) + 1
      /\ asked'[Len(asked')] = args
      /\ \A i \in 1 .. Len(asked) : asked'[i] = asked[i]
  <2>1. asked \in Seq([buf : Inputs, count : Nat])
    BY <1>0 DEF FilterTypeOK
  <2>2. /\ Append(asked, args) \in Seq([buf : Inputs, count : Nat])
        /\ Len(Append(asked, args)) = Len(asked) + 1
        /\ Append(asked, args)[Len(asked) + 1] = args
        /\ \A i \in 1 .. Len(asked) : Append(asked, args)[i] = asked[i]
    BY <1>3, <2>1, AppendProperties
  <2> QED BY <1>2, <2>2
<1> DEFINE str == Cstring(s)
<1>5. str \in Seq(Bytes) /\ Len(str) \in Nat
  BY <1>1, CstringIs
<1>6. ret' = str /\ Cstring(buf') = str
  BY <1>2
<1> HIDE DEF str
<1>7. FilterTypeOK'
  BY <1>0, <1>1, <1>2, <1>4, <1>5, <1>6 DEF FilterTypeOK
<1>8. WrittenSoFar'
  <2>1. \A i \in 1 .. Len(output) : asked'[i] = asked[i]
    BY <1>0, <1>4
  <2> QED BY <1>0, <2>1 DEF WrittenSoFar, Outcome
<1>9. Len(output) \in Nat /\ Len(asked) \in Nat
  BY <1>0 DEF FilterTypeOK
<1>10. CopiedTo(str, 0, <<>>, str)
  <2>1. SubSeq(str, 0 + 1, Len(str)) = str
    BY <1>5, AllOf
  <2>2. FilteredTo(str)[0] = <<>>
    BY <1>5, FilteredToIs
  <2>3. <<>> \in Seq(Bytes) /\ 0 \in 0 .. Len(str)
    BY <1>5
  <2> QED BY <1>5, <2>1, <2>2, <2>3 DEF CopiedTo
<1>11. HasLine'
  <2>1. Len(output') + 1 = Len(asked')
    BY <1>0, <1>4
  <2>2. count' = n /\ n = n - (Len(str) - (Len(buffer') + Len(ret')))
    <3>1. Len(buffer') = 0 /\ Len(ret') = Len(str)
      BY <1>2, <1>6
    <3> QED BY <1>1, <1>2, <1>5, <3>1
  <2>3. \E p \in 0 .. Len(str) : CopiedTo(str, p, buffer', ret')
    <3>1. 0 \in 0 .. Len(str)
      BY <1>5
    <3> QED BY <1>2, <1>6, <1>10, <3>1
  <2>4. /\ buf' = args.buf /\ args.count <= Len(buf')
        /\ tool' = "safecat" => args.count = Len(buf')
        /\ count' = args.count - (Len(Cstring(buf')) - (Len(buffer') + Len(ret')))
        /\ count' <= args.count
        /\ \E p \in 0 .. Len(Cstring(buf')) : CopiedTo(Cstring(buf'), p, buffer', ret')
    <3>1. /\ buf' = args.buf /\ args.count <= Len(buf')
          /\ tool' = "safecat" => args.count = Len(buf')
      BY <1>1, <1>2, <1>3
    <3>2. count' = args.count - (Len(Cstring(buf')) - (Len(buffer') + Len(ret')))
          /\ count' <= args.count
      BY <1>1, <1>3, <1>6, <2>2
    <3>3. \E p \in 0 .. Len(Cstring(buf')) : CopiedTo(Cstring(buf'), p, buffer', ret')
      BY <1>6, <2>3
    <3> QED BY <3>1, <3>2, <3>3
  <2> QED BY <1>4, <2>1, <2>4 DEF HasLine, Halfway
<1>12. Len(output') <= Len(asked')
  BY <1>0, <1>4, <1>9
<1> QED BY <1>2, <1>7, <1>8, <1>11, <1>12 DEF FilterInv

LEMMA LineKeeps == FilterInv /\ (GetLine \/ CallWrite) => FilterInv'
<1> SUFFICES ASSUME FilterInv, GetLine \/ CallWrite PROVE FilterInv'
  OBVIOUS
<1>1. CASE GetLine
  <2>1. unread \in Seq(Inputs) /\ unread # <<>>
    BY <1>1 DEF GetLine, FilterInv, FilterTypeOK
  <2>2. Head(unread) \in Seq(Bytes)
    BY <2>1, FilterAssumption
  <2>3. Len(Head(unread)) \in 0 .. Len(Head(unread))
    BY <2>2
  <2> QED BY <1>1, <2>3, CallsKeeps DEF GetLine, Begins
<1>2. CASE CallWrite
  <2>1. PICK n \in 0 .. Len(Head(unread)) :
          /\ buf' = Head(unread) /\ count' = n
          /\ asked' = Append(asked, [buf |-> Head(unread), count |-> n])
          /\ buffer' = <<>> /\ ret' = Cstring(Head(unread)) /\ filter' = "replace"
    BY <1>2 DEF CallWrite, Begins
  <2>2. tool # "safecat"
    BY <1>2 DEF CallWrite
  <2> QED BY <1>2, <2>1, <2>2, CallsKeeps DEF CallWrite
<1> QED BY <1>1, <1>2

LEMMA EndOfInputKeeps == FilterInv /\ EndOfInput => FilterInv'
<1> SUFFICES ASSUME FilterInv, EndOfInput PROVE FilterInv'
  OBVIOUS
<1>0. FilterTypeOK /\ WrittenSoFar /\ Len(output) = Len(asked) /\ filter = "read"
  BY DEF FilterInv, EndOfInput
<1>1. /\ tool = "safecat" /\ count' = -1 /\ buffer' = <<>> /\ ret' = Cstring(buf)
      /\ filter' \in {"replace", "undefined"}
      /\ UNCHANGED <<unread, tool, buf, asked, output>>
  BY DEF EndOfInput
<1>2. Cstring(buf) \in Seq(Bytes)
  BY <1>0, CstringIs DEF FilterTypeOK
<1>3. FilterTypeOK'
  <2>1. <<>> \in Seq(Bytes) /\ -1 \in Int
    OBVIOUS
  <2> QED BY <1>0, <1>1, <1>2, <2>1 DEF FilterTypeOK
<1>4. WrittenSoFar'
  BY <1>0, <1>1 DEF WrittenSoFar, Outcome
<1>5. HasNone'
  BY <1>0, <1>1 DEF HasNone
<1>6. Len(output') <= Len(asked')
  BY <1>0, <1>1 DEF FilterTypeOK
<1> QED BY <1>1, <1>3, <1>4, <1>5, <1>6 DEF FilterInv

(* Both what is copied and what is left lose what count does. *)
LEMMA ReplaceKeeps == FilterInv /\ Replace => FilterInv'
<1> SUFFICES ASSUME FilterInv, Replace PROVE FilterInv'
  OBVIOUS
<1> DEFINE i == First
           n == i - 1
           d == buffer \o SubSeq(ret, 1, n)
<1>0. FilterTypeOK /\ WrittenSoFar /\ Len(output) <= Len(asked) /\ (HasLine \/ HasNone)
  BY DEF FilterInv, Replace
<1>1. /\ Found # {} /\ filter = "replace" /\ buffer' = d \o GOD
      /\ ret' = SubSeq(ret, i + 9, Len(ret)) /\ count' = count - 6
      /\ UNCHANGED <<unread, tool, buf, filter, asked, output>>
  BY DEF Replace, Shorter
<1>2. /\ ret \in Seq(Bytes) /\ buffer \in Seq(Bytes) /\ count \in Int
      /\ Len(ret) \in Nat /\ Len(buffer) \in Nat /\ Len(buf) \in Nat
  BY <1>0 DEF FilterTypeOK
<1>3. /\ i \in 1 .. Len(ret) - 8 /\ SubSeq(ret, i, i + 8) = Evolution
      /\ \A j \in 1 .. i - 1 : SubSeq(ret, j, j + 8) # Evolution
  BY <1>1, <1>2, FirstFound
<1> HIDE DEF i
<1>4. n \in 0 .. Len(ret) /\ n = i - 1
  BY <1>2, <1>3
<1>5. buffer' \in Seq(Bytes) /\ Len(buffer') = Len(buffer) + (i - 1) + 3
  <2> HIDE DEF n
  <2>1. d \in Seq(Bytes) /\ Len(d) = Len(buffer) + n
    BY <1>2, <1>4, JoinedIs
  <2> HIDE DEF d
  <2>2. d \o GOD \in Seq(Bytes) /\ Len(d \o GOD) = Len(d) + Len(GOD)
    BY <2>1, WordIs, ConcatProperties
  <2> QED BY <1>1, <1>4, <2>1, <2>2, WordIs
<1>6. ret' \in Seq(Bytes) /\ Len(ret') = Len(ret) - i - 8
  <2> DEFINE a == i + 9
             z == Len(ret)
  <2>1. a \in Nat /\ z \in Nat /\ a >= 1 /\ a <= z + 1 /\ z - a + 1 = Len(ret) - i - 8 /\ z = Len(ret)
    BY <1>2, <1>3
  <2>2. z <= Len(ret)
    BY <1>2
  <2> HIDE DEF a, z
  <2>3. SubSeq(ret, a, z) \in Seq(Bytes) /\ Len(SubSeq(ret, a, z)) = z - a + 1
    BY <1>2, <2>1, <2>2, PieceIs
  <2> QED BY <1>1, <2>1, <2>3 DEF a, z
<1>11. Len(buffer') + Len(ret') = Len(buffer) + Len(ret) - 6
  <2>1. i \in Nat
    BY <1>2, <1>3
  <2>2. Len(buffer') = Len(buffer) + (i - 1) + 3 /\ Len(ret') = Len(ret) - i - 8
    BY <1>5, <1>6
  <2> QED BY <1>2, <2>1, <2>2
<1>7. FilterTypeOK'
  BY <1>0, <1>1, <1>2, <1>5, <1>6, SMTT(30) DEF FilterTypeOK
<1>8. WrittenSoFar'
  BY <1>0, <1>1 DEF WrittenSoFar, Outcome
<1>9. CASE HasLine
  <2> DEFINE args == asked[Len(asked)]
             s    == Cstring(buf)
  <2>1. /\ Len(output) + 1 = Len(asked)
        /\ buf = args.buf /\ args.count <= Len(buf) /\ (tool = "safecat" => args.count = Len(buf))
        /\ count = args.count - (Len(s) - (Len(buffer) + Len(ret))) /\ count <= args.count
        /\ \E p \in 0 .. Len(s) : CopiedTo(s, p, buffer, ret)
    BY <1>9 DEF HasLine, Halfway
  <2>2. /\ UNCHANGED <<output, asked, buf, tool>> /\ count' = count - 6
    BY <1>1
  <2>3. args.count \in Int /\ Len(s) \in Nat
    <3>1. asked \in Seq([buf : Inputs, count : Nat]) /\ Len(output) \in Nat
      BY <1>0 DEF FilterTypeOK
    <3>2. args \in [buf : Inputs, count : Nat]
      <4>1. Len(output) + 1 = Len(asked)
        BY <1>9 DEF HasLine
      <4>2. Len(asked) \in 1 .. Len(asked)
        BY <3>1, <4>1
      <4> QED BY <3>1, <4>2, ElementOfSeq
    <3>3. buf \in Seq(Bytes)
      BY <1>0 DEF FilterTypeOK
    <3>4. s \in Seq(Bytes)
      BY <3>3, CstringIs
    <3> HIDE DEF args, s
    <3> QED BY <3>2, <3>4
  <2>4. count' = args.count - (Len(s) - (Len(buffer') + Len(ret'))) /\ count' <= args.count
    <3> HIDE DEF args, s
    <3>1. Len(buffer') + Len(ret') \in Int
      BY <1>5, <1>6
    <3> DEFINE u == Len(buffer') + Len(ret')
               v == Len(buffer) + Len(ret)
    <3>2. u \in Int /\ v \in Int /\ u = v - 6
      BY <1>2, <1>11, <3>1
    <3>3. count = args.count - (Len(s) - v)
      BY <2>1
    <3> HIDE DEF u, v
    <3>4. count <= args.count
      BY <2>1
    <3>5. count' = count - 6
      BY <2>2
    <3> DEFINE all == args.count
               l   == Len(s)
    <3>6. all \in Int /\ l \in Int /\ count = all - (l - v) /\ count <= all
      BY <2>3, <3>3, <3>4
    <3> HIDE DEF all, l
    <3>7. count' = all - (l - u) /\ count' <= all
      BY <3>2, <3>5, <3>6
    <3> QED BY <3>7 DEF u, all, l
  <2>5. \E q \in 0 .. Len(s) : CopiedTo(s, q, buffer', ret')
    <3>1. PICK p \in 0 .. Len(s) : CopiedTo(s, p, buffer, ret)
      BY <2>1
    <3> HIDE DEF s
    <3>2. \E q \in 0 .. Len(s) : CopiedTo(s, q, (buffer \o SubSeq(ret, 1, i - 1)) \o GOD,
                                          SubSeq(ret, i + 9, Len(ret)))
      BY <1>3, <3>1, WordReplaced
    <3> QED BY <1>1, <3>2
  <2>6. HasLine'
    BY <2>1, <2>2, <2>4, <2>5 DEF HasLine, Halfway
  <2> QED BY <1>0, <1>1, <1>7, <1>8, <2>6 DEF FilterInv
<1>10. CASE HasNone
  <2>1. HasNone'
    BY <1>1, <1>2, <1>10 DEF HasNone
  <2> QED BY <1>0, <1>1, <1>7, <1>8, <2>1 DEF FilterInv
<1> QED BY <1>0, <1>9, <1>10

(* Adding one text to the output, for the one line that has none. *)
LEMMA OutputGrows ==
  ASSUME FilterInv, HasLine, NEW x \in Seq(Bytes), output' = Append(output, x),
         UNCHANGED <<asked, tool>>, x = Outcome(tool, asked[Len(asked)])
  PROVE  /\ WrittenSoFar' /\ Len(output') = Len(asked') /\ Len(output') <= Len(asked')
         /\ output' \in Seq(Seq(Bytes))
<1>0. /\ output \in Seq(Seq(Bytes)) /\ Len(output) \in Nat /\ Len(asked) = Len(output) + 1
      /\ Len(asked) \in Nat
  BY DEF FilterInv, FilterTypeOK, HasLine
<1> DEFINE o == Append(output, x)
<1>1. /\ o \in Seq(Seq(Bytes)) /\ Len(o) = Len(output) + 1 /\ o[Len(output) + 1] = x
      /\ \A i \in 1 .. Len(output) : o[i] = output[i]
  BY <1>0, AppendProperties
<1>2. o = output'
  OBVIOUS
<1> HIDE DEF o
<1>3. ASSUME NEW i \in 1 .. Len(o) PROVE o[i] = Outcome(tool, asked[i])
  <2>1. CASE i = Len(asked)
    <3>1. o[i] = x
      BY <1>0, <1>1, <2>1
    <3> QED BY <2>1, <3>1
  <2>2. CASE i # Len(asked)
    <3>1. i \in 1 .. Len(output)
      BY <1>0, <1>1, <2>2
    <3>2. output[i] = Outcome(tool, asked[i])
      BY <3>1 DEF FilterInv, WrittenSoFar
    <3> QED BY <1>1, <3>1, <3>2
  <2> QED BY <2>1, <2>2
<1>4. WrittenSoFar'
  BY <1>2, <1>3 DEF WrittenSoFar, Outcome
<1>5. Len(o) = Len(asked)
  BY <1>0, <1>1
<1> QED BY <1>0, <1>1, <1>2, <1>4, <1>5

(* When the rest is copied, the string is filtered, and count is what is    *)
(* left to write of it.                                                     *)
LEMMA WholeAndCount ==
  ASSUME FilterInv, HasLine, Found = {},
         NEW args, args = asked[Len(asked)], NEW whole, whole = buffer \o ret
  PROVE  /\ buf = args.buf /\ whole = Filtered(Cstring(args.buf))
         /\ whole \in Seq(Bytes) /\ count \in Int
         /\ count = args.count - (Len(Cstring(args.buf)) - Len(whole))
         /\ tool = "safecat" => count >= 0 /\ count <= Len(buf)
<1>0. /\ ret \in Seq(Bytes) /\ buffer \in Seq(Bytes) /\ buf \in Seq(Bytes) /\ count \in Int
      /\ Len(ret) \in Nat /\ Len(buffer) \in Nat /\ Len(buf) \in Nat
  BY DEF FilterInv, FilterTypeOK
<1> DEFINE s == Cstring(buf)
<1>1. /\ buf = args.buf /\ args.count <= Len(buf) /\ (tool = "safecat" => args.count = Len(buf))
      /\ count = args.count - (Len(s) - (Len(buffer) + Len(ret))) /\ count <= args.count
      /\ \E p \in 0 .. Len(s) : CopiedTo(s, p, buffer, ret)
  BY DEF HasLine, Halfway
<1>2. PICK p \in 0 .. Len(s) : CopiedTo(s, p, buffer, ret)
  BY <1>1
<1>3. WordFree(ret, Len(ret))
  BY <1>0, FirstFound
<1>4. s \in Seq(Bytes) /\ Len(s) <= Len(buf) /\ Len(s) \in Nat
  BY <1>0, CstringIs
<1>5. whole \in Seq(Bytes) /\ Len(whole) = Len(buffer) + Len(ret)
  BY <1>0
<1>6. s = Cstring(args.buf)
  BY <1>1
<1> HIDE DEF s
<1>7. whole = Filtered(s)
  BY <1>2, <1>3, WholeIs
<1>8. count = args.count - (Len(s) - Len(whole))
  BY <1>1, <1>5
<1>9. tool = "safecat" => count >= 0 /\ count <= Len(buf)
  BY <1>0, <1>1, <1>4
<1> QED BY <1>0, <1>1, <1>5, <1>6, <1>7, <1>8, <1>9

LEMMA FinishSafecatKeeps == FilterInv /\ FinishSafecat => FilterInv'
<1> SUFFICES ASSUME FilterInv, FinishSafecat PROVE FilterInv'
  OBVIOUS
<1> DEFINE whole == buffer \o ret
           text  == Over(whole, buf)
<1>0. FilterTypeOK /\ WrittenSoFar /\ Len(output) <= Len(asked) /\ (HasLine \/ HasNone)
  BY DEF FilterInv, FinishSafecat
<1>1. /\ Found = {} /\ tool = "safecat"
      /\ IF Fits(whole)
         THEN /\ filter' = "read" /\ buf' = text
              /\ output' = IF count < 0 THEN output ELSE Append(output, SubSeq(text, 1, count))
         ELSE filter' = "undefined" /\ UNCHANGED <<buf, output>>
      /\ UNCHANGED <<unread, tool, count, buffer, ret, asked>>
  BY DEF FinishSafecat
<1>2. /\ ret \in Seq(Bytes) /\ buffer \in Seq(Bytes) /\ buf \in Seq(Bytes) /\ count \in Int
      /\ Len(ret) \in Nat /\ Len(buffer) \in Nat /\ Len(buf) \in Nat
  BY <1>0 DEF FilterTypeOK
<1>3. whole \in Seq(Bytes)
  BY <1>2
<1>4. text \in Seq(Bytes) /\ Len(text) >= Len(buf)
  <2> HIDE DEF whole
  <2> QED BY <1>2, <1>3, OverIs
<1>5. CASE ~Fits(whole)
  <2> HIDE DEF whole, text
  <2> QED BY <1>0, <1>1, <1>5 DEF FilterInv, FilterTypeOK, WrittenSoFar, Outcome
<1>6. CASE Fits(whole) /\ HasNone
  <2> HIDE DEF whole, text
  <2>1. output' = output /\ Len(output) = Len(asked) /\ filter' = "read" /\ buf' = text
    BY <1>1, <1>6 DEF HasNone
  <2>2. FilterTypeOK'
    BY <1>0, <1>1, <1>4, <2>1 DEF FilterTypeOK
  <2> QED BY <1>0, <1>1, <2>1, <2>2 DEF FilterInv, WrittenSoFar, Outcome
<1>7. CASE Fits(whole) /\ HasLine
  <2> DEFINE x    == SubSeq(text, 1, count)
             args == asked[Len(asked)]
  <2>1. /\ buf = args.buf /\ whole = Filtered(Cstring(args.buf))
        /\ count = args.count - (Len(Cstring(args.buf)) - Len(whole))
        /\ count >= 0 /\ count <= Len(buf)
    <3>1. HasLine /\ Found = {} /\ tool = "safecat"
      BY <1>1, <1>7
    <3> HIDE DEF args, whole
    <3>2. args = asked[Len(asked)] /\ whole = buffer \o ret
      BY DEF args, whole
    <3> QED BY <3>1, <3>2, WholeAndCount
  <2>2. x \in Seq(Bytes)
    <3> HIDE DEF text
    <3>1. count <= Len(text)
      BY <1>2, <1>4, <2>1
    <3> QED BY <1>2, <1>4, <3>1, FirstBytes
  <2>3. filter' = "read" /\ buf' = text /\ output' = Append(output, x) /\ UNCHANGED <<asked, tool>>
    <3> HIDE DEF text, whole, args
    <3>1. ~(count < 0)
      BY <1>2, <2>1
    <3> QED BY <1>1, <1>7, <3>1
  <2>4. x = Outcome(tool, args)
    <3>1. tool # "safe"
      BY <1>1
    <3> HIDE DEF args, whole
    <3> QED BY <2>1, <3>1 DEF Outcome
  <2> HIDE DEF x, text, whole
  <2>5. /\ WrittenSoFar' /\ Len(output') = Len(asked') /\ Len(output') <= Len(asked')
        /\ output' \in Seq(Seq(Bytes))
    BY <1>7, <2>2, <2>3, <2>4, OutputGrows
  <2>6. FilterTypeOK'
    BY <1>0, <1>1, <1>4, <2>3, <2>5 DEF FilterTypeOK
  <2> QED BY <2>3, <2>5, <2>6 DEF FilterInv
<1> QED BY <1>0, <1>5, <1>6, <1>7

LEMMA FinishSafeKeeps == FilterInv /\ FinishSafe => FilterInv'
<1> SUFFICES ASSUME FilterInv, FinishSafe PROVE FilterInv'
  OBVIOUS
<1> DEFINE whole == buffer \o ret
           x     == SubSeq(whole, 1, count)
<1>0. FilterTypeOK /\ WrittenSoFar /\ Len(output) <= Len(asked) /\ HasLine
  BY DEF FilterInv, FinishSafe, HasNone
<1>1. /\ Found = {} /\ tool = "safe"
      /\ \/ /\ count <= Len(whole) /\ filter' = "stopped" /\ output' = Append(output, x)
         \/ filter' = "undefined" /\ UNCHANGED output
      /\ UNCHANGED <<unread, tool, buf, count, buffer, ret, asked>>
  BY DEF FinishSafe
<1> DEFINE args == asked[Len(asked)]
<1>2. /\ buf = args.buf /\ whole = Filtered(Cstring(args.buf))
      /\ whole \in Seq(Bytes) /\ count \in Int
      /\ count = args.count - (Len(Cstring(args.buf)) - Len(whole))
  <2> HIDE DEF args, whole
  <2>1. args = asked[Len(asked)] /\ whole = buffer \o ret
    BY DEF args, whole
  <2> QED BY <1>0, <1>1, <2>1, WholeAndCount
<1> HIDE DEF whole
<1>3. CASE filter' = "undefined" /\ UNCHANGED output
  BY <1>0, <1>1, <1>3 DEF FilterInv, FilterTypeOK, WrittenSoFar, Outcome
<1>4. CASE count <= Len(whole) /\ filter' = "stopped" /\ output' = Append(output, x)
  <2>1. x \in Seq(Bytes)
    BY <1>2, <1>4, FirstBytes
  <2>2. x = Outcome(tool, args)
    <3> HIDE DEF args
    <3> QED BY <1>1, <1>2 DEF Outcome
  <2> HIDE DEF x
  <2>3. /\ WrittenSoFar' /\ Len(output') = Len(asked') /\ Len(output') <= Len(asked')
        /\ output' \in Seq(Seq(Bytes))
    BY <1>0, <1>1, <1>4, <2>1, <2>2, OutputGrows
  <2>4. FilterTypeOK'
    BY <1>0, <1>1, <1>4, <2>3 DEF FilterTypeOK
  <2> QED BY <1>4, <2>3, <2>4 DEF FilterInv
<1> QED BY <1>1, <1>3, <1>4

(* What safecat and safe write is the strings they are given with the word  *)
(* replaced, as many bytes of each as the call asked for less those that    *)
(* the replacing took away, for strings of any bytes and any number of      *)
(* calls (safeprep.c 7-26, safe.c 7-28).                                    *)
THEOREM WrittenIsFiltered == FilterSpec => []WrittenAsFiltered
<1>1. FilterInv /\ [FilterNext]_filterVars => FilterInv'
  <2> SUFFICES ASSUME FilterInv, [FilterNext]_filterVars PROVE FilterInv'
    OBVIOUS
  <2>1. CASE GetLine \/ CallWrite
    BY <2>1, LineKeeps
  <2>6. CASE EndOfInput
    BY <2>6, EndOfInputKeeps
  <2>2. CASE Replace
    BY <2>2, ReplaceKeeps
  <2>3. CASE FinishSafecat
    BY <2>3, FinishSafecatKeeps
  <2>4. CASE FinishSafe
    BY <2>4, FinishSafeKeeps
  <2>5. CASE UNCHANGED filterVars
    BY <2>5 DEF filterVars, FilterInv, FilterTypeOK, WrittenSoFar, Outcome, HasLine, HasNone, Halfway
  <2> QED BY <2>1, <2>2, <2>3, <2>4, <2>5, <2>6 DEF FilterNext
<1>2. FilterInv => WrittenAsFiltered
  BY DEF FilterInv, WrittenSoFar, WrittenAsFiltered
<1> QED BY <1>1, <1>2, FilterInitially, PTL DEF FilterSpec

(***************************************************************************)
(* The heap dump of hw6.                                                   *)
(***************************************************************************)
LEMMA GreatestOf ==
  ASSUME NEW W, NEW m \in W, \A v \in W : v <= m
  PROVE  Max(W) \in W /\ \A v \in W : v <= Max(W)
<1> DEFINE IsGreatest(x) == \A v \in W : v <= x
<1>1. IsGreatest(m)
  OBVIOUS
<1>2. Max(W) = CHOOSE x \in W : IsGreatest(x)
  BY DEF Max
<1> HIDE DEF IsGreatest
<1>3. Max(W) \in W /\ IsGreatest(Max(W))
  BY <1>1, <1>2
<1> QED BY <1>3 DEF IsGreatest

(* Whose elements differ. *)
Distinct(s) == \A i, j \in 1 .. Len(s) : s[i] = s[j] => i = j

LEMMA RemovedIs ==
  ASSUME NEW S, NEW s \in Seq(S), Distinct(s), NEW g
  PROVE  /\ RemoveFirst(s, g) \in Seq(S) /\ Distinct(RemoveFirst(s, g))
         /\ \A k \in 1 .. Len(RemoveFirst(s, g)) :
              RemoveFirst(s, g)[k] # g /\ \E j \in 1 .. Len(s) : RemoveFirst(s, g)[k] = s[j]
<1> DEFINE I == {i \in 1 .. Len(s) : s[i] = g}
<1>1. CASE I = {}
  <2>1. RemoveFirst(s, g) = s
    BY <1>1 DEF RemoveFirst
  <2> QED BY <1>1, <2>1
<1>2. CASE I # {}
  <2>1. RemoveFirst(s, g) = RemoveAt(s, Min(I))
    BY <1>2 DEF RemoveFirst, SelectInSeq
  <2>2. PICK i \in 1 .. Len(s) : i = Min(I) /\ s[i] = g
    <3>1. I \in SUBSET Nat
      OBVIOUS
    <3> HIDE DEF I
    <3>2. Min(I) \in I
      BY <1>2, <3>1, LeastOf
    <3> QED BY <3>2 DEF I
  <2> DEFINE a == SubSeq(s, 1, i - 1)
             b == SubSeq(s, i + 1, Len(s))
             r == a \o b
  <2>3. RemoveFirst(s, g) = r
    BY <2>1, <2>2 DEF RemoveAt
  <2>4. a \in Seq(S) /\ Len(a) = i - 1 /\ \A k \in 1 .. Len(a) : a[k] = s[k]
    OBVIOUS
  <2>5. b \in Seq(S) /\ Len(b) = Len(s) - i /\ \A k \in 1 .. Len(b) : b[k] = s[i + k]
    OBVIOUS
  <2> HIDE DEF a, b
  <2>6. /\ r \in Seq(S) /\ Len(r) = Len(a) + Len(b)
        /\ \A k \in 1 .. Len(a) + Len(b) : r[k] = IF k <= Len(a) THEN a[k] ELSE b[k - Len(a)]
    BY <2>4, <2>5, ConcatProperties
  <2>7. Len(s) \in Nat /\ Len(r) = Len(s) - 1
    BY <2>4, <2>5, <2>6
  <2> HIDE DEF r
  <2> DEFINE from(k) == IF k < i THEN k ELSE k + 1
  <2>8. \A k \in 1 .. Len(r) : from(k) \in 1 .. Len(s) /\ from(k) # i /\ r[k] = s[from(k)]
    <3> SUFFICES ASSUME NEW k \in 1 .. Len(r) PROVE from(k) \in 1 .. Len(s) /\ from(k) # i /\ r[k] = s[from(k)]
      OBVIOUS
    <3>1. CASE k < i
      <4>1. k \in 1 .. Len(a) + Len(b) /\ k <= Len(a) /\ k \in 1 .. Len(a)
        BY <3>1, <2>2, <2>4, <2>6, <2>7
      <4>2. r[k] = s[k]
        BY <4>1, <2>4, <2>6
      <4> QED BY <3>1, <4>2, <2>2, <2>7
    <3>2. CASE ~ k < i
      <4>1. k - Len(a) \in 1 .. Len(b) /\ i + (k - Len(a)) = k + 1
        BY <3>2, <2>2, <2>4, <2>5, <2>7, SMTT(30)
      <4>2. r[k] = b[k - Len(a)]
        <5>1. k \in 1 .. Len(a) + Len(b) /\ ~ k <= Len(a)
          BY <3>2, <2>2, <2>4, <2>6, <2>7
        <5> QED BY <5>1, <2>6
      <4>3. b[k - Len(a)] = s[k + 1]
        BY <4>1, <2>5
      <4> QED BY <3>2, <4>2, <4>3, <2>2, <2>7
    <3> QED BY <3>1, <3>2
  <2>9. \A k \in 1 .. Len(r) : r[k] # g
    <3> SUFFICES ASSUME NEW k \in 1 .. Len(r) PROVE r[k] # g
      OBVIOUS
    <3> HIDE DEF from
    <3> QED BY <2>2, <2>8 DEF Distinct
  <2>10. Distinct(r)
    <3> SUFFICES ASSUME NEW k \in 1 .. Len(r), NEW j \in 1 .. Len(r), r[k] = r[j] PROVE k = j
      BY DEF Distinct
    <3>1. from(k) = from(j)
      <4> HIDE DEF from
      <4> QED BY <2>8 DEF Distinct
    <3> QED BY <3>1, <2>2
  <2> HIDE DEF from
  <2> QED BY <2>3, <2>6, <2>8, <2>9, <2>10
<1> QED BY <1>1, <1>2

(* The chunks lie one behind the other up to the last one, which reaches   *)
(* to the break.                                                           *)
Tiled ==
  /\ \A h \in DOMAIN heap : h \in Nat /\ heap[h] \in Nat /\ 0 < heap[h] /\ h + heap[h] <= wild
  /\ \A h \in DOMAIN heap : h + heap[h] \in AllChunks
  /\ \A h, g \in DOMAIN heap : h < g => h + heap[h] <= g
  /\ wild \in Nat /\ brk \in Nat /\ wild + MINSIZE <= brk

(* Of two neighbours one is in use; the last chunk is not.                 *)
Unmerged ==
  /\ \A h \in DOMAIN heap : h + heap[h] \notin live => h \in live

(* What is in use is a chunk; what is in the list is one that is free, and *)
(* is in it once.                                                          *)
Listed ==
  /\ live \subseteq DOMAIN heap
  /\ list \in Seq(DOMAIN heap \ live) /\ Distinct(list)

TiledHeap == Tiled /\ Unmerged /\ Listed

LEMMA HeapConstants ==
  /\ SMALL \in Nat /\ LARGE \in Nat /\ ROUND \in Nat /\ MINSIZE \in Nat /\ MAX_TOP \in Nat
  /\ 0 < ROUND /\ 3 < MINSIZE /\ MINSIZE <= SMALL /\ SMALL < LARGE
BY HeapAssumption

LEMMA MallocTiles ==
  ASSUME TiledHeap, NEW i, NEW n \in Nat, MINSIZE <= n, malloc(i, n)
  PROVE  /\ TiledHeap' /\ list' = <<>> /\ wild' = wild + n
         /\ wild \in DOMAIN heap' /\ heap'[wild] = n /\ live' = live \cup {wild} /\ wild \notin DOMAIN heap
         /\ chunks' = With(chunks, i, Mem(wild)) /\ hdr' = hdr
         /\ \A h \in DOMAIN heap : h \in DOMAIN heap' /\ heap'[h] = heap[h]
<1>0. Tiled /\ Unmerged /\ Listed
  BY DEF TiledHeap
<1>1. wild \notin DOMAIN heap
  BY <1>0 DEF Tiled
<1>2. /\ heap' = With(heap, wild, n) /\ live' = live \cup {wild} /\ list' = <<>> /\ wild' = wild + n
      /\ brk' \in IF brk >= wild' + MINSIZE THEN {brk} ELSE Breaks(wild')
      /\ chunks' = With(chunks, i, Mem(wild)) /\ hdr' = hdr
  BY DEF malloc
<1>3. DOMAIN heap' = DOMAIN heap \cup {wild} /\ heap'[wild] = n /\ \A h \in DOMAIN heap : heap'[h] = heap[h]
  BY <1>1, <1>2 DEF With
<1>4. wild \in Nat /\ brk \in Nat /\ n \in Nat /\ 0 < n /\ MINSIZE \in Nat
  BY <1>0, HeapConstants DEF Tiled
<1>5. brk' \in Nat /\ wild' + MINSIZE <= brk'
  <2>1. CASE brk >= wild' + MINSIZE
    BY <2>1, <1>2, <1>4
  <2>2. CASE ~ brk >= wild' + MINSIZE
    <3>1. PICK x \in MINSIZE .. MAX_TOP : brk' = wild' + x
      BY <2>2, <1>2 DEF Breaks
    <3> QED BY <3>1, <1>2, <1>4, HeapConstants
  <2> QED BY <2>1, <2>2
<1>6. Tiled'
  <2>1. \A h \in DOMAIN heap : h \in Nat /\ heap[h] \in Nat /\ 0 < heap[h] /\ h + heap[h] <= wild
    BY <1>0 DEF Tiled
  <2>2. \A h \in DOMAIN heap' : h \in Nat /\ heap'[h] \in Nat /\ 0 < heap'[h] /\ h + heap'[h] <= wild'
    BY <2>1, <1>2, <1>3, <1>4
  <2>3. \A h \in DOMAIN heap : h + heap[h] \in DOMAIN heap \cup {wild}
    BY <1>0 DEF Tiled, AllChunks
  <2>4. \A h \in DOMAIN heap' : h + heap'[h] \in DOMAIN heap' \cup {wild'}
    BY <2>3, <1>2, <1>3
  <2>5. \A h, g \in DOMAIN heap : h < g => h + heap[h] <= g
    BY <1>0 DEF Tiled
  <2>6. \A h, g \in DOMAIN heap' : h < g => h + heap'[h] <= g
    <3> SUFFICES ASSUME NEW h \in DOMAIN heap', NEW g \in DOMAIN heap', h < g PROVE h + heap'[h] <= g
      OBVIOUS
    <3>1. CASE h = wild
      BY <3>1, <2>1, <1>3, <1>4
    <3>2. CASE h # wild /\ g = wild
      BY <3>2, <2>1, <1>3
    <3>3. CASE h # wild /\ g # wild
      BY <3>3, <2>5, <1>3
    <3> QED BY <3>1, <3>2, <3>3
  <2> QED BY <2>2, <2>4, <2>6, <1>2, <1>4, <1>5 DEF Tiled, AllChunks
<1>7. Unmerged'
  BY <1>0, <1>2, <1>3 DEF Unmerged
<1>8. Listed'
  BY <1>0, <1>2, <1>3 DEF Listed, Distinct
<1> QED BY <1>1, <1>2, <1>3, <1>6, <1>7, <1>8 DEF TiledHeap

LEMMA TrimTiles ==
  ASSUME TiledHeap, malloc_trim
  PROVE  TiledHeap'
<1>1. /\ UNCHANGED <<heap, live, list, wild, chunks, hdr>>
      /\ brk' \in Breaks(wild)
  BY DEF malloc_trim
<1>2. PICK x \in MINSIZE .. MAX_TOP : brk' = wild + x
  BY <1>1 DEF Breaks
<1>3. wild \in Nat
  BY DEF TiledHeap, Tiled
<1>4. brk' \in Nat /\ wild + MINSIZE <= brk'
  BY <1>2, <1>3, HeapConstants
<1> QED BY <1>1, <1>4 DEF TiledHeap, Tiled, Unmerged, Listed, AllChunks

(* What a chunk is joined with when it is freed, and what that leaves: the *)
(* first and the last of it, what lies in front of it and behind it.       *)
Joins(h) == {g \in DOMAIN heap \ live : g + heap[g] = h \/ g = h + heap[h]} \cup {h}

Spans(h, f, l) ==
  /\ f \in Joins(h) /\ l \in Joins(h) /\ h \in Joins(h) /\ Joins(h) \subseteq {f, h, l}
  /\ Joins(h) \subseteq (DOMAIN heap \ live) \cup {h}
  /\ f <= h /\ h <= l
  /\ \A g \in DOMAIN heap \ Joins(h) : g + heap[g] <= f \/ l + heap[l] <= g
  /\ \A g \in DOMAIN heap \ Joins(h) : g + heap[g] = f => g \in live
  /\ l + heap[l] \in live \cup {wild}

LEMMA JoinsSpan ==
  ASSUME TiledHeap, NEW h \in live
  PROVE  Spans(h, Min(Joins(h)), Max(Joins(h)))
<1> DEFINE f == Min(Joins(h))
           l == Max(Joins(h))
<1>0. /\ \A g \in DOMAIN heap : g \in Nat /\ heap[g] \in Nat /\ 0 < heap[g] /\ g + heap[g] <= wild
      /\ \A g \in DOMAIN heap : g + heap[g] \in DOMAIN heap \cup {wild}
      /\ \A g, k \in DOMAIN heap : g < k => g + heap[g] <= k
      /\ h \in DOMAIN heap
      /\ \A g \in DOMAIN heap : g + heap[g] \notin live => g \in live
  BY DEF TiledHeap, Tiled, Unmerged, Listed, AllChunks
<1>1. /\ h \in Joins(h) /\ Joins(h) \subseteq (DOMAIN heap \ live) \cup {h}
      /\ \A v \in Joins(h) : v = h \/ v + heap[v] = h \/ v = h + heap[h]
      /\ \A v \in DOMAIN heap \ live : v + heap[v] = h \/ v = h + heap[h] => v \in Joins(h)
  BY DEF Joins
<1>2. \A v \in Joins(h) : v \in DOMAIN heap /\ v \in Nat
  BY <1>0, <1>1
<1>3. f \in Joins(h) /\ \A v \in Joins(h) : f <= v
  <2>1. Joins(h) \in SUBSET Nat /\ Joins(h) # {}
    BY <1>1, <1>2
  <2> QED BY <2>1, LeastOf
<1>4. l \in Joins(h) /\ \A v \in Joins(h) : v <= l
  <2>1. \A v \in Joins(h) : v <= h \/ v = h + heap[h]
    BY <1>0, <1>1, <1>2
  <2>2. CASE h + heap[h] \in Joins(h)
    <3>1. \A v \in Joins(h) : v <= h + heap[h]
      BY <2>1, <1>0, <1>2
    <3> QED BY <2>2, <3>1, GreatestOf
  <2>3. CASE h + heap[h] \notin Joins(h)
    BY <2>1, <2>3, <1>1, GreatestOf
  <2> QED BY <2>2, <2>3
<1> HIDE DEF f, l
<1>5. /\ f \in DOMAIN heap /\ l \in DOMAIN heap /\ f \in Nat /\ l \in Nat /\ h \in Nat
      /\ f <= h /\ h <= l
  BY <1>0, <1>1, <1>2, <1>3, <1>4
<1>6. f = h \/ f + heap[f] = h
  BY <1>0, <1>1, <1>3, <1>5
<1>7. l = h \/ l = h + heap[h]
  BY <1>0, <1>1, <1>4, <1>5
<1>8. Joins(h) \subseteq {f, h, l}
  <2> SUFFICES ASSUME NEW v \in Joins(h), v # h, v # f PROVE v = l
    OBVIOUS
  <2>1. f < v
    BY <1>2, <1>3, <1>5
  <2>2. f + heap[f] <= v
    BY <2>1, <1>0, <1>2, <1>5
  <2>3. v + heap[v] # h
    BY <2>1, <2>2, <1>0, <1>2, <1>5, <1>6
  <2>4. v = h + heap[h]
    BY <2>3, <1>1
  <2> QED BY <2>4, <1>0, <1>2, <1>4, <1>5, <1>7
<1>9. ASSUME NEW g \in DOMAIN heap \ Joins(h)
      PROVE  g + heap[g] <= f \/ l + heap[l] <= g
  <2>1. g # f /\ g # h /\ g # l /\ g \in Nat
    BY <1>0, <1>1, <1>3, <1>4
  <2>2. CASE g < f
    BY <2>2, <1>0, <1>5
  <2>3. CASE f < g
    <3>1. h < g
      <4>1. f + heap[f] <= g
        BY <2>3, <1>0, <1>5
      <4> QED BY <4>1, <2>1, <2>3, <1>5, <1>6
    <3>2. h + heap[h] <= g
      BY <3>1, <1>0
    <3>3. l < g
      BY <3>1, <3>2, <2>1, <1>5, <1>7
    <3> QED BY <3>3, <1>0, <1>5
  <2> QED BY <2>1, <2>2, <2>3, <1>5
<1>10. ASSUME NEW g \in DOMAIN heap \ Joins(h), g + heap[g] = f
       PROVE  g \in live
  <2>1. CASE f = h
    BY <2>1, <1>1, <1>10
  <2>2. CASE f # h
    <3>1. f \notin live
      BY <2>2, <1>1, <1>3
    <3> QED BY <3>1, <1>0, <1>10
  <2> QED BY <2>1, <2>2
<1>11. l + heap[l] \in live \cup {wild}
  <2>1. CASE l = h
    <3>1. h + heap[h] \notin Joins(h)
      BY <2>1, <1>0, <1>2, <1>4, <1>5
    <3> QED BY <3>1, <2>1, <1>0, <1>1
  <2>2. CASE l # h
    <3>1. l \notin live
      BY <2>2, <1>1, <1>4
    <3> QED BY <3>1, <1>0, <1>5
  <2> QED BY <2>1, <2>2
<1>12. Spans(h, f, l)
  BY <1>1, <1>3, <1>4, <1>5, <1>8, <1>9, <1>10, <1>11 DEF Spans
<1> QED BY <1>12 DEF f, l

LEMMA FreeTiles ==
  ASSUME TiledHeap, NEW i, chunks[i] \in Int, chunks[i] - 2 \in live, free(i)
  PROVE  /\ TiledHeap' /\ live' = live \ {chunks[i] - 2} /\ UNCHANGED <<chunks, hdr>>
         /\ list = <<>> /\ PrevUsed(chunks[i] - 1) /\ chunks[i] - 2 + heap[chunks[i] - 2] \in live
              => list' = <<chunks[i] - 2>>
<1> DEFINE h == chunks[i] - 2
           f == Min(Joins(h))
           l == Max(Joins(h))
           end == l + heap[l]
           kept == [g \in DOMAIN heap \ Joins(h) |-> heap[g]]
           others == RemoveFirst(RemoveFirst(list, f), l)
<1>1. /\ live' = live \ {h} /\ brk' = brk /\ chunks' = chunks /\ hdr' = hdr
      /\ end = wild => heap' = kept /\ wild' = f /\ list' = others
      /\ end # wild => heap' = With(kept, f, end - f) /\ list' = <<f>> \o others /\ wild' = wild
  BY DEF free, Joins
<1>2. Spans(h, f, l)
  BY JoinsSpan
<1>3. DOMAIN kept = DOMAIN heap \ Joins(h) /\ \A g \in DOMAIN kept : kept[g] = heap[g]
  OBVIOUS
<1>4. others = RemoveFirst(RemoveFirst(list, f), l) /\ end = l + heap[l] /\ h \in live
  OBVIOUS
<1>5. PrevUsed(chunks[i] - 1) => \A g \in DOMAIN heap : g + heap[g] = h => g \in live
  <2>1. \A g \in DOMAIN heap : g + heap[g] \in Int
    BY DEF TiledHeap, Tiled
  <2>2. h \in Int
    BY DEF TiledHeap, Tiled, Listed
  <2> QED BY <2>1, <2>2 DEF PrevUsed
<1>6. Joins(h) = {g \in DOMAIN heap \ live : g + heap[g] = h \/ g = h + heap[h]} \cup {h}
  BY DEF Joins
<1> HIDE DEF f, l, end, kept, others
<1>7. /\ \A g \in DOMAIN heap : g \in Nat /\ heap[g] \in Nat /\ 0 < heap[g] /\ g + heap[g] <= wild
      /\ \A g \in DOMAIN heap : g + heap[g] \in DOMAIN heap \cup {wild}
      /\ \A g, k \in DOMAIN heap : g < k => g + heap[g] <= k
      /\ \A g \in DOMAIN heap : g + heap[g] \notin live => g \in live
      /\ wild \in Nat /\ brk \in Nat /\ wild + MINSIZE <= brk
      /\ live \subseteq DOMAIN heap /\ list \in Seq(DOMAIN heap \ live) /\ Distinct(list)
  BY DEF TiledHeap, Tiled, Unmerged, Listed, AllChunks
<1>8. /\ f \in DOMAIN heap /\ l \in DOMAIN heap /\ h \in DOMAIN heap /\ f \in Nat /\ l \in Nat /\ h \in Nat
      /\ f \in Joins(h) /\ l \in Joins(h) /\ h \in Joins(h) /\ f <= h /\ h <= l
      /\ f # h => f \notin live
      /\ heap[l] \in Nat /\ l < end /\ end <= wild /\ end \in Nat
      /\ end \in live \cup {wild} /\ end \in DOMAIN heap \cup {wild}
  <2>1. /\ f \in Joins(h) /\ l \in Joins(h) /\ h \in Joins(h) /\ f <= h /\ h <= l
        /\ Joins(h) \subseteq (DOMAIN heap \ live) \cup {h} /\ l + heap[l] \in live \cup {wild}
    BY <1>2 DEF Spans
  <2>2. f \in DOMAIN heap /\ l \in DOMAIN heap /\ h \in DOMAIN heap
    BY <2>1, <1>4, <1>7
  <2>3. end \in live \cup {wild} /\ end \in DOMAIN heap \cup {wild}
    BY <2>1, <2>2, <1>4, <1>7
  <2>4. heap[l] \in Nat /\ l \in Nat /\ 0 < heap[l] /\ l + heap[l] <= wild
    BY <2>2, <1>7
  <2>5. l < end /\ end <= wild /\ end \in Nat
    BY <2>4, <1>4
  <2>6. f # h => f \notin live
    BY <2>1
  <2> QED BY <2>1, <2>2, <2>3, <2>4, <2>5, <2>6, <1>7
<1>9. \A g \in DOMAIN kept :
        /\ g \in DOMAIN heap /\ g \notin Joins(h) /\ kept[g] = heap[g] /\ g # f /\ g # l /\ g # h
        /\ g + heap[g] <= f \/ end <= g
        /\ g + heap[g] = f => g \in live
  BY <1>2, <1>3, <1>4 DEF Spans
<1>10. live' \subseteq DOMAIN kept /\ f \notin live'
  BY <1>1, <1>2, <1>3, <1>7, <1>8 DEF Spans
<1>11. others \in Seq(DOMAIN kept \ live') /\ Distinct(others)
  <2> DEFINE once == RemoveFirst(list, f)
  <2>1. /\ once \in Seq(DOMAIN heap \ live) /\ Distinct(once)
        /\ \A k \in 1 .. Len(once) : once[k] # f
    BY <1>7, RemovedIs
  <2>2. others = RemoveFirst(once, l)
    BY <1>4
  <2> HIDE DEF once
  <2>3. /\ others \in Seq(DOMAIN heap \ live) /\ Distinct(others)
        /\ \A k \in 1 .. Len(others) : others[k] # l /\ \E j \in 1 .. Len(once) : others[k] = once[j]
    BY <2>1, <2>2, RemovedIs
  <2>4. \A k \in 1 .. Len(others) : others[k] \in DOMAIN kept \ live'
    <3> SUFFICES ASSUME NEW k \in 1 .. Len(others) PROVE others[k] \in DOMAIN kept \ live'
      OBVIOUS
    <3>1. others[k] \in DOMAIN heap \ live /\ others[k] # l /\ others[k] # f
      BY <2>1, <2>3
    <3>2. others[k] # h
      BY <3>1, <1>4
    <3> QED BY <3>1, <3>2, <1>1, <1>2, <1>3 DEF Spans
  <2> QED BY <2>3, <2>4
<1>12. ASSUME NEW g \in DOMAIN kept
       PROVE  g + heap[g] \notin live' => g \in live'
  <2>1. g + heap[g] # h \/ h = f
    <3>1. g \in Nat /\ heap[g] \in Nat /\ 0 < heap[g] /\ (g + heap[g] <= f \/ end <= g)
      BY <1>7, <1>9
    <3>2. f \in Nat /\ h \in Nat /\ l \in Nat /\ end \in Nat /\ f <= h /\ h <= l /\ l < end
      BY <1>8
    <3> HIDE DEF h
    <3> QED BY <3>1, <3>2
  <2> QED BY <2>1, <1>1, <1>7, <1>9
<1>13. ASSUME NEW g \in DOMAIN kept
       PROVE  g + heap[g] \in DOMAIN kept \cup {f, wild}
  <2>1. CASE g + heap[g] \in Joins(h)
    <3>1. g + heap[g] \in {f, h, l}
      BY <2>1, <1>2 DEF Spans
    <3>2. g \in Nat /\ heap[g] \in Nat /\ 0 < heap[g] /\ (g + heap[g] <= f \/ end <= g)
      BY <1>7, <1>9
    <3>3. f \in Nat /\ h \in Nat /\ l \in Nat /\ end \in Nat /\ f <= h /\ h <= l /\ l < end
      BY <1>8
    <3> HIDE DEF h
    <3> QED BY <3>1, <3>2, <3>3
  <2> QED BY <2>1, <1>3, <1>7, <1>9
<1>14. CASE end = wild
  <2>1. heap' = kept /\ wild' = f /\ list' = others
    BY <1>1, <1>14
  <2>2. \A g \in DOMAIN kept : g + heap[g] <= f
    BY <1>7, <1>9, <1>14
  <2>3. \A g \in DOMAIN kept : g + heap[g] \in DOMAIN kept \cup {f}
    <3> SUFFICES ASSUME NEW g \in DOMAIN kept PROVE g + heap[g] \in DOMAIN kept \cup {f}
      OBVIOUS
    <3>1. g + heap[g] <= f /\ f < wild
      BY <2>2, <1>8, <1>14
    <3>2. g + heap[g] # wild
      <4>1. g + heap[g] \in Nat /\ wild \in Nat /\ f \in Nat
        BY <1>7, <1>8, <1>9
      <4> QED BY <3>1, <4>1
    <3> QED BY <3>2, <1>13
  <2>4. f + MINSIZE <= brk
    BY <1>7, <1>8, HeapConstants
  <2>5. Tiled'
    BY <2>1, <2>2, <2>3, <2>4, <1>1, <1>7, <1>8, <1>9 DEF Tiled, AllChunks
  <2>6. Unmerged'
    BY <2>1, <1>9, <1>12 DEF Unmerged
  <2>7. Listed'
    BY <2>1, <1>10, <1>11 DEF Listed, Distinct
  <2>8. h + heap[h] \notin live \/ l # h
    <3>1. l = h => h + heap[h] = wild
      BY <1>4, <1>14
    <3>2. wild \notin live
      <4>1. wild \notin DOMAIN heap
        BY <1>7
      <4> QED BY <4>1, <1>7
    <3> QED BY <3>1, <3>2
  <2>9. ~ (PrevUsed(chunks[i] - 1) /\ h + heap[h] \in live)
    <3>1. CASE l = h
      BY <3>1, <2>8
    <3>2. CASE l # h
      <4>1. l \notin live /\ (l + heap[l] = h \/ l = h + heap[h])
        BY <3>2, <1>6, <1>8
      <4>2. l + heap[l] # h
        BY <1>4, <1>8
      <4> QED BY <4>1, <4>2
    <3> QED BY <3>1, <3>2
  <2> QED BY <2>5, <2>6, <2>7, <2>9, <1>1 DEF TiledHeap
<1>15. CASE end # wild
  <2>1. heap' = With(kept, f, end - f) /\ list' = <<f>> \o others /\ wild' = wild
    BY <1>1, <1>15
  <2>2. /\ DOMAIN heap' = DOMAIN kept \cup {f} /\ heap'[f] = end - f
        /\ \A g \in DOMAIN kept : heap'[g] = heap[g]
    BY <2>1, <1>9 DEF With
  <2>3. end \in live' /\ end \in DOMAIN kept
    BY <1>1, <1>8, <1>10, <1>15
  <2>4. f + (end - f) = end /\ end - f \in Nat /\ 0 < end - f
    BY <1>8
  <2>5. \A g \in DOMAIN heap' : g \in Nat /\ heap'[g] \in Nat /\ 0 < heap'[g] /\ g + heap'[g] <= wild
    BY <2>2, <2>4, <1>7, <1>8, <1>9
  <2>6. \A g \in DOMAIN heap' : g + heap'[g] \in DOMAIN heap' \cup {wild}
    BY <2>2, <2>3, <2>4, <1>13
  <2>7. \A g, k \in DOMAIN heap' : g < k => g + heap'[g] <= k
    <3> SUFFICES ASSUME NEW g \in DOMAIN heap', NEW k \in DOMAIN heap', g < k PROVE g + heap'[g] <= k
      OBVIOUS
    <3>1. CASE g = f
      <4>1. k \in DOMAIN kept /\ k \in Nat /\ heap[k] \in Nat
        <5>1. f < k /\ f \in Nat
          BY <3>1, <1>8
        <5>2. k # f
          BY <5>1
        <5>3. k \in DOMAIN kept /\ k \in DOMAIN heap
          BY <5>2, <2>2, <1>9
        <5> QED BY <5>3, <1>7
      <4>2. end <= k
        BY <3>1, <4>1, <1>8, <1>9
      <4> QED BY <3>1, <4>2, <2>2, <2>4
    <3>2. CASE g # f /\ k = f
      BY <3>2, <2>2, <1>7, <1>8, <1>9
    <3>3. CASE g # f /\ k # f
      BY <3>3, <2>2, <1>7, <1>9
    <3> QED BY <3>1, <3>2, <3>3
  <2>8. Tiled'
    BY <2>1, <2>5, <2>6, <2>7, <1>1, <1>7 DEF Tiled, AllChunks
  <2>9. Unmerged'
    BY <2>2, <2>3, <2>4, <1>12 DEF Unmerged
  <2>10. Listed'
    <3> DEFINE new == <<f>> \o others
               S == DOMAIN heap' \ live'
    <3>1. <<f>> \in Seq(S) /\ others \in Seq(S) /\ \A k \in 1 .. Len(others) : others[k] # f
      BY <1>9, <1>10, <1>11, <2>2
    <3> HIDE DEF S
    <3>2. /\ new \in Seq(S) /\ Len(new) = Len(<<f>>) + Len(others)
          /\ \A k \in 1 .. Len(<<f>>) + Len(others) :
               new[k] = IF k <= Len(<<f>>) THEN <<f>>[k] ELSE others[k - Len(<<f>>)]
      BY <3>1, ConcatProperties
    <3>3. Len(<<f>>) = 1 /\ <<f>>[1] = f /\ Len(others) \in Nat
      BY <3>1
    <3> HIDE DEF new
    <3>4. ASSUME NEW k \in 1 .. Len(new)
          PROVE  (k = 1 /\ new[k] = f) \/ (k > 1 /\ k - 1 \in 1 .. Len(others) /\ new[k] = others[k - 1])
      BY <3>2, <3>3
    <3>5. Distinct(new)
      <4> SUFFICES ASSUME NEW k \in 1 .. Len(new), NEW j \in 1 .. Len(new), new[k] = new[j] PROVE k = j
        BY DEF Distinct
      <4>1. CASE k > 1 /\ j > 1
        <5>1. k - 1 = j - 1
          BY <4>1, <3>4, <1>11 DEF Distinct
        <5> QED BY <5>1
      <4> QED BY <4>1, <3>1, <3>4
    <3>6. live' \subseteq DOMAIN heap'
      BY <2>2, <1>10
    <3>7. list' = new
      BY <2>1 DEF new
    <3> QED BY <3>2, <3>5, <3>6, <3>7 DEF Listed, S, Distinct
  <2>11. ASSUME list = <<>>, PrevUsed(chunks[i] - 1), h + heap[h] \in live
         PROVE  list' = <<h>>
    <3>1. Joins(h) = {h}
      BY <2>11, <1>5, <1>6
    <3>2. f = h
      BY <3>1, <1>8
    <3>3. RemoveFirst(<<>>, f) = <<>> /\ RemoveFirst(<<>>, l) = <<>>
      BY DEF RemoveFirst
    <3>4. others = <<>>
      BY <3>3, <2>11, <1>4
    <3> QED BY <3>2, <3>4, <2>1
  <2> QED BY <2>8, <2>9, <2>10, <2>11, <1>1 DEF TiledHeap
<1> QED BY <1>14, <1>15

(* The chunks main has and has not given back before each of its loops,    *)
(* and before each turn.                                                   *)
Few  == 0 .. ROUND - 1
Many == 0 .. PTR - 1
Odds == {2 * k - 1 : k \in 1 .. ROUND}
B    == {BOTTOM}

Before == << {}, B, B, B \cup Few, B, B \cup Few, B, B, B \cup Many,
             B \cup Many \cup {PTR, PTR2}, B \cup Many \cup {PTR2}, B \cup Many \cup {PTR2},
             B \cup Many, B \cup Odds, B, B \cup Many, B \cup Odds, {} >>

Done(o, t) == {o[k] : k \in 1 .. t - 1}
Held(p, t) == IF p > Len(main) THEN {}
              ELSE IF main[p].call = "free" THEN Before[p] \ Done(main[p].over, t)
              ELSE IF main[p].call \in {"malloc", "large"} THEN Before[p] \cup Done(main[p].over, t)
              ELSE Before[p]

(* A loop gives back only what main has, and once, and leaves what the     *)
(* next one has to begin with.                                             *)
Ordered(name, o, dump, old, new) ==
  /\ o \in Seq(Nat) /\ Len(o) > 0
  /\ name = "free" =>
       /\ \A k \in 1 .. Len(o) : o[k] \in old /\ o[k] \notin new
       /\ Distinct(o) /\ new \subseteq old
  /\ name \in {"malloc", "large"} =>
       /\ \A k \in 1 .. Len(o) : o[k] \notin old
       /\ new \subseteq old \cup {o[k] : k \in 1 .. Len(o)}
  /\ name \in {"trim", "header"} => new \subseteq old
  /\ dump = "heap" => BOTTOM \in new /\ (Len(o) = 1 \/ BOTTOM \in old)
  /\ dump \in {"heap", "list", "none"} /\ name \in {"malloc", "large", "free", "trim", "header"}

LEMMA Indices ==
  /\ PTR \in Nat /\ PTR = 2 * ROUND /\ PTR2 = PTR + 1 /\ BOTTOM = PTR + 2
BY HeapConstants DEF PTR, PTR2, BOTTOM

LEMMA RangesAre ==
  ASSUME NEW n \in Nat
  PROVE  /\ UpTo(n) \in Seq(Nat) /\ Len(UpTo(n)) = n /\ \A k \in 1 .. n : UpTo(n)[k] = k - 1
         /\ DownFrom(n) \in Seq(Nat) /\ Len(DownFrom(n)) = n /\ \A k \in 1 .. n : DownFrom(n)[k] = n - k
BY DEF UpTo, DownFrom

LEMMA HalvesAre ==
  /\ Even \in Seq(Nat) /\ Len(Even) = ROUND /\ \A k \in 1 .. ROUND : Even[k] = 2 * k - 2
  /\ Odd \in Seq(Nat) /\ Len(Odd) = ROUND /\ \A k \in 1 .. ROUND : Odd[k] = 2 * k - 1
BY HeapConstants DEF Even, Odd

LEMMA LoopsAre ==
  /\ Len(main) = 17
  /\ main[1] = Loop("large", <<BOTTOM>>, "heap")  /\ main[2] = Loop("trim", <<0>>, "heap")
  /\ main[3] = Loop("malloc", UpTo(ROUND), "heap") /\ main[4] = Loop("free", DownFrom(ROUND), "heap")
  /\ main[5] = Loop("malloc", UpTo(ROUND), "none") /\ main[6] = Loop("free", UpTo(ROUND), "heap")
  /\ main[7] = Loop("trim", <<0>>, "heap") /\ main[8] = Loop("malloc", UpTo(2 * ROUND), "none")
  /\ main[9] = Loop("malloc", <<PTR, PTR2>>, "none") /\ main[10] = Loop("free", <<PTR>>, "none")
  /\ main[11] = Loop("header", <<PTR>>, "none") /\ main[12] = Loop("free", <<PTR2>>, "none")
  /\ main[13] = Loop("free", Even, "list") /\ main[14] = Loop("free", Odd, "list")
  /\ main[15] = Loop("malloc", UpTo(2 * ROUND), "none") /\ main[16] = Loop("free", Even, "list")
  /\ main[17] = Loop("large", <<PTR>>, "list")
BY DEF main, Two

LEMMA BeforeIs ==
  /\ Before[1] = {} /\ Before[2] = B /\ Before[3] = B /\ Before[4] = B \cup Few /\ Before[5] = B
  /\ Before[6] = B \cup Few /\ Before[7] = B /\ Before[8] = B /\ Before[9] = B \cup Many
  /\ Before[10] = B \cup Many \cup {PTR, PTR2} /\ Before[11] = B \cup Many \cup {PTR2}
  /\ Before[12] = B \cup Many \cup {PTR2} /\ Before[13] = B \cup Many /\ Before[14] = B \cup Odds
  /\ Before[15] = B /\ Before[16] = B \cup Many /\ Before[17] = B \cup Odds /\ Before[18] = {}
BY DEF Before

LoopOrdered(p) == Ordered(main[p].call, main[p].over, main[p].dump, Before[p], Before[p + 1])

LEMMA AllOrdered == \A p \in 1 .. 17 : LoopOrdered(p)
<1> DEFINE O(p, name, o, dump, old, new) ==
      main[p] = Loop(name, o, dump) /\ Before[p] = old /\ Before[p + 1] = new
        /\ Ordered(name, o, dump, old, new)
<1>1. ASSUME NEW p, NEW name, NEW o, NEW dump, NEW old, NEW new, O(p, name, o, dump, old, new)
      PROVE  LoopOrdered(p)
  BY <1>1 DEF LoopOrdered, Loop
<1>2. ASSUME NEW i \in Nat PROVE <<i>> \in Seq(Nat) /\ Len(<<i>>) = 1 /\ <<i>>[1] = i
  OBVIOUS
<1>3. <<PTR, PTR2>> \in Seq(Nat) /\ Len(<<PTR, PTR2>>) = 2 /\ <<PTR, PTR2>>[1] = PTR /\ <<PTR, PTR2>>[2] = PTR2
  BY Indices
<1>4. \A k \in 1 .. ROUND : k - 1 \in Few /\ ROUND - k \in Few /\ 2 * k - 2 \in Many /\ 2 * k - 1 \in Many
  BY HeapConstants, Indices DEF Few, Many
<1>5. \A i \in Few : i + 1 \in 1 .. ROUND /\ (i + 1) - 1 = i
  BY HeapConstants DEF Few
<1>6. \A i \in Many : i + 1 \in 1 .. 2 * ROUND /\ (i + 1) - 1 = i
  BY HeapConstants, Indices DEF Many
<1>7. BOTTOM \notin Many /\ PTR \notin Many /\ PTR2 \notin Many /\ BOTTOM # PTR /\ BOTTOM # PTR2 /\ PTR # PTR2
      /\ BOTTOM \notin Few /\ PTR \in Nat /\ PTR2 \in Nat /\ BOTTOM \in Nat
  BY HeapConstants, Indices DEF Many, Few
<1>8. Odds \subseteq Many /\ \A k \in 1 .. ROUND : 2 * k - 1 \in Odds /\ 2 * k - 2 \notin Odds
  <2>1. Odds \subseteq Many
    BY <1>4 DEF Odds
  <2>2. \A k, j \in 1 .. ROUND : 2 * k - 2 # 2 * j - 1
    BY HeapConstants
  <2> QED BY <2>1, <2>2 DEF Odds
<1>9. \A n \in Nat : Distinct(UpTo(n)) /\ Distinct(DownFrom(n))
  <2> SUFFICES ASSUME NEW n \in Nat PROVE Distinct(UpTo(n)) /\ Distinct(DownFrom(n))
    OBVIOUS
  <2> DEFINE u == UpTo(n)
             d == DownFrom(n)
  <2>1. /\ Len(u) = n /\ \A k \in 1 .. n : u[k] = k - 1
        /\ Len(d) = n /\ \A k \in 1 .. n : d[k] = n - k
    BY RangesAre
  <2> HIDE DEF u, d
  <2>2. \A j, k \in 1 .. n : (u[j] = u[k] => j = k) /\ (d[j] = d[k] => j = k)
    BY <2>1
  <2>3. Distinct(u) /\ Distinct(d)
    BY <2>1, <2>2 DEF Distinct
  <2> QED BY <2>3 DEF u, d
<1>10. Distinct(Even) /\ Distinct(Odd)
  <2>1. ASSUME NEW j \in 1 .. ROUND, NEW k \in 1 .. ROUND
        PROVE  (2 * j - 2 = 2 * k - 2 => j = k) /\ (2 * j - 1 = 2 * k - 1 => j = k)
    BY HeapConstants
  <2> DEFINE e == Even
             d == Odd
  <2>2. /\ Len(e) = ROUND /\ \A k \in 1 .. ROUND : e[k] = 2 * k - 2
        /\ Len(d) = ROUND /\ \A k \in 1 .. ROUND : d[k] = 2 * k - 1
    BY HalvesAre
  <2> HIDE DEF e, d
  <2>3. \A j, k \in 1 .. ROUND : (e[j] = e[k] => j = k) /\ (d[j] = d[k] => j = k)
    BY <2>1, <2>2
  <2>4. Distinct(e) /\ Distinct(d)
    BY <2>2, <2>3 DEF Distinct
  <2> QED BY <2>4 DEF e, d
<1>11. ROUND \in Nat /\ 2 * ROUND \in Nat /\ 0 < ROUND /\ 0 < 2 * ROUND
  BY HeapConstants
<1>12. ASSUME NEW n \in Nat, 0 < n, NEW old, NEW dump \in {"heap", "none"}, BOTTOM \in old,
              \A k \in 1 .. n : k - 1 \notin old
       PROVE  Ordered("malloc", UpTo(n), dump, old, old \cup (0 .. n - 1))
  <2>1. UpTo(n) \in Seq(Nat) /\ Len(UpTo(n)) = n /\ \A k \in 1 .. n : UpTo(n)[k] = k - 1
    BY RangesAre
  <2>2. \A i \in 0 .. n - 1 : i + 1 \in 1 .. n /\ UpTo(n)[i + 1] = i
    BY <2>1
  <2> QED BY <1>12, <2>1, <2>2 DEF Ordered
<1>13. ASSUME NEW o \in Seq(Nat), Len(o) > 0, Distinct(o), NEW dump \in {"heap", "list", "none"},
              NEW old, NEW new \in SUBSET old, dump = "heap" => BOTTOM \in new,
              \A k \in 1 .. Len(o) : o[k] \in old /\ o[k] \notin new
       PROVE  Ordered("free", o, dump, old, new)
  BY <1>13 DEF Ordered
<1>14. /\ UpTo(ROUND) \in Seq(Nat) /\ Len(UpTo(ROUND)) > 0
       /\ \A k \in 1 .. Len(UpTo(ROUND)) : UpTo(ROUND)[k] \in B \cup Few /\ UpTo(ROUND)[k] \notin B
       /\ DownFrom(ROUND) \in Seq(Nat) /\ Len(DownFrom(ROUND)) > 0
       /\ \A k \in 1 .. Len(DownFrom(ROUND)) : DownFrom(ROUND)[k] \in B \cup Few /\ DownFrom(ROUND)[k] \notin B
  <2>1. \A k \in 1 .. ROUND : k - 1 \in Few /\ k - 1 # BOTTOM /\ ROUND - k \in Few /\ ROUND - k # BOTTOM
    BY <1>4, <1>7
  <2>2. /\ UpTo(ROUND) \in Seq(Nat) /\ Len(UpTo(ROUND)) = ROUND /\ \A k \in 1 .. ROUND : UpTo(ROUND)[k] = k - 1
        /\ DownFrom(ROUND) \in Seq(Nat) /\ Len(DownFrom(ROUND)) = ROUND /\ \A k \in 1 .. ROUND : DownFrom(ROUND)[k] = ROUND - k
    BY <1>11, RangesAre
  <2> QED BY <2>1, <2>2, <1>11 DEF B
<1>15. /\ Even \in Seq(Nat) /\ Len(Even) > 0
       /\ \A k \in 1 .. Len(Even) : Even[k] \in B \cup Many /\ Even[k] \notin B \cup Odds
       /\ Odd \in Seq(Nat) /\ Len(Odd) > 0
       /\ \A k \in 1 .. Len(Odd) : Odd[k] \in B \cup Odds /\ Odd[k] \notin B
  <2>1. \A k \in 1 .. ROUND : 2 * k - 2 \in Many /\ 2 * k - 2 \notin Odds /\ 2 * k - 2 # BOTTOM
                            /\ 2 * k - 1 \in Odds /\ 2 * k - 1 # BOTTOM
    BY <1>4, <1>7, <1>8
  <2> QED BY <2>1, <1>11, HalvesAre DEF B
<1>16. B \subseteq B \cup Few /\ B \cup Odds \subseteq B \cup Many /\ B \subseteq B \cup Odds /\ BOTTOM \in B
  BY <1>8 DEF B
<1>17. \A k \in 1 .. ROUND : k - 1 \notin B
  BY <1>4, <1>7 DEF B
<1>18. \A k \in 1 .. 2 * ROUND : k - 1 \notin B
  BY HeapConstants, Indices DEF B
<1>o3. Ordered("malloc", UpTo(ROUND), "heap", B, B \cup Few)
  BY <1>11, <1>12, <1>16, <1>17 DEF Few
<1>o4. Ordered("free", DownFrom(ROUND), "heap", B \cup Few, B)
  BY <1>9, <1>11, <1>13, <1>14, <1>16
<1>o5. Ordered("malloc", UpTo(ROUND), "none", B, B \cup Few)
  BY <1>11, <1>12, <1>16, <1>17 DEF Few
<1>o6. Ordered("free", UpTo(ROUND), "heap", B \cup Few, B)
  BY <1>9, <1>11, <1>13, <1>14, <1>16
<1>o8. Ordered("malloc", UpTo(2 * ROUND), "none", B, B \cup Many)
  <2>1. Many = 0 .. 2 * ROUND - 1
    BY Indices DEF Many
  <2> QED BY <2>1, <1>11, <1>12, <1>16, <1>18
<1>o13. Ordered("free", Even, "list", B \cup Many, B \cup Odds)
  BY <1>10, <1>13, <1>15, <1>16
<1>o14. Ordered("free", Odd, "list", B \cup Odds, B)
  BY <1>10, <1>13, <1>15, <1>16
<1>a1. O(1, "large", <<BOTTOM>>, "heap", {}, B)
  BY <1>2, <1>7, LoopsAre, BeforeIs DEF Ordered, B
<1>a2. O(2, "trim", <<0>>, "heap", B, B)
  BY <1>2, LoopsAre, BeforeIs DEF Ordered, B
<1>a3. O(3, "malloc", UpTo(ROUND), "heap", B, B \cup Few)
  BY <1>o3, LoopsAre, BeforeIs
<1>a4. O(4, "free", DownFrom(ROUND), "heap", B \cup Few, B)
  BY <1>o4, LoopsAre, BeforeIs
<1>a5. O(5, "malloc", UpTo(ROUND), "none", B, B \cup Few)
  BY <1>o5, LoopsAre, BeforeIs
<1>a6. O(6, "free", UpTo(ROUND), "heap", B \cup Few, B)
  BY <1>o6, LoopsAre, BeforeIs
<1>a7. O(7, "trim", <<0>>, "heap", B, B)
  BY <1>2, LoopsAre, BeforeIs DEF Ordered, B
<1>a8. O(8, "malloc", UpTo(2 * ROUND), "none", B, B \cup Many)
  BY <1>o8, LoopsAre, BeforeIs
<1>a9. O(9, "malloc", <<PTR, PTR2>>, "none", B \cup Many, B \cup Many \cup {PTR, PTR2})
  <2>1. PTR \notin B \cup Many /\ PTR2 \notin B \cup Many
    BY <1>7 DEF B
  <2>2. Ordered("malloc", <<PTR, PTR2>>, "none", B \cup Many, B \cup Many \cup {PTR, PTR2})
    BY <2>1, <1>3 DEF Ordered
  <2> QED BY <2>2, LoopsAre, BeforeIs
<1>a10. O(10, "free", <<PTR>>, "none", B \cup Many \cup {PTR, PTR2}, B \cup Many \cup {PTR2})
  BY <1>2, <1>7, LoopsAre, BeforeIs DEF Ordered, B, Distinct
<1>a11. O(11, "header", <<PTR>>, "none", B \cup Many \cup {PTR2}, B \cup Many \cup {PTR2})
  BY <1>2, <1>7, LoopsAre, BeforeIs DEF Ordered, B
<1>a12. O(12, "free", <<PTR2>>, "none", B \cup Many \cup {PTR2}, B \cup Many)
  BY <1>2, <1>7, LoopsAre, BeforeIs DEF Ordered, B, Distinct
<1>a13. O(13, "free", Even, "list", B \cup Many, B \cup Odds)
  BY <1>o13, LoopsAre, BeforeIs
<1>a14. O(14, "free", Odd, "list", B \cup Odds, B)
  BY <1>o14, LoopsAre, BeforeIs
<1>a15. O(15, "malloc", UpTo(2 * ROUND), "none", B, B \cup Many)
  BY <1>o8, LoopsAre, BeforeIs
<1>a16. O(16, "free", Even, "list", B \cup Many, B \cup Odds)
  BY <1>o13, LoopsAre, BeforeIs
<1>a17. O(17, "large", <<PTR>>, "list", B \cup Odds, {})
  BY <1>2, <1>7, <1>8, LoopsAre, BeforeIs DEF Ordered, B
<1> HIDE DEF O
<1>21. /\ LoopOrdered(1) /\ LoopOrdered(2) /\ LoopOrdered(3) /\ LoopOrdered(4) /\ LoopOrdered(5)
       /\ LoopOrdered(6) /\ LoopOrdered(7) /\ LoopOrdered(8) /\ LoopOrdered(9)
  BY <1>1, <1>a1, <1>a2, <1>a3, <1>a4, <1>a5, <1>a6, <1>a7, <1>a8, <1>a9
<1>22. /\ LoopOrdered(10) /\ LoopOrdered(11) /\ LoopOrdered(12) /\ LoopOrdered(13)
       /\ LoopOrdered(14) /\ LoopOrdered(15) /\ LoopOrdered(16) /\ LoopOrdered(17)
  BY <1>1, <1>a10, <1>a11, <1>a12, <1>a13, <1>a14, <1>a15, <1>a16, <1>a17
<1>23. \A p \in 1 .. 17 : \/ p = 1 \/ p = 2 \/ p = 3 \/ p = 4 \/ p = 5 \/ p = 6 \/ p = 7 \/ p = 8 \/ p = 9
         \/ p = 10 \/ p = 11 \/ p = 12 \/ p = 13 \/ p = 14 \/ p = 15 \/ p = 16 \/ p = 17
  OBVIOUS
<1> QED BY <1>21, <1>22, <1>23

(* Where main is. *)
PlaceOK ==
  /\ part \in 1 .. 18 /\ turn \in Nat /\ 0 < turn
  /\ part \in 1 .. 17 => turn <= Len(Turns)

HeldNow == Held(part, turn)

LEMMA Advances ==
  ASSUME PlaceOK, part <= Len(main), Advance
  PROVE  /\ PlaceOK' /\ part \in 1 .. 17
         /\ \/ part' = part /\ turn' = turn + 1 /\ turn < Len(Turns)
            \/ part' = part + 1 /\ turn' = 1 /\ turn = Len(Turns)
         /\ Calls("free") => Index \in HeldNow /\ HeldNow' \subseteq HeldNow \ {Index}
         /\ Calls("malloc") \/ Calls("large") => HeldNow' \subseteq HeldNow \cup {Index}
         /\ Calls("trim") \/ Calls("header") => HeldNow' \subseteq HeldNow
         /\ main[part].dump = "heap" => BOTTOM \in HeldNow'
         /\ main[part].dump \in {"heap", "list", "none"}
<1> DEFINE o == main[part].over
           old == Before[part]
           new == Before[part + 1]
           nm == main[part].call
           d == main[part].dump
<1>1. Len(main) = 17 /\ part \in 1 .. 17 /\ part \in Nat
  BY LoopsAre DEF PlaceOK
<1>2. /\ Ordered(nm, o, d, old, new)
      /\ part < 17 => LoopOrdered(part + 1)
  BY <1>1, AllOrdered DEF LoopOrdered
<1>3. Turns = o /\ Index = o[turn] /\ turn \in 1 .. Len(o) /\ Len(o) \in Nat
  BY <1>1, <1>2 DEF Turns, Index, PlaceOK, Ordered
<1>4. \/ part' = part /\ turn' = turn + 1 /\ turn < Len(o)
      \/ part' = part + 1 /\ turn' = 1 /\ turn = Len(o)
  BY <1>3 DEF Advance
<1>5. PlaceOK'
  <2>1. CASE part' = part /\ turn' = turn + 1 /\ turn < Len(o)
    BY <2>1, <1>1, <1>3 DEF PlaceOK, Turns
  <2>2. CASE part' = part + 1 /\ turn' = 1
    <3>1. part' \in 1 .. 17 => part < 17 /\ Len(main[part + 1].over) > 0
      <4>1. part' \in 1 .. 17 => part < 17
        BY <2>2, <1>1
      <4> QED BY <4>1, <1>2 DEF LoopOrdered, Ordered
    <3>2. part' \in 1 .. 17 => Len(main[part + 1].over) >= 1
      <4>1. part' \in 1 .. 17 => main[part + 1].over \in Seq(Nat)
        BY <3>1, <1>2 DEF LoopOrdered, Ordered
      <4> QED BY <3>1, <4>1
    <3> QED BY <2>2, <3>2, <1>1 DEF PlaceOK, Turns
  <2> QED BY <2>1, <2>2, <1>4
<1>6. nm = main[part].call /\ o = main[part].over /\ old = Before[part] /\ new = Before[part + 1] /\ d = main[part].dump
  OBVIOUS
<1> HIDE DEF o, old, new, nm, d
<1>7. HeldNow = IF nm = "free" THEN old \ Done(o, turn)
                ELSE IF nm \in {"malloc", "large"} THEN old \cup Done(o, turn) ELSE old
  BY <1>1, <1>6 DEF HeldNow, Held
<1>8. CASE part' = part /\ turn' = turn + 1 /\ turn < Len(o)
  <2>1. Done(o, turn + 1) = Done(o, turn) \cup {o[turn]}
    <3>1. \A k : k \in 1 .. (turn + 1) - 1 <=> k \in 1 .. turn - 1 \/ k = turn
      BY <1>3
    <3> QED BY <3>1 DEF Done
  <2>2. HeldNow' = IF nm = "free" THEN old \ Done(o, turn + 1)
                   ELSE IF nm \in {"malloc", "large"} THEN old \cup Done(o, turn + 1) ELSE old
    BY <1>1, <1>6, <1>8 DEF HeldNow, Held
  <2>3. nm = "free" => o[turn] \in old /\ o[turn] \notin Done(o, turn)
    <3>1. \A k \in 1 .. turn - 1 : k \in 1 .. Len(o) /\ k # turn
      BY <1>3
    <3> QED BY <3>1, <1>2, <1>3 DEF Ordered, Done, Distinct
  <2>4. d = "heap" => BOTTOM \in HeldNow'
    <3>1. Len(o) # 1
      <4>1. turn \in 1 .. Len(o) /\ Len(o) \in Nat
        BY <1>3
      <4>2. turn < Len(o)
        BY <1>8
      <4> DEFINE n == Len(o)
      <4>3. turn \in 1 .. n /\ n \in Nat /\ turn < n
        BY <4>1, <4>2
      <4> HIDE DEF n
      <4>4. n # 1
        BY <4>3
      <4> QED BY <4>4 DEF n
    <3>2. nm = "free" /\ d = "heap" => BOTTOM \notin Done(o, turn + 1)
      <4>1. \A k \in 1 .. (turn + 1) - 1 : k \in 1 .. Len(o)
        BY <1>3
      <4> QED BY <4>1, <1>2 DEF Ordered, Done
    <3> QED BY <2>2, <3>1, <3>2, <1>2 DEF Ordered
  <2> QED BY <2>1, <2>2, <2>3, <2>4, <1>1, <1>2, <1>3, <1>4, <1>5, <1>6, <1>7 DEF Ordered, Calls
<1>9. CASE part' = part + 1 /\ turn' = 1 /\ turn = Len(o)
  <2>1. HeldNow' \subseteq new
    <3>1. \A k : k \notin 1 .. 1 - 1
      OBVIOUS
    <3>2. Done(main[part + 1].over, 1) = {}
      BY <3>1 DEF Done
    <3>3. Before[18] = {}
      BY BeforeIs
    <3> QED BY <3>2, <3>3, <1>1, <1>6, <1>9 DEF HeldNow, Held
  <2>2. d = "heap" => BOTTOM \in HeldNow'
    <3>1. CASE part = 17
      BY <3>1, <1>6, LoopsAre DEF Loop
    <3>2. CASE part # 17
      <4>1. \A k : k \notin 1 .. 1 - 1
        OBVIOUS
      <4>2. Done(main[part + 1].over, 1) = {}
        BY <4>1 DEF Done
      <4>3. ~ part + 1 > Len(main)
        BY <3>2, <1>1
      <4>4. HeldNow' = new
        BY <4>2, <4>3, <1>6, <1>9 DEF HeldNow, Held
      <4> QED BY <4>4, <1>2 DEF Ordered
    <3> QED BY <3>1, <3>2
  <2>3. \A k \in 1 .. Len(o) : o[k] \in Done(o, turn) \/ k = turn
    <3>1. \A k \in 1 .. Len(o) : k \in 1 .. turn - 1 \/ k = turn
      BY <1>3, <1>9
    <3> QED BY <3>1 DEF Done
  <2>4. nm = "free" => o[turn] \in old /\ o[turn] \notin Done(o, turn) /\ o[turn] \notin new
    <3>1. \A k \in 1 .. turn - 1 : k \in 1 .. Len(o) /\ k # turn
      BY <1>3
    <3> QED BY <3>1, <1>2, <1>3 DEF Ordered, Done, Distinct
  <2>5. nm = "free" => new \subseteq old \ Done(o, turn)
    <3>1. \A k \in 1 .. turn - 1 : k \in 1 .. Len(o)
      BY <1>3
    <3> QED BY <3>1, <1>2 DEF Ordered, Done
  <2>6. nm \in {"malloc", "large"} => new \subseteq old \cup Done(o, turn) \cup {o[turn]}
    BY <2>3, <1>2 DEF Ordered
  <2> QED BY <2>1, <2>2, <2>4, <2>5, <2>6, <1>1, <1>2, <1>3, <1>4, <1>5, <1>6, <1>7 DEF Ordered, Calls
<1> QED BY <1>4, <1>8, <1>9

(* What main holds are chunks in use, a different one each; the first is   *)
(* its bottom.                                                             *)
HeldOK ==
  /\ \A i \in HeldNow : i \in DOMAIN chunks /\ chunks[i] \in Int /\ chunks[i] - 2 \in live
  /\ \A i, j \in HeldNow : chunks[i] = chunks[j] => i = j
  /\ BOTTOM \in HeldNow => chunks[BOTTOM] = 2
  /\ part = 1 => wild = 0

(* How main finds the header: the chunk it frees lies alone between two in *)
(* use, and the list it enters is empty.                                   *)
Lonely == /\ list = <<>> /\ chunks[PTR] \in Int /\ chunks[PTR] - 2 \in live
          /\ PrevUsed(chunks[PTR] - 1)
ThisEnd == chunks[PTR] - 2 + heap[chunks[PTR] - 2]

FindOK ==
  /\ part = 9 => list = <<>>
  /\ part = 9 /\ turn = 2 => Lonely /\ ThisEnd = wild
  /\ part = 10 => Lonely /\ ThisEnd \in live
  /\ part = 11 => chunks[PTR] \in Int /\ list = <<chunks[PTR] - 2>>
  /\ part > 11 => hdr = Mem(BIN)

MainInv == TiledHeap /\ PlaceOK /\ HeldOK /\ FindOK

(* What the loops around find_freelist do.                                 *)
LEMMA FindSteps ==
  ASSUME PlaceOK, part \in 1 .. 17
  PROVE  /\ part = 1 => Len(Turns) = 1 /\ ~ Calls("free") /\ ~ Calls("trim") /\ ~ Calls("header")
         /\ part = 8 => Calls("malloc")
         /\ part = 9 => Calls("malloc") /\ Len(Turns) = 2 /\ Turns[1] = PTR /\ Turns[2] = PTR2
         /\ part = 10 => Calls("free") /\ Len(Turns) = 1 /\ Turns[1] = PTR
         /\ part = 11 => Calls("header") /\ Len(Turns) = 1 /\ Turns[1] = PTR
         /\ part # 11 => ~ Calls("header")
         /\ main[part].dump = "list" => part > 12
<1> USE DEF Calls, Turns, Loop
<1>1. part = 1 \/ part = 2 \/ part = 3 \/ part = 4 \/ part = 5 \/ part = 6 \/ part = 7 \/ part = 8 \/ part = 9
      \/ part = 10 \/ part = 11 \/ part = 12 \/ part = 13 \/ part = 14 \/ part = 15 \/ part = 16 \/ part = 17
  OBVIOUS
<1>2. CASE part \in {1, 2, 3, 4, 5, 6}
  BY <1>2, LoopsAre
<1>3. CASE part \in {7, 8, 9, 10, 11, 12}
  BY <1>3, LoopsAre
<1>4. CASE part \in {13, 14, 15, 16, 17}
  BY <1>4, LoopsAre
<1> QED BY <1>1, <1>2, <1>3, <1>4

LEMMA MallocNotHeld ==
  ASSUME PlaceOK, part \in 1 .. 17, Calls("malloc") \/ Calls("large")
  PROVE  /\ Index \notin Before[part] /\ Before[part] \subseteq HeldNow
         /\ part > 1 => Index # BOTTOM
         /\ part = 1 => Index = BOTTOM
<1>1. Ordered(main[part].call, main[part].over, main[part].dump, Before[part], Before[part + 1])
  BY AllOrdered DEF LoopOrdered
<1>2. turn \in 1 .. Len(main[part].over)
  BY <1>1 DEF PlaceOK, Turns, Ordered
<1>3. Index \notin Before[part]
  BY <1>1, <1>2 DEF Ordered, Calls, Index, Turns
<1>4. Before[part] \subseteq HeldNow
  BY LoopsAre DEF HeldNow, Held, Calls
<1>5. part > 1 => BOTTOM \in Before[part]
  <2>1. part = 1 \/ part = 2 \/ part = 3 \/ part = 4 \/ part = 5 \/ part = 6 \/ part = 7 \/ part = 8 \/ part = 9
        \/ part = 10 \/ part = 11 \/ part = 12 \/ part = 13 \/ part = 14 \/ part = 15 \/ part = 16 \/ part = 17
    OBVIOUS
  <2> QED BY <2>1, BeforeIs DEF B
<1>6. part = 1 => Index = BOTTOM
  <2> SUFFICES ASSUME part = 1 PROVE Index = BOTTOM
    OBVIOUS
  <2>1. Turns = <<BOTTOM>>
    BY LoopsAre DEF Turns, Loop
  <2>2. turn = 1
    BY <2>1, <1>2 DEF Turns
  <2> QED BY <2>1, <2>2 DEF Index
<1> QED BY <1>3, <1>4, <1>5, <1>6

LEMMA MallocKeeps ==
  ASSUME MainInv, part <= Len(main), Advance, Calls("malloc") \/ Calls("large"),
         NEW n \in Nat, MINSIZE <= n, malloc(Index, n)
  PROVE  MainInv'
<1>0. TiledHeap /\ PlaceOK /\ HeldOK /\ FindOK
  BY DEF MainInv
<1>1. /\ TiledHeap' /\ list' = <<>> /\ wild' = wild + n
      /\ wild \in DOMAIN heap' /\ heap'[wild] = n /\ live' = live \cup {wild} /\ wild \notin DOMAIN heap
      /\ chunks' = With(chunks, Index, Mem(wild)) /\ hdr' = hdr
      /\ \A h \in DOMAIN heap : h \in DOMAIN heap' /\ heap'[h] = heap[h]
  BY <1>0, MallocTiles
<1>2. /\ PlaceOK' /\ part \in 1 .. 17 /\ HeldNow' \subseteq HeldNow \cup {Index}
      /\ \/ part' = part /\ turn' = turn + 1 /\ turn < Len(Turns)
         \/ part' = part + 1 /\ turn' = 1 /\ turn = Len(Turns)
  BY <1>0, Advances
<1>3. /\ DOMAIN chunks' = DOMAIN chunks \cup {Index} /\ chunks'[Index] = wild + 2
      /\ \A i \in DOMAIN chunks : i # Index => chunks'[i] = chunks[i]
  BY <1>1 DEF With, Mem
<1>4. wild \in Nat /\ live \subseteq DOMAIN heap /\ wild \notin live
  BY <1>0, <1>1 DEF TiledHeap, Tiled, Listed
<1>5. ASSUME NEW i \in HeldNow'
      PROVE  \/ i = Index /\ chunks'[i] = wild + 2
             \/ i # Index /\ i \in HeldNow /\ i \in DOMAIN chunks /\ chunks'[i] = chunks[i]
                /\ chunks[i] \in Int /\ chunks[i] - 2 \in live
  BY <1>0, <1>2, <1>3 DEF HeldOK
<1>6. HeldOK'
  <2>1. ASSUME NEW i \in HeldNow' PROVE i \in DOMAIN chunks' /\ chunks'[i] \in Int /\ chunks'[i] - 2 \in live'
    BY <1>1, <1>3, <1>4, <1>5
  <2>2. ASSUME NEW i \in HeldNow', NEW j \in HeldNow', chunks'[i] = chunks'[j] PROVE i = j
    <3>1. (wild + 2) - 2 \notin live
      BY <1>4
    <3> QED BY <2>2, <3>1, <1>0, <1>5 DEF HeldOK
  <2>3. BOTTOM \in HeldNow' => chunks'[BOTTOM] = 2
    BY <1>0, <1>2, <1>3, <1>5, MallocNotHeld DEF HeldOK
  <2>4. part' # 1
    <3>1. part = 1 => Len(Turns) = 1
      BY <1>0, <1>2, FindSteps
    <3>2. turn \in Nat /\ 0 < turn /\ part \in Nat /\ 0 < part
      BY <1>0, <1>2 DEF PlaceOK
    <3>3. part = 1 => ~ turn < Len(Turns)
      <4>1. ~ turn < 1
        BY <3>2
      <4> QED BY <3>1, <4>1, Zenon
    <3> QED BY <3>2, <3>3, <1>2
  <2> QED BY <2>1, <2>2, <2>3, <2>4 DEF HeldOK
<1>7. FindOK'
  <2>1. /\ part # 10 /\ part # 11 /\ part \in Nat
        /\ part = 9 => Turns[1] = PTR /\ Turns[2] = PTR2 /\ Len(Turns) = 2
    BY <1>0, <1>2, FindSteps DEF Calls
  <2>2. ASSUME part = 9, turn = 1
        PROVE  Lonely' /\ ThisEnd' = wild'
    <3>1. Index = PTR
      BY <2>1, <2>2 DEF Index
    <3>2. chunks'[PTR] = wild + 2 /\ chunks'[PTR] - 2 = wild
      BY <3>1, <1>3, <1>4
    <3>3. ThisEnd' = wild'
      BY <3>2, <1>1 DEF ThisEnd
    <3>4. \A h \in DOMAIN heap' : h + heap'[h] = wild => h \in live'
      <4>1. DOMAIN heap' = DOMAIN heap \cup {wild}
        BY DEF malloc, With
      <4>2. wild + heap'[wild] # wild
        BY <1>1, <1>4, HeapConstants
      <4>3. \A h \in DOMAIN heap : h + heap[h] = wild => h \in live
        BY <1>0, <1>4 DEF TiledHeap, Unmerged
      <4> QED BY <4>1, <4>2, <4>3, <1>1
    <3>5. PrevUsed(chunks[PTR] - 1)'
      <4>1. (chunks'[PTR] - 1) - 1 = wild
        BY <3>2, <1>4
      <4> QED BY <3>4, <4>1 DEF PrevUsed
    <3> QED BY <3>2, <3>3, <3>5, <1>1, <1>4 DEF Lonely
  <2>3. ASSUME part = 9, turn = 2
        PROVE  Lonely' /\ ThisEnd' \in live'
    <3>1. Index = PTR2 /\ PTR2 # PTR
      BY <2>1, <2>3, Indices DEF Index
    <3>2. Lonely /\ ThisEnd = wild
      BY <2>3, <1>0 DEF FindOK
    <3> DEFINE p == chunks[PTR]
    <3>3. chunks'[PTR] = p
      <4>1. PTR \in HeldNow
        <5>1. HeldNow = Before[part] \cup Done(main[part].over, turn)
          BY <1>2, LoopsAre DEF HeldNow, Held, Calls
        <5>2. main[part].over[1] = PTR /\ 1 \in 1 .. turn - 1
          BY <2>1, <2>3 DEF Turns
        <5> QED BY <5>1, <5>2 DEF Done
      <4> QED BY <4>1, <3>1, <1>0, <1>3 DEF HeldOK
    <3>4. p \in Int /\ p - 2 \in live /\ p - 2 \in DOMAIN heap /\ p - 2 + heap[p - 2] = wild /\ heap'[p - 2] = heap[p - 2]
      BY <3>2, <1>1, <1>4 DEF Lonely, ThisEnd
    <3>5. ThisEnd' \in live'
      BY <3>3, <3>4, <1>1 DEF ThisEnd
    <3>6. \A h \in DOMAIN heap : h + heap[h] = (p - 1) - 1 => h \in live
      BY <3>2 DEF Lonely, PrevUsed
    <3>7. DOMAIN heap' = DOMAIN heap \cup {wild}
      BY DEF malloc, With
    <3>8. \A h \in DOMAIN heap' : h + heap'[h] = (p - 1) - 1 => h \in live'
      BY <3>6, <3>7, <1>1
    <3>9. PrevUsed(chunks[PTR] - 1)'
      BY <3>3, <3>8 DEF PrevUsed
    <3> QED BY <3>3, <3>4, <3>5, <3>9, <1>1 DEF Lonely
  <2>4. part > 11 => hdr = Mem(BIN)
    BY <1>0 DEF FindOK
  <2>5. part' # 11
    BY <2>1, <1>2
  <2>6. part' > 11 => part > 11
    <3>1. part \in Nat /\ part # 10 /\ part # 11 /\ (part' = part \/ part' = part + 1)
      BY <2>1, <1>2
    <3> QED BY <3>1
  <2>7. part' = 10 => part = 9 /\ turn = 2
    <3>1. part' = 10 => part = 9 /\ turn = Len(Turns)
      <4>1. part' = part + 1 => (part' = 10 => part = 9)
        BY <2>1
      <4> QED BY <4>1, <2>1, <1>2
    <3> QED BY <3>1, <2>1
  <2>8. part' = 9 /\ turn' = 2 => part = 9 /\ turn = 1
    BY <2>1, <1>0, <1>2 DEF PlaceOK
  <2>9. Mem(BIN)' = Mem(BIN)
    BY DEF Mem, BIN
  <2> QED BY <2>2, <2>3, <2>4, <2>5, <2>6, <2>7, <2>8, <2>9, <1>1 DEF FindOK
<1> QED BY <1>1, <1>2, <1>6, <1>7 DEF MainInv

LEMMA FreeKeeps ==
  ASSUME MainInv, part <= Len(main), Advance, Calls("free"), free(Index)
  PROVE  MainInv'
<1>0. TiledHeap /\ PlaceOK /\ HeldOK /\ FindOK
  BY DEF MainInv
<1>1. /\ PlaceOK' /\ part \in 1 .. 17 /\ Index \in HeldNow /\ HeldNow' \subseteq HeldNow \ {Index}
      /\ \/ part' = part /\ turn' = turn + 1 /\ turn < Len(Turns)
         \/ part' = part + 1 /\ turn' = 1 /\ turn = Len(Turns)
  BY <1>0, Advances
<1>2. chunks[Index] \in Int /\ chunks[Index] - 2 \in live
  BY <1>0, <1>1 DEF HeldOK
<1>3. /\ TiledHeap' /\ live' = live \ {chunks[Index] - 2} /\ UNCHANGED <<chunks, hdr>>
      /\ list = <<>> /\ PrevUsed(chunks[Index] - 1) /\ chunks[Index] - 2 + heap[chunks[Index] - 2] \in live
           => list' = <<chunks[Index] - 2>>
  BY <1>0, <1>2, FreeTiles
<1>4. /\ part # 1 /\ part # 8 /\ part # 9 /\ part # 11 /\ part \in Nat
      /\ part = 10 => Turns[1] = PTR /\ Len(Turns) = 1
  BY <1>0, <1>1, FindSteps DEF Calls
<1>5. HeldOK'
  <2>1. ASSUME NEW i \in HeldNow' PROVE i \in DOMAIN chunks /\ chunks[i] \in Int /\ chunks[i] - 2 \in live'
    <3>1. i \in HeldNow /\ i # Index /\ chunks[i] \in Int /\ chunks[i] - 2 \in live /\ chunks[i] # chunks[Index]
      BY <1>0, <1>1 DEF HeldOK
    <3>2. chunks[i] - 2 # chunks[Index] - 2
      BY <3>1, <1>2
    <3> QED BY <3>1, <3>2, <1>0, <1>3 DEF HeldOK
  <2>2. part' # 1
    BY <1>1, <1>4
  <2> QED BY <2>1, <2>2, <1>0, <1>1, <1>3 DEF HeldOK
<1>6. FindOK'
  <2>1. part' # 9 /\ (part' = 10 => part = 10) /\ (part' = 11 => part = 10) /\ (part' > 11 => part > 11)
    BY <1>1, <1>4
  <2>2. part = 10 => turn = 1 /\ part' = 11
    <3>1. turn \in Nat /\ 0 < turn /\ (part = 10 => turn <= 1)
      BY <1>0, <1>1, <1>4 DEF PlaceOK
    <3>2. part = 10 => turn = 1
      BY <3>1
    <3>3. part = 10 => ~ turn < Len(Turns)
      <4>1. ~ 1 < 1
        OBVIOUS
      <4> QED BY <3>2, <4>1, <1>4, Zenon
    <3>4. 10 + 1 = 11
      OBVIOUS
    <3> QED BY <3>2, <3>3, <3>4, <1>1, Zenon
  <2>3. part = 10 => chunks[PTR] \in Int /\ list' = <<chunks[PTR] - 2>>
    BY <2>2, <1>0, <1>3, <1>4 DEF FindOK, Lonely, ThisEnd, Index
  <2>4. Mem(BIN)' = Mem(BIN)
    BY DEF Mem, BIN
  <2>5. part' # 10
    BY <2>1, <2>2
  <2> QED BY <2>1, <2>3, <2>4, <2>5, <1>0, <1>3 DEF FindOK
<1> QED BY <1>1, <1>3, <1>5, <1>6 DEF MainInv

LEMMA TrimKeeps ==
  ASSUME MainInv, part <= Len(main), Advance, Calls("trim"), malloc_trim
  PROVE  MainInv'
<1>0. TiledHeap /\ PlaceOK /\ HeldOK /\ FindOK
  BY DEF MainInv
<1>1. /\ PlaceOK' /\ part \in 1 .. 17 /\ HeldNow' \subseteq HeldNow
      /\ part' = part \/ part' = part + 1
  BY <1>0, Advances
<1>2. TiledHeap' /\ UNCHANGED <<heap, live, list, wild, chunks, hdr>>
  BY <1>0, TrimTiles DEF malloc_trim
<1>3. part # 1 /\ part # 8 /\ part # 9 /\ part # 10 /\ part # 11 /\ part \in Nat
  BY <1>0, <1>1, FindSteps DEF Calls
<1>4. HeldOK'
  <2>1. part' # 1
    BY <1>1, <1>3
  <2> QED BY <2>1, <1>0, <1>1, <1>2 DEF HeldOK
<1>5. FindOK'
  <2>1. part' # 9 /\ part' # 10 /\ part' # 11 /\ (part' > 11 => part > 11)
    BY <1>1, <1>3
  <2>2. Mem(BIN)' = Mem(BIN)
    BY DEF Mem, BIN
  <2> QED BY <2>1, <2>2, <1>0, <1>2 DEF FindOK
<1> QED BY <1>1, <1>2, <1>4, <1>5 DEF MainInv

(* The ring: its header, the list in its order, and the header again.      *)
LEMMA RingIs ==
  TiledHeap =>
    /\ Len(Ring) = Len(list) + 2 /\ Len(list) \in Nat
    /\ Ring[1] = BIN /\ Ring[Len(list) + 2] = BIN
    /\ \A k \in 1 .. Len(list) : Ring[k + 1] = list[k] /\ list[k] \in Nat /\ list[k] \in DOMAIN heap
    /\ \A k \in 1 .. Len(list) + 1 : Ring[k + 1] = BIN <=> k = Len(list) + 1
    /\ \A i \in 1 .. Len(list) + 1 : Link(Mem(Ring[i])) = Ring[i + 1]
<1> SUFFICES ASSUME TiledHeap
    PROVE /\ Len(Ring) = Len(list) + 2 /\ Len(list) \in Nat
          /\ Ring[1] = BIN /\ Ring[Len(list) + 2] = BIN
          /\ \A k \in 1 .. Len(list) : Ring[k + 1] = list[k] /\ list[k] \in Nat /\ list[k] \in DOMAIN heap
          /\ \A k \in 1 .. Len(list) + 1 : Ring[k + 1] = BIN <=> k = Len(list) + 1
          /\ \A i \in 1 .. Len(list) + 1 : Link(Mem(Ring[i])) = Ring[i + 1]
  OBVIOUS
<1>1. list \in Seq(Int) /\ Len(list) \in Nat
      /\ \A k \in 1 .. Len(list) : list[k] \in Nat /\ list[k] \in DOMAIN heap
  <2>1. list \in Seq(DOMAIN heap) /\ DOMAIN heap \subseteq Nat
    BY DEF TiledHeap, Tiled, Listed
  <2> QED BY <2>1
<1> DEFINE a == <<BIN>> \o list
           n == Len(list)
<1>2. /\ a \in Seq(Int) /\ Len(a) = Len(<<BIN>>) + Len(list)
      /\ \A k \in 1 .. Len(<<BIN>>) + Len(list) :
           a[k] = IF k <= Len(<<BIN>>) THEN <<BIN>>[k] ELSE list[k - Len(<<BIN>>)]
  <2>1. <<BIN>> \in Seq(Int)
    BY DEF BIN
  <2> QED BY <2>1, <1>1, ConcatProperties
<1>3. Ring = a \o <<BIN>>
  BY DEF Ring
<1> HIDE DEF a
<1>4. /\ Len(Ring) = Len(a) + Len(<<BIN>>)
      /\ \A k \in 1 .. Len(a) + Len(<<BIN>>) :
           Ring[k] = IF k <= Len(a) THEN a[k] ELSE <<BIN>>[k - Len(a)]
  <2>1. <<BIN>> \in Seq(Int)
    BY DEF BIN
  <2> QED BY <2>1, <1>2, <1>3, ConcatProperties
<1>5. Len(<<BIN>>) = 1 /\ <<BIN>>[1] = BIN /\ BIN \in Int /\ BIN < 0
  BY DEF BIN
<1>6. n \in Nat /\ Len(a) = n + 1 /\ Len(Ring) = n + 2
  <2>1. Len(a) = 1 + n
    BY <1>2, <1>5
  <2> QED BY <2>1, <1>1, <1>4, <1>5
<1>7. Ring[1] = BIN
  <2>1. Ring[1] = a[1]
    BY <1>4, <1>5, <1>6
  <2>2. a[1] = BIN
    BY <1>1, <1>2, <1>5
  <2> QED BY <2>1, <2>2
<1>8. Ring[n + 2] = BIN
  <2>1. n + 2 \in 1 .. Len(a) + Len(<<BIN>>) /\ ~ n + 2 <= Len(a) /\ (n + 2) - Len(a) = 1
    BY <1>5, <1>6
  <2> QED BY <2>1, <1>4, <1>5
<1>9. ASSUME NEW k \in 1 .. n PROVE Ring[k + 1] = list[k]
  <2>1. k + 1 \in 1 .. Len(a) + Len(<<BIN>>) /\ k + 1 <= Len(a)
    BY <1>5, <1>6
  <2>2. k + 1 \in 1 .. Len(<<BIN>>) + Len(list) /\ ~ k + 1 <= Len(<<BIN>>) /\ (k + 1) - Len(<<BIN>>) = k
    BY <1>5, <1>6
  <2> QED BY <2>1, <2>2, <1>2, <1>4
<1>10. ASSUME NEW k \in 1 .. n + 1 PROVE Ring[k + 1] = BIN <=> k = n + 1
  <2>1. CASE k = n + 1
    BY <2>1, <1>6, <1>8
  <2>2. CASE k # n + 1
    BY <2>2, <1>1, <1>5, <1>6, <1>9
  <2> QED BY <2>1, <2>2
<1>11. ASSUME NEW i \in 1 .. n + 1 PROVE Ring[i] \in Int /\ ((i = 1 /\ Ring[i] = BIN) \/ (i > 1 /\ i - 1 \in 1 .. n /\ Ring[i] = list[i - 1]))
  <2>1. CASE i = 1
    <3>1. Ring[i] = BIN
      BY <2>1, <1>7
    <3>2. Ring[i] \in Int
      BY <3>1, <1>5, Zenon
    <3> QED BY <2>1, <3>1, <3>2, Zenon
  <2>2. CASE i # 1
    <3>1. i - 1 \in 1 .. n /\ (i - 1) + 1 = i /\ i > 1
      BY <2>2, <1>6
    <3> QED BY <3>1, <1>1, <1>9
  <2> QED BY <2>1, <2>2
<1>12. ASSUME NEW i \in 1 .. n + 1, NEW j \in 1 .. n + 1, Ring[i] = Ring[j] PROVE i = j
  <2>1. CASE i = 1 \/ j = 1
    <3>1. \A m \in 1 .. n : list[m] # BIN
      BY <1>1, <1>5
    <3>2. \A m \in 1 .. n + 1 : Ring[m] = BIN <=> m = 1
      BY <3>1, <1>7, <1>11
    <3> QED BY <2>1, <3>2, <1>12
  <2>2. CASE i > 1 /\ j > 1
    <3>1. i - 1 \in 1 .. n /\ j - 1 \in 1 .. n /\ list[i - 1] = list[j - 1]
      BY <2>2, <1>11, <1>12
    <3>2. i - 1 = j - 1
      BY <3>1 DEF TiledHeap, Listed, Distinct
    <3> QED BY <3>2
  <2> QED BY <2>1, <2>2
<1>13. ASSUME NEW i \in 1 .. n + 1 PROVE Link(Mem(Ring[i])) = Ring[i + 1]
  <2>1. \A j \in 1 .. n + 1 : Mem(Ring[j]) = Mem(Ring[i]) <=> j = i
    <3>1. \A j \in 1 .. n + 1 : Ring[j] + 2 = Ring[i] + 2 => Ring[j] = Ring[i]
      BY <1>11
    <3> QED BY <3>1, <1>12 DEF Mem
  <2>2. Places(Mem(Ring[i])) = {i}
    BY <2>1 DEF Places
  <2>3. Min({i}) = i
    <3>1. {i} \in SUBSET Nat /\ {i} # {}
      BY <1>6
    <3>2. Min({i}) \in {i}
      BY <3>1, LeastOf
    <3> QED BY <3>2
  <2> QED BY <2>2, <2>3 DEF Link
<1> QED BY <1>1, <1>6, <1>7, <1>8, <1>9, <1>10, <1>13 DEF n

LEMMA HeaderKeeps ==
  ASSUME MainInv, part <= Len(main), Advance, Calls("header"),
         hdr' = Mem(Link(chunks[Index])), UNCHANGED <<heapState, chunks>>
  PROVE  MainInv'
<1>0. TiledHeap /\ PlaceOK /\ HeldOK /\ FindOK
  BY DEF MainInv
<1>1. /\ PlaceOK' /\ part \in 1 .. 17 /\ HeldNow' \subseteq HeldNow
      /\ \/ part' = part /\ turn' = turn + 1 /\ turn < Len(Turns)
         \/ part' = part + 1 /\ turn' = 1 /\ turn = Len(Turns)
  BY <1>0, Advances
<1>2. part = 11 /\ Len(Turns) = 1 /\ Turns[1] = PTR
  BY <1>0, <1>1, FindSteps
<1>3. turn = 1 /\ part' = 12 /\ Index = PTR
  <2>1. turn \in Nat /\ 0 < turn /\ turn <= 1
    BY <1>0, <1>1, <1>2 DEF PlaceOK
  <2>2. turn = 1
    BY <2>1
  <2> QED BY <2>2, <1>1, <1>2 DEF Index
<1>4. hdr' = Mem(BIN)
  <2>1. chunks[PTR] \in Int /\ list = <<chunks[PTR] - 2>>
    BY <1>0, <1>2 DEF FindOK
  <2>2. Len(list) = 1 /\ list[1] = chunks[PTR] - 2
    BY <2>1
  <2>3. Ring[2] = chunks[PTR] - 2 /\ Ring[3] = BIN /\ Link(Mem(Ring[2])) = Ring[3]
    <3>1. /\ Ring[Len(list) + 2] = BIN /\ Ring[1 + 1] = list[1]
          /\ Link(Mem(Ring[2])) = Ring[2 + 1]
      BY <2>2, <1>0, RingIs
    <3> QED BY <3>1, <2>2
  <2>4. Mem(Ring[2]) = chunks[PTR]
    BY <2>1, <2>3 DEF Mem
  <2> QED BY <2>3, <2>4, <1>3
<1>5. /\ heap' = heap /\ live' = live /\ list' = list /\ wild' = wild /\ brk' = brk /\ chunks' = chunks
  BY DEF heapState
<1>6. TiledHeap'
  BY <1>0, <1>5 DEF TiledHeap, Tiled, Unmerged, Listed, AllChunks
<1>7. HeldOK'
  BY <1>0, <1>1, <1>3, <1>5 DEF HeldOK
<1>8. FindOK'
  <2>1. Mem(BIN)' = Mem(BIN)
    BY DEF Mem, BIN
  <2> QED BY <2>1, <1>3, <1>4 DEF FindOK
<1> QED BY <1>1, <1>6, <1>7, <1>8 DEF MainInv

LEMMA CallKeeps ==
  ASSUME MainInv, Call
  PROVE  MainInv'
<1>1. part <= Len(main) /\ Advance
  BY DEF Call
<1>2. CASE Calls("malloc") /\ malloc(Index, SMALL)
  BY <1>1, <1>2, HeapConstants, MallocKeeps
<1>3. CASE Calls("large") /\ malloc(Index, LARGE)
  <2>1. LARGE \in Nat /\ MINSIZE <= LARGE
    BY HeapConstants
  <2> QED BY <2>1, <1>1, <1>3, MallocKeeps
<1>4. CASE Calls("free") /\ free(Index)
  BY <1>1, <1>4, FreeKeeps
<1>5. CASE Calls("trim") /\ malloc_trim
  BY <1>1, <1>5, TrimKeeps
<1>6. CASE Calls("header") /\ hdr' = Mem(Link(chunks[Index])) /\ UNCHANGED <<heapState, chunks>>
  BY <1>1, <1>6, HeaderKeeps
<1> QED BY <1>2, <1>3, <1>4, <1>5, <1>6 DEF Call

(* What has been printed, and where the walk is.                           *)
Telling == {Told(h) : h \in AllChunks}

HeapWalk ==
  /\ chunk \in Int /\ (chunk >= brk \/ chunk - 1 \in AllChunks)
  /\ \A k \in 1 .. Len(shown) : shown[k][3] < chunk
  /\ \A k \in 1 .. Len(shown) : \A j \in 1 .. k - 1 : shown[j][3] < shown[k][3]
  /\ \A k \in 1 .. Len(shown) : \A h \in AllChunks :
       h + 1 < shown[k][3] => \E j \in 1 .. k - 1 : shown[j] = Told(h)
  /\ \A h \in AllChunks : h + 1 < chunk => \E k \in 1 .. Len(shown) : shown[k] = Told(h)

ListWalk ==
  /\ Len(shown) <= Len(list) /\ \A k \in 1 .. Len(shown) : shown[k] = Told(list[k])
  /\ chunk = Mem(Ring[Len(shown) + 2]) - 1 /\ hdr = Mem(BIN)

WalkOK ==
  /\ walk \in {"none", "heap", "list"} /\ shown \in Seq(Telling)
  /\ walk = "heap" => HeapWalk
  /\ walk = "list" => ListWalk

HeapInv == MainInv /\ WalkOK

JustBegun ==
  /\ walk \in {"none", "heap", "list"} /\ shown = <<>>
  /\ walk = "heap" => BOTTOM \in HeldNow /\ chunk = chunks[BOTTOM] - 1
  /\ walk = "list" => part > 11 /\ chunk = Mem(Link(hdr)) - 1

LEMMA CallBegins ==
  ASSUME MainInv, Call
  PROVE  JustBegun'
<1>1. part <= Len(main) /\ Advance /\ Begin
  BY DEF Call
<1>2. /\ part \in 1 .. 17 /\ (part' = part \/ part' = part + 1)
      /\ main[part].dump = "heap" => BOTTOM \in HeldNow'
      /\ main[part].dump \in {"heap", "list", "none"}
  BY <1>1, Advances DEF MainInv
<1>3. main[part].dump = "list" => part > 12
  BY <1>2, FindSteps DEF MainInv
<1>4. main[part].dump = "list" => part' > 11
  BY <1>2, <1>3
<1>5. /\ walk' = main[part].dump /\ shown' = <<>>
      /\ main[part].dump = "heap" => chunk' = (chunks[BOTTOM] - 1)'
      /\ main[part].dump = "list" => chunk' = (Mem(Link(hdr)) - 1)'
  BY <1>1, <1>2 DEF Begin
<1> QED BY <1>2, <1>4, <1>5 DEF JustBegun

LEMMA BegunWalk == MainInv /\ JustBegun => WalkOK
<1> SUFFICES ASSUME MainInv, JustBegun PROVE WalkOK
  OBVIOUS
<1>1. TiledHeap /\ HeldOK /\ FindOK
  BY DEF MainInv
<1>2. shown \in Seq(Telling) /\ Len(shown) = 0
  BY DEF JustBegun
<1>3. ASSUME walk = "heap" PROVE HeapWalk
  <2>1. chunk = 1 /\ 0 \in AllChunks
    <3>1. BOTTOM \in HeldNow /\ chunk = chunks[BOTTOM] - 1
      BY <1>3 DEF JustBegun
    <3>2. chunks[BOTTOM] = 2 /\ 2 - 2 \in live
      BY <3>1, <1>1 DEF HeldOK
    <3>3. 2 - 2 \in AllChunks
      BY <3>2, <1>1 DEF TiledHeap, Listed, AllChunks
    <3> QED BY <3>1, <3>2, <3>3
  <2>2. \A h \in AllChunks : ~ h + 1 < 1
    BY <1>1 DEF TiledHeap, Tiled, AllChunks
  <2>3. chunk \in Int /\ chunk - 1 \in AllChunks
    BY <2>1
  <2> QED BY <2>1, <2>2, <2>3, <1>2 DEF HeapWalk
<1>4. ASSUME walk = "list" PROVE ListWalk
  <2>1. part > 11 /\ chunk = Mem(Link(hdr)) - 1
    BY <1>4 DEF JustBegun
  <2>2. hdr = Mem(BIN)
    BY <2>1, <1>1 DEF FindOK
  <2>3. Ring[1] = BIN /\ Link(Mem(Ring[1])) = Ring[1 + 1] /\ Len(list) \in Nat
    BY <1>1, RingIs
  <2>4. chunk = Mem(Ring[2]) - 1
    BY <2>1, <2>2, <2>3
  <2> QED BY <2>2, <2>3, <2>4, <1>2 DEF ListWalk
<1> QED BY <1>2, <1>3, <1>4 DEF WalkOK, JustBegun

(* What a dump prints of a chunk is what it is.                            *)
LEMMA ShownIsTold ==
  ASSUME TiledHeap, NEW h \in AllChunks
  PROVE  /\ h \in Nat /\ Size(h + 1) \in Nat /\ 0 < Size(h + 1)
         /\ IF h = wild THEN Size(h + 1) = brk - wild ELSE h \in DOMAIN heap /\ Size(h + 1) = heap[h]
         /\ Shown(h + 1) = Told(h) /\ Told(h)[3] = h + 1
<1>0. /\ \A g \in DOMAIN heap : g \in Nat /\ heap[g] \in Nat /\ 0 < heap[g] /\ g + heap[g] <= wild
      /\ \A g \in DOMAIN heap : g + heap[g] \in DOMAIN heap \cup {wild}
      /\ \A g, k \in DOMAIN heap : g < k => g + heap[g] <= k
      /\ wild \in Nat /\ brk \in Nat /\ wild + MINSIZE <= brk /\ live \subseteq DOMAIN heap
  BY DEF TiledHeap, Tiled, Listed, AllChunks
<1>1. h \in Nat /\ (h + 1) - 1 = h
  BY <1>0 DEF AllChunks
<1>2. IF h = wild THEN Size(h + 1) = brk - wild ELSE h \in DOMAIN heap /\ Size(h + 1) = heap[h]
  BY <1>1 DEF Size, AllChunks
<1>3. Size(h + 1) \in Nat /\ 0 < Size(h + 1)
  <2>1. brk - wild \in Nat /\ 0 < brk - wild
    BY <1>0, HeapConstants
  <2> QED BY <2>1, <1>0, <1>2
<1>4. Mark(h + 1) = IF h \in live THEN "A" ELSE "F"
  <2>1. CASE h = wild
    <3>1. ~ (h + 1) + Size(h + 1) < brk
      BY <2>1, <1>0, <1>2
    <3>2. h \notin live
      BY <2>1, <1>0
    <3> QED BY <3>1, <3>2 DEF Mark
  <2>2. CASE h # wild
    <3> DEFINE s == heap[h]
    <3>1. h \in DOMAIN heap /\ Size(h + 1) = s /\ s \in Nat /\ h + s <= wild /\ 0 < s
      BY <2>2, <1>0, <1>2
    <3>2. (h + 1) + s < brk /\ ((h + 1) + s) - 1 = h + s
      <4> HIDE DEF s
      <4> QED BY <3>1, <1>0, <1>1, HeapConstants
    <3>3. \A g \in DOMAIN heap : g + heap[g] = h + s => g = h
      BY <3>1, <1>0, <1>1
    <3>4. PrevUsed((h + 1) + s) <=> h \in live
      BY <3>1, <3>2, <3>3 DEF PrevUsed
    <3> QED BY <3>1, <3>2, <3>4 DEF Mark
  <2> QED BY <2>1, <2>2
<1> QED BY <1>1, <1>2, <1>3, <1>4 DEF Shown, Told

LEMMA HeapStays ==
  ASSUME MainInv, UNCHANGED <<heapState, part, turn, chunks, hdr>>
  PROVE  MainInv' /\ AllChunks' = AllChunks /\ Telling' = Telling /\ \A h : Told(h)' = Told(h)
<1>1. /\ heap' = heap /\ live' = live /\ list' = list /\ wild' = wild /\ brk' = brk
      /\ part' = part /\ turn' = turn /\ chunks' = chunks /\ hdr' = hdr
  BY DEF heapState
<1>2. TiledHeap' /\ AllChunks' = AllChunks
  BY <1>1 DEF MainInv, TiledHeap, Tiled, Unmerged, Listed, AllChunks
<1>3. PlaceOK' /\ HeldNow' = HeldNow
  BY <1>1 DEF MainInv, PlaceOK, Turns, HeldNow
<1>4. HeldOK'
  BY <1>1, <1>3 DEF MainInv, HeldOK
<1>5. FindOK'
  <2>1. Mem(BIN)' = Mem(BIN)
    BY DEF Mem, BIN
  <2> QED BY <2>1, <1>1 DEF MainInv, FindOK, Lonely, ThisEnd, PrevUsed
<1>6. \A h : Told(h)' = Told(h)
  BY <1>1 DEF Told, Size
<1> QED BY <1>2, <1>3, <1>4, <1>5, <1>6 DEF MainInv, Telling

LEMMA HeapPrints ==
  ASSUME HeapInv, print_heap
  PROVE  HeapInv'
<1>1. MainInv' /\ AllChunks' = AllChunks /\ Telling' = Telling /\ \A h : Told(h)' = Told(h)
  BY HeapStays DEF HeapInv, print_heap
<1>2. TiledHeap /\ HeapWalk /\ walk = "heap" /\ chunk < brk /\ shown \in Seq(Telling) /\ brk' = brk
  BY DEF HeapInv, MainInv, WalkOK, print_heap, heapState
<1> DEFINE h == chunk - 1
<1>3. h \in AllChunks /\ chunk \in Int /\ h + 1 = chunk
  <2>1. chunk \in Int /\ brk \in Nat /\ ~ chunk >= brk
    BY <1>2 DEF HeapWalk, TiledHeap, Tiled
  <2> QED BY <2>1, <1>2 DEF HeapWalk
<1> HIDE DEF h
<1>4. /\ h \in Nat /\ Size(chunk) \in Nat /\ 0 < Size(chunk)
      /\ IF h = wild THEN Size(chunk) = brk - wild ELSE h \in DOMAIN heap /\ Size(chunk) = heap[h]
      /\ Shown(chunk) = Told(h) /\ Told(h)[3] = chunk
  BY <1>2, <1>3, ShownIsTold
<1>5. walk' = "heap" /\ chunk' = chunk + Size(chunk) /\ shown' = Append(shown, Told(h))
  <2>1. Size(chunk) # JUNK
    BY <1>4 DEF JUNK
  <2> QED BY <2>1, <1>2, <1>4 DEF print_heap, print_chunk
<1> DEFINE n == Len(shown)
           t == Told(h)
<1>6. /\ shown' \in Seq(Telling) /\ Len(shown') = n + 1 /\ n \in Nat
      /\ \A k \in 1 .. n : shown'[k] = shown[k]
      /\ shown'[n + 1] = t
  <2>1. t \in Telling
    BY <1>3 DEF Telling
  <2> HIDE DEF t
  <2> QED BY <2>1, <1>2, <1>5 DEF t
<1>7. chunk' \in Int /\ chunk < chunk'
  BY <1>3, <1>4, <1>5
<1>8. chunk' >= brk \/ chunk' - 1 \in AllChunks
  <2>1. CASE h = wild
    BY <2>1, <1>2, <1>3, <1>4, <1>5 DEF TiledHeap, Tiled
  <2>2. CASE h # wild
    <3>1. chunk' - 1 = h + heap[h]
      BY <2>2, <1>3, <1>4, <1>5
    <3> QED BY <3>1, <2>2, <1>2, <1>4 DEF TiledHeap, Tiled
  <2> QED BY <2>1, <2>2
<1>9. \A g \in AllChunks : g + 1 < chunk' => g + 1 < chunk \/ g = h
  <2> SUFFICES ASSUME NEW g \in AllChunks, g + 1 < chunk', ~ g + 1 < chunk, g # h PROVE FALSE
    OBVIOUS
  <2>1. g \in Nat /\ wild \in Nat /\ brk \in Nat /\ wild <= brk
    BY <1>2, HeapConstants DEF TiledHeap, Tiled, AllChunks
  <2>2. h < g
    BY <2>1, <1>3, <1>4
  <2>3. CASE h = wild
    <3>1. g \in DOMAIN heap
      BY <2>2, <2>3, <2>1 DEF AllChunks
    <3>2. heap[g] \in Nat /\ g + heap[g] <= wild
      BY <3>1, <1>2 DEF TiledHeap, Tiled
    <3> QED BY <3>2, <2>1, <2>2, <2>3
  <2>4. CASE h # wild
    <3>1. h \in DOMAIN heap /\ h + heap[h] <= g
      BY <2>2, <2>4, <1>2, <1>4 DEF TiledHeap, Tiled, AllChunks
    <3>2. chunk' = (h + heap[h]) + 1 /\ heap[h] \in Nat
      <4>1. Size(chunk) = heap[h] /\ heap[h] \in Nat /\ h \in Nat
        BY <2>4, <1>4
      <4>2. chunk' = chunk + heap[h] /\ chunk = h + 1
        BY <4>1, <1>3, <1>5
      <4> QED BY <4>1, <4>2
    <3> QED BY <3>1, <3>2, <2>1, <1>4
  <2> QED BY <2>3, <2>4
<1>10. /\ \A k \in 1 .. n : shown[k][3] < chunk
       /\ \A k \in 1 .. n : \A j \in 1 .. k - 1 : shown[j][3] < shown[k][3]
       /\ \A k \in 1 .. n : \A g \in AllChunks :
            g + 1 < shown[k][3] => \E j \in 1 .. k - 1 : shown[j] = Told(g)
       /\ \A g \in AllChunks : g + 1 < chunk => \E k \in 1 .. n : shown[k] = Told(g)
  BY <1>2 DEF HeapWalk
<1>11. t[3] = chunk /\ t = Told(h)
  BY <1>4
<1>12. \A k \in 1 .. n : shown[k][3] \in Int
  <2>1. \A k \in 1 .. n : \E g \in AllChunks : shown[k] = Told(g)
    BY <1>2 DEF Telling
  <2>2. \A g \in AllChunks : Told(g)[3] \in Int
    BY <1>2, ShownIsTold
  <2> QED BY <2>1, <2>2
<1> HIDE DEF n, t
<1>13. HeapWalk'
  <2>1. \A k \in 1 .. n + 1 : k \in 1 .. n \/ k = n + 1
    BY <1>6
  <2>2. \A k \in 1 .. n + 1 : shown'[k][3] < chunk'
    BY <2>1, <1>3, <1>6, <1>7, <1>10, <1>11, <1>12
  <2>3. ASSUME NEW k \in 1 .. n + 1, NEW j \in 1 .. k - 1
        PROVE  shown'[j][3] < shown'[k][3]
    <3>1. j \in 1 .. n
      BY <1>6
    <3>2. CASE k = n + 1
      BY <3>1, <3>2, <1>6, <1>10, <1>11
    <3>3. CASE k # n + 1
      BY <3>1, <3>3, <2>1, <1>6, <1>10
    <3> QED BY <3>2, <3>3
  <2>4. ASSUME NEW k \in 1 .. n + 1, NEW g \in AllChunks, g + 1 < shown'[k][3]
        PROVE  \E j \in 1 .. k - 1 : shown'[j] = Told(g)
    <3>1. CASE k = n + 1
      <4>1. \E j \in 1 .. n : shown[j] = Told(g)
        BY <3>1, <2>4, <1>6, <1>10, <1>11
      <4>2. (n + 1) - 1 = n
        BY <1>6
      <4> QED BY <3>1, <4>1, <4>2, <1>6
    <3>2. CASE k # n + 1
      <4>1. k \in 1 .. n /\ \A j \in 1 .. k - 1 : j \in 1 .. n
        BY <3>2, <1>6
      <4>2. \E j \in 1 .. k - 1 : shown[j] = Told(g)
        BY <4>1, <2>4, <1>6, <1>10
      <4> QED BY <4>1, <4>2, <1>6
    <3> QED BY <3>1, <3>2
  <2>5. ASSUME NEW g \in AllChunks, g + 1 < chunk'
        PROVE  \E k \in 1 .. n + 1 : shown'[k] = Told(g)
    <3>1. n + 1 \in 1 .. n + 1 /\ \A k \in 1 .. n : k \in 1 .. n + 1
      BY <1>6
    <3>2. CASE g = h
      BY <3>1, <3>2, <1>6, <1>11
    <3>3. CASE g # h
      <4>1. \E k \in 1 .. n : shown[k] = Told(g)
        BY <2>5, <3>3, <1>9, <1>10
      <4> QED BY <3>1, <4>1, <1>6
    <3> QED BY <3>2, <3>3
  <2>6. \A k \in 1 .. Len(shown') : \A g \in AllChunks' :
          g + 1 < shown'[k][3] => \E j \in 1 .. k - 1 : shown'[j] = Told(g)'
    BY <2>4, <1>1, <1>6
  <2>7. \A g \in AllChunks' : g + 1 < chunk' => \E k \in 1 .. Len(shown') : shown'[k] = Told(g)'
    BY <2>5, <1>1, <1>6
  <2>8. /\ \A k \in 1 .. Len(shown') : shown'[k][3] < chunk'
        /\ \A k \in 1 .. Len(shown') : \A j \in 1 .. k - 1 : shown'[j][3] < shown'[k][3]
    BY <2>2, <2>3, <1>6
  <2>9. chunk' \in Int /\ (chunk' >= brk' \/ chunk' - 1 \in AllChunks')
    BY <1>1, <1>2, <1>7, <1>8
  <2> QED BY <2>6, <2>7, <2>8, <2>9 DEF HeapWalk
<1> QED BY <1>1, <1>5, <1>6, <1>13 DEF HeapInv, WalkOK

LEMMA ListPrints ==
  ASSUME HeapInv, print_freelist
  PROVE  HeapInv'
<1>1. MainInv' /\ AllChunks' = AllChunks /\ Telling' = Telling /\ \A h : Told(h)' = Told(h)
  BY HeapStays DEF HeapInv, print_freelist
<1>2. TiledHeap /\ ListWalk /\ walk = "list" /\ chunk + 1 # hdr /\ shown \in Seq(Telling)
      /\ list' = list /\ hdr' = hdr
  BY DEF HeapInv, MainInv, WalkOK, print_freelist, heapState
<1> DEFINE n == Len(shown)
           h == list[n + 1]
           t == Told(h)
<1>3. /\ Len(list) \in Nat /\ Ring[Len(list) + 2] = BIN
      /\ \A k \in 1 .. Len(list) : Ring[k + 1] = list[k] /\ list[k] \in Nat /\ list[k] \in DOMAIN heap
      /\ \A k \in 1 .. Len(list) + 1 : Ring[k + 1] = BIN <=> k = Len(list) + 1
      /\ \A i \in 1 .. Len(list) + 1 : Link(Mem(Ring[i])) = Ring[i + 1]
  BY <1>2, RingIs
<1>4. n \in Nat /\ n <= Len(list) /\ chunk = Mem(Ring[n + 2]) - 1 /\ hdr = Mem(BIN)
  BY <1>2 DEF ListWalk
<1>5. n + 1 \in 1 .. Len(list)
  <2>1. CASE n = Len(list)
    <3>1. chunk = Mem(BIN) - 1
      BY <2>1, <1>3, <1>4
    <3> QED BY <3>1, <1>2, <1>4 DEF Mem, BIN
  <2>2. CASE n # Len(list)
    BY <2>2, <1>3, <1>4
  <2> QED BY <2>1, <2>2
<1>6. Ring[n + 2] = h /\ h \in Nat /\ h \in AllChunks /\ Link(Mem(h)) = Ring[n + 3]
  <2>1. Ring[(n + 1) + 1] = h /\ h \in Nat /\ h \in DOMAIN heap
    BY <1>3, <1>5
  <2>2. n + 2 \in 1 .. Len(list) + 1 /\ (n + 1) + 1 = n + 2 /\ (n + 2) + 1 = n + 3
    BY <1>3, <1>4, <1>5
  <2>3. Link(Mem(Ring[n + 2])) = Ring[(n + 2) + 1]
    BY <2>2, <1>3
  <2> HIDE DEF h
  <2> QED BY <2>1, <2>2, <2>3 DEF AllChunks
<1>7. chunk = h + 1 /\ chunk + 1 = Mem(h)
  <2> HIDE DEF h
  <2> QED BY <1>4, <1>6 DEF Mem
<1>8. Size(chunk) # JUNK /\ Shown(chunk) = t
  <2>1. Size(h + 1) \in Nat /\ Shown(h + 1) = Told(h)
    BY <1>2, <1>6, ShownIsTold
  <2> HIDE DEF h
  <2> QED BY <2>1, <1>7 DEF JUNK
<1>9. walk' = "list" /\ chunk' = Mem(Ring[n + 3]) - 1 /\ shown' = Append(shown, t)
  BY <1>2, <1>6, <1>7, <1>8 DEF print_freelist, print_chunk
<1>10. t \in Telling
  BY <1>6 DEF Telling
<1>11. \A k \in 1 .. n : shown[k] = Told(list[k])
  BY <1>2 DEF ListWalk
<1>12. t = Told(list[n + 1])
  OBVIOUS
<1> HIDE DEF t, h
<1>13. /\ shown' \in Seq(Telling) /\ Len(shown') = n + 1
       /\ \A k \in 1 .. n : shown'[k] = shown[k]
       /\ shown'[n + 1] = t
  BY <1>2, <1>9, <1>10
<1> HIDE DEF n
<1>14. Ring' = Ring
  BY <1>2 DEF Ring, BIN
<1>15. ListWalk'
  <2>1. \A k \in 1 .. n + 1 : k \in 1 .. n \/ k = n + 1
    BY <1>4
  <2>2. \A k \in 1 .. n + 1 : shown'[k] = Told(list[k])
    BY <2>1, <1>11, <1>12, <1>13
  <2>3. n + 1 <= Len(list) /\ (n + 1) + 2 = n + 3
    BY <1>4, <1>5
  <2>4. chunk' = Mem(Ring[Len(shown') + 2]) - 1
    BY <2>3, <1>9, <1>13
  <2>5. (Mem(Ring[Len(shown) + 2]) - 1)' = Mem(Ring[Len(shown') + 2]) - 1
    BY <1>14 DEF Mem
  <2>6. Mem(BIN)' = Mem(BIN)
    BY DEF Mem, BIN
  <2> QED BY <2>2, <2>3, <2>4, <2>5, <2>6, <1>1, <1>2, <1>4, <1>13 DEF ListWalk
<1> QED BY <1>1, <1>9, <1>13, <1>15 DEF HeapInv, WalkOK

LEMMA TruthFollows == HeapInv => DumpIsTrue
<1> SUFFICES ASSUME HeapInv PROVE DumpIsTrue
  OBVIOUS
<1>1. TiledHeap /\ WalkOK
  BY DEF HeapInv, MainInv
<1>2. ASSUME walk = "heap" PROVE HeapTold
  <2>1. HeapWalk /\ shown \in Seq(Telling)
    BY <1>1, <1>2 DEF WalkOK
  <2>2. \A k \in 1 .. Len(shown) : \E h \in AllChunks : shown[k] = Told(h)
    BY <2>1 DEF Telling
  <2>3. Printed => \A h \in AllChunks : h + 1 < chunk
    <3>1. Printed => chunk \in Int /\ ~ chunk < brk
      BY <1>2, <2>1 DEF Printed, HeapWalk
    <3>2. ASSUME NEW h \in AllChunks PROVE h \in Nat /\ h <= wild
      <4>1. CASE h = wild
        BY <4>1, <1>1 DEF TiledHeap, Tiled
      <4>2. CASE h # wild
        <5>1. h \in DOMAIN heap
          BY <4>2 DEF AllChunks
        <5>2. h \in Nat /\ heap[h] \in Nat /\ h + heap[h] <= wild /\ wild \in Nat
          BY <5>1, <1>1 DEF TiledHeap, Tiled
        <5> QED BY <5>2
      <4> QED BY <4>1, <4>2
    <3>3. wild \in Nat /\ brk \in Nat /\ wild + 3 < brk
      BY <1>1, HeapConstants DEF TiledHeap, Tiled
    <3> QED BY <3>1, <3>2, <3>3
  <2> QED BY <2>1, <2>2, <2>3 DEF HeapWalk, HeapTold
<1>3. ASSUME walk = "list" PROVE ListTold
  <2>1. ListWalk /\ shown \in Seq(Telling)
    BY <1>1, <1>3 DEF WalkOK
  <2>2. Printed => Len(shown) = Len(list)
    <3> SUFFICES ASSUME Printed, Len(shown) # Len(list) PROVE FALSE
      OBVIOUS
    <3> DEFINE n == Len(shown)
               k == n + 1
    <3>1. /\ Len(list) \in Nat
          /\ \A j \in 1 .. Len(list) : Ring[j + 1] = list[j] /\ list[j] \in Nat
      BY <1>1, RingIs
    <3>2. n \in Nat /\ n <= Len(list) /\ n # Len(list) /\ chunk = Mem(Ring[n + 2]) - 1 /\ hdr = Mem(BIN)
      BY <2>1 DEF ListWalk
    <3> HIDE DEF n
    <3>3. k \in 1 .. Len(list) /\ k + 1 = n + 2
      BY <3>1, <3>2
    <3>4. Ring[n + 2] \in Nat
      BY <3>1, <3>3
    <3>5. chunk + 1 = hdr
      BY <1>3 DEF Printed
    <3> QED BY <3>2, <3>4, <3>5 DEF Mem, BIN
  <2> QED BY <2>1, <2>2 DEF ListWalk, ListTold
<1> QED BY <1>1, <1>2, <1>3 DEF DumpIsTrue, WalkOK

LEMMA HeapBegins == HeapInit => HeapInv
<1> SUFFICES ASSUME HeapInit PROVE HeapInv
  OBVIOUS
<1>1. /\ heap = <<>> /\ live = {} /\ list = <<>> /\ wild = 0 /\ brk = MINSIZE
      /\ part = 1 /\ turn = 1 /\ walk = "none" /\ shown = <<>>
  BY DEF HeapInit
<1>2. DOMAIN heap = {}
  BY <1>1
<1>3. TiledHeap
  BY <1>1, <1>2, HeapConstants DEF TiledHeap, Tiled, Unmerged, Listed, Distinct
<1>4. PlaceOK
  BY <1>1, LoopsAre DEF PlaceOK, Turns, Loop
<1>5. HeldNow = {}
  <2>1. \A k : k \notin 1 .. 1 - 1
    OBVIOUS
  <2>2. Done(main[1].over, 1) = {}
    BY <2>1 DEF Done
  <2> QED BY <2>2, <1>1, LoopsAre, BeforeIs DEF HeldNow, Held
<1>6. HeldOK /\ FindOK
  BY <1>1, <1>5 DEF HeldOK, FindOK
<1>7. WalkOK
  BY <1>1 DEF WalkOK
<1> QED BY <1>3, <1>4, <1>6, <1>7 DEF HeapInv, MainInv

LEMMA CallServes == HeapInv /\ Call => HeapInv'
<1>1. MainInv /\ Call => (MainInv /\ JustBegun)'
  BY CallKeeps, CallBegins
<1>2. (MainInv /\ JustBegun)' => HeapInv'
  <2>1. MainInv /\ JustBegun => HeapInv
    BY BegunWalk DEF HeapInv
  <2> QED BY <2>1, PTL
<1> QED BY <1>1, <1>2 DEF HeapInv

LEMMA HeapSteps == HeapInv /\ [HeapNext]_heapVars => HeapInv'
<1> SUFFICES ASSUME HeapInv, [HeapNext]_heapVars PROVE HeapInv'
  OBVIOUS
<1>1. CASE Call
  BY <1>1, CallServes
<1>2. CASE print_heap
  BY <1>2, HeapPrints
<1>3. CASE print_freelist
  BY <1>3, ListPrints
<1>4. CASE UNCHANGED heapVars
  <2>1. UNCHANGED <<heapState, part, turn, chunks, hdr>> /\ UNCHANGED <<walk, chunk, shown>>
    BY <1>4 DEF heapVars
  <2>2. MainInv' /\ AllChunks' = AllChunks /\ Telling' = Telling /\ \A h : Told(h)' = Told(h)
    BY <2>1, HeapStays DEF HeapInv
  <2>3. list' = list /\ brk' = brk /\ Ring' = Ring /\ hdr' = hdr
    BY <2>1 DEF heapState, Ring, BIN
  <2>4. WalkOK'
    BY <2>1, <2>2, <2>3 DEF HeapInv, WalkOK, HeapWalk, ListWalk, Mem, BIN
  <2> QED BY <2>2, <2>4 DEF HeapInv
<1> QED BY <1>1, <1>2, <1>3, <1>4 DEF HeapNext

(* Every dump of main prints the truth: whatever size the chunks have,     *)
(* however many there are, and wherever the break is after each call, the  *)
(* walk over the heap prints every chunk in the order of the addresses     *)
(* with its size and whether it is in use, and the walk over the list      *)
(* prints the list.                                                        *)
THEOREM DumpTellsTruth == HeapSpec => []DumpIsTrue
BY HeapBegins, HeapSteps, TruthFollows, PTL DEF HeapSpec

(* main asks for nothing that is on the list.  What is in use is exactly   *)
(* what it holds: its loops leave nothing behind.                          *)
Covered(o) == {o[k] : k \in 1 .. Len(o)}

Exact(name, o, old, new) ==
  /\ name = "free" => old \subseteq new \cup Covered(o)
  /\ name \in {"malloc", "large"} => old \cup Covered(o) \subseteq new /\ Distinct(o)
  /\ name \in {"trim", "header"} => old \subseteq new

LoopExact(p) == Exact(main[p].call, main[p].over, Before[p], Before[p + 1])

LEMMA AllExact == \A p \in 1 .. 16 : LoopExact(p)
<1> DEFINE O(p, name, o, dump, old, new) ==
      main[p] = Loop(name, o, dump) /\ Before[p] = old /\ Before[p + 1] = new
        /\ Exact(name, o, old, new)
<1>1. ASSUME NEW p, NEW name, NEW o, NEW dump, NEW old, NEW new, O(p, name, o, dump, old, new)
      PROVE  LoopExact(p)
  BY <1>1 DEF LoopExact, Loop
<1>2. \A i : Covered(<<i>>) = {i} /\ Distinct(<<i>>)
  <2>1. ASSUME NEW i PROVE Covered(<<i>>) = {i} /\ Distinct(<<i>>)
    <3> DEFINE s == <<i>>
    <3>1. Len(s) = 1 /\ s[1] = i
      OBVIOUS
    <3> HIDE DEF s
    <3>2. \A k : k \in 1 .. Len(s) <=> k = 1
      BY <3>1
    <3>3. Covered(s) = {i} /\ Distinct(s)
      BY <3>1, <3>2 DEF Covered, Distinct
    <3> QED BY <3>3 DEF s
  <2> QED BY <2>1
<1>3. ROUND \in Nat /\ 2 * ROUND \in Nat /\ 0 < ROUND /\ PTR # PTR2
  BY HeapConstants, Indices
<1>4. ASSUME NEW n \in Nat
      PROVE  /\ Covered(UpTo(n)) = 0 .. n - 1 /\ Covered(DownFrom(n)) = 0 .. n - 1 /\ Distinct(UpTo(n))
  <2> DEFINE u == UpTo(n)
             d == DownFrom(n)
  <2>1. /\ Len(u) = n /\ \A k \in 1 .. n : u[k] = k - 1
        /\ Len(d) = n /\ \A k \in 1 .. n : d[k] = n - k
    BY RangesAre
  <2> HIDE DEF u, d
  <2>2. \A i \in 0 .. n - 1 : /\ i + 1 \in 1 .. n /\ i = (i + 1) - 1
                              /\ n - i \in 1 .. n /\ i = n - (n - i)
    OBVIOUS
  <2>3. \A k \in 1 .. n : k - 1 \in 0 .. n - 1 /\ n - k \in 0 .. n - 1
    OBVIOUS
  <2>4. Covered(u) = 0 .. n - 1
    BY <2>1, <2>2, <2>3 DEF Covered
  <2>5. Covered(d) = 0 .. n - 1
    BY <2>1, <2>2, <2>3 DEF Covered
  <2>6. \A j, k \in 1 .. n : u[j] = u[k] => j = k
    BY <2>1
  <2>7. Distinct(u)
    BY <2>1, <2>6 DEF Distinct
  <2> QED BY <2>4, <2>5, <2>7 DEF u, d
<1>5. Many \subseteq Odds \cup Covered(Even) /\ Odds \subseteq Covered(Odd)
  <2>1. ASSUME NEW i \in Many PROVE \E k \in 1 .. ROUND : i = 2 * k - 2 \/ i = 2 * k - 1
    <3> DEFINE k == i \div 2 + 1
    <3>1. i \in Nat /\ i < 2 * ROUND
      BY <1>3, Indices DEF Many
    <3>2. k \in 1 .. ROUND /\ (i = 2 * k - 2 \/ i = 2 * k - 1)
      BY <3>1, <1>3
    <3> QED BY <3>2
  <2> DEFINE e == Even
             d == Odd
  <2>2. /\ Len(e) = ROUND /\ \A k \in 1 .. ROUND : e[k] = 2 * k - 2
        /\ Len(d) = ROUND /\ \A k \in 1 .. ROUND : d[k] = 2 * k - 1
    BY HalvesAre
  <2> HIDE DEF e, d
  <2>3. Many \subseteq Odds \cup Covered(e)
    BY <2>1, <2>2 DEF Covered, Odds
  <2>4. Odds \subseteq Covered(d)
    BY <2>2 DEF Covered, Odds
  <2> QED BY <2>3, <2>4 DEF e, d
<1>6. Covered(UpTo(ROUND)) = Few /\ Covered(DownFrom(ROUND)) = Few /\ Distinct(UpTo(ROUND))
  BY <1>3, <1>4 DEF Few
<1>7. Covered(UpTo(2 * ROUND)) = Many /\ Distinct(UpTo(2 * ROUND))
  BY <1>3, <1>4, Indices DEF Many
<1>8. Covered(<<PTR, PTR2>>) = {PTR, PTR2} /\ Distinct(<<PTR, PTR2>>)
  <2> DEFINE s == <<PTR, PTR2>>
  <2>1. Len(s) = 2 /\ s[1] = PTR /\ s[2] = PTR2
    OBVIOUS
  <2> HIDE DEF s
  <2>2. \A k : k \in 1 .. Len(s) <=> k = 1 \/ k = 2
    BY <2>1
  <2>3. Covered(s) = {PTR, PTR2} /\ Distinct(s)
    BY <2>1, <2>2, <1>3 DEF Covered, Distinct
  <2> QED BY <2>3 DEF s
<1>a1. O(1, "large", <<BOTTOM>>, "heap", {}, B)
  BY <1>2, LoopsAre, BeforeIs DEF Exact, B
<1>a2. O(2, "trim", <<0>>, "heap", B, B)
  BY LoopsAre, BeforeIs DEF Exact
<1>a3. O(3, "malloc", UpTo(ROUND), "heap", B, B \cup Few)
  BY <1>6, LoopsAre, BeforeIs DEF Exact
<1>a4. O(4, "free", DownFrom(ROUND), "heap", B \cup Few, B)
  BY <1>6, LoopsAre, BeforeIs DEF Exact
<1>a5. O(5, "malloc", UpTo(ROUND), "none", B, B \cup Few)
  BY <1>6, LoopsAre, BeforeIs DEF Exact
<1>a6. O(6, "free", UpTo(ROUND), "heap", B \cup Few, B)
  BY <1>6, LoopsAre, BeforeIs DEF Exact
<1>a7. O(7, "trim", <<0>>, "heap", B, B)
  BY LoopsAre, BeforeIs DEF Exact
<1>a8. O(8, "malloc", UpTo(2 * ROUND), "none", B, B \cup Many)
  BY <1>7, LoopsAre, BeforeIs DEF Exact
<1>a9. O(9, "malloc", <<PTR, PTR2>>, "none", B \cup Many, B \cup Many \cup {PTR, PTR2})
  BY <1>8, LoopsAre, BeforeIs DEF Exact
<1>a10. O(10, "free", <<PTR>>, "none", B \cup Many \cup {PTR, PTR2}, B \cup Many \cup {PTR2})
  BY <1>2, LoopsAre, BeforeIs DEF Exact
<1>a11. O(11, "header", <<PTR>>, "none", B \cup Many \cup {PTR2}, B \cup Many \cup {PTR2})
  BY LoopsAre, BeforeIs DEF Exact
<1>a12. O(12, "free", <<PTR2>>, "none", B \cup Many \cup {PTR2}, B \cup Many)
  BY <1>2, LoopsAre, BeforeIs DEF Exact
<1>a13. O(13, "free", Even, "list", B \cup Many, B \cup Odds)
  BY <1>5, LoopsAre, BeforeIs DEF Exact
<1>a14. O(14, "free", Odd, "list", B \cup Odds, B)
  BY <1>5, LoopsAre, BeforeIs DEF Exact
<1>a15. O(15, "malloc", UpTo(2 * ROUND), "none", B, B \cup Many)
  BY <1>7, LoopsAre, BeforeIs DEF Exact
<1>a16. O(16, "free", Even, "list", B \cup Many, B \cup Odds)
  BY <1>5, LoopsAre, BeforeIs DEF Exact
<1> HIDE DEF O
<1>21. /\ LoopExact(1) /\ LoopExact(2) /\ LoopExact(3) /\ LoopExact(4) /\ LoopExact(5)
       /\ LoopExact(6) /\ LoopExact(7) /\ LoopExact(8) /\ LoopExact(9) /\ LoopExact(10)
       /\ LoopExact(11) /\ LoopExact(12) /\ LoopExact(13) /\ LoopExact(14) /\ LoopExact(15)
       /\ LoopExact(16)
  BY <1>1, <1>a1, <1>a2, <1>a3, <1>a4, <1>a5, <1>a6, <1>a7, <1>a8, <1>a9,
     <1>a10, <1>a11, <1>a12, <1>a13, <1>a14, <1>a15, <1>a16
<1>22. \A p \in 1 .. 16 : \/ p = 1 \/ p = 2 \/ p = 3 \/ p = 4 \/ p = 5 \/ p = 6 \/ p = 7 \/ p = 8
         \/ p = 9 \/ p = 10 \/ p = 11 \/ p = 12 \/ p = 13 \/ p = 14 \/ p = 15 \/ p = 16
  OBVIOUS
<1> QED BY <1>21, <1>22

LEMMA HeldExactly ==
  ASSUME PlaceOK, part \in 1 .. 16, Advance
  PROVE  /\ Calls("free") => HeldNow \ {Index} \subseteq HeldNow'
         /\ Calls("malloc") \/ Calls("large") => HeldNow \cup {Index} \subseteq HeldNow' /\ Index \notin HeldNow
         /\ Calls("trim") \/ Calls("header") => HeldNow \subseteq HeldNow'
<1> DEFINE o == main[part].over
           old == Before[part]
           new == Before[part + 1]
           nm == main[part].call
<1>1. Len(main) = 17 /\ part \in Nat /\ ~ part > 17 /\ ~ part + 1 > 17 /\ part \in 1 .. 17
  BY LoopsAre
<1>2. Exact(nm, o, old, new) /\ Ordered(nm, o, main[part].dump, old, new)
  BY <1>1, AllExact, AllOrdered DEF LoopExact, LoopOrdered
<1>3. Turns = o /\ Index = o[turn] /\ turn \in 1 .. Len(o) /\ Len(o) \in Nat
  BY <1>1, <1>2 DEF Turns, Index, PlaceOK, Ordered
<1>4. \/ part' = part /\ turn' = turn + 1 /\ turn < Len(o)
      \/ part' = part + 1 /\ turn' = 1 /\ turn = Len(o)
  BY <1>3 DEF Advance
<1>5. nm = main[part].call /\ o = main[part].over /\ old = Before[part] /\ new = Before[part + 1]
  OBVIOUS
<1> HIDE DEF o, old, new, nm
<1>6. HeldNow = IF nm = "free" THEN old \ Done(o, turn)
                ELSE IF nm \in {"malloc", "large"} THEN old \cup Done(o, turn) ELSE old
  BY <1>1, <1>5 DEF HeldNow, Held
<1>7. Done(o, turn + 1) = Done(o, turn) \cup {o[turn]}
  <2>1. \A k : k \in 1 .. (turn + 1) - 1 <=> k \in 1 .. turn - 1 \/ k = turn
    BY <1>3
  <2> QED BY <2>1 DEF Done
<1>8. nm \in {"malloc", "large"} => Index \notin old /\ Index \notin Done(o, turn)
  <2>1. \A k \in 1 .. turn - 1 : k \in 1 .. Len(o) /\ k # turn
    BY <1>3
  <2> QED BY <2>1, <1>2, <1>3 DEF Exact, Ordered, Done, Distinct
<1>9. CASE part' = part /\ turn' = turn + 1
  <2>1. HeldNow' = IF nm = "free" THEN old \ Done(o, turn + 1)
                   ELSE IF nm \in {"malloc", "large"} THEN old \cup Done(o, turn + 1) ELSE old
    BY <1>1, <1>5, <1>9 DEF HeldNow, Held
  <2> QED BY <2>1, <1>3, <1>5, <1>6, <1>7, <1>8 DEF Calls
<1>10. CASE part' = part + 1 /\ turn' = 1 /\ turn = Len(o)
  <2>1. \A k : k \notin 1 .. 1 - 1
    OBVIOUS
  <2>2. Done(main[part + 1].over, 1) = {}
    BY <2>1 DEF Done
  <2>3. HeldNow' = new
    BY <2>2, <1>1, <1>5, <1>10 DEF HeldNow, Held
  <2>4. Covered(o) = Done(o, turn) \cup {o[turn]}
    <3>1. \A k : k \in 1 .. Len(o) <=> k \in 1 .. turn - 1 \/ k = turn
      BY <1>3, <1>10
    <3> QED BY <3>1 DEF Covered, Done
  <2> QED BY <2>3, <2>4, <1>2, <1>3, <1>5, <1>6, <1>8 DEF Calls, Exact
<1> QED BY <1>4, <1>9, <1>10

(* What a call leaves as it was.                                           *)
LEMMA EndsDiffer ==
  ASSUME TiledHeap, NEW g \in DOMAIN heap, NEW k \in DOMAIN heap, g + heap[g] = k + heap[k]
  PROVE  g = k
<1>1. /\ g \in Nat /\ k \in Nat /\ heap[g] \in Nat /\ heap[k] \in Nat /\ 0 < heap[g] /\ 0 < heap[k]
      /\ g < k => g + heap[g] <= k
      /\ k < g => k + heap[k] <= g
  BY DEF TiledHeap, Tiled
<1> QED BY <1>1

LEMMA FreeFrame ==
  ASSUME TiledHeap, NEW i, chunks[i] - 2 \in live, free(i),
         NEW g \in live, g # chunks[i] - 2
  PROVE  g \in DOMAIN heap' /\ heap'[g] = heap[g]
<1> DEFINE h == chunks[i] - 2
           f == Min(Joins(h))
           l == Max(Joins(h))
           end == l + heap[l]
           kept == [x \in DOMAIN heap \ Joins(h) |-> heap[x]]
<1>1. heap' = IF end = wild THEN kept ELSE With(kept, f, end - f)
  BY DEF free, Joins
<1>2. Spans(h, f, l)
  BY JoinsSpan
<1>3. g \in DOMAIN heap \ Joins(h) /\ g # f
  BY <1>2 DEF Spans, TiledHeap, Listed
<1>4. g \in DOMAIN kept /\ kept[g] = heap[g]
  BY <1>3
<1> HIDE DEF f, end, kept
<1> QED BY <1>1, <1>3, <1>4 DEF With

(* A chunk between two in use is joined with nothing.                      *)
LEMMA FreeAlone ==
  ASSUME TiledHeap, NEW i, NEW h \in live, h = chunks[i] - 2, free(i),
         h + heap[h] \in live, \A g \in DOMAIN heap : g + heap[g] = h => g \in live
  PROVE  /\ \A g \in DOMAIN heap : heap'[g] = heap[g]
         /\ \A k \in 1 .. Len(list') : list'[k] = h \/ \E j \in 1 .. Len(list) : list'[k] = list[j]
<1> DEFINE f == Min(Joins(h))
           l == Max(Joins(h))
           end == l + heap[l]
           kept == [x \in DOMAIN heap \ Joins(h) |-> heap[x]]
           others == RemoveFirst(RemoveFirst(list, f), l)
<1>1. /\ end = wild => heap' = kept /\ list' = others
      /\ end # wild => heap' = With(kept, f, end - f) /\ list' = <<f>> \o others
  BY DEF free, Joins
<1>2. Spans(h, f, l)
  BY JoinsSpan
<1>3. Joins(h) = {h}
  BY DEF Joins
<1>4. f = h /\ l = h
  BY <1>2, <1>3 DEF Spans
<1>5. h \in DOMAIN heap /\ h \in Nat /\ heap[h] \in Nat /\ wild \notin DOMAIN heap
      /\ h + heap[h] \in DOMAIN heap /\ list \in Seq(DOMAIN heap \ live) /\ Distinct(list)
  BY DEF TiledHeap, Tiled, Listed
<1>6. end # wild /\ end - f = heap[h]
  BY <1>4, <1>5
<1>7. heap' = With(kept, h, heap[h]) /\ list' = <<h>> \o others
  BY <1>1, <1>4, <1>6
<1>8. \A g \in DOMAIN heap : heap'[g] = heap[g]
  <2>1. DOMAIN kept = DOMAIN heap \ {h} /\ \A g \in DOMAIN kept : kept[g] = heap[g]
    BY <1>3
  <2> HIDE DEF kept
  <2> QED BY <2>1, <1>7 DEF With
<1> DEFINE once == RemoveFirst(list, f)
<1>9. /\ once \in Seq(DOMAIN heap \ live) /\ Distinct(once)
      /\ \A k \in 1 .. Len(once) : \E j \in 1 .. Len(list) : once[k] = list[j]
  BY <1>5, RemovedIs
<1>10. others = RemoveFirst(once, l)
  OBVIOUS
<1> HIDE DEF once
<1>11. /\ others \in Seq(DOMAIN heap \ live)
       /\ \A k \in 1 .. Len(others) : \E j \in 1 .. Len(once) : others[k] = once[j]
  BY <1>9, <1>10, RemovedIs
<1> HIDE DEF others, kept, f, l, end
<1>12. others \in Seq(DOMAIN heap)
  BY <1>11
<1> DEFINE first == <<h>>
<1>13. first \in Seq(DOMAIN heap) /\ Len(first) = 1 /\ first[1] = h
  BY <1>5
<1> HIDE DEF first
<1>14. Len(first \o others) = 1 + Len(others) /\ Len(others) \in Nat
       /\ \A k \in 1 .. 1 + Len(others) : (first \o others)[k] = IF k <= 1 THEN first[k] ELSE others[k - 1]
  <2>1. /\ Len(first \o others) = Len(first) + Len(others)
        /\ \A k \in 1 .. Len(first) + Len(others) :
             (first \o others)[k] = IF k <= Len(first) THEN first[k] ELSE others[k - Len(first)]
    BY <1>12, <1>13, ConcatProperties
  <2>2. Len(others) \in Nat
    BY <1>12
  <2> QED BY <2>1, <2>2, <1>13
<1>15. list' = first \o others
  BY <1>7 DEF first
<1>16. ASSUME NEW k \in 1 .. Len(list')
       PROVE  list'[k] = h \/ \E j \in 1 .. Len(list) : list'[k] = list[j]
  <2>1. k \in 1 .. 1 + Len(others)
    BY <1>14, <1>15
  <2>2. CASE k <= 1
    <3>1. k = 1
      BY <2>1, <2>2, <1>14
    <3>2. list'[1] = first[1]
      BY <3>1, <2>1, <2>2, <1>14, <1>15
    <3> QED BY <3>1, <3>2, <1>13
  <2>3. CASE ~ k <= 1
    <3>1. k - 1 \in 1 .. Len(others)
      BY <2>1, <2>3, <1>14
    <3>2. list'[k] = others[k - 1]
      BY <2>1, <2>3, <1>14, <1>15
    <3> QED BY <3>1, <3>2, <1>9, <1>11
  <2> QED BY <2>2, <2>3
<1> QED BY <1>8, <1>16

(* The inductive part of NothingFits: what is in use is what main holds,   *)
(* and small but for the first; a loop that asks has emptied the list; in  *)
(* the end the small chunks lie in a row, so the loop that frees every     *)
(* other one of them joins none.                                           *)
LiveHeld == part \in 1 .. 17 => \A h \in live : \E i \in HeldNow : chunks[i] = h + 2

SizesOK == \A i \in HeldNow : i # BOTTOM => heap[chunks[i] - 2] = SMALL

EmptyOK == part = 1 \/ (part \in 1 .. 17 /\ turn > 1 /\ Calls("malloc")) => list = <<>>

Row(n) == \A i \in 0 .. n - 1 : chunks[i] - 2 = IF i = 0 THEN heap[0] ELSE chunks[i - 1] - 2 + SMALL

Singles == \A k \in 1 .. Len(list) : heap[list[k]] = SMALL

RowOK ==
  /\ part = 15 => Row(turn - 1) /\ (turn > 1 => chunks[turn - 2] - 2 + SMALL = wild)
  /\ part = 16 => Row(2 * ROUND)
  /\ part \in {16, 17} => Singles

ServedInv == LiveHeld /\ SizesOK /\ EmptyOK /\ RowOK

(* With only the first chunk in use there is no other.                     *)
LEMMA BottomAlone ==
  ASSUME TiledHeap, HeldOK, LiveHeld, part \in 1 .. 17, HeldNow = B
  PROVE  list = <<>> /\ 0 \in DOMAIN heap /\ wild = heap[0]
<1>1. BOTTOM \in HeldNow
  BY DEF B
<1>2. chunks[BOTTOM] = 2 /\ 2 - 2 \in live
  BY <1>1 DEF HeldOK
<1>3. /\ live \subseteq DOMAIN heap /\ list \in Seq(DOMAIN heap \ live)
      /\ \A h \in DOMAIN heap : h \in Nat /\ heap[h] \in Nat /\ 0 < heap[h] /\ h + heap[h] <= wild
      /\ \A h \in DOMAIN heap : h + heap[h] \in DOMAIN heap \cup {wild}
      /\ \A h, g \in DOMAIN heap : h < g => h + heap[h] <= g
      /\ wild \in Nat /\ wild \notin DOMAIN heap
  BY DEF TiledHeap, Tiled, Listed, AllChunks
<1>u. \A h \in DOMAIN heap : h + heap[h] \notin live => h \in live
  BY DEF TiledHeap, Unmerged
<1>4. 0 \in live /\ 0 \in DOMAIN heap
  BY <1>2, <1>3
<1>5. \A h \in live : h = 0
  <2>1. ASSUME NEW h \in live PROVE h = 0
    <3>1. h + 2 = 2
      BY <1>2 DEF LiveHeld, B
    <3>2. h \in Nat
      BY <1>3
    <3> QED BY <3>1, <3>2
  <2> QED BY <2>1
<1>6. \A h \in DOMAIN heap : h = 0
  <2>1. ASSUME NEW h \in DOMAIN heap PROVE h = 0
    <3>1. h + heap[h] # 0
      BY <1>3
    <3>2. h + heap[h] \notin live
      BY <3>1, <1>5
    <3>3. h \in live
      BY <3>2, <1>u
    <3> QED BY <3>3, <1>5
  <2> QED BY <2>1
<1>7. wild = heap[0]
  <2>1. 0 + heap[0] # 0 /\ 0 + heap[0] = heap[0]
    BY <1>3, <1>4
  <2> QED BY <2>1, <1>3, <1>4, <1>6
<1>8. list = <<>>
  <2>1. DOMAIN heap \ live = {}
    BY <1>4, <1>6
  <2>2. list \in Seq({})
    BY <2>1, <1>3
  <2> QED BY <2>2
<1> QED BY <1>4, <1>7, <1>8

LEMMA LoopKinds ==
  ASSUME part \in 1 .. 17
  PROVE  /\ Calls("large")  => part \in {1, 17}
         /\ Calls("malloc") => part \in {3, 5, 8, 9, 15}
         /\ Calls("free")   => part \in {4, 6, 10, 12, 13, 14, 16}
         /\ Calls("trim") \/ Calls("header") => part \in {2, 7, 11}
         /\ part = 15 => Calls("malloc") /\ ~ Calls("large") /\ Turns = UpTo(2 * ROUND)
         /\ part = 16 => Turns = Even
         /\ part = 17 => Turns = <<PTR>> /\ ~ Calls("malloc")
         /\ part \in {3, 5, 8, 15} => Before[part] = B
<1> USE DEF Calls, Turns, Loop
<1>1. part = 1 \/ part = 2 \/ part = 3 \/ part = 4 \/ part = 5 \/ part = 6 \/ part = 7 \/ part = 8 \/ part = 9
      \/ part = 10 \/ part = 11 \/ part = 12 \/ part = 13 \/ part = 14 \/ part = 15 \/ part = 16 \/ part = 17
  OBVIOUS
<1>2. CASE part \in {1, 2, 3, 4, 5, 6}
  BY <1>2, LoopsAre, BeforeIs
<1>3. CASE part \in {7, 8, 9, 10, 11, 12}
  BY <1>3, LoopsAre, BeforeIs
<1>4. CASE part \in {13, 14, 15, 16, 17}
  BY <1>4, LoopsAre, BeforeIs
<1> QED BY <1>1, <1>2, <1>3, <1>4

LEMMA LastIsLast ==
  ASSUME PlaceOK, Advance, part = 17
  PROVE  part' = 18 /\ HeldNow' = {}
<1>1. Turns = <<PTR>> /\ Len(main) = 17
  BY LoopKinds, LoopsAre
<1>2. Len(Turns) = 1
  BY <1>1
<1>3. turn = 1
  <2>1. turn \in Nat /\ 0 < turn /\ turn <= Len(Turns)
    BY DEF PlaceOK
  <2> QED BY <2>1, <1>2
<1>4. part' = 18
  BY <1>2, <1>3 DEF Advance
<1>5. 18 > Len(main)
  BY <1>1
<1> QED BY <1>4, <1>5 DEF HeldNow, Held

(* The chunks of the fifteenth loop lie in a row behind the first.         *)
LEMMA RowGrows ==
  ASSUME MainInv, ServedInv, part = 15, Advance, malloc(Index, SMALL)
  PROVE  /\ \A i \in 0 .. turn - 1 :
              chunks'[i] - 2 = IF i = 0 THEN heap'[0] ELSE chunks'[i - 1] - 2 + SMALL
         /\ chunks'[turn - 1] - 2 + SMALL = wild'
<1>0. /\ TiledHeap /\ PlaceOK /\ HeldOK /\ LiveHeld /\ RowOK
      /\ part \in 1 .. 17 /\ part \in 1 .. 16 /\ part \in Nat
  BY DEF MainInv, ServedInv
<1> DEFINE o == UpTo(2 * ROUND)
<1>1. Turns = o /\ Calls("malloc") /\ Before[15] = B /\ ROUND \in Nat
  BY <1>0, LoopKinds, HeapConstants
<1>2. Len(o) = 2 * ROUND /\ \A k \in 1 .. 2 * ROUND : o[k] = k - 1
  <2>1. 2 * ROUND \in Nat
    BY HeapConstants
  <2> QED BY <2>1, RangesAre
<1> HIDE DEF o
<1>3. turn \in Nat /\ 0 < turn /\ turn <= 2 * ROUND /\ turn \in 1 .. 2 * ROUND
  BY <1>0, <1>1, <1>2 DEF PlaceOK
<1>4. Index = turn - 1
  BY <1>1, <1>2, <1>3 DEF Index
<1>5. HeldNow = B \cup Done(o, turn)
  BY <1>0, <1>1, LoopsAre DEF HeldNow, Held, Calls, Turns
<1>6. \A i \in 0 .. turn - 2 : i \in HeldNow
  <2>1. ASSUME NEW i \in 0 .. turn - 2 PROVE i \in HeldNow
    <3>1. i + 1 \in 1 .. turn - 1 /\ i + 1 \in 1 .. 2 * ROUND /\ (i + 1) - 1 = i
      BY <1>1, <1>3
    <3>2. o[i + 1] = i
      BY <3>1, <1>2
    <3> QED BY <3>1, <3>2, <1>5 DEF Done
  <2> QED BY <2>1
<1>7. /\ chunks' = With(chunks, Index, Mem(wild)) /\ wild' = wild + SMALL /\ wild \in Nat /\ SMALL \in Nat
      /\ \A h \in DOMAIN heap : heap'[h] = heap[h]
  BY <1>0, HeapConstants, MallocTiles DEF TiledHeap, Tiled
<1>8. chunks'[turn - 1] = wild + 2 /\ \A i \in 0 .. turn - 2 : chunks'[i] = chunks[i]
  <2>1. \A i \in 0 .. turn - 2 : i \in DOMAIN chunks /\ i # turn - 1
    BY <1>0, <1>3, <1>6 DEF HeldOK
  <2> QED BY <2>1, <1>4, <1>7 DEF With, Mem
<1>9. 0 \in DOMAIN heap
  <2>1. BOTTOM \in HeldNow
    BY <1>5 DEF B
  <2>2. 2 - 2 \in live
    BY <2>1, <1>0 DEF HeldOK
  <2> QED BY <2>2, <1>0 DEF TiledHeap, Listed
<1>10. chunks'[turn - 1] - 2 = wild
  BY <1>7, <1>8
<1>11. turn = 1 => wild = heap[0]
  <2>1. \A k : k \notin 1 .. 1 - 1
    OBVIOUS
  <2>2. turn = 1 => HeldNow = B
    BY <2>1, <1>5 DEF Done
  <2> QED BY <2>2, <1>0, BottomAlone
<1>12. ASSUME NEW i \in 0 .. turn - 1
       PROVE  chunks'[i] - 2 = IF i = 0 THEN heap'[0] ELSE chunks'[i - 1] - 2 + SMALL
  <2>1. CASE i = turn - 1 /\ turn = 1
    BY <2>1, <1>3, <1>7, <1>9, <1>10, <1>11
  <2>2. CASE i = turn - 1 /\ turn # 1
    <3>1. turn > 1 /\ i # 0 /\ i - 1 = turn - 2 /\ turn - 2 \in 0 .. turn - 2
      BY <2>2, <1>3
    <3>2. chunks[turn - 2] - 2 + SMALL = wild
      BY <3>1, <1>0 DEF RowOK
    <3>3. chunks'[i - 1] = chunks[turn - 2]
      BY <3>1, <1>8
    <3> QED BY <2>2, <3>1, <3>2, <3>3, <1>10
  <2>3. CASE i # turn - 1
    <3>1. i \in 0 .. turn - 2 /\ i \in 0 .. (turn - 1) - 1 /\ (i # 0 => i - 1 \in 0 .. turn - 2)
      BY <2>3, <1>3
    <3>2. chunks[i] - 2 = IF i = 0 THEN heap[0] ELSE chunks[i - 1] - 2 + SMALL
      BY <3>1, <1>0 DEF RowOK, Row
    <3> QED BY <3>1, <3>2, <1>7, <1>8, <1>9
  <2> QED BY <2>1, <2>2, <2>3
<1> QED BY <1>7, <1>10, <1>12

LEMMA MallocServes ==
  ASSUME MainInv, ServedInv, part <= Len(main), Advance, NEW n \in Nat, MINSIZE <= n,
         (Calls("malloc") /\ n = SMALL) \/ Calls("large"), malloc(Index, n)
  PROVE  ServedInv'
<1>0. TiledHeap /\ PlaceOK /\ HeldOK /\ LiveHeld /\ SizesOK /\ RowOK
  BY DEF MainInv, ServedInv
<1>1. /\ list' = <<>> /\ heap'[wild] = n /\ live' = live \cup {wild} /\ wild \notin DOMAIN heap
      /\ chunks' = With(chunks, Index, Mem(wild))
      /\ \A h \in DOMAIN heap : h \in DOMAIN heap' /\ heap'[h] = heap[h]
  BY <1>0, MallocTiles
<1>2. /\ part \in 1 .. 17 /\ HeldNow' \subseteq HeldNow \cup {Index}
      /\ \/ part' = part /\ turn' = turn + 1 /\ turn < Len(Turns)
         \/ part' = part + 1 /\ turn' = 1 /\ turn = Len(Turns)
  BY <1>0, Advances
<1>3. /\ chunks'[Index] = wild + 2 /\ wild \in Nat /\ live \subseteq DOMAIN heap
      /\ \A i \in DOMAIN chunks : i # Index => chunks'[i] = chunks[i]
  BY <1>0, <1>1 DEF With, Mem, TiledHeap, Tiled, Listed
<1>4. part # 17 => part \in 1 .. 16 /\ HeldNow \cup {Index} \subseteq HeldNow' /\ Index \notin HeldNow
  <2>1. part # 17 => part \in 1 .. 16
    BY <1>2
  <2> QED BY <2>1, <1>0, HeldExactly
<1>5. part = 17 => part' = 18 /\ HeldNow' = {}
  BY <1>0, LastIsLast
<1>6. part # 17 => n = SMALL \/ Index = BOTTOM
  BY <1>0, <1>2, LoopKinds, MallocNotHeld
<1>7. SizesOK'
  <2> SUFFICES ASSUME NEW i \in HeldNow', i # BOTTOM' PROVE heap'[chunks'[i] - 2] = SMALL
    BY DEF SizesOK
  <2>1. part # 17 /\ BOTTOM' = BOTTOM
    BY <1>5 DEF BOTTOM, PTR
  <2>2. CASE i = Index
    <3>1. chunks'[i] - 2 = wild
      BY <2>2, <1>3
    <3> QED BY <3>1, <2>1, <2>2, <1>1, <1>6
  <2>3. CASE i # Index
    <3>1. i \in HeldNow /\ chunks'[i] = chunks[i] /\ chunks[i] - 2 \in DOMAIN heap
      BY <2>3, <1>0, <1>2, <1>3 DEF HeldOK
    <3> QED BY <3>1, <2>1, <1>0, <1>1 DEF SizesOK
  <2> QED BY <2>2, <2>3
<1>8. LiveHeld'
  <2> SUFFICES ASSUME part' \in 1 .. 17, NEW h \in live' PROVE \E i \in HeldNow' : chunks'[i] = h + 2
    BY DEF LiveHeld
  <2>1. part # 17
    BY <1>5
  <2>2. CASE h = wild
    BY <2>1, <2>2, <1>3, <1>4
  <2>3. CASE h # wild
    <3>1. PICK i \in HeldNow : chunks[i] = h + 2
      BY <2>3, <1>0, <1>1, <1>2 DEF LiveHeld
    <3>2. i # Index /\ chunks'[i] = chunks[i] /\ i \in HeldNow'
      BY <2>1, <1>0, <1>3, <1>4 DEF HeldOK
    <3> QED BY <3>1, <3>2
  <2> QED BY <2>2, <2>3
<1>9. EmptyOK'
  BY <1>1 DEF EmptyOK
<1>10. RowOK'
  <2>1. part' \in {15, 16, 17} => part = 15
    <3>1. part \in {1, 17, 3, 5, 8, 9, 15}
      BY <1>2, LoopKinds
    <3> QED BY <3>1, <1>2, <1>5
  <2>2. Singles'
    BY <1>1 DEF Singles
  <2>3. ASSUME part = 15
        PROVE  RowOK'
    <3>1. Turns = UpTo(2 * ROUND) /\ n = SMALL /\ Len(Turns) = 2 * ROUND /\ turn \in Nat /\ ROUND \in Nat
      <4>1. Turns = UpTo(2 * ROUND) /\ ~ Calls("large")
        BY <2>3, <1>2, LoopKinds
      <4>2. 2 * ROUND \in Nat /\ ROUND \in Nat
        BY HeapConstants
      <4> QED BY <4>1, <4>2, <1>0, RangesAre DEF PlaceOK
    <3>2. /\ \A i \in 0 .. turn - 1 :
               chunks'[i] - 2 = IF i = 0 THEN heap'[0] ELSE chunks'[i - 1] - 2 + SMALL
          /\ chunks'[turn - 1] - 2 + SMALL = wild'
      BY <2>3, <3>1, RowGrows
    <3>3. CASE part' = part /\ turn' = turn + 1
      <4>1. turn' - 1 = turn /\ turn' - 2 = turn - 1
        BY <3>1, <3>3
      <4>2. Row(turn - 1)'
        BY <3>2, <4>1 DEF Row
      <4> QED BY <4>1, <4>2, <3>2, <3>3, <2>3 DEF RowOK
    <3>4. CASE part' = part + 1 /\ turn = Len(Turns)
      <4>1. turn = 2 * ROUND
        BY <3>1, <3>4
      <4>2. Row(2 * ROUND)'
        BY <3>2, <4>1 DEF Row
      <4> QED BY <4>2, <3>4, <2>2, <2>3 DEF RowOK
    <3> QED BY <3>3, <3>4, <1>2
  <2> QED BY <2>1, <2>3 DEF RowOK
<1> QED BY <1>7, <1>8, <1>9, <1>10 DEF ServedInv

(* What the sixteenth loop frees lies between two chunks in use.           *)
LEMMA EvenLiesAlone ==
  ASSUME MainInv, ServedInv, part = 16, NEW h, h = chunks[Index] - 2
  PROVE  /\ h \in live /\ heap[h] = SMALL /\ h + heap[h] \in live /\ 0 \in DOMAIN heap
         /\ \A g \in DOMAIN heap : g + heap[g] = h => g \in live
<1>0. /\ TiledHeap /\ PlaceOK /\ HeldOK /\ SizesOK /\ RowOK
      /\ part \in 1 .. 17 /\ SMALL \in Nat /\ ROUND \in Nat
  BY HeapConstants DEF MainInv, ServedInv
<1> DEFINE o == Even
<1>1. Turns = o /\ Before[16] = B \cup Many
  BY <1>0, LoopKinds, BeforeIs
<1>2. Len(o) = ROUND /\ \A k \in 1 .. ROUND : o[k] = 2 * k - 2
  BY HalvesAre
<1> HIDE DEF o
<1>3. turn \in 1 .. ROUND /\ Index = 2 * turn - 2
  <2>1. turn \in Nat /\ 0 < turn /\ turn <= ROUND
    BY <1>0, <1>1, <1>2 DEF PlaceOK
  <2>2. turn \in 1 .. ROUND
    BY <2>1, <1>0
  <2> QED BY <2>2, <1>1, <1>2 DEF Index
<1>4. HeldNow = (B \cup Many) \ Done(o, turn)
  BY <1>1, LoopsAre DEF HeldNow, Held, Turns, Loop
<1>5. \A k \in 1 .. turn - 1 : k \in 1 .. ROUND /\ k \in Int
  BY <1>0, <1>3
<1>6. Index \in HeldNow /\ Index # BOTTOM
  <2>1. Index \in Many /\ Index # BOTTOM
    BY <1>0, <1>3, Indices DEF Many
  <2>2. \A k \in 1 .. turn - 1 : 2 * k - 2 # 2 * turn - 2
    BY <1>0, <1>3, <1>5
  <2> QED BY <2>1, <2>2, <1>2, <1>3, <1>4, <1>5 DEF Done
<1>7. BOTTOM \in HeldNow
  <2>1. \A k \in 1 .. ROUND : 2 * k - 2 # BOTTOM
    BY <1>0, Indices
  <2> QED BY <2>1, <1>2, <1>4, <1>5 DEF Done, B
<1>8. ASSUME NEW i \in Many, \A k \in 1 .. ROUND : 2 * k - 2 # i
      PROVE  i \in HeldNow /\ i # BOTTOM
  <2>1. i # BOTTOM
    BY <1>0, Indices DEF Many
  <2> QED BY <2>1, <1>2, <1>4, <1>5, <1>8 DEF Done
<1>9. ASSUME NEW i \in HeldNow, i # BOTTOM
      PROVE  chunks[i] - 2 \in live /\ chunks[i] - 2 \in DOMAIN heap /\ heap[chunks[i] - 2] = SMALL
  BY <1>9, <1>0 DEF HeldOK, SizesOK, TiledHeap, Listed
<1>10. h \in live /\ h \in DOMAIN heap /\ heap[h] = SMALL
  BY <1>6, <1>9
<1>11. \A i \in 0 .. 2 * ROUND - 1 : chunks[i] - 2 = IF i = 0 THEN heap[0] ELSE chunks[i - 1] - 2 + SMALL
  BY <1>0 DEF RowOK, Row
<1>12. h + heap[h] \in live
  <2> DEFINE i == 2 * turn - 1
  <2>1. i \in Many /\ i \in 0 .. 2 * ROUND - 1 /\ i # 0 /\ i - 1 = Index
    BY <1>0, <1>3, Indices DEF Many
  <2>2. \A k \in 1 .. ROUND : 2 * k - 2 # i
    BY <1>0, <1>3
  <2> HIDE DEF i
  <2>3. i \in HeldNow /\ i # BOTTOM
    BY <2>1, <2>2, <1>8
  <2>4. chunks[i] - 2 \in live
    BY <2>3, <1>9
  <2>5. chunks[i] - 2 = chunks[Index] - 2 + SMALL
    BY <2>1, <1>11
  <2> QED BY <2>4, <2>5, <1>10
<1>13. \E p \in live : p \in DOMAIN heap /\ p + heap[p] = h
  <2>1. CASE turn = 1
    <3>1. Index = 0 /\ 0 \in 0 .. 2 * ROUND - 1
      BY <2>1, <1>0, <1>3
    <3>2. h = heap[0]
      BY <3>1, <1>11
    <3>3. 2 - 2 \in live
      BY <1>0, <1>7 DEF HeldOK
    <3>4. 0 \in live /\ 0 \in DOMAIN heap /\ heap[0] \in Nat
      BY <3>3, <1>0 DEF TiledHeap, Tiled, Listed
    <3> QED BY <3>2, <3>4
  <2>2. CASE turn # 1
    <3> DEFINE i == 2 * turn - 3
    <3>1. i \in Many /\ Index \in 0 .. 2 * ROUND - 1 /\ Index # 0 /\ Index - 1 = i
      BY <2>2, <1>0, <1>3, Indices DEF Many
    <3>2. \A k \in 1 .. ROUND : 2 * k - 2 # i
      BY <1>0, <1>3
    <3> HIDE DEF i
    <3>3. i \in HeldNow /\ i # BOTTOM
      BY <3>1, <3>2, <1>8
    <3>4. chunks[i] - 2 \in live /\ chunks[i] - 2 \in DOMAIN heap /\ heap[chunks[i] - 2] = SMALL
      BY <3>3, <1>9
    <3>5. h = chunks[i] - 2 + SMALL
      BY <3>1, <1>11
    <3> QED BY <3>4, <3>5
  <2> QED BY <2>1, <2>2
<1>14. ASSUME NEW g \in DOMAIN heap, g + heap[g] = h PROVE g \in live
  <2>1. PICK p \in live : p \in DOMAIN heap /\ p + heap[p] = h
    BY <1>13
  <2>2. g = p
    BY <2>1, <1>0, <1>14, EndsDiffer
  <2> QED BY <2>1, <2>2
<1>15. 0 \in DOMAIN heap
  <2>1. 2 - 2 \in live
    BY <1>0, <1>7 DEF HeldOK
  <2> QED BY <2>1, <1>0 DEF TiledHeap, Listed
<1> QED BY <1>10, <1>12, <1>14, <1>15

LEMMA FreeServes ==
  ASSUME MainInv, ServedInv, part <= Len(main), Advance, Calls("free"), free(Index)
  PROVE  ServedInv'
<1>0. TiledHeap /\ PlaceOK /\ HeldOK /\ LiveHeld /\ SizesOK /\ RowOK
  BY DEF MainInv, ServedInv
<1>1. /\ part \in 1 .. 17 /\ Index \in HeldNow /\ HeldNow' \subseteq HeldNow \ {Index}
      /\ \/ part' = part /\ turn' = turn + 1 /\ turn < Len(Turns)
         \/ part' = part + 1 /\ turn' = 1 /\ turn = Len(Turns)
  BY <1>0, Advances
<1>2. part \in {4, 6, 10, 12, 13, 14, 16} /\ part \in 1 .. 16
  BY <1>1, LoopKinds
<1>3. HeldNow \ {Index} \subseteq HeldNow'
  BY <1>0, <1>2, HeldExactly
<1>4. chunks[Index] \in Int /\ chunks[Index] - 2 \in live
  BY <1>0, <1>1 DEF HeldOK
<1> DEFINE h == chunks[Index] - 2
<1>5. live' = live \ {h} /\ chunks' = chunks
  BY <1>0, <1>4, FreeTiles
<1>6. \A g \in live : g # h => heap'[g] = heap[g]
  BY <1>0, <1>4, FreeFrame
<1>7. LiveHeld'
  <2> SUFFICES ASSUME NEW g \in live' PROVE \E i \in HeldNow' : chunks'[i] = g + 2
    BY DEF LiveHeld
  <2>1. PICK i \in HeldNow : chunks[i] = g + 2
    BY <1>0, <1>1, <1>5 DEF LiveHeld
  <2>2. g \in Nat /\ g # h
    BY <1>0, <1>5 DEF TiledHeap, Tiled, Listed
  <2>3. i # Index
    BY <2>1, <2>2
  <2> QED BY <2>1, <2>3, <1>3, <1>5
<1>8. SizesOK'
  <2> SUFFICES ASSUME NEW i \in HeldNow', i # BOTTOM' PROVE heap'[chunks'[i] - 2] = SMALL
    BY DEF SizesOK
  <2>1. i \in HeldNow /\ i # Index /\ i # BOTTOM /\ chunks[i] \in Int /\ chunks[i] - 2 \in live
        /\ chunks[i] # chunks[Index]
    BY <1>0, <1>1 DEF HeldOK, BOTTOM, PTR
  <2>2. chunks[i] - 2 # h
    BY <2>1, <1>4
  <2> QED BY <2>1, <2>2, <1>0, <1>5, <1>6 DEF SizesOK
<1>9. EmptyOK'
  <2>1. part' # 1
    BY <1>1, <1>2
  <2>2. turn' > 1 => part' = part
    BY <1>1
  <2>3. part \notin {3, 5, 8, 9, 15}
    BY <1>2
  <2>4. part' = part => ~ Calls("malloc")'
    BY <2>3, LoopKinds, <1>1 DEF Calls
  <2> QED BY <2>1, <2>2, <2>4 DEF EmptyOK
<1>10. RowOK'
  <2>1. (part' = 15 => turn' = 1) /\ (part' \in {16, 17} => part = 16)
    BY <1>1, <1>2
  <2>2. part' = 15 => Row(turn - 1)'
    <3>1. \A i : i \notin 0 .. (1 - 1) - 1
      OBVIOUS
    <3> QED BY <3>1, <2>1 DEF Row
  <2>3. ASSUME part = 16 PROVE Row(2 * ROUND)' /\ Singles'
    <3>1. /\ h \in live /\ heap[h] = SMALL /\ h + heap[h] \in live /\ 0 \in DOMAIN heap
          /\ \A g \in DOMAIN heap : g + heap[g] = h => g \in live
      BY <2>3, EvenLiesAlone DEF ServedInv
    <3>2. h = chunks[Index] - 2
      OBVIOUS
    <3> HIDE DEF h
    <3>3. /\ \A g \in DOMAIN heap : heap'[g] = heap[g]
          /\ \A k \in 1 .. Len(list') : list'[k] = h \/ \E j \in 1 .. Len(list) : list'[k] = list[j]
      BY <3>1, <3>2, <1>0, FreeAlone
    <3>4. Row(2 * ROUND) /\ Singles
      BY <2>3, <1>0 DEF RowOK
    <3>5. heap'[0] = heap[0]
      BY <3>1, <3>3
    <3>6. Row(2 * ROUND)'
      BY <3>4, <3>5, <1>5 DEF Row
    <3>7. Singles'
      <4>1. \A j \in 1 .. Len(list) : list[j] \in DOMAIN heap
        BY <1>0 DEF TiledHeap, Listed
      <4>2. h \in DOMAIN heap
        BY <3>1, <1>0 DEF TiledHeap, Listed
      <4> QED BY <4>1, <4>2, <3>1, <3>3, <3>4 DEF Singles
    <3> QED BY <3>6, <3>7
  <2> QED BY <2>1, <2>2, <2>3, <1>2 DEF RowOK
<1> QED BY <1>7, <1>8, <1>9, <1>10 DEF ServedInv

LEMMA OthersServe ==
  ASSUME MainInv, ServedInv, part <= Len(main), Advance, Calls("trim") \/ Calls("header"),
         UNCHANGED <<heap, live, list, wild, chunks>>
  PROVE  ServedInv'
<1>0. PlaceOK /\ LiveHeld /\ SizesOK
  BY DEF MainInv, ServedInv
<1>1. /\ part \in 1 .. 17 /\ HeldNow' \subseteq HeldNow
      /\ \/ part' = part /\ turn' = turn + 1 /\ turn < Len(Turns)
         \/ part' = part + 1 /\ turn' = 1 /\ turn = Len(Turns)
  BY <1>0, Advances
<1>2. part \in {2, 7, 11} /\ part \in 1 .. 16
  BY <1>1, LoopKinds
<1>3. HeldNow \subseteq HeldNow'
  BY <1>0, <1>2, HeldExactly
<1>4. LiveHeld' /\ SizesOK'
  BY <1>0, <1>1, <1>3 DEF LiveHeld, SizesOK, BOTTOM, PTR
<1>5. EmptyOK'
  <2>1. part' # 1 /\ (turn' > 1 => part' = part)
    BY <1>1, <1>2
  <2>2. part' = part => ~ Calls("malloc")'
    <3>1. ~ Calls("malloc")
      BY <1>1, <1>2, LoopKinds
    <3> QED BY <3>1 DEF Calls
  <2> QED BY <2>1, <2>2 DEF EmptyOK
<1>6. RowOK'
  <2>1. part' \notin {15, 16, 17}
    BY <1>1, <1>2
  <2> QED BY <2>1 DEF RowOK
<1> QED BY <1>4, <1>5, <1>6 DEF ServedInv

LEMMA CallKeepsServed ==
  ASSUME MainInv, ServedInv, Call
  PROVE  ServedInv'
<1>1. part <= Len(main) /\ Advance
  BY DEF Call
<1>2. CASE Calls("malloc") /\ malloc(Index, SMALL)
  BY <1>1, <1>2, HeapConstants, MallocServes
<1>3. CASE Calls("large") /\ malloc(Index, LARGE)
  <2>1. LARGE \in Nat /\ MINSIZE <= LARGE
    BY HeapConstants
  <2> QED BY <2>1, <1>1, <1>3, MallocServes
<1>4. CASE Calls("free") /\ free(Index)
  BY <1>1, <1>4, FreeServes
<1>5. CASE Calls("trim") /\ malloc_trim
  BY <1>1, <1>5, OthersServe DEF malloc_trim
<1>6. CASE Calls("header") /\ UNCHANGED <<heapState, chunks>>
  BY <1>1, <1>6, OthersServe DEF heapState
<1> QED BY <1>2, <1>3, <1>4, <1>5, <1>6 DEF Call

LEMMA ServedFits == MainInv /\ ServedInv => NothingFits
<1> SUFFICES ASSUME MainInv, ServedInv, part <= Len(main)
             PROVE  /\ Calls("malloc") => \A k \in 1 .. Len(list) : heap[list[k]] < SMALL
                    /\ Calls("large")  => \A k \in 1 .. Len(list) : heap[list[k]] < LARGE
  BY DEF NothingFits
<1>0. /\ TiledHeap /\ PlaceOK /\ HeldOK /\ FindOK /\ LiveHeld /\ EmptyOK /\ RowOK
      /\ part \in 1 .. 17 /\ turn \in Nat /\ 0 < turn
  BY LoopsAre DEF MainInv, ServedInv, PlaceOK
<1>1. list = <<>> => \A k : k \notin 1 .. Len(list)
  OBVIOUS
<1>2. ASSUME Calls("malloc") PROVE list = <<>>
  <2>1. part \in {3, 5, 8, 9, 15}
    BY <1>0, <1>2, LoopKinds
  <2>2. CASE turn > 1
    BY <2>2, <1>0, <1>2 DEF EmptyOK
  <2>3. CASE turn = 1 /\ part # 9
    <3>1. \A k : k \notin 1 .. 1 - 1
      OBVIOUS
    <3>2. Done(main[part].over, turn) = {}
      BY <3>1, <2>3 DEF Done
    <3>3. Before[part] = B /\ ~ part > Len(main)
      BY <2>1, <2>3, <1>0, LoopKinds, LoopsAre
    <3>4. HeldNow = B
      BY <3>2, <3>3, <1>2 DEF HeldNow, Held, Calls
    <3> QED BY <3>4, <1>0, BottomAlone
  <2>4. CASE part = 9
    BY <2>4, <1>0 DEF FindOK
  <2>5. turn > 1 \/ turn = 1
    BY <1>0
  <2> QED BY <2>2, <2>3, <2>4, <2>5
<1>3. ASSUME Calls("large") PROVE \A k \in 1 .. Len(list) : heap[list[k]] < LARGE
  <2>1. part = 1 \/ part = 17
    BY <1>0, <1>3, LoopKinds
  <2>2. CASE part = 1
    BY <2>2, <1>0, <1>1 DEF EmptyOK
  <2>3. CASE part = 17
    BY <2>3, <1>0, HeapConstants DEF RowOK, Singles
  <2> QED BY <2>1, <2>2, <2>3
<1> QED BY <1>1, <1>2, <1>3

(* Whenever main asks for memory, nothing on the list is as large: the     *)
(* library hands no freed chunk out again, for every size and every number *)
(* of chunks.                                                              *)
THEOREM MainReusesNothing == HeapSpec => []NothingFits
<1> DEFINE Inv == HeapInv /\ ServedInv
<1>1. HeapInit => Inv
  <2> SUFFICES ASSUME HeapInit PROVE Inv
    OBVIOUS
  <2>1. HeapInv
    BY HeapBegins
  <2>2. live = {} /\ list = <<>> /\ part = 1 /\ turn = 1
    BY DEF HeapInit
  <2>3. HeldNow = {}
    <3>1. \A k : k \notin 1 .. 1 - 1
      OBVIOUS
    <3>2. Done(main[1].over, 1) = {}
      BY <3>1 DEF Done
    <3> QED BY <3>2, <2>2, LoopsAre, BeforeIs DEF HeldNow, Held
  <2>4. ServedInv
    BY <2>2, <2>3 DEF ServedInv, LiveHeld, SizesOK, EmptyOK, RowOK
  <2> QED BY <2>1, <2>4
<1>2. Inv /\ [HeapNext]_heapVars => Inv'
  <2> SUFFICES ASSUME Inv, [HeapNext]_heapVars PROVE Inv'
    OBVIOUS
  <2>1. HeapInv'
    BY HeapSteps
  <2>2. MainInv /\ ServedInv
    BY DEF HeapInv
  <2>3. CASE Call
    BY <2>1, <2>2, <2>3, CallKeepsServed
  <2>4. CASE UNCHANGED <<heapState, part, turn, chunks>>
    <3>1. UNCHANGED <<heap, live, list, wild, part, turn, chunks>>
      BY <2>4 DEF heapState
    <3>2. HeldNow' = HeldNow /\ BOTTOM' = BOTTOM
      BY <3>1 DEF HeldNow, BOTTOM, PTR
    <3>3. ServedInv'
      BY <3>1, <3>2, <2>2 DEF ServedInv, LiveHeld, SizesOK, EmptyOK, RowOK, Row, Singles, Calls
    <3> QED BY <3>3, <2>1
  <2> QED BY <2>3, <2>4 DEF HeapNext, print_heap, print_freelist, heapVars
<1>3. Inv => NothingFits
  BY ServedFits DEF HeapInv
<1> HIDE DEF Inv
<1> QED BY <1>1, <1>2, <1>3, PTL DEF HeapSpec
=============================================================================
