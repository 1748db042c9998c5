--------------------------- MODULE RideListProofs ---------------------------
(***************************************************************************)
(* The ride lists of hw7.c, for any number of passengers: until critical   *)
(* sections overlap they are lists without repetition of exactly those who *)
(* have been added and not removed, so nobody is looked for in vain.       *)
(***************************************************************************)
EXTENDS SchedulerSafetyProofs

(* A list, given what next holds and its first cell: its cells, and that   *)
(* every cell is the successor of at most one, the first of none.          *)
ClosedUnder(nx, S) == \A r \in S : nx[r] # NONE => nx[r] \in S
Chain(nx, h) == IF h = NONE THEN {} ELSE
  {q \in Passengers : \A S \in SUBSET Passengers : h \in S /\ ClosedUnder(nx, S) => q \in S}
Unforked(nx, h) ==
  \A q \in Chain(nx, h) :
    /\ nx[q] # h
    /\ \A r \in Chain(nx, h) : nx[q] = nx[r] /\ nx[q] # NONE => q = r

(* From add_to_list to remove_from_list. *)
OnList == {"signal_in", "unlock_in", "lock_out", "check_out", "sleep_out", "wait_out",
           "claim_out", "exit_1", "exit_2", "exiting", "load_out", "store_out", "rm_find",
           "rm_link"}
Listed(e) == {p \in Passengers : Assigned(p) = e /\ ppc[p] \in OnList}

(* What add_to_list and remove_from_list have found stays what it was. *)
Found(p) ==
  LET e == Assigned(p) IN
  /\ ppc[p] = "add_link" =>
       IF tmp[p] = NONE THEN riding[e] = NONE
       ELSE tmp[p] \in Chain(next, riding[e]) /\ next[tmp[p]] = NONE
  /\ ppc[p] = "rm_link" =>
       IF tmp[p] = NONE THEN riding[e] = p
       ELSE tmp[p] \in Chain(next, riding[e]) /\ next[tmp[p]] = p

ListsExact ==
  /\ \A e \in Elevators : Chain(next, riding[e]) = Listed(e) /\ Unforked(next, riding[e])
  /\ \A p \in Passengers : (ppc[p] \notin OnList => next[p] = NONE) /\ Found(p)

(* The inductive invariant, beside that of the other properties. *)
RideInv == ListAssertOnlyAfterOverlap /\ (~overlapped => ListsExact)
-----------------------------------------------------------------------------
(* Lists. *)

Links == [Passengers -> Passengers \cup {NONE}]

LEMMA NoneIsNobody == NONE \notin Passengers
  BY PassengersType DEF NONE

(* What add_to_list and remove_from_list walk over. *)
LEMMA RidersAreChain == \A e \in Elevators : Riders(e) = Chain(next, riding[e])
  BY DEF Riders, ReachableFrom, Chain, ClosedUnder

(* The cells from h on are the least set that has h and every successor.   *)
LEMMA ChainIsLeast ==
  ASSUME NEW nx \in Links, NEW h \in Passengers
  PROVE  /\ h \in Chain(nx, h)
         /\ Chain(nx, h) \in SUBSET Passengers
         /\ ClosedUnder(nx, Chain(nx, h))
         /\ \A S \in SUBSET Passengers : h \in S /\ ClosedUnder(nx, S) => Chain(nx, h) \subseteq S
<1>0. Chain(nx, h) = {q \in Passengers :
                        \A S \in SUBSET Passengers : h \in S /\ ClosedUnder(nx, S) => q \in S}
  BY NoneIsNobody DEF Chain
<1>1. h \in Chain(nx, h) /\ Chain(nx, h) \in SUBSET Passengers
  BY <1>0
<1>2. \A S \in SUBSET Passengers : h \in S /\ ClosedUnder(nx, S) => Chain(nx, h) \subseteq S
  BY <1>0
<1>3. ASSUME NEW r \in Chain(nx, h), nx[r] # NONE PROVE nx[r] \in Chain(nx, h)
  <2>1. r \in Passengers /\ nx[r] \in Passengers
    BY <1>1, <1>3 DEF Links
  <2>2. ASSUME NEW S \in SUBSET Passengers, h \in S, ClosedUnder(nx, S) PROVE nx[r] \in S
    BY <1>2, <1>3, <2>2 DEF ClosedUnder
  <2>3. QED
    BY <1>0, <2>1, <2>2
<1>4. QED
  BY <1>1, <1>2, <1>3 DEF ClosedUnder

LEMMA ChainsAreSets ==
  ASSUME NEW nx \in Links, NEW h \in Passengers \cup {NONE}
  PROVE  Chain(nx, h) \in SUBSET Passengers
  BY ChainIsLeast DEF Chain

(* A list is not affected by what happens to cells that are not on it.     *)
LEMMA ChainFrame ==
  ASSUME NEW nx \in Links, NEW my \in Links, NEW h \in Passengers \cup {NONE},
         \A q \in Chain(nx, h) : my[q] = nx[q], Unforked(nx, h)
  PROVE  Chain(my, h) = Chain(nx, h) /\ Unforked(my, h)
<1>1. CASE h = NONE
  BY <1>1 DEF Chain, Unforked
<1>2. CASE h \in Passengers
  <2>1. Chain(my, h) \subseteq Chain(nx, h)
    <3>1. ClosedUnder(my, Chain(nx, h)) /\ h \in Chain(nx, h)
      BY <1>2, ChainIsLeast DEF ClosedUnder
    <3>2. QED
      BY <1>2, <3>1, ChainIsLeast
  <2>2. Chain(nx, h) \subseteq Chain(my, h)
    <3>1. ClosedUnder(nx, Chain(my, h)) /\ h \in Chain(my, h)
      BY <1>2, <2>1, ChainIsLeast DEF ClosedUnder
    <3>2. QED
      BY <1>2, <3>1, ChainIsLeast
  <2>3. Chain(my, h) = Chain(nx, h)
    BY <2>1, <2>2
  <2>4. QED
    BY <2>3 DEF Unforked
<1>3. QED
  BY <1>1, <1>2

(* add_to_list on an empty list, and on one with a last cell.              *)
LEMMA ChainOfOne ==
  ASSUME NEW nx \in Links, NEW p \in Passengers, nx[p] = NONE
  PROVE  Chain(nx, p) = {p} /\ Unforked(nx, p)
<1>1. Chain(nx, p) \subseteq {p} /\ p \in Chain(nx, p)
  <2>1. {p} \in SUBSET Passengers /\ p \in {p} /\ ClosedUnder(nx, {p})
    BY DEF ClosedUnder
  <2>2. QED
    BY <2>1, ChainIsLeast
<1>2. Chain(nx, p) = {p}
  BY <1>1
<1>3. QED
  BY <1>2, NoneIsNobody DEF Unforked

LEMMA ChainAppend ==
  ASSUME NEW nx \in Links, NEW my \in Links, NEW h \in Passengers, NEW p \in Passengers,
         NEW last \in Chain(nx, h), nx[last] = NONE, p \notin Chain(nx, h), nx[p] = NONE,
         my[last] = p, \A q \in Passengers : q # last => my[q] = nx[q], Unforked(nx, h)
  PROVE  Chain(my, h) = Chain(nx, h) \cup {p} /\ Unforked(my, h)
<1>0. last \in Passengers /\ last # p /\ p # NONE
  BY ChainIsLeast, NoneIsNobody
<1>1. my[last] = p /\ my[p] = NONE /\ \A q \in Passengers : q # last => my[q] = nx[q]
  BY <1>0
<1>2. Chain(my, h) \subseteq Chain(nx, h) \cup {p}
  <2>1. h \in Chain(nx, h) \cup {p} /\ Chain(nx, h) \cup {p} \in SUBSET Passengers
    BY ChainIsLeast
  <2>2. ClosedUnder(my, Chain(nx, h) \cup {p})
    BY <1>1, <2>1, ChainIsLeast DEF ClosedUnder
  <2>3. QED
    BY <2>1, <2>2, ChainIsLeast
<1>3. Chain(nx, h) \subseteq Chain(my, h) \ {p}
  <2>1. h \in Chain(my, h) \ {p} /\ Chain(my, h) \ {p} \in SUBSET Passengers
    BY ChainIsLeast
  <2>2. ASSUME NEW r \in Chain(my, h) \ {p}, nx[r] # NONE PROVE nx[r] \in Chain(my, h) \ {p}
    <3>1. r # last /\ my[r] = nx[r] /\ my[r] \in Chain(my, h)
      BY <1>1, <2>1, <2>2, ChainIsLeast DEF ClosedUnder
    <3>2. nx[r] \in Chain(nx, h)
      BY <1>2, <2>2, ChainIsLeast DEF ClosedUnder
    <3>3. QED
      BY <3>1, <3>2
  <2>3. ClosedUnder(nx, Chain(my, h) \ {p})
    BY <2>2 DEF ClosedUnder
  <2>4. QED
    BY <2>1, <2>3, ChainIsLeast
<1>4. p \in Chain(my, h)
  <2>1. last \in Chain(my, h) /\ ClosedUnder(my, Chain(my, h))
    BY <1>3, ChainIsLeast
  <2>2. QED
    BY <1>0, <1>1, <2>1 DEF ClosedUnder
<1>5. Chain(my, h) = Chain(nx, h) \cup {p}
  BY <1>2, <1>3, <1>4
<1>6. ASSUME NEW q \in Chain(my, h) PROVE my[q] # h
  BY <1>0, <1>1, <1>5, ChainIsLeast, NoneIsNobody DEF Unforked
<1>7. ASSUME NEW q \in Chain(my, h), NEW r \in Chain(my, h), my[q] = my[r], my[q] # NONE
      PROVE  q = r
  <2>1. \A c \in Chain(nx, h) : nx[c] # p
    BY <1>0, ChainIsLeast DEF ClosedUnder
  <2>2. Chain(nx, h) \in SUBSET Passengers
    BY ChainIsLeast
  <2>3. q # p /\ r # p
    BY <1>1, <1>7
  <2>4. q \in Chain(nx, h) /\ r \in Chain(nx, h)
    BY <1>5, <2>3
  <2>5. QED
    BY <1>1, <1>7, <2>1, <2>2, <2>4 DEF Unforked
<1>8. QED
  BY <1>5, <1>6, <1>7 DEF Unforked

(* remove_from_list for the first cell, and for one after another.         *)
LEMMA ChainRemoveHead ==
  ASSUME NEW nx \in Links, NEW my \in Links, NEW p \in Passengers,
         my = [nx EXCEPT ![p] = NONE], Unforked(nx, p)
  PROVE  Chain(my, nx[p]) = Chain(nx, p) \ {p} /\ Unforked(my, nx[p])
<1>0. my[p] = NONE /\ \A q \in Passengers : q # p => my[q] = nx[q]
  BY DEF Links
<1>1. CASE nx[p] = NONE
  <2>1. Chain(nx, p) = {p}
    BY <1>1, ChainOfOne
  <2>2. QED
    BY <1>1, <2>1 DEF Chain, Unforked
<1>2. CASE nx[p] # NONE
  <2> DEFINE h == nx[p]
  <2>1. h \in Passengers /\ h \in Chain(nx, p) /\ h # p
    BY <1>2, ChainIsLeast DEF Links, ClosedUnder, Unforked
  <2> HIDE DEF h
  <2>2. Chain(my, h) \subseteq Chain(nx, p) \ {p}
    <3>1. h \in Chain(nx, p) \ {p} /\ Chain(nx, p) \ {p} \in SUBSET Passengers
      BY <2>1, ChainIsLeast
    <3>2. ClosedUnder(my, Chain(nx, p) \ {p})
      BY <1>0, <3>1, ChainIsLeast DEF ClosedUnder, Unforked
    <3>3. QED
      BY <2>1, <3>1, <3>2, ChainIsLeast
  <2>3. Chain(nx, p) \subseteq Chain(my, h) \cup {p}
    <3>1. p \in Chain(my, h) \cup {p} /\ Chain(my, h) \cup {p} \in SUBSET Passengers
      BY <2>1, ChainIsLeast
    <3>2. ClosedUnder(nx, Chain(my, h) \cup {p})
      <4>1. h \in Chain(my, h) /\ ClosedUnder(my, Chain(my, h))
        BY <2>1, ChainIsLeast
      <4>2. QED
        BY <1>0, <3>1, <4>1 DEF ClosedUnder, h
    <3>3. QED
      BY <3>1, <3>2, ChainIsLeast
  <2>4. Chain(my, h) = Chain(nx, p) \ {p}
    BY <2>2, <2>3
  <2>5. Unforked(my, h)
    <3>1. \A q \in Chain(my, h) : q \in Chain(nx, p) /\ q # p /\ my[q] = nx[q]
      BY <1>0, <2>4, ChainIsLeast
    <3>2. p \in Chain(nx, p)
      BY ChainIsLeast
    <3>3. QED
      BY <1>2, <3>1, <3>2 DEF Unforked, h
  <2>6. QED
    BY <2>4, <2>5 DEF h
<1>3. QED
  BY <1>1, <1>2

LEMMA NoCellIsItsSuccessor ==
  ASSUME NEW nx \in Links, NEW h \in Passengers, NEW p \in Chain(nx, h), Unforked(nx, h)
  PROVE  nx[p] # p
<1> SUFFICES ASSUME nx[p] = p PROVE FALSE
  OBVIOUS
<1>1. p # h /\ p \in Passengers /\ p # NONE
  BY ChainIsLeast, NoneIsNobody DEF Unforked
<1>2. h \in Chain(nx, h) \ {p} /\ Chain(nx, h) \ {p} \in SUBSET Passengers
  BY <1>1, ChainIsLeast
<1>3. ClosedUnder(nx, Chain(nx, h) \ {p})
  BY <1>1, ChainIsLeast DEF ClosedUnder, Unforked
<1>4. QED
  BY <1>2, <1>3, ChainIsLeast

LEMMA ChainRemoveAfter ==
  ASSUME NEW nx \in Links, NEW my \in Links, NEW h \in Passengers, NEW p \in Passengers,
         NEW q \in Chain(nx, h), nx[q] = p,
         my[q] = nx[p], my[p] = NONE,
         \A r \in Passengers : r # p /\ r # q => my[r] = nx[r], Unforked(nx, h)
  PROVE  Chain(my, h) = Chain(nx, h) \ {p} /\ Unforked(my, h)
<1>0. /\ q \in Passengers /\ p \in Chain(nx, h) /\ p # NONE /\ p # h
      /\ Chain(nx, h) \in SUBSET Passengers
  BY ChainIsLeast, NoneIsNobody DEF ClosedUnder, Unforked
<1>1. nx[p] # p /\ q # p
  BY <1>0, NoCellIsItsSuccessor
<1>2. /\ my[p] = NONE /\ my[q] = nx[p]
      /\ \A r \in Passengers : r # p /\ r # q => my[r] = nx[r]
  BY <1>0, <1>1
<1>3. \A r \in Chain(nx, h) : nx[r] = p => r = q
  BY <1>0 DEF Unforked
<1>4. Chain(my, h) \subseteq Chain(nx, h) \ {p}
  <2>1. h \in Chain(nx, h) \ {p} /\ Chain(nx, h) \ {p} \in SUBSET Passengers
    BY <1>0, ChainIsLeast
  <2>2. ClosedUnder(nx, Chain(nx, h))
    BY ChainIsLeast
  <2>3. ASSUME NEW r \in Chain(nx, h) \ {p}, my[r] # NONE PROVE my[r] \in Chain(nx, h) \ {p}
    <3>1. CASE r = q
      BY <1>0, <1>1, <1>2, <2>2, <2>3, <3>1 DEF ClosedUnder
    <3>2. CASE r # q
      BY <1>0, <1>2, <1>3, <2>2, <2>3, <3>2 DEF ClosedUnder
    <3>3. QED
      BY <3>1, <3>2
  <2>4. ClosedUnder(my, Chain(nx, h) \ {p})
    BY <2>3 DEF ClosedUnder
  <2>5. QED
    BY <2>1, <2>4, ChainIsLeast
<1>5. h \in Chain(my, h) /\ ClosedUnder(my, Chain(my, h)) /\ Chain(my, h) \in SUBSET Passengers
  BY ChainIsLeast
<1>6. q \in Chain(my, h)
  <2> SUFFICES ASSUME q \notin Chain(my, h) PROVE FALSE
    OBVIOUS
  <2>1. ClosedUnder(nx, Chain(my, h))
    BY <1>2, <1>4, <1>5 DEF ClosedUnder
  <2>2. QED
    BY <1>5, <2>1, ChainIsLeast
<1>7. Chain(nx, h) \subseteq Chain(my, h) \cup {p}
  <2> DEFINE S == Chain(my, h) \cup {p}
  <2>1. ClosedUnder(nx, S)
    BY <1>2, <1>5, <1>6 DEF ClosedUnder
  <2>2. h \in S /\ S \in SUBSET Passengers
    BY <1>5
  <2> HIDE DEF S
  <2>3. Chain(nx, h) \subseteq S
    BY <2>1, <2>2, ChainIsLeast
  <2>4. QED
    BY <2>3 DEF S
<1>8. Chain(my, h) = Chain(nx, h) \ {p}
  BY <1>4, <1>7
<1>9. Unforked(my, h)
  <2>1. ASSUME NEW r \in Chain(my, h) PROVE my[r] # h
    BY <1>0, <1>2, <1>8, <2>1 DEF Unforked
  <2>2. ASSUME NEW r \in Chain(my, h), NEW s \in Chain(my, h), my[r] = my[s], my[r] # NONE
        PROVE  r = s
    BY <1>0, <1>2, <1>8, <2>2 DEF Unforked
  <2>3. QED
    BY <2>1, <2>2 DEF Unforked
<1>10. QED
  BY <1>8, <1>9
-----------------------------------------------------------------------------
(* The steps.  Only four of a passenger's concern a list. *)

ListStep(p) == PAddFind(p) \/ PAddLink(p) \/ PRemoveFind(p) \/ PRemoveLink(p)

LEMMA OtherSteps ==
  ASSUME TypeOK, NEW p \in Passengers, PStep(p), ~ListStep(p)
  PROVE  /\ UNCHANGED rideList
         /\ ppc[p] \in OnList <=> ppc'[p] \in OnList
         /\ ppc'[p] \notin {"add_link", "rm_link"}
         /\ "not on ride list" \in violation' => "not on ride list" \in violation
<1> DEFINE e == Assigned(p)
<1>0. /\ "not on ride list" \notin EnterFaults(p, e)
      /\ "not on ride list" \notin ExitFaults(p, e)
      /\ "not on ride list" \notin DeliveryFaults(p)
  BY DEF EnterFaults, ExitFaults, DeliveryFaults, CabinFaults, Raise
<1> USE DEF TypeOK, PGoto, OnList, rideList
<1>1. CASE PRequest(p)
  BY <1>1 DEF PRequest, TripLeft, NewTrip
<1>2. CASE PFinish(p)
  BY <1>2 DEF PFinish
<1>3. CASE PPost(p)
  BY <1>3 DEF PPost
<1>4. CASE PRecord(p)
  BY <1>4 DEF PRecord
<1>5. CASE PEnlist(p)
  BY <1>5 DEF PEnlist
<1>6. CASE PStartLoad(p)
  BY <1>6 DEF PStartLoad
<1>7. CASE PStartStore(p)
  BY <1>7 DEF PStartStore
<1>8. CASE PBoard(p)
  <2>1. CASE PLock(p, "lock_in", "check_in")
    BY <2>1 DEF PLock
  <2>2. CASE PTest(p, "check_in", MayEnter(p, e), "claim_in", "sleep_in")
    BY <2>2 DEF PTest
  <2>3. CASE PUnlock(p, "sleep_in", "wait_in")
    BY <2>3 DEF PUnlock
  <2>4. CASE PClaimIn(p)
    BY <2>4 DEF PClaimIn
  <2>5. CASE PCheck(p, "enter_1", "enter_2", EnterFaults(p, e))
    BY <1>0, <2>5 DEF PCheck
  <2>6. CASE PCheck(p, "enter_2", "entering", EnterFaults(p, e))
    BY <1>0, <2>6 DEF PCheck
  <2>7. CASE PEnter(p)
    BY <2>7 DEF PEnter, EnterCommit
  <2>8. CASE PCountLoad(p, "load_in", "store_in", 1)
    BY <2>8 DEF PCountLoad
  <2>9. CASE PCountStore(p, "store_in", "add_find", 1)
    BY <2>9 DEF PCountStore
  <2>10. CASE PSignalIn(p)
    BY <2>10 DEF PSignalIn
  <2>11. CASE PUnlock(p, "unlock_in", "lock_out")
    BY <2>11 DEF PUnlock
  <2>12. QED
    BY <1>8, <2>1, <2>2, <2>3, <2>4, <2>5, <2>6, <2>7, <2>8, <2>9, <2>10, <2>11
    DEF PBoard, ListStep
<1>9. CASE PLeave(p)
  <2>1. CASE PLock(p, "lock_out", "check_out")
    BY <2>1 DEF PLock
  <2>2. CASE PTest(p, "check_out", MayExit(p, e), "claim_out", "sleep_out")
    BY <2>2 DEF PTest
  <2>3. CASE PUnlock(p, "sleep_out", "wait_out")
    BY <2>3 DEF PUnlock
  <2>4. CASE PClaimOut(p)
    BY <2>4 DEF PClaimOut
  <2>5. CASE PCheck(p, "exit_1", "exit_2", ExitFaults(p, e))
    BY <1>0, <2>5 DEF PCheck
  <2>6. CASE PCheck(p, "exit_2", "exiting", ExitFaults(p, e))
    BY <1>0, <2>6 DEF PCheck
  <2>7. CASE PExit(p)
    BY <2>7 DEF PExit, ExitCommit
  <2>8. CASE PCountLoad(p, "load_out", "store_out", status[p])
    BY <2>8 DEF PCountLoad
  <2>9. CASE PCountStore(p, "store_out", "rm_find", -1)
    BY <2>9 DEF PCountStore
  <2>10. CASE PSignalOut(p)
    BY <2>10 DEF PSignalOut
  <2>11. CASE PUnlock(p, "unlock_out", "wake_out")
    BY <2>11 DEF PUnlock
  <2>12. CASE PWakeOut(p)
    BY <2>12 DEF PWakeOut
  <2>13. CASE PArrive(p)
    BY <1>0, <2>13, ZenonT(40) DEF PArrive, EndTrip
  <2>14. QED
    BY <1>9, <2>1, <2>2, <2>3, <2>4, <2>5, <2>6, <2>7, <2>8, <2>9, <2>10, <2>11, <2>12, <2>13
    DEF PLeave, ListStep
<1>10. QED
  BY <1>1, <1>2, <1>3, <1>4, <1>5, <1>6, <1>7, <1>8, <1>9 DEF PStep

(* The lists of the other elevators have none of the cells that a passenger *)
(* of this one writes. *)
LEMMA RideElsewhere ==
  ASSUME TypeOK, TypeOK', ListsExact, NEW e \in Elevators, NEW f \in Elevators, f # e,
         riding'[f] = riding[f],
         \A q \in Passengers : Assigned(q) # e =>
           next'[q] = next[q] /\ ppc'[q] = ppc[q] /\ tmp'[q] = tmp[q]
  PROVE  /\ Chain(next', riding'[f]) = Listed(f)' /\ Unforked(next', riding'[f])
         /\ \A q \in Passengers : Assigned(q) = f =>
              (ppc'[q] \notin OnList => next'[q] = NONE) /\ Found(q)'
<1>1. next \in Links /\ next' \in Links /\ riding[f] \in Passengers \cup {NONE}
  BY DEF TypeOK, Links
<1>2. Chain(next, riding[f]) = Listed(f) /\ Unforked(next, riding[f])
  BY DEF ListsExact
<1>3. \A q \in Chain(next, riding[f]) : Assigned(q) # e /\ next'[q] = next[q]
  BY <1>2 DEF Listed
<1>4. Chain(next', riding[f]) = Chain(next, riding[f]) /\ Unforked(next', riding[f])
  BY <1>1, <1>2, <1>3, ChainFrame
<1>5. Listed(f)' = Listed(f)
  BY DEF Listed, Assigned
<1>6. ASSUME NEW q \in Passengers, Assigned(q) = f
      PROVE  (ppc'[q] \notin OnList => next'[q] = NONE) /\ Found(q)'
  <2>1. next'[q] = next[q] /\ ppc'[q] = ppc[q] /\ tmp'[q] = tmp[q]
    BY <1>6
  <2>2. (ppc[q] \notin OnList => next[q] = NONE) /\ Found(q)
    BY DEF ListsExact
  <2>3. Found(q)'
    <3>1. Assigned(q)' = f
      BY <1>6 DEF Assigned
    <3>2. CASE ppc[q] = "add_link"
      BY <1>3, <1>4, <1>6, <2>1, <2>2, <3>1, <3>2 DEF Found
    <3>3. CASE ppc[q] = "rm_link"
      BY <1>3, <1>4, <1>6, <2>1, <2>2, <3>1, <3>3 DEF Found
    <3>4. QED
      BY <2>1, <3>2, <3>3 DEF Found
  <2>4. QED
    BY <2>1, <2>2, <2>3
<1>7. QED
  BY <1>2, <1>4, <1>5, <1>6

(* The list of p's own elevator, at a step p takes on it: nobody else of   *)
(* this elevator has a place in the list or is looking for one. *)
Alone(p) == \A q \in Passengers :
              q # p /\ Assigned(q) = Assigned(p) => ppc[q] \notin {"add_link", "rm_link"}

OwnList(p) ==
  LET e == Assigned(p) IN
  /\ Chain(next, riding[e]) = Listed(e) /\ Unforked(next, riding[e])
  /\ \A q \in Passengers : Assigned(q) = e =>
       (ppc[q] \notin OnList => next[q] = NONE) /\ Found(q)

LEMMA AddFindOwn ==
  ASSUME TypeOK, ListsExact, NEW p \in Passengers, Alone(p), PAddFind(p)
  PROVE  OwnList(p)'
<1> DEFINE e == Assigned(p)
<1>1. /\ ppc[p] = "add_find" /\ ppc' = [ppc EXCEPT ![p] = "add_link"]
      /\ UNCHANGED <<riding, next>> /\ e \in Elevators
  BY AssignedType DEF PAddFind, PGoto, rideList
<1>2. Listed(e)' = Listed(e)
  BY <1>1 DEF Listed, Assigned, OnList, TypeOK
<1>3. \A q \in Passengers : ppc'[q] \notin OnList => next'[q] = NONE
  BY <1>1 DEF ListsExact, OnList, TypeOK
<1>4. Found(p)'
  <2>1. ppc'[p] = "add_link"
    BY <1>1 DEF TypeOK
  <2>2. CASE riding[e] = NONE
    BY <1>1, <2>1, <2>2 DEF PAddFind, Found, TypeOK, Assigned
  <2>3. CASE riding[e] # NONE
    <3>1. PICK last \in Riders(e) : next[last] = NONE /\ tmp' = [tmp EXCEPT ![p] = last]
      BY <2>3 DEF PAddFind
    <3>2. tmp'[p] = last /\ last \in Chain(next, riding[e])
      BY <1>1, <3>1, RidersAreChain DEF TypeOK
    <3>3. last # NONE
      BY <1>1, <3>2, ChainsAreSets, NoneIsNobody DEF TypeOK, Links
    <3>4. QED
      BY <1>1, <2>1, <3>1, <3>2, <3>3 DEF Found, Assigned
  <2>4. QED
    BY <2>2, <2>3
<1>5. \A q \in Passengers : Assigned(q) = e => Found(q)'
  BY <1>1, <1>4 DEF Found, TypeOK, Alone
<1>6. QED
  BY <1>1, <1>2, <1>3, <1>5 DEF OwnList, ListsExact, Assigned

LEMMA AddLinkOwn ==
  ASSUME TypeOK, TypeOK', ListsExact, NEW p \in Passengers, Alone(p), PAddLink(p)
  PROVE  /\ OwnList(p)'
         /\ \A q \in Passengers : Assigned(q) # Assigned(p) => next'[q] = next[q]
         /\ \A f \in Elevators : f # Assigned(p) => riding'[f] = riding[f]
<1> DEFINE e == Assigned(p)
           h == riding[e]
<1>1. /\ ppc[p] = "add_link" /\ ppc' = [ppc EXCEPT ![p] = "signal_in"]
      /\ e \in Elevators /\ next \in Links /\ next' \in Links /\ h \in Passengers \cup {NONE}
      /\ next[p] = NONE /\ Found(p) /\ p # NONE
      /\ Chain(next, h) = Listed(e) /\ Unforked(next, h) /\ p \notin Listed(e)
  BY AssignedType, NoneIsNobody DEF PAddLink, PGoto, ListsExact, Links, TypeOK, OnList, Listed
<1>2. Listed(e)' = Listed(e) \cup {p}
  BY <1>1 DEF Listed, Assigned, OnList, TypeOK
<1>3. \A q \in Passengers : ppc'[q] # "add_link" \/ Assigned(q) # e
  BY <1>1 DEF Alone, TypeOK
<1>4. \A q \in Passengers : ppc'[q] # "rm_link" \/ Assigned(q) # e
  BY <1>1 DEF Alone, TypeOK
<1>5. \A q \in Passengers : Assigned(q) = e => Found(q)'
  BY <1>3, <1>4 DEF Found
<1>6. CASE tmp[p] = NONE
  <2>1. riding' = [riding EXCEPT ![e] = p] /\ next' = next /\ h = NONE
    BY <1>1, <1>6 DEF PAddLink, Found
  <2>2. Chain(next, h) = {}
    BY <2>1 DEF Chain
  <2>3. riding'[e] = p /\ \A f \in Elevators : f # e => riding'[f] = riding[f]
    BY <1>1, <2>1 DEF TypeOK
  <2>4. Chain(next', riding'[e]) = Listed(e)' /\ Unforked(next', riding'[e])
    BY <1>1, <1>2, <2>1, <2>2, <2>3, ChainOfOne
  <2>5. \A q \in Passengers : ppc'[q] \notin OnList => next'[q] = NONE
    BY <1>1, <2>1 DEF ListsExact, OnList, TypeOK
  <2>6. QED
    BY <1>5, <2>1, <2>3, <2>4, <2>5 DEF OwnList, Assigned
<1>7. CASE tmp[p] # NONE
  <2> DEFINE last == tmp[p]
  <2>1. /\ next' = [next EXCEPT ![last] = p] /\ riding' = riding
        /\ last \in Chain(next, h) /\ next[last] = NONE
    BY <1>1, <1>7 DEF PAddLink, Found
  <2>2. h \in Passengers /\ last \in Listed(e)
    BY <1>1, <2>1 DEF Chain
  <2> HIDE DEF last
  <2>3. Chain(next', h) = Chain(next, h) \cup {p} /\ Unforked(next', h)
    <3> DEFINE nx == next
               my == [nx EXCEPT ![last] = p]
    <3>1. /\ nx \in Links /\ my \in Links /\ Unforked(nx, h) /\ nx[p] = NONE
          /\ last \in Chain(nx, h) /\ nx[last] = NONE /\ p \notin Chain(nx, h)
      BY <1>1, <2>1
    <3>2. /\ my[last] = p /\ next' = my
          /\ \A q \in Passengers : q # last => my[q] = nx[q]
      BY <1>1, <2>1, <2>2 DEF Links, Listed
    <3> HIDE DEF h, nx, my
    <3>3. Chain(my, h) = Chain(nx, h) \cup {p} /\ Unforked(my, h)
      BY <2>2, <3>1, <3>2, ChainAppend
    <3>4. QED
      BY <3>2, <3>3 DEF nx
  <2>4. Chain(next', riding'[e]) = Listed(e)' /\ Unforked(next', riding'[e])
    BY <1>1, <1>2, <2>1, <2>3
  <2>5. \A q \in Passengers : q # last => next'[q] = next[q]
    BY <1>1, <2>1 DEF Links
  <2>6. \A q \in Passengers : ppc'[q] \notin OnList => next'[q] = NONE
    BY <1>1, <2>2, <2>5 DEF ListsExact, Listed, OnList, TypeOK
  <2>7. \A q \in Passengers : Assigned(q) # e => next'[q] = next[q]
    BY <2>2, <2>5 DEF Listed
  <2>8. QED
    BY <1>5, <2>1, <2>4, <2>6, <2>7 DEF OwnList, Assigned
<1>8. QED
  BY <1>6, <1>7

LEMMA RemoveFindOwn ==
  ASSUME TypeOK, ListsExact, NEW p \in Passengers, Alone(p), PRemoveFind(p)
  PROVE  OwnList(p)' /\ violation' = violation /\ UNCHANGED rideList
<1> DEFINE e == Assigned(p)
<1>1. /\ ppc[p] = "rm_find" /\ UNCHANGED <<riding, next>> /\ e \in Elevators
  BY AssignedType DEF PRemoveFind, PGoto, rideList
<1>2. p \in Chain(next, riding[e]) /\ p \in Riders(e)
  BY <1>1, RidersAreChain DEF ListsExact, Listed, OnList
<1>3. violation' = violation /\ ppc' = [ppc EXCEPT ![p] = "rm_link"]
  BY <1>2 DEF PRemoveFind, PGoto
<1>4. Listed(e)' = Listed(e)
  BY <1>1, <1>3 DEF Listed, Assigned, OnList, TypeOK
<1>5. \A q \in Passengers : ppc'[q] \notin OnList => next'[q] = NONE
  BY <1>1, <1>3 DEF ListsExact, OnList, TypeOK
<1>6. Found(p)'
  <2>1. ppc'[p] = "rm_link"
    BY <1>3 DEF TypeOK
  <2>2. CASE riding[e] = p
    BY <1>1, <1>2, <2>1, <2>2 DEF PRemoveFind, Found, TypeOK, Assigned
  <2>3. CASE riding[e] # p
    <3>1. PICK q \in Riders(e) : next[q] = p /\ tmp' = [tmp EXCEPT ![p] = q]
      BY <1>2, <2>3 DEF PRemoveFind
    <3>2. tmp'[p] = q /\ q \in Chain(next, riding[e])
      BY <1>1, <3>1, RidersAreChain DEF TypeOK
    <3>3. q # NONE
      BY <1>1, <3>2, ChainsAreSets, NoneIsNobody DEF TypeOK, Links
    <3>4. QED
      BY <1>1, <2>1, <3>1, <3>2, <3>3 DEF Found, Assigned
  <2>4. QED
    BY <2>2, <2>3
<1>7. \A q \in Passengers : Assigned(q) = e => Found(q)'
  BY <1>3, <1>6 DEF Found, TypeOK, Alone
<1>8. QED
  BY <1>1, <1>3, <1>4, <1>5, <1>7 DEF OwnList, ListsExact, Assigned, rideList

LEMMA RemoveLinkOwn ==
  ASSUME TypeOK, TypeOK', ListsExact, NEW p \in Passengers, Alone(p), PRemoveLink(p)
  PROVE  /\ OwnList(p)'
         /\ \A q \in Passengers : Assigned(q) # Assigned(p) => next'[q] = next[q]
         /\ \A f \in Elevators : f # Assigned(p) => riding'[f] = riding[f]
<1> DEFINE e == Assigned(p)
           h == riding[e]
<1>1. /\ ppc[p] = "rm_link" /\ ppc' = [ppc EXCEPT ![p] = "signal_out"]
      /\ e \in Elevators /\ next \in Links /\ next' \in Links /\ h \in Passengers \cup {NONE}
      /\ Found(p) /\ Chain(next, h) = Listed(e) /\ Unforked(next, h) /\ p \in Listed(e)
      /\ riding \in [Elevators -> Passengers \cup {NONE}]
  BY AssignedType DEF PRemoveLink, PGoto, ListsExact, Links, TypeOK, OnList, Listed
<1>2. Listed(e)' = Listed(e) \ {p}
  BY <1>1 DEF Listed, Assigned, OnList, TypeOK
<1>3. \A q \in Passengers : Assigned(q) = e => Found(q)'
  BY <1>1 DEF Found, Alone, TypeOK
<1>4. h # NONE
  BY <1>1 DEF Chain
<1>5. CASE tmp[p] = NONE
  <2>1. /\ h = p /\ next' = [next EXCEPT ![p] = NONE]
        /\ riding' = [riding EXCEPT ![e] = next[p]]
    BY <1>1, <1>5 DEF PRemoveLink, Rest, Found
  <2>2. riding'[e] = next[p] /\ \A f \in Elevators : f # e => riding'[f] = riding[f]
    BY <1>1, <2>1
  <2>3. Chain(next', next[p]) = Chain(next, p) \ {p} /\ Unforked(next', next[p])
    BY <1>1, <2>1, ChainRemoveHead, ZenonT(40)
  <2>4. Chain(next', riding'[e]) = Listed(e)' /\ Unforked(next', riding'[e])
    BY <1>1, <1>2, <2>1, <2>2, <2>3
  <2>5. next'[p] = NONE /\ \A q \in Passengers : q # p => next'[q] = next[q]
    BY <1>1, <2>1 DEF Links
  <2>6. \A q \in Passengers : ppc'[q] \notin OnList => next'[q] = NONE
    BY <1>1, <2>5 DEF ListsExact, TypeOK
  <2>7. QED
    BY <1>3, <2>2, <2>4, <2>5, <2>6 DEF OwnList, Assigned
<1>6. CASE tmp[p] # NONE
  <2> DEFINE q == tmp[p]
  <2>1. /\ q \in Chain(next, h) /\ next[q] = p /\ riding' = riding
        /\ next' = [next EXCEPT ![q] = next[p], ![p] = NONE]
    BY <1>1, <1>6 DEF PRemoveLink, Rest, Found
  <2> HIDE DEF q
  <2>2. h \in Passengers /\ q \in Passengers
    BY <1>1, <1>4, <2>1, ChainsAreSets
  <2>3. Chain(next', h) = Chain(next, h) \ {p} /\ Unforked(next', h)
    <3> DEFINE nx == next
               my == [nx EXCEPT ![q] = nx[p], ![p] = NONE]
    <3>1. /\ nx \in Links /\ my \in Links /\ Unforked(nx, h)
          /\ q \in Chain(nx, h) /\ nx[q] = p
      BY <1>1, <2>1
    <3>2. /\ my[q] = nx[p] /\ my[p] = NONE /\ next' = my
          /\ \A r \in Passengers : r # p /\ r # q => my[r] = nx[r]
      BY <1>1, <2>1, <2>2, NoCellIsItsSuccessor DEF Links
    <3> HIDE DEF h, nx, my
    <3>3. Chain(my, h) = Chain(nx, h) \ {p} /\ Unforked(my, h)
      BY <2>2, <3>1, <3>2, ChainRemoveAfter
    <3>4. QED
      BY <3>2, <3>3 DEF nx
  <2>4. Chain(next', riding'[e]) = Listed(e)' /\ Unforked(next', riding'[e])
    BY <1>1, <1>2, <2>1, <2>3
  <2>5. q # p
    BY <1>1, <2>1, <2>2, NoCellIsItsSuccessor
  <2>6. next'[p] = NONE /\ \A r \in Passengers : r # p /\ r # q => next'[r] = next[r]
    BY <1>1, <2>1, <2>2, <2>5 DEF Links
  <2>7. q \in Listed(e)
    BY <1>1, <2>1
  <2>8. \A r \in Passengers : ppc'[r] \notin OnList => next'[r] = NONE
    BY <1>1, <2>5, <2>6, <2>7 DEF ListsExact, Listed, TypeOK
  <2>9. \A r \in Passengers : Assigned(r) # e => next'[r] = next[r]
    BY <2>6, <2>7 DEF Listed
  <2>10. QED
    BY <1>3, <2>1, <2>4, <2>8, <2>9 DEF OwnList, Assigned
<1>7. QED
  BY <1>5, <1>6

LEMMA RidePassenger ==
  ASSUME SafetyInv, RideInv, TypeOK', NEW p \in Passengers, PStep(p)
  PROVE  RideInv'
<1> DEFINE e == Assigned(p)
<1>1. TypeOK /\ e \in Elevators /\ PassengerFrame(p) /\ (overlapped => overlapped')
  BY PassengerStepFrame, EnterSection, AssignedType DEF SafetyInv
<1> SUFFICES ASSUME ~overlapped'
             PROVE  "not on ride list" \notin violation' /\ ListsExact'
  BY <1>1 DEF RideInv, ListAssertOnlyAfterOverlap
<1>2. ~overlapped /\ ListsExact /\ Exclusive /\ "not on ride list" \notin violation
  BY <1>1 DEF RideInv, ListAssertOnlyAfterOverlap, SafetyInv, HandshakeInv
<1>3. \A q \in Passengers : q # p => ppc'[q] = ppc[q] /\ tmp'[q] = tmp[q]
  BY <1>1 DEF PassengerFrame
<1>4. CASE ~ListStep(p)
  <2>1. /\ UNCHANGED <<riding, next>>
        /\ \A q \in Passengers : ppc'[q] \in OnList <=> ppc[q] \in OnList
        /\ ppc'[p] \notin {"add_link", "rm_link"}
        /\ "not on ride list" \notin violation'
    BY <1>1, <1>2, <1>3, <1>4, OtherSteps DEF rideList
  <2>2. \A f \in Elevators : Listed(f)' = Listed(f)
    BY <2>1 DEF Listed, Assigned
  <2>3. \A f \in Elevators : Chain(next', riding'[f]) = Listed(f)' /\ Unforked(next', riding'[f])
    BY <1>2, <2>1, <2>2 DEF ListsExact
  <2>4. \A q \in Passengers : (ppc'[q] \notin OnList => next'[q] = NONE) /\ Found(q)'
    BY <1>2, <1>3, <2>1 DEF ListsExact, Found, Assigned
  <2>5. QED
    BY <2>1, <2>3, <2>4 DEF ListsExact
<1>5. CASE ListStep(p)
  <2>1. ppc[p] \in {"add_find", "add_link", "rm_find", "rm_link"}
    BY <1>5 DEF ListStep, PAddFind, PAddLink, PRemoveFind, PRemoveLink, PGoto
  <2>2. Alone(p)
    BY <1>2, <2>1 DEF Alone, Exclusive, Section
  <2>3. /\ OwnList(p)' /\ violation' = violation
        /\ \A q \in Passengers : Assigned(q) # e => next'[q] = next[q]
        /\ \A f \in Elevators : f # e => riding'[f] = riding[f]
    <3>1. CASE PAddFind(p)
      BY <1>1, <1>2, <2>2, <3>1, AddFindOwn DEF PAddFind, rideList
    <3>2. CASE PAddLink(p)
      BY <1>1, <1>2, <2>2, <3>2, AddLinkOwn DEF PAddLink
    <3>3. CASE PRemoveFind(p)
      BY <1>1, <1>2, <2>2, <3>3, RemoveFindOwn DEF rideList
    <3>4. CASE PRemoveLink(p)
      BY <1>1, <1>2, <2>2, <3>4, RemoveLinkOwn DEF PRemoveLink
    <3>5. QED
      BY <1>5, <3>1, <3>2, <3>3, <3>4 DEF ListStep
  <2>4. \A q \in Passengers : Assigned(q) # e => next'[q] = next[q] /\ ppc'[q] = ppc[q] /\ tmp'[q] = tmp[q]
    BY <1>3, <2>3
  <2>5. ASSUME NEW f \in Elevators
        PROVE  /\ Chain(next', riding'[f]) = Listed(f)' /\ Unforked(next', riding'[f])
               /\ \A q \in Passengers : Assigned(q) = f =>
                    (ppc'[q] \notin OnList => next'[q] = NONE) /\ Found(q)'
    <3>1. CASE f = e
      BY <2>3, <3>1 DEF OwnList, Assigned
    <3>2. CASE f # e
      BY <1>1, <1>2, <2>3, <2>4, <3>2, RideElsewhere
    <3>3. QED
      BY <3>1, <3>2
  <2>6. QED
    BY <1>2, <2>3, <2>5, AssignedType DEF ListsExact
<1>6. QED
  BY <1>4, <1>5

(* Wakeups, and everything that elevators and the main thread do, leave    *)
(* the lists as they are. *)
LEMMA RideOthers ==
  ASSUME RideInv, UNCHANGED <<rideList, tmp, overlapped>>,
         "not on ride list" \in violation' => "not on ride list" \in violation,
         \A p \in Passengers : \/ ppc'[p] = ppc[p]
                               \/ ppc[p] = "wait_in" /\ ppc'[p] = "lock_in"
                               \/ ppc[p] = "wait_out" /\ ppc'[p] = "lock_out"
  PROVE  RideInv'
<1> SUFFICES ASSUME ~overlapped' PROVE ListsExact'
  BY DEF RideInv, ListAssertOnlyAfterOverlap
<1>1. ListsExact /\ UNCHANGED <<riding, next, tmp>>
  BY DEF RideInv, rideList
<1>2. \A q \in Passengers : /\ ppc'[q] \in OnList <=> ppc[q] \in OnList
                            /\ ppc'[q] = "add_link" => ppc[q] = "add_link"
                            /\ ppc'[q] = "rm_link" => ppc[q] = "rm_link"
  BY DEF OnList
<1>3. \A f \in Elevators : Listed(f)' = Listed(f)
  BY <1>2 DEF Listed, Assigned
<1>4. \A f \in Elevators : Chain(next', riding'[f]) = Listed(f)' /\ Unforked(next', riding'[f])
  BY <1>1, <1>3 DEF ListsExact
<1>5. \A q \in Passengers : (ppc'[q] \notin OnList => next'[q] = NONE) /\ Found(q)'
  BY <1>1, <1>2 DEF ListsExact, Found, Assigned
<1>6. QED
  BY <1>4, <1>5 DEF ListsExact

LEMMA RideElevator ==
  ASSUME SafetyInv, RideInv, NEW e \in Elevators, EStep(e) PROVE RideInv'
<1>1. UNCHANGED <<rideList, tmp, overlapped>>
  BY DEF EStep, ELoop, EStart, EPick, ESteer, EStop, EPass, ECheck, EDoor, DoorCommit, EAnnounce,
         EAwait, ESleep, ERelock, EMove, MoveCommit, EMirror, passengerSide
<1>2. "not on ride list" \in violation' => "not on ride list" \in violation
  <2>1. "not on ride list" \notin OpenFaults(e) \cup CloseFaults(e) \cup MoveFaults(e)
    BY DEF OpenFaults, CloseFaults, MoveFaults, CabinFaults, Raise
  <2>2. QED
    BY <2>1, ViolationElevator
<1>3. QED
  BY <1>1, <1>2, ElevatorStepFrame, RideOthers DEF SafetyInv, ElevatorFrame

LEMMA RideIdle ==
  ASSUME SafetyInv, RideInv, MainStop \/ SpuriousWakeup \/ UNCHANGED vars PROVE RideInv'
<1> USE DEF passengerSide, elevatorSide, rideList
<1>1. CASE MainStop \/ UNCHANGED vars
  <2>1. UNCHANGED <<rideList, tmp, overlapped, violation, ppc>>
    BY <1>1 DEF MainStop, vars
  <2>2. QED
    BY <2>1, RideOthers
<1>2. ASSUME NEW p \in Passengers, PSpuriousWakeup(p) PROVE RideInv'
  <2>1. UNCHANGED <<rideList, tmp, overlapped, violation>>
    BY <1>2 DEF PSpuriousWakeup
  <2>2. \A q \in Passengers : \/ ppc'[q] = ppc[q]
                              \/ ppc[q] = "wait_in" /\ ppc'[q] = "lock_in"
                              \/ ppc[q] = "wait_out" /\ ppc'[q] = "lock_out"
    BY <1>2 DEF PSpuriousWakeup, PGoto, SafetyInv, TypeOK
  <2>3. QED
    BY <2>1, <2>2, RideOthers
<1>3. ASSUME NEW e \in Elevators, ESpuriousWakeup(e) PROVE RideInv'
  <2>1. UNCHANGED <<rideList, tmp, overlapped, violation, ppc>>
    BY <1>3 DEF ESpuriousWakeup
  <2>2. QED
    BY <2>1, RideOthers
<1>4. QED
  BY <1>1, <1>2, <1>3 DEF SpuriousWakeup

LEMMA RideInit == Init => RideInv
<1> SUFFICES ASSUME Init PROVE RideInv
  OBVIOUS
<1>1. /\ \A e \in Elevators : riding[e] = NONE
      /\ \A p \in Passengers : ppc[p] = "idle" /\ next[p] = NONE
      /\ violation = {}
  BY DEF Init, EnforcementInit
<1>2. \A e \in Elevators : Chain(next, riding[e]) = {} /\ Listed(e) = {}
  BY <1>1 DEF Chain, Listed, OnList
<1>3. QED
  BY <1>1, <1>2 DEF RideInv, ListsExact, Unforked, Found, ListAssertOnlyAfterOverlap

LEMMA RideNext == SafetyInv /\ RideInv /\ [Next]_vars => RideInv'
<1> SUFFICES ASSUME SafetyInv, RideInv, [Next]_vars PROVE RideInv'
  OBVIOUS
<1>1. ASSUME NEW p \in Passengers, PStep(p) PROVE RideInv'
  BY <1>1, TypePassenger, RidePassenger DEF SafetyInv
<1>2. ASSUME NEW e \in Elevators, EStep(e) PROVE RideInv'
  BY <1>2, RideElevator
<1>3. CASE MainStop \/ SpuriousWakeup \/ UNCHANGED vars
  BY <1>3, RideIdle
<1>4. QED
  BY <1>1, <1>2, <1>3 DEF Next

LEMMA RideHolds == Spec => [](SafetyInv /\ RideInv)
  BY SafetyHolds, RideInit, RideNext, PTL DEF Spec
-----------------------------------------------------------------------------
(* The theorems. *)

(* remove_from_list is asked for no passenger who is not on the list: the  *)
(* assert of hw7.c:75 fails only after critical sections have overlapped.  *)
THEOREM ListAssertHolds == Spec => []ListAssertOnlyAfterOverlap
<1>1. RideInv => ListAssertOnlyAfterOverlap
  BY DEF RideInv
<1>2. QED
  BY <1>1, RideHolds, PTL

(* Until then, whoever walks the ride list of an elevator nobody is just   *)
(* boarding or leaving meets those whom main.c has in the cabin.           *)
THEOREM RideListIsExact == Spec => []RideListExact
<1>1. SafetyInv /\ RideInv => RideListExact
  <2> SUFFICES ASSUME SafetyInv, RideInv, ~overlapped, NEW e \in Elevators,
                      \A p \in Passengers : Assigned(p) = e => ppc[p] \notin Working
               PROVE  Riders(e) = Inside(e)
    BY DEF RideListExact
  <2>1. Riders(e) = Listed(e)
    BY RidersAreChain DEF RideInv, ListsExact
  <2>2. \A p \in Passengers : in_elevator[p] = IF ppc[p] \in Aboard THEN Assigned(p) ELSE -1
    BY DEF SafetyInv, StateMatchesPc
  <2>3. -1 # e
    BY DEF Elevators
  <2>4. \A p \in Passengers : Assigned(p) = e => (ppc[p] \in Aboard <=> ppc[p] \in OnList)
    BY DEF Working, Boarding, Alighting, Aboard, OnList
  <2>5. QED
    BY <2>1, <2>2, <2>3, <2>4 DEF Listed, Inside
<1>2. QED
  BY <1>1, RideHolds, PTL
=============================================================================
