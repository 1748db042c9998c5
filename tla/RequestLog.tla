----------------------------- MODULE RequestLog -----------------------------
(***************************************************************************)
(* hw7.c: the beginning of passenger_request for one elevator, before its  *)
(* lock is taken: waitlist, wait_count and start are shared by all its     *)
(* passengers, and every ++ is a read and a write.  The rest of the trip   *)
(* is in Scheduler; here it is what lies between two requests.             *)
(***************************************************************************)
EXTENDS Integers, FiniteSets

CONSTANTS
  Callers,             (* the passengers of one elevator                   *)
  CALLS,               (* requests of each, TRIPS_PER_PASSENGER            *)
  WAITLIST             (* entries of waitlist, PASSENGERS                  *)

ASSUME LogAssumption ==
  /\ IsFiniteSet(Callers) /\ CALLS \in Nat /\ WAITLIST \in Nat
  /\ Cardinality(Callers) <= WAITLIST

VARIABLES
  wait_count, start,   (* the two counters of the elevator                 *)
  place, seen, call,   (* per passenger: where it is, what it has read,    *)
                       (* how many requests it has completed               *)
  counted, begun,      (* history: the requests counted in wait_count,     *)
                       (* and in start                                     *)
  beside,              (* waitlist was written behind its end              *)
  raced                (* history: somebody read a counter that somebody   *)
                       (* else was about to write                          *)

logVars == <<wait_count, start, place, seen, call, counted, begun, beside, raced>>

LogInit ==
  /\ wait_count = 0 /\ start = 0
  /\ place = [p \in Callers |-> "post"] /\ seen = [p \in Callers |-> 0]
  /\ call = [p \in Callers |-> 0]
  /\ counted = {} /\ begun = {}
  /\ beside = FALSE /\ raced = FALSE

Request(p) == <<p, call[p] + 1>>

Move(p, from, to) == place[p] = from /\ place' = [place EXCEPT ![p] = to]

(* Behind the end of waitlist lies wait_count: the model stops there. *)
Full(n)      == n >= WAITLIST

Post(p) ==
  /\ call[p] < CALLS /\ ~beside
  /\ Move(p, "post", "count")
  /\ beside' = Full(wait_count)
  /\ UNCHANGED <<wait_count, start, seen, call, counted, begun, raced>>

Load(p, counter, from, to) ==
  /\ ~beside
  /\ Move(p, from, to)
  /\ seen' = [seen EXCEPT ![p] = counter]
  /\ raced' = (raced \/ \E q \in Callers : place[q] = to)
  /\ UNCHANGED <<wait_count, start, call, counted, begun, beside>>

CountLoad(p) == Load(p, wait_count, "count", "counting")
StartLoad(p) == Load(p, start, "start", "starting")

AsRead(p)  == seen[p]      \* faulty
OneMore(p) == seen[p] + 1

CountStore(p) ==
  /\ ~beside
  /\ Move(p, "counting", "start")
  /\ wait_count' = OneMore(p)
  /\ counted' = counted \cup {Request(p)}
  /\ UNCHANGED <<start, seen, call, begun, beside, raced>>

StartStore(p) ==
  /\ ~beside
  /\ Move(p, "starting", "post")
  /\ start' = OneMore(p)
  /\ begun' = begun \cup {Request(p)}
  /\ call' = [call EXCEPT ![p] = @ + 1]
  /\ UNCHANGED <<wait_count, seen, counted, beside, raced>>

LogStep(p) == Post(p) \/ CountLoad(p) \/ CountStore(p) \/ StartLoad(p) \/ StartStore(p)
LogNext == \E p \in Callers : LogStep(p)
LogSpec == LogInit /\ [][LogNext]_logVars
-----------------------------------------------------------------------------
Requests == Callers \X (1 .. CALLS)
Counted(p, k) ==
  k <= call[p] \/ (k = call[p] + 1 /\ place[p] \in {"start", "starting"})

(* The history sets hold the requests that have got that far.               *)
LogTypeOK ==
  /\ wait_count \in Nat /\ start \in Nat /\ seen \in [Callers -> Nat]
  /\ place \in [Callers -> {"post", "count", "counting", "start", "starting"}]
  /\ call \in [Callers -> 0 .. CALLS]
  /\ \A p \in Callers : place[p] # "post" => call[p] < CALLS
  /\ counted = {r \in Requests : Counted(r[1], r[2])}
  /\ begun = {r \in Requests : r[2] <= call[r[1]]}
  /\ beside \in BOOLEAN /\ raced \in BOOLEAN

(* No counter is ahead of the requests it counts. *)
NeverAhead ==
  /\ wait_count <= Cardinality(counted) /\ start <= Cardinality(begun)
  /\ \A p \in Callers : place[p] = "counting" => seen[p] <= Cardinality(counted)
  /\ \A p \in Callers : place[p] = "starting" => seen[p] <= Cardinality(begun)

(* No update is lost while one passenger at a time is between the two. *)
ExactUnlessRaced ==
  ~raced => wait_count = Cardinality(counted) /\ start = Cardinality(begun)

(* waitlist has an entry per passenger and wait_count never goes down, so   *)
(* the index passes the end after as many requests as there are passengers  *)
(* (187), never while each of them makes its first one.                     *)
BesideOnlyLater ==
  beside => /\ Cardinality(counted) >= WAITLIST
            /\ \E p \in Callers : call[p] > 0

(* The counters are never ahead of the requests, whatever updates are lost: *)
(* an elevator that waits for start (293) does not set off too early, and   *)
(* the array is not left before there have been as many requests as it has  *)
(* entries.  They are behind only if two passengers were between read and   *)
(* write.                                                                   *)
CountersFollow == NeverAhead /\ ExactUnlessRaced /\ BesideOnlyLater
=============================================================================
