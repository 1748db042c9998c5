# Verification of the CS361 projects

The repository holds eight homework programs in C. Two of them carry concurrent
logic of their own: the elevator scheduler (hw7), where one thread per passenger
and one per elevator meet over a mutex and two condition variables, and the
question and answer servers (hw8), one with a thread per client and one around
`epoll`. The shell (hw4) and the line editor in front of it (hw5) are long
sequential programs over descriptors, pipes, processes and a history; the filters
(hw3), the heap dump (hw6) and the counter (hw2) are small. This directory models
all of them in TLA+ but the hello worlds (hw1), checks them with TLC, and proves
with TLAPS, for every value of their constants, every safety property the passing runs
check.

Paths below leave out the suffix of the homework directories
(`hw7/C/hw7.c` is `src/hw7-jli230-main/C/hw7.c`).

## 1. The system

| Part | State | Operations | Meets others through |
|---|---|---|---|
| hw7 enforcement and drivers: `main.c`, `elevator.h` | `elevators[]` (floor, open, passengers) and `passengers[]` (from, to, in_elevator, state) behind `state_lock` | the callbacks `elevator_open_door`, `_close_door`, `_move_direction`, `passenger_enter`, `passenger_exit`, each two checks and a commit; `start_passenger`, `start_elevator`, the stop in `main` | calls the scheduler from its threads and hands it the callbacks |
| hw7 scheduler: `hw7.c` | `elevators[]` (its own floor, direction, passenger_count, wait_at, the two ready flags, ride list, start, elevator_lock), `passengers[]` (from, to, status, elenumber, next), two conditions shared by all elevators | `scheduler_init`, `passenger_request`, `elevator_ready`, `add_to_list`, `remove_from_list` | shared memory; passengers take `elevator_lock`, elevators do not |
| hw8a: `hw8a.c` | `state`, `askerfd`, `answererfd`, `asker`, `answerer`, `head`, `actives`, a struct per client; a buffer per thread | `main` and `insert`, `client_handler`, `remove_inactives` | shared memory without a lock; sockets |
| hw8b: `hw8b.c` | `state`, `askerfd`, `answererfd`, `actives`, the batch of the last `epoll_wait` | accepting, a message, a departure | sockets |
| hw4 shell: `dsh.c` | the table of descriptors, pipes, the child it waits for, one string that it cuts up, its calls of itself; the folder `~/.dsh/<n>` | `main` (read a line, open three files, restore), `run`, `run_sequence`, `run_pipeline`, `exec_command` | `fork`, `wait`, `dup2`, pipes; other shells through the folders |
| hw5 editor: `dsh_main.c`, `dsh.h` | `line`, `position`, `endposition`, the place on the screen, the history `ptr`, `latest`, `order`, `counter` | one branch per key, `printHistory`, the search for the folder | calls the shell, shipped as `dsh.o` |
| hw6: `heapdump.c`, `main.c` | none of its own; the C library's heap | `print_heap`, `print_freelist`, `print_chunk`, `find_freelist` | reads what `malloc` and `free` leave behind |
| hw3: `safe.c`, `safeprep.c`, `safecat.c` | a line, a buffer, a count of bytes | read, replace, write | the first `write` of any program (`safe.c`) |
| hw2: `counter.c` | `c`, `thirteenthrun` | `inc`, `reset` | called by a binary `repeat.o` |
| hw1 | none | one output each | none |

### What is hard, and what correct means

*hw7.* `elevator_ready` unlocks `elevator_lock` at every floor it passes
(`hw7.c:406`) and lets go of it in `pthread_cond_wait` (397) without having
taken it. A passenger who is between lock and unlock can lose the mutex, and two
passengers are then in one critical section ("overlapped" below). The elevator
sets and tests the ready flags outside the lock, so broadcasts can be lost.
`wait_at` is written by all of them, `start++` and `passenger_count++` are a
read and a write, and `main.c`'s callbacks check twice and commit later. Correct
means: `main.c`'s checks do not end the program; a passenger gets in where it
is and out where it wants to be, within the capacity; both files agree on floors
and counts; the ride list holds who is inside; every trip completes.

*hw8a.* Everything the threads share is read and written without a lock, and the
thread that ends a conversation frees the struct of the other party. Correct
means: turns alternate, what is passed on is what was read, the list and its
count match the connected clients, a prompt is kept, a departure ends the
conversation.

*hw8b.* One thread, but descriptors go stale: a departure closes two of them
while the batch may still name them, `askerfd` and `answererfd` keep their
numbers, and `accept` hands the numbers out again. Correct means: no event of a
closed descriptor is handled, only answers that are owed are taken, `state`
agrees with who is there, nobody is kept from being accepted.

*hw4.* The shell works on its own descriptors 0, 1 and 2, which every line points
elsewhere, and runs one child at a time: it waits for the left command of a pipeline
before it starts the right one (`dsh.c:80`). `open`, `pipe` and `fork` may fail
anywhere in a line, and each pipeline costs two descriptors (72, 73). Correct means:
the user's terminal comes back after every line; a command reads what its left
neighbour wrote and sees its end; commands run once and in order; a line ends. And
no two shells that start together share a folder.

*hw5.* Every key moves an index, a length and a column that are counted apart; a
history entry replaces the line under a cursor that stays where it is (166); neither
history nor line nor the copy of 100 bytes is bounded (43, 259). Correct means: the
column is the index, the line is what was typed, an entry is what was entered, and
the program leaves its arrays in none but the cases one can name.

*hw6, hw3, hw2.* Whether a chunk is in use stands in the chunk behind it, and the
list is found by reading a chunk after it was freed; what is joined follows from the order
`main` frees in; the byte count of a filtered line
is kept by hand; two calls of the counter are special and a flag tells them apart.

`PROJECT.json` lists the hazards at their lines.

## 2. Modules

Each module keeps the names of the code. `PROJECT.json` maps definitions to lines.

| Module | Models | Built on |
|---|---|---|
| `Enforcement` | `main.c`: what it records, the checks of each callback (as the set of faults they find) and the commits | |
| `Scheduler` | `hw7.c` and the threads that run it | `Enforcement` |
| `SchedulerSafety` | type invariant, safety properties, inductive invariant | `Scheduler` |
| `SchedulerLiveness` | trips complete | `SchedulerSafety` |
| `SchedulerClaims` | what comments say and interleavings do not keep | `SchedulerLiveness` |
| `Building` | abstract: passengers, cabins and doors without threads | |
| `SchedulerRefinement` | the mapping from the scheduler to `Building` | `SchedulerSafety`, `Building` |
| `SchedulerSafetyProofs` | types and safety of hw7 | `SchedulerSafety` |
| `RideListProofs` | the ride list of hw7 | `SchedulerSafetyProofs` |
| `SchedulerRefinementProofs` | hw7 implements `Building` | both |
| `Sockets` | external: listening queue, descriptors, connections, clients | |
| `ThreadServer` | `hw8a.c` | `Sockets` |
| `ThreadServerSafety`, `ThreadServerProofs` | its properties; theorems | `ThreadServer` |
| `EpollServer` | `hw8b.c` and its properties | `Sockets` |
| `Conversation` | abstract: asker, answerer, turns | |
| `EpollConversation` | the mapping from hw8b to `Conversation` | `EpollServer`, `Conversation` |
| `EpollServerProofs` | theorems on hw8b | `EpollConversation` |
| `RequestLog` | the start of `passenger_request` (187-196): two counters raced for, and the array behind `wait_count` | |
| `Shell` | `dsh.c` and its children | |
| `Pipelines` | abstract: commands called in a row, what each has left for the next | |
| `ShellSafety`, `ShellProofs` | its properties, liveness included, and the mapping to `Pipelines`; theorems | `Shell`, `Pipelines` |
| `LineEditor` | `dsh_main.c`, one action per key | |
| `Line` | abstract: a text, a cursor, the lines entered | |
| `LineEditorSafety`, `LineEditorProofs` | its properties and the mapping to `Line`; theorems | `LineEditor`, `Line` |
| `Sessions` | how shells and terminals find a folder (`dsh.c:177-191`, `dsh_main.c:69-83`) | |
| `Filter`, `Counter` | hw3 and hw2 with their properties | |
| `HeapDump` | hw6 over an external heap | |
| `SmallProofs` | theorems on `Counter`, `Sessions`, `RequestLog`, `Filter`, `HeapDump` | those |
| `MCScheduler`, `MCThreadServer` | state constraints and symmetry for TLC | |
| `MCPrograms` | the choice of one program that runs alone, and the lines given to shell and filter | all that run alone |

Definitions whose comment says "faulty" are plausible bugs of the code that no
action uses. Each property is tried against one: with the faulty definition put
in the place of the true one, TLC finds the property violated.

### The scheduler

A program counter per thread (`ppc`, `epc`) walks through the C functions. One
step is one access to what threads share, or a run of accesses that no other
thread can tell from one. The groups, with their lines of `hw7.c`:

| Actions | Code |
|---|---|
| `PRequest`, `PFinish`, `PArrive` | `start_passenger`, `main.c:244-275` |
| `PPost`, `PRecord`, `PEnlist`, `PStartLoad`, `PStartStore` | request before the lock, 175-197 |
| `PBoard`: lock, test, sleep, claim, two checks and commit of enter, count, list, signal, unlock | 213-251 |
| `PLeave`: the same for the way out | 263-286 |
| `ELoop`, `EStart`, `EPick`, `ESteer` | direction and next stop, 293-373 |
| `EStop`, `EPass` | stop here or not, 375 and 406 |
| open, `EAnnounce`, `EAwait`, `ESleep`, `ERelock`, close | the door, 375-403 |
| two checks, `EMove`, `EMirror` | 408-411 |
| `MainStop` | `main.c:362-364` |

`violation` is the set of failed checks of `main.c`; once it is not empty the
program has called `exit(1)` and nothing runs. `overlapped` is history. The
mutexes are of glibc's default kind, whose unlock frees the mutex whoever owns
it; POSIX leaves that undefined, and the model says what the build does.

### The servers

`Sockets` is what both servers see of the kernel and of their clients: clients
connect and wait in the queue, send messages of a length, some of whose bytes may be zero
(`ZeroBytes`), close (`left`) or
reset the connection; `accept` returns the lowest free descriptor; `send` to a
connection that is gone may raise SIGPIPE, which ends the server (`fate`).

`EpollServer` has one action per kind of event: `Poll` fills `batch`,
`HandleAccept` and `HandleClient` (`Overrun`, `Depart`, `HandleMessage`) take one
entry each. `invited`, `owing` and `ended` are history.

`ThreadServer` gives `main` and each client's thread a program counter; client
structs are cells of a heap that are allocated and freed. Line by line:
`M...` is `main` and `insert` (39-69, 276-292), `H...` is `client_handler`
(152-243) and `remove_inactives` (71-97). `pending`, `soil`, `ended` and
`crowded` are history. A thread's buffer is on its stack and holds what was there (`Stacks`).
The code takes a zero byte for the end of what was read: a message that begins with one is not
looked at (198), what follows one is neither passed on (211) nor cleared (236-239) and turns up
behind a later, shorter message. `soil` says why a buffer may hold more than what was just
read: the stack, a refused message, or such a rest (`SoilAfter`). A buffer that is filled has no
terminator: `Overruns` says where that is undefined, and the model may go on or stop.

### The shell

`pc` says where the shell is, `stack` holds its calls of `run_sequence` and
`run_pipeline`, which `run` enters at the first semicolon or bar behind `at`; `text` is
the line with the terminators `strtok` and the code put into it. `table` says what
each descriptor refers to, and every call that takes one gets the lowest that is free.

| Actions | Code of `hw4/C/dsh.c` |
|---|---|
| `ReadLine`, `Restore`, `Quit` | `main`, 208-247: three opens that may fail one by one, the copies put back |
| `RunSequence`, `NextInSequence` | `run`, 96-103, and `run_sequence`, 90-94 |
| `RunPipeline`, `PipeFails`, `StartRight`, `EndPipeline` | `run`, 104-107, and `run_pipeline`, 69-88 |
| `RunCommand`, `CommandEnded` | `run` with neither, 163-170 |
| `Exec`, `Read`, `Write`, `Exit`, `Die` | the child: `exec_command` (10-66) and the program it becomes, which reads all of its input or nothing and writes some tokens |

A pipe holds `PIPE_SIZE` tokens, each marked with the command that wrote it. A child
runs beside the shell, which waits for it. A reader of a pipe comes to its end only when
nobody can write to it any more.

`Pipelines` knows no descriptors and no recursion: the commands of a line are places,
some with a neighbour on the `left`; the `last` one called may be `running`; it takes
pieces from `unread`, leaves pieces in `written`, and when the next is called that
becomes all it can read. `ShellSafety` maps the shell to it: `left` comes from the line as
its user reads it (`Asked`), `last` from `called`, `running` is the child (`Runs`),
`unread` the pipe that 0 of the shell refers to (`Unread`), and `written` the newest pipe
from the time its left command is forked until its right one is (`Unasked`, `AtBar`).
Where the user and the code read a line differently, or descriptors have run out, nothing
is promised (`Meant`, `spent`).

### The editor

`Type`, `Left`, `Right`, `Backspace`, `Up`, `Down` and `Enter` are the branches of the
loop of `dsh_main.c` (128-288) with the wrapping of the column (`Wrap`, 131). The
buffer is kept as the array it is, `nul`s included. A key is an `int` of which the low byte is
stored (246): `Characters` are those bytes, and two of them are the terminator, which Ctrl-@
writes, and the newline, which F2 (266) writes. `torn` and `marked` are history: a
change behind the end of the line leaves a gap in it, which `strcpy` later takes for
the end, as it does a terminator that was typed. A write beside an array ends the run (`fate = "undefined"`), a file that is
not there ends the program (`"crashed"`). `Line` knows no columns and no arrays: typing
overwrites or appends, erasing joins, a line shown is an entry of the past up to its first
newline; a line changed behind its end is `lost` until the next one begins, and of an entry that
a terminator may have cut off (`CutOff`) nothing is said.

### The small programs

`Sessions` lets several programs try numbers at once; `mkdir` is the one atomic step.
`Filter` reads, replaces and writes in three steps. In `safecat` the text behind a result that
got shorter stays, as in the buffer. In `safe` a program calls `write` with a count and a
memory: `safe.c` works on the string that begins there, which may be longer or shorter than the
count, takes six off the count for every word in it, and copies the result into a memory one
byte too small, so that every such call may go wrong (`FinishSafe`). `Counter` is the two functions. `HeapDump`
has `main` as a table of its 17 loops, some of one turn: what a loop calls, for which
chunks in which order, and what it prints after each call (`find_freelist` is the ninth
to the twelfth); `part` and `turn` say where `main` is. `malloc`,
`free` and `malloc_trim` are external: chunks lie one behind the other, free
neighbours are joined, and what memory holds is given by `Size`, `PrevUsed`
and `Link`. Where the break is, is left open. `print_heap` and `print_freelist` print one
chunk per step and see the heap through these words only. `RequestLog` has each `++` as a read and a write.

## 3. Runs

| Run | Instance | Shows |
|---|---|---|
| `one_seat` | 1 elevator, 2 floors, 2 passengers, 1 seat | types; `OccupantsExact`, `CallOrderIsSafe` in every interleaving, `HandshakeInv`, `ChecksFailOnlyAfterOverlap` until critical sections overlap; the threads implement `Building` |
| `two_seats` | 1 elevator, 3 floors, 2 passengers, 2 seats, the first passenger makes 2 trips; until overlap | the ride list is exact and its assert cannot fail; door, position and direction (`DriveInv`) past a middle floor both ways |
| `trips` | 2 passengers, fair | `TripsCompleteUnlessParked` |
| `claim_closed_door` | 2 passengers | violated: a passenger enters a closed door |
| `claim_all_trips` | 1 passenger, fair | violated: a lost broadcast, the trip never completes |
| `thread_talk` | 2 clients, 2 messages of 1 or 2 bytes, the first may be zero, a buffer of 3, clean or dirty stacks; three messages in all | turns alternate; what is passed on is what was read |
| `thread_list` | 3 clients that come and go, threads may fail to start | list, `actives` and connections agree once the threads rest |
| `thread_departures` | 2 clients, fair | a departure ends the conversation |
| `epoll` | 3 clients, 1 message each of 1 or 2 bytes, close or reset, fair | hw8b's properties and the inductive invariant, the refinement of `Conversation`, `EveryClientIsAccepted` |
| `programs` | one program at a time, bounds below | all properties of shell, editor, request counters, folders, filter, counter and heap dump but their types, which section 4 proves; the editor implements `Line` and the shell `Pipelines`; a line of the shell ends, every program gets a folder |
| `claim_thread_heard` | 2 clients | violated: a question is sent to descriptor 0 |
| `claim_epoll_invited` | 3 clients | violated: a client told to ask is refused |

`programs` is one run for several programs that share nothing: `program` is chosen in the
initial state and the others stay as they begin, so their states add up and do not
multiply. Its properties hold of each program by itself.

`CHECK_DEADLOCK FALSE` is in every configuration because every one of these
systems really stops: the program ends, `main.c` calls `exit(1)`, elevators and
passengers wait for each other, no client does anything any more, the user stops
typing, or `main` has returned.

### Bounds

* `ELEVATORS`, `FLOORS`, `PASSENGERS`, `MAX_CAPACITY`, `TRIPS_PER_PASSENGER` are
  the constants of `elevator.h`. The literals 4 (assignment, `hw7.c:89` and 180),
  3 (seats, 215) and 3 (requests before the first move, 293) belong to the shipped
  configuration and are scaled with it: `ELEVATORS`, `SEATS`, `START`.
* Two passengers on one elevator are the smallest instance where sections
  overlap, a counter loses an update and a list has a second cell. `START` is the
  number of passengers, as small as a start that waits for all can be, except
  for `trips`, where the elevator may also move before the second passenger
  asks, and where one passenger is left once the other has arrived.
* `two_seats`: three floors are the least with one between the ends, a second trip the
  least in which a passenger asks while the elevator knows an old floor of it. `OneReturns`
  lets the first passenger alone make two.
* Elevators share nothing but the two conditions, `stop` and the entries of
  passengers who have not asked yet. Instances of 2 elevators and 3 floors (2.3
  million states) and of 3 passengers (4.2 million, list properties), and the
  inductive invariant of the proofs on the instance of `two_seats`, have been checked
  beside the runs; the proofs cover every number.
* `two_seats` and `trips` look no further than the first overlap (`NotOverlapped`): the
  properties are about what comes before.
* `MAX_CLIENTS` is 2, the value of `hw8a.c:12`: until a conversation ends no third
  client is accepted, so 2 clients suffice for the talk, and a third for the list.
  `thread_list` stops when two threads work on the list together
  (`UntilCrowded`), `thread_departures` at the end of a conversation (`UntilEnd`).
* `MESSAGES` per client, `Lengths` and `ZeroBytes`, the places that may hold a zero, bound the
  clients. `BUFFER` is `MAX_SIZE`, 1460, in hw8a and 100 in hw8b. In `thread_talk` it is 3: one
  message leaves room for a terminator, two that arrive together may fill it. 2 messages of 2
  lengths are the least where a shorter text follows a longer one, and a zero in front of the
  second byte, or between two messages that arrive together, leaves a rest behind it. `Stacks = {2}`
  lets a thread find its second byte filled. The run stops after three messages in all
  (`ThreeMessages`): a question, its answer and the next question. In the run of hw8b the buffer is as long as the
  longest message, where filling it is the interesting case, and there are no zero bytes: its loop
  never looks at what it has read.
* Three clients are the least where hw8b replaces an answerer or reuses a
  descriptor; 4 clients (6.3 million states) have been checked beside the run.

* Shell: 12 descriptors are the 6 it starts with and 3 pipelines' leaks, so they run out
  within 4 lines, in every place where they can; a pipe of 1 and programs that write 0 to 2
  are the least where a pipe is empty, full or too small. The lines (`MCPrograms`) are
  one to three commands in every arrangement of `;` and `|`, a redirected command on each
  side of a bar, and lines written badly.
* Editor: one character besides terminator and newline, lines of 4, 3 entries and a window of 5
  (three columns): long lines wrap, and a short one can be erased in front of its last character.
  The copy of 3 bytes is the least that can hold an entry, and every array is overrun. A copy of 4,
  with which entries of three bytes are shown again, has been checked beside the run with a window
  of 4 (1.6 million states). `Right` is bounded by the length of the array.
* Folders: one shell and two terminals, three old folders that may be there or not, numbers
  below `MAX_FOLDER = 6`, one more than can be taken. Request counters: 3 passengers, 2
  requests, an array of 4, so that it overruns in the second round. Filter: up to 2 lines or memories of
  up to 3 pieces, each the word, half of it, or a terminator, in a buffer of 20, which the
  longest overrun (one memory for `safe`, which ends with its first call), and any count up to the length of the memory; `Bytes` are the letters of the two words and the terminator. Counter: 20 calls, past the two special ones. Heap: `main` with its own
  numbers of chunks; chunks of 4 and 9 words, breaks up to 9 words behind the last chunk.

### Fairness

`Scheduler!FairSpec`: weak fairness of each thread and of `main`: the operating
system runs every thread that can run. No fairness makes a condition wake up by
itself or the mutex go to a particular thread; weak fairness per thread is
enough since no other passenger holds the mutex for ever while one waits for it.
`TripsCompleteUnlessParked` assumes that conditions do not wake up spuriously for
ever and that `start` reaches `START` in the end (lost updates of line 196 can
keep it short; the shipped sizes leave 9 to spare).

`EpollServer!FairSpec`: weak fairness of the loop, which runs whenever
`epoll_wait` has something to return. `ThreadServer!FairSpec`: weak fairness of
`main` and of each client's thread. Clients are never fair: they may stop at any
time.

In `programs` the shell's steps, the steps of its child and each starting program's search
are weakly fair: the kernel runs what can run. The user is not, nor is a child's death:
`LineEnds` excepts a child that waits for a reader which is not there yet, and one that
reads the terminal.

### What the four violations are

1. **`claim_closed_door`** (`hw7.c:231`). Passenger A claims the door; the elevator's
   `pthread_cond_wait` (397) frees A's mutex; B gets into the section before A has
   cleared the flag; both claim, one signals, the door closes, the other calls
   `enter` and `main.c:161-163` ends the program. `elevator.h:52` has the door
   open for passengers who go in.
2. **`claim_all_trips`** (`hw7.c:390`). The passenger has tested the flag and not yet
   slept; the elevator sets it and broadcasts, without the mutex; the passenger
   sleeps, the elevator waits at its door, for ever. `main.c:361` waits for all
   trips to complete.
3. **`claim_thread_heard`** (`hw8a.c:56`). `state` becomes `WAIT_ASKER` before
   `answererfd` is set: a question handled in between goes to descriptor 0, and an
   answer is awaited that nobody was asked for. The asker was told that it may ask
   (53).
4. **`claim_epoll_invited`** (`hw8b.c:91`). After an exit `actives` is not zero and
   `askerfd` still names the closed descriptor. The next client gets that number
   and is made the answerer too; it is told to ask (87) and refused (126-128).

## 4. Proofs

All theorems hold for every value of the constants that satisfies the
assumptions: positive sizes and `SEATS <= MAX_CAPACITY` for hw7
(`SizesAssumption`, `SchedulerAssumption`), `SocketsAssumption` for both servers and
`ThreadServerAssumption` (at least one seat) for hw8a. Two theorems on hw8a have a
hypothesis of their own, `MAX_CLIENTS <= 2`, which is what `hw8a.c:12` says.

**hw7** (`SchedulerSafetyProofs`). `TypeCorrect` is type
correctness by itself. The others follow from `SafetyInv`, which is inductive:

* `DriveInv`: the door is open exactly where the elevator thread is at its door;
  the two floors agree but between move and line 410; the direction fits the ends
  of the shaft. It needs nothing of the passengers, which is why a passenger who
  overwrites `wait_at` cannot hurt it.
* `StateMatchesPc`, `OccupantsExact`: `main.c`'s record of a passenger follows
  where the passenger's thread is; its count of an elevator is the number of
  those inside. These hold through every overlap because the commits are made
  under `state_lock`.
* `HandshakeInv`, until the first overlap: one passenger per section
  (`Exclusive`) and `is_elevator_ready` as a token (`Token`): issued when the
  door opens, taken by one passenger in its section, given back through
  `is_passenger_ready`; as long as it is out the elevator stands at its door. With
  the token `RightFloor` and `Counts` are stable. The mutex itself appears nowhere
  in the argument, since it excludes nobody; `overlapped` is set by the very step
  that enters a section somebody is in.

Hence `CallOrderHolds`, `OccupantsHold` and `DriveHolds` (always), `HandshakeHolds` and
`ChecksHoldUntilOverlap` (until the first overlap). The lemmas are one per thread
kind and conjunct; frame lemmas say what a thread's step leaves alone.

**Ride list** (`RideListProofs`, beside `SafetyInv`). A list is the least set that has
its first cell and the successor of each of its cells (`Chain`), which needs no
induction. `ListsExact` says, until the first overlap, that the cells from `riding[e]`
on are those who have got from `add_to_list` to `remove_from_list`, that no two of them
share a successor and none leads back to the first (`Unforked`), that nobody else has a
successor, and that what a walk over the list has found is still the last cell, or the
one in front of the passenger, when the pointer is written (`Found`). The last is where
the lock is needed, so `Exclusive` is used there and nowhere else. `ChainAppend`,
`ChainRemoveHead`, `ChainRemoveAfter` and `ChainFrame` are the list operations.
`RideListIsExact` and `ListAssertHolds` follow: the assert of `remove_from_list` fails
after an overlap only.

`SchedulerRefinementProofs` derives from `SafetyInv` that the threads implement
`Building` (`SchedulerImplementsBuilding`). The lock is invisible in the building;
the callbacks' commits are `Board` and `Alight`, the signals and the elevator's
wakeup leave it alone because "somebody has passed this opening" moves from the
passenger's program counter to `is_passenger_ready` and from there to the
elevator's, and the lock step that lets a second passenger into a section is
`Break`. After it the building admits anybody through any door but still moves
doors and cabins soundly and returns passengers only where they wanted to be.

**hw8b** (`EpollServerProofs`). `SafetyInv` adds to the properties what they rest
on: who is connected (`ConnectionsFit`) and how the parties name descriptors
(`PartiesFit`). The key fact is `askerfd = 1`, the first descriptor there is: nothing in
the code looks for a new asker after an exit, and the newcomer becomes the asker
only because `accept` hands out the lowest number that is free. `EpollSafetyHolds`
is the invariant, `BatchStaysOpen`, `AnswersTakenAreOwed`, `StateKnowsParties` and
`InvitedIsAsker` are the properties, and `EpollImplementsConversation` shows that each handler is a move of
`Conversation`, or leaves it alone, until the first departure.

**hw8a** (`ThreadServerProofs`). `TypeCorrect` and `RelaysWhatItRead` hold for every
number of clients; each property has an inductive invariant of its own beside the types.

* `BufferInv`, for `RelayedAsRead`: a buffer between two reads is zeros, after a read it
  is what was read with zeros behind (`Holds`), until the thread refuses a message, a message
  goes on behind a zero byte, or it started on a dirty stack (`soil`). `Introduces`: a client that `main` is introducing
  has been accepted and has no thread yet.
* `TurnsInv`, for `TurnsAlternate`, as long as no conversation has ended and threads start:
  `main`, between two steps of an introduction, has
  `actives`, `asker` and the rest as far as it has got (`MainFits`), each seat belongs to
  the client that took it (`SeatsFit`), and either one client is alone and cannot pass
  anything on (`Waiting`) or the two threads and `state` stand where one and the same
  turn puts them (`Turns`). The thread whose turn it is changes `state` and `pending` and
  the other's steps leave them alone, which stands in for the lock that is not there.
* `ListInv`, for `ListIsExactUnlessCrowded`: as long as threads have worked on the list
  one at a time, it is `Calm`, or in the middle of one insertion (`Inserting`), or of one
  removal (`Removing`), which says for each line of `insert` and `remove_inactives` which
  structs are allocated, how they are linked (`ListOf`), whom `asker`, `askerfd` and the
  others name (`SeatsOf`) and which are marked.

With three seats the hypothesis of the last two fails for a reason: the third client
takes the answerer's place and line 56 sets `state` under an open question, and `askerfd`
may outlive its client while another stays.

**Shell** (`ShellProofs`, under `ShellAssumption` and `TableAssumption`: the table has
room for the six descriptors the shell starts with). `ShellInv` adds to types,
`StdioRestored` and `OnlyNewestIsWritten` that descriptors 0 to 5 are never closed and 3 to
5 never anything but the terminal (`KeepsTty`), hence all that is handed out is above 5
(`HighFrames`), that a call waits with its frame on the stack (`LeftCalled`), and that a
write end is the one just made, in the shell under the number its frame holds and in
the child (`ShellWrites`, `ChildWrites`). `Nth` gives free descriptors, and different
ones for different calls (`NthIsFree`, `NthsDiffer`).

`LeaksAreExact` counts what `LeakIsExact` says the shell loses. It
needs to know who will close what: `Balance` divides the open descriptors into the read
ends that the calls on the stack will close (`Held`, all different), the write end of the
inmost call (`Writing`) and the rest (`Kept`), which are the six of the start and two for
every pipeline made. `Push` and `Pop` follow `Held` through the recursion; `NthBefore`
shows that a table with room for the fourth descriptor of a pipeline had it for the first
three.

`EveryCommandIsCalled` and `NeighboursArePlumbed` are about lines with a blank behind each
bar (`Spaced`). `OrderInv` names a place in the line, `Here`, for whatever the shell does:
what was called are the commands in front of it, from left to right (`CalledUpTo`); from
there on the text is still what was typed, with a terminator where the sequence that is
being run ends (`Stop`, `RestIsTyped`); and at most one call of `run_sequence` is open,
below all pipelines. `Piece` says what `strtok` may cut
out of such a text, and each call moves `Here` behind what it has cut. `PlumbingInv` adds
the channels (`Channels`): 1 and 2 are the line's files; to the right of a bar 0 is the
pipe whose tokens the command left of that bar wrote (`WrittenBy`), while the shell waits
for that command the pipe is the newest and its read end the one in the frame, and the
outermost call of `run_pipeline` (`Depth`) holds the copy of 0 that is put back in the end.
With `OnlyNewestIsWritten` nobody can write any more to what a command reads.

`ShellImplements` is the refinement of `Pipelines`. Two facts are missing from `Plumbing`,
which speaks of the moment a command is forked: what it is connected to as long as it
runs, and that what stands in a pipe was written by a command at all. `FlowInv`
adds them (`Linked`): 0 of the child is 0 of the shell or a file, its 1 is the newest pipe only
while the shell waits for the left command, and what it reads is another pipe than that. On the
side of the line, `AfterIsWord` and `LeftPrecedes` show that the command left of a bar
is the word directly in front of it, which is what lets `left` in `Pipelines` be about
places alone. The two forks map to `Call` (`ForkUser`: every word in front of the new one has
been called, and the pipe it finds on 0 is what its neighbour wrote, or empty if
there is no neighbour), the child's steps to `Read`, `Write` and `End` (`ChildUser`),
a new line to `NewLine` (`ReadLineUser`, for which every word of the old one must have been
called). All else stutters: a call of `run_sequence`, a switch of 0 or a return changes
nothing the user can see.

**Editor** (`LineEditorProofs`, under `EditorAssumption`: sizes, and that `Chars` are bytes
besides the terminator and the newline, both of which can be typed too). The properties are
inductive together with `EntriesFit` (entries are shorter than a line) and `ShownExists`.
`LinesAreWhole`: a line not torn is clear behind its end, an entry not marked ends in its newline. `Rows`, `Place`, `Rightwards` and `Leftwards` are the arithmetic of
columns; `Least` gives the least element that `CHOOSE` needs in `StringOf` and
`LengthOf`. `EditorImplementsLine` maps every key to a step of `Line`: the array is the
text as long as it is whole, deletion in the array is the joining of two pieces, `strcpy`
up to the newline gives the entry back.

**Small programs** (`SmallProofs`). `CounterIsLate`; `EveryFolderIsOwn` and
`TerminalReadsOwn` from what a search has found taken (`Searches`), under `OldAssumption`;
`CountersAreNeverAhead` and `WaitlistHoldsFirstRound` from the cardinality of the sets of
requests that have got so far, under `LogAssumption`: as many entries as passengers.
`OneTripIsSafe`: with one trip per passenger, as shipped, the array is not overrun.

**Filter** (`SmallProofs`, under `FilterAssumption`: the letters of the two words and the
terminator are among the bytes). The reference `FilteredTo` is a recursive function over the
prefixes of a line. That it exists, and any claim about all prefixes, is shown by a least
counterexample (`FirstOf`, from the well-foundedness of `<`), which takes the place of
induction. `CopiedTo` says how far a line is done: what has been copied is the line
filtered up to where the rest begins, and it is empty or ends with the D of GOD, so no word
can begin in it and end in the rest. `CopiedUpTo` carries that over a piece without the word,
`WordReplaced` over the first word. `HasLine` keeps the byte count at what was
asked for less what the text got shorter (`Halfway`); `WholeAndCount` and `FirstBytes` say what so
many bytes are in the end, `OverIs` is the `strcpy` back. `WrittenIsFiltered` is the property.

**Heap dump** (`SmallProofs`, under `HeapAssumption`: `main` asks for two sizes, the smaller
not below the smallest chunk). `DumpTellsTruth` is the property for every size of chunk, any
number of chunks in a round and wherever the library puts the break. Its inductive invariant
`HeapInv` has three parts.

* `TiledHeap`, about the library: the chunks lie one behind the other from 0 up to the last
  one, which ends at the break (`Tiled`); of two neighbours one is in use (`Unmerged`); the
  list has every free chunk once (`Listed`). `MallocTiles`, `FreeTiles` and `TrimTiles` carry
  it over the calls. `JoinsSpan` says what `free` joins: one chunk without a gap, of at most
  three. `RemovedIs` is what the list is without one of its chunks.
* `HeldOK` and `FindOK`, about `main`: what it holds in `HeldNow` are chunks in use, a
  different one for each variable, so that it frees nothing twice (`HeldOK`). What it holds
  before a loop is one table (`Before`), and `AllOrdered` shows loop by loop that each table
  entry follows from the one before. `FindOK` follows the search for the header: the list is
  empty, the chunk freed lies between two in use, so it alone is on the list and its link is
  the header.
* `WalkOK`, about the walks: everything below `chunk` has been printed, in order, and `chunk`
  is a chunk or behind the last one (`HeapWalk`); what has been printed is the beginning of the
  list, and `chunk` is what follows (`ListWalk`, with `RingIs` for the links).

`MainReusesNothing` is `NothingFits`: whenever `main` asks for memory, no chunk on the list is
large enough, so `malloc` of the model, which takes the memory from the last chunk, is never
stuck on its guard. `ServedInv` adds four facts to `HeapInv`. What is in use is what `main`
holds, no more (`LiveHeld`; `AllExact` shows it loop by loop). All of it but the first chunk is
small (`SizesOK`). A loop that asks has found or left the list empty (`EmptyOK`): before each
of them `main` holds the first chunk only, and then everything else is joined to the last
one (`BottomAlone`). The one exception is the call for a large chunk at the end. Before it, the
small ones lie in a row (`RowOK`, `RowGrows`), and every second one freed lies between two in use
(`EvenLiesAlone`, `FreeAlone`), so that it joins nothing and the list has small chunks only.

**Only model-checked**: liveness (`LineEnds`, `SessionsStart`, `EveryClientIsAccepted`,
`DepartureEndsIt`, `TripsCompleteUnlessParked`), which is out of TLAPS's reach, as is what
depends on ENABLED.

## 5. Left out

*hw7.* The checks that a callback runs on the thread it was given to. `next_wait`,
which is always -1 where it is tested. Logging and drawing and their locks.
`EPick` scans the lists in one step, although the code reads cell by cell while
passengers change them; the stop it chooses may be overwritten before it is used
(`PPost`, `PClaimIn`), so the steps that read it are checked against stale values.

*hw8a.* Using a freed struct or NULL is undefined and the model stops there
(`fate = "undefined"`). A condition of the source is one step even where it reads
two shared variables. A buffer that was filled may be followed by a zero byte, and then the model goes on
as if the buffer ended there; that text behind it is passed on, or cleared, counts as undefined.

*hw8b.* Line 101 writes beside the buffer when `read` fails or fills it; the model
stops there. The limit of 10 events per call is in the model and the proofs, but no
instance reaches it. The loop tells the listening socket from clients by `data.fd`, which never
is a client's number.

*Both servers.* Setting up the listening socket, logging. Descriptors are numbered
from the first that is free after the set-up.

*hw4.* Arguments: a command is one token, and an overflow of the argument array (12) is the
death of the child, which it can be. What is in the files; that N.stdout and its
neighbours are opened without O_TRUNC. A last line without a newline. When `pipe` fails
the code goes on with two numbers that were never set; the model stops. The code skips
the character behind a bar, whatever it is (84): `Plumbing`, `CommandsRunInOrder` and
`ImplementsPipelines` are about lines with a blank there, the others about all. `/dev/null` is opened for writing only, so
a command that reads it gets an error, which ends its input as well.

*hw5.* Drawing. What the linked shell does with a line: it is `dsh.o`, and whether there is
an output to show is left open. `Right` at the end of the array, where the code goes on.

*hw3.* Finding the real `write` by `dlsym`. A line longer than the buffer, and a count larger
than the string `safe.c` copies, are undefined and stop the model; so may the one byte that
`safe.c:25` writes behind its copy.

*hw6.* The heap is the C library's and external. `main.c` reads its structures, which
holds for a library that keeps no caches per thread: with them the freed chunks
would stay marked as used and the word `find_freelist` reads would be something else.
Addresses are words counted from the first chunk and are not formatted.

*hw2.* `repeat.o`, a binary; it may call in any order.

**Not modelled**: hw1, four programs with one call each and no state.

## 6. Plan

1. Done: `Enforcement`, `Scheduler`, `Building`; `Sockets`, `EpollServer`, `Conversation`,
   `ThreadServer`; `Shell`, `Pipelines`, `LineEditor`, `Line`, `Sessions`, `RequestLog`, `Filter`,
   `Counter`, `HeapDump`; the proofs of section 4.
2. The composition of the editor with the shell, if its source were there in place of
   `dsh.o`.
3. Proofs: every invariant and every step property the passing runs check is stated by a
   theorem. Liveness stays with TLC.
