---------------------------- MODULE SharedMemory ----------------------------
(***************************************************************************)
(* The shared-memory exercise: test_shareA.c types lines into a System V   *)
(* segment, test_shareB.c prints them, and a set of two semaphores makes   *)
(* them take turns (0: a line is ready, 1: the segment may be written).    *)
(*                                                                         *)
(* Each program finds or makes the segment and the set under one key, in   *)
(* two calls that the other program can come between; the maker of the set *)
(* gives the semaphores their values afterwards, one call each.  The       *)
(* results of semop and semctl are not looked at by the code, so an        *)
(* operation on a set that is gone lets the program go on.  The programs   *)
(* are started again and again: what one session leaves in the kernel is   *)
(* found by the next.                                                      *)
(***************************************************************************)
EXTENDS Integers, Sequences

CONSTANTS
    Line,           \* the lines a user types, "quit" apart
    Id,             \* identifiers the kernel gives to segments and to sets
    MaxTyped,       \* bound: lines typed in all
    MaxStarts       \* bound: how often each program is started

None == 0           \* no identifier: what a failed lookup returns
Quit == "quit"
Blank == ""         \* what a new segment holds

ASSUME ShmAssumption == None \notin Id /\ Quit \notin Line

VARIABLES
    proc,           \* for A and B: where it is, and the ids it holds
    segment,        \* the segment the key names, or None
    buf,            \* what each segment holds
    semset,         \* the set the key names, or None
    val,            \* its two semaphores
    madeSeg, madeSet, \* ids given out so far
    starts,         \* how often A and B were started
    typed, printed, \* history: lines typed at A, "quit" apart, and lines printed by B
    over,           \* history: ids a "quit" has gone through
    stale           \* history: a program picked up an object of a session that is over

shmvars == <<proc, segment, buf, semset, val, madeSeg, madeSet, starts,
             typed, printed, over, stale>>

Prog == {"A", "B"}
At(p, l) == proc[p].pc = l
Goto(p, l) == proc' = [proc EXCEPT ![p].pc = l]

ShmInit ==
    /\ proc = [p \in Prog |-> [pc |-> "shmget", seg |-> None, set |-> None]]
    /\ segment = None /\ semset = None
    /\ buf = [i \in Id |-> Blank] /\ val = <<0, 0>>
    /\ madeSeg = {} /\ madeSet = {}
    /\ starts = [p \in Prog |-> 1]
    /\ typed = <<>> /\ printed = <<>>
    /\ over = {} /\ stale = FALSE
-----------------------------------------------------------------------------
(* Setting up.                                                             *)

\* shmget(IPC_CREAT|IPC_EXCL): makes the segment, or learns that it exists.
shmget(p) ==
    /\ At(p, "shmget")
    /\ IF segment = None
       THEN \E i \in Id \ madeSeg :
              /\ segment' = i /\ madeSeg' = madeSeg \cup {i}
              /\ proc' = [proc EXCEPT ![p] = [@ EXCEPT !.pc = "semget", !.seg = i]]
       ELSE /\ Goto(p, "shmget2")
            /\ UNCHANGED <<segment, madeSeg>>
    /\ UNCHANGED <<buf, semset, val, madeSet, starts, typed, printed, over, stale>>

\* The second shmget: finds the segment, unless it was removed in between.
shmgetExisting(p) ==
    /\ At(p, "shmget2")
    /\ proc' = [proc EXCEPT ![p] = [@ EXCEPT !.pc = "semget", !.seg = segment]]
    /\ stale' = (stale \/ segment = None \/ <<"seg", segment>> \in over)
    /\ UNCHANGED <<segment, buf, semset, val, madeSeg, madeSet, starts,
                   typed, printed, over>>

\* semget(IPC_CREAT|IPC_EXCL): a set made here still has to get its values.
semget(p) ==
    /\ At(p, "semget")
    /\ IF semset = None
       THEN \E i \in Id \ madeSet :
              /\ semset' = i /\ madeSet' = madeSet \cup {i} /\ val' = <<0, 0>>
              /\ proc' = [proc EXCEPT ![p] = [@ EXCEPT !.pc = "setval0", !.set = i]]
       ELSE /\ Goto(p, "semget2")
            /\ UNCHANGED <<semset, madeSet, val>>
    /\ UNCHANGED <<segment, buf, madeSeg, starts, typed, printed, over, stale>>

Loop(p) == IF p = "A" THEN "P1" ELSE "P0"

semgetExisting(p) ==
    /\ At(p, "semget2")
    /\ proc' = [proc EXCEPT ![p] = [@ EXCEPT !.pc = Loop(p), !.set = semset]]
    /\ stale' = (stale \/ semset = None \/ <<"set", semset>> \in over)
    /\ UNCHANGED <<segment, buf, semset, val, madeSeg, madeSet, starts,
                   typed, printed, over>>

\* The live set of p, if the set p works with still exists.
Live(p) == proc[p].set # None /\ proc[p].set = semset

SetVal(p, at, n, v, next) ==
    /\ At(p, at) /\ Goto(p, next)
    /\ val' = IF Live(p) THEN [val EXCEPT ![n + 1] = v] ELSE val
    /\ UNCHANGED <<segment, buf, semset, madeSeg, madeSet, starts, typed, printed,
                   over, stale>>

\* The two calls swapped: semaphore 1 lets the writer in before 0 is cleared.
setValSwapped(p) == \/ SetVal(p, "setval0", 1, 1, "setval1")
                    \/ SetVal(p, "setval1", 0, 0, Loop(p))

setVal(p) == \/ SetVal(p, "setval0", 0, 0, "setval1")
             \/ SetVal(p, "setval1", 1, 1, Loop(p))

-----------------------------------------------------------------------------
(* Taking turns.                                                           *)

\* semop(-1): waits while the semaphore is 0; fails at once on a dead set.
P(p, at, n, next) ==
    /\ At(p, at) /\ Goto(p, next)
    /\ Live(p) => val[n + 1] > 0
    /\ val' = IF Live(p) THEN [val EXCEPT ![n + 1] = @ - 1] ELSE val
    /\ UNCHANGED <<segment, buf, semset, madeSeg, madeSet, starts, typed, printed,
                   over, stale>>

V(p, at, n, next) ==
    /\ At(p, at) /\ Goto(p, next)
    /\ val' = IF Live(p) THEN [val EXCEPT ![n + 1] = @ + 1] ELSE val
    /\ UNCHANGED <<segment, buf, semset, madeSeg, madeSet, starts, typed, printed,
                   over, stale>>

\* A: fgets into the segment.  shmat of no segment gives no address: the
\* program dies at the first use of it.
fgets ==
    /\ At("A", "fgets")
    /\ IF proc["A"].seg = None
       THEN Goto("A", "dead") /\ UNCHANGED <<buf, typed, over>>
       ELSE \E l \in Line \cup {Quit} :
              /\ Len(typed) < MaxTyped \/ l = Quit
              /\ buf' = [buf EXCEPT ![proc["A"].seg] = l]
              /\ typed' = IF l = Quit THEN typed ELSE Append(typed, l)
              /\ over' = IF l = Quit THEN over \cup {<<"seg", proc["A"].seg>>,
                                                     <<"set", proc["A"].set>>}
                                     ELSE over
              /\ Goto("A", "V0")
    /\ UNCHANGED <<segment, semset, val, madeSeg, madeSet, starts, printed, stale>>

waitToWrite == P("A", "P1", 1, "fgets")

\* "quit" is not announced to the reader.
lineReadyUnlessQuit ==
    /\ At("A", "V0") /\ Goto("A", "sent")
    /\ val' = IF Live("A") /\ buf[proc["A"].seg] # Quit THEN [val EXCEPT ![1] = @ + 1] ELSE val
    /\ UNCHANGED <<segment, buf, semset, madeSeg, madeSet, starts, typed, printed,
                   over, stale>>
lineReady == V("A", "V0", 0, "sent")

\* A reads its line back from the segment to see whether it was "quit".
afterSend ==
    /\ At("A", "sent")
    /\ Goto("A", IF buf[proc["A"].seg] = Quit THEN "done" ELSE "P1")
    /\ UNCHANGED <<segment, buf, semset, val, madeSeg, madeSet, starts, typed,
                   printed, over, stale>>

waitForLine == P("B", "P0", 0, "look")

\* B: "quit" ends it, any other line is printed.
look ==
    /\ At("B", "look")
    /\ IF proc["B"].seg = None
       THEN Goto("B", "dead") /\ UNCHANGED printed
       ELSE IF buf[proc["B"].seg] = Quit
       THEN Goto("B", "rmshm") /\ UNCHANGED printed
       ELSE Goto("B", "V1") /\ printed' = Append(printed, buf[proc["B"].seg])
    /\ UNCHANGED <<segment, buf, semset, val, madeSeg, madeSet, starts, typed, over, stale>>

mayWrite == V("B", "V1", 1, "P0")

\* shmctl(shmid, IPC_RMID): the key is free again, whoever is attached keeps
\* the memory.
removeSegment ==
    /\ At("B", "rmshm") /\ Goto("B", "rmsem")
    /\ segment' = IF segment = proc["B"].seg THEN None ELSE segment
    /\ UNCHANGED <<buf, semset, val, madeSeg, madeSet, starts, typed, printed, over, stale>>

\* semctl(shmid, ..., IPC_RMID), twice: the id is the segment's.  The set
\* goes only if the kernel happened to give both the same number.
removeSet ==
    /\ At("B", "rmsem") /\ Goto("B", "done")
    /\ semset' = IF semset = proc["B"].seg THEN None ELSE semset
    /\ UNCHANGED <<segment, buf, val, madeSeg, madeSet, starts, typed, printed, over, stale>>

\* A program that ended is started again by its user.
start(p) ==
    /\ proc[p].pc \in {"done", "dead"} /\ starts[p] < MaxStarts
    /\ starts' = [starts EXCEPT ![p] = @ + 1]
    /\ proc' = [proc EXCEPT ![p] = [pc |-> "shmget", seg |-> None, set |-> None]]
    /\ UNCHANGED <<segment, buf, semset, val, madeSeg, madeSet, typed, printed, over, stale>>

\* What the programs do by themselves, the user's typing and restarting apart.
SetUp(p) == shmget(p) \/ shmgetExisting(p) \/ semget(p) \/ semgetExisting(p) \/ setVal(p)
ProgramA == SetUp("A") \/ waitToWrite \/ lineReady \/ afterSend
ProgramB == SetUp("B") \/ waitForLine \/ look \/ mayWrite \/ removeSegment \/ removeSet

ShmNext == ProgramA \/ ProgramB \/ fgets \/ \E p \in Prog : start(p)

ShmSpec == ShmInit /\ [][ShmNext]_shmvars
-----------------------------------------------------------------------------
(* Properties.                                                             *)

ShmTypeOK ==
    /\ proc \in [Prog -> [pc : {"shmget", "shmget2", "semget", "semget2",
                                "setval0", "setval1", "P1", "fgets", "V0", "sent",
                                "P0", "look", "V1", "rmshm", "rmsem", "done", "dead"},
                          seg : Id \cup {None}, set : Id \cup {None}]]
    /\ segment \in Id \cup {None} /\ semset \in Id \cup {None}
    /\ val \in (0..1) \X (0..1)

\* A line is never overwritten while B looks at it, and B never looks at a line
\* A is still typing: the semaphores admit one of the two, although the set is
\* made in one call and given its values in two later ones.
OneInSegment ==
    ~ stale => ~ (proc["A"].pc \in {"fgets", "V0"} /\ proc["B"].pc \in {"look", "V1"})

\* No line is lost, repeated or reordered: B has printed all lines but the one
\* that is on its way, in whatever order the programs were started.
PrintedInStep ==
    ~ stale => /\ Len(printed) \in {Len(typed), Len(typed) - 1}
               /\ printed = SubSeq(typed, 1, Len(printed))

\* Both programs wait for each other only when one of them took over an object
\* that the session before has left behind.
Stuck == /\ At("A", "P1") /\ Live("A") /\ val[2] = 0
         /\ At("B", "P0") /\ Live("B") /\ val[1] = 0
StuckOnlyOnLeftOvers == Stuck => stale

\* The two semaphores make the programs take turns, line by line, and no order of
\* starting them, nor the calls that set the values one after the other, breaks that
\* while no object is left over.
TakeTurns == ShmTypeOK /\ OneInSegment /\ PrintedInStep /\ StuckOnlyOnLeftOvers

\* "quit" ends the reader as well, unless a left-over object is in use.
QuitEndsReader ==
    (At("A", "V0") /\ buf[proc["A"].seg] = Quit) ~> (At("B", "done") \/ stale)
=============================================================================
