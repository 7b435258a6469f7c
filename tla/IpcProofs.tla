----------------------------- MODULE IpcProofs ------------------------------
(***************************************************************************)
(* The two programs of the shared-memory exercise take turns, whatever the *)
(* lines, the identifiers and the number of sessions: ShmInv.              *)
(*                                                                         *)
(* The two sides of the message-queue exercise hear what was said, in      *)
(* order, and end cleanly, whatever the texts and the size of the queue:   *)
(* MqInv.                                                                  *)
(***************************************************************************)
EXTENDS SharedMemory, MessageQueue, TLAPS

-----------------------------------------------------------------------------
(* Shared memory: the invariant                                            *)

Made(x, made) == x = None \/ x \in made

\* Types; an identifier that anybody holds was given out, and what is over was held.
Objects ==
  /\ ShmTypeOK /\ buf \in [Id -> Line \cup {Quit, Blank}]
  /\ typed \in Seq(Line) /\ printed \in Seq(Line \cup {Blank})
  /\ madeSeg \subseteq Id /\ madeSet \subseteq Id
  /\ Made(segment, madeSeg) /\ Made(semset, madeSet)
  /\ \A p \in Prog : Made(proc[p].seg, madeSeg) /\ Made(proc[p].set, madeSet)
  /\ \A i \in Id : /\ <<"seg", i>> \in over => i \in madeSeg
                   /\ <<"set", i>> \in over => i \in madeSet
  /\ proc["A"].pc \notin {"P0", "look", "V1", "rmshm", "rmsem"}
  /\ proc["B"].pc \notin {"P1", "fgets", "V0", "sent"}

\* A program between its P and its V on the set of the key, or about to give that its values.
HasTurn(p) == Live(p) /\ proc[p].pc \in {"fgets", "V0", "look", "V1", "rmshm", "rmsem",
                                         "setval0", "setval1"}

\* There is one turn, in a semaphore or with a program; true of left-over sets as well.
OneTurn ==
  /\ val[1] = 0 \/ val[2] = 0
  /\ HasTurn("A") \/ HasTurn("B") => val[1] = 0 /\ val[2] = 0
  /\ ~ (HasTurn("A") /\ HasTurn("B"))

OverSeg(i) == <<"seg", i>> \in over
OverSet(i) == <<"set", i>> \in over

\* The last line A typed into the segment it has was "quit".
SaidQuit == proc["A"].pc \in {"V0", "sent"} /\ buf[proc["A"].seg] = Quit

\* p has its segment, and its set.
Found(p) == proc[p].pc \notin {"shmget", "shmget2", "done", "dead"}
Joined(p) == Found(p) /\ proc[p].pc \notin {"semget", "semget2"}

\* What a program holds is what the keys name, A until it has announced "quit", B until it
\* has removed it.
HoldsCurrent ==
  /\ ~ At("A", "dead") /\ ~ At("B", "dead")
  /\ Found("A") => proc["A"].seg # None
  /\ Found("B") => proc["B"].seg # None
  /\ Found("A") /\ (At("A", "sent") => ~ SaidQuit) => proc["A"].seg = segment
  /\ Joined("A") /\ (At("A", "sent") => ~ SaidQuit) => Live("A")
  /\ Found("B") /\ ~ At("B", "rmsem") => proc["B"].seg = segment
  /\ Joined("B") => Live("B")

\* A "quit" is in the segment, and both objects are over, from the moment it is typed on:
\* neither A before it, nor B before it reads it, has anything that is over.
QuitMarks ==
  /\ \A i \in Id : OverSeg(i) <=> buf[i] = Quit
  /\ Found("A") /\ ~ SaidQuit => ~ OverSeg(proc["A"].seg)
  /\ Joined("A") => (SaidQuit <=> OverSet(proc["A"].set))
  /\ Found("B") /\ ~ Joined("B") /\ OverSeg(proc["B"].seg) => semset # None /\ OverSet(semset)
  /\ Joined("B") => (OverSet(semset) <=> OverSeg(proc["B"].seg))
  /\ proc["B"].pc \in {"rmshm", "rmsem"} => OverSeg(proc["B"].seg)

\* The turn is not lost before "quit".
TurnKept == semset # None /\ ~ OverSet(semset) => val[1] = 1 \/ val[2] = 1 \/ HasTurn("A") \/ HasTurn("B")

\* A line is ready in the semaphore: A has sent it.
Ready == val[1] = 1 /\ semset # None /\ ~ OverSet(semset)
SentByA == Ready => ~ SaidQuit /\ proc["A"].pc \in {"sent", "P1"}

\* The line that is on its way to B, if any, is all that is not printed.
OnItsWay ==
  \/ At("A", "V0") /\ ~ SaidQuit
  \/ Ready
  \/ At("B", "look") /\ buf[proc["B"].seg] # Quit
LineByLine == typed = IF OnItsWay THEN Append(printed, buf[segment]) ELSE printed

InSession == HoldsCurrent /\ QuitMarks /\ TurnKept /\ SentByA /\ LineByLine

ShmInv == Objects /\ OneTurn /\ (~ stale => InSession)

-----------------------------------------------------------------------------
(* Shared memory: the steps of a session                                   *)

Places(p) ==
  {"shmget", "shmget2", "semget", "semget2", "setval0", "setval1", "done", "dead"}
    \cup IF p = "A" THEN {"P1", "fgets", "V0", "sent"} ELSE {"P0", "look", "V1", "rmshm", "rmsem"}

\* What a step leaves of the types when program p goes to l, with the segment s and the set t.
LEMMA PickedUp ==
  ASSUME Objects, NEW p \in Prog, NEW l \in Places(p), NEW s \in Id \cup {None},
         NEW t \in Id \cup {None},
         proc' = [proc EXCEPT ![p] = [pc |-> l, seg |-> s, set |-> t]]
  PROVE  /\ proc'[p].pc = l /\ proc'[p].seg = s /\ proc'[p].set = t
         /\ \A q \in Prog \ {p} : proc'[q] = proc[q]
         /\ /\ Made(s, madeSeg') /\ Made(t, madeSet')
            /\ Made(segment', madeSeg') /\ Made(semset', madeSet')
            /\ madeSeg \subseteq madeSeg' /\ madeSet \subseteq madeSet'
            /\ madeSeg' \subseteq Id /\ madeSet' \subseteq Id
            /\ UNCHANGED <<buf, over, typed>> /\ printed' \in Seq(Line \cup {Blank})
            /\ val' \in (0 .. 1) \X (0 .. 1)
            => Objects'
PROOF
  <1>1. /\ proc'[p].pc = l /\ proc'[p].seg = s /\ proc'[p].set = t
        /\ \A q \in Prog \ {p} : proc'[q] = proc[q]
        /\ DOMAIN proc' = Prog /\ proc' = [q \in Prog |-> proc'[q]]
    BY Zenon DEF Objects, ShmTypeOK
  <1>2. ASSUME Made(s, madeSeg'), Made(t, madeSet'), Made(segment', madeSeg'), Made(semset', madeSet'),
               madeSeg \subseteq madeSeg', madeSet \subseteq madeSet',
               madeSeg' \subseteq Id, madeSet' \subseteq Id,
               UNCHANGED <<buf, over, typed>>, printed' \in Seq(Line \cup {Blank}),
               val' \in (0 .. 1) \X (0 .. 1)
        PROVE  Objects'
    <2> DEFINE Where == {"shmget", "shmget2", "semget", "semget2",
                         "setval0", "setval1", "P1", "fgets", "V0", "sent",
                         "P0", "look", "V1", "rmshm", "rmsem", "done", "dead"}
               Record == [pc : Where, seg : Id \cup {None}, set : Id \cup {None}]
    <2>1. /\ segment' \in Id \cup {None} /\ semset' \in Id \cup {None}
      BY <1>2, Zenon DEF Made
    <2>2. l \in Where BY DEF Places
    <2>3. proc'[p] = [pc |-> l, seg |-> s, set |-> t] BY Zenon DEF Objects, ShmTypeOK
    <2>4. \A q \in Prog : proc[q] \in Record BY Zenon DEF Objects, ShmTypeOK
    <2> HIDE DEF Where
    <2>5. proc'[p] \in Record BY <2>1, <2>2, <2>3
    <2> HIDE DEF Record
    <2>6. \A q \in Prog : proc'[q] \in Record BY <1>1, <2>4, <2>5, Zenon
    <2>7. proc' \in [Prog -> Record] BY <1>1, <2>6, Zenon
    <2>8. ShmTypeOK' BY <1>2, <2>1, <2>7, Zenon DEF ShmTypeOK, Record, Where
    <2>9. proc'["A"].pc \notin {"P0", "look", "V1", "rmshm", "rmsem"}
      BY <1>1, Zenon DEF Objects, Places, Prog
    <2>10. proc'["B"].pc \notin {"P1", "fgets", "V0", "sent"}
      BY <1>1, Zenon DEF Objects, Places, Prog
    <2>11. \A q \in Prog : Made(proc[q].seg, madeSeg') /\ Made(proc[q].set, madeSet')
      BY <1>2, Zenon DEF Objects, Made
    <2>12. \A q \in Prog : Made(proc'[q].seg, madeSeg') /\ Made(proc'[q].set, madeSet')
      BY <1>1, <1>2, <2>11, Zenon
    <2>13. \A i \in Id : /\ <<"seg", i>> \in over' => i \in madeSeg'
                         /\ <<"set", i>> \in over' => i \in madeSet'
      BY <1>2, Zenon DEF Objects
    <2>14. buf' \in [Id -> Line \cup {Quit, Blank}] /\ typed' \in Seq(Line) BY <1>2, Zenon DEF Objects
    <2> QED BY <1>2, <2>8, <2>9, <2>10, <2>12, <2>13, <2>14, Zenon DEF Objects
  <1> QED BY <1>1, <1>2, Zenon

\* The same when p keeps what it holds.
LEMMA Moved ==
  ASSUME Objects, NEW p \in Prog, NEW l \in Places(p), Goto(p, l)
  PROVE  /\ proc'[p].pc = l /\ proc'[p].seg = proc[p].seg /\ proc'[p].set = proc[p].set
         /\ \A q \in Prog \ {p} : proc'[q] = proc[q]
         /\ UNCHANGED <<buf, madeSeg, madeSet, over, typed>> /\ printed' \in Seq(Line \cup {Blank})
              /\ segment' \in {segment, None} /\ semset' \in {semset, None}
              /\ val' \in (0 .. 1) \X (0 .. 1)
            => Objects'
PROOF
  <1>1. proc' = [proc EXCEPT ![p] = [pc |-> l, seg |-> proc[p].seg, set |-> proc[p].set]]
    <2> DEFINE r == proc[p]
    <2>1. \E W : r \in [pc : W, seg : Id \cup {None}, set : Id \cup {None}]
      BY Zenon DEF Objects, ShmTypeOK
    <2>2. proc' = [proc EXCEPT ![p] = [r EXCEPT !.pc = l]] BY DEF Goto
    <2> HIDE DEF r
    <2>3. [r EXCEPT !.pc = l] = [pc |-> l, seg |-> r.seg, set |-> r.set] BY <2>1
    <2> QED BY <2>2, <2>3, Zenon DEF r
  <1> DEFINE s == proc[p].seg
             t == proc[p].set
  <1>a. s \in Id \cup {None} /\ t \in Id \cup {None} BY Zenon DEF Objects, ShmTypeOK
  <1>b. Made(s, madeSeg) /\ Made(t, madeSet) BY Zenon DEF Objects
  <1>c. proc' = [proc EXCEPT ![p] = [pc |-> l, seg |-> s, set |-> t]] BY <1>1
  <1> HIDE DEF s, t
  <1>2. ASSUME UNCHANGED <<buf, madeSeg, madeSet, over, typed>>, printed' \in Seq(Line \cup {Blank}),
               segment' \in {segment, None}, semset' \in {semset, None},
               val' \in (0 .. 1) \X (0 .. 1)
        PROVE  Objects'
    <2>1. /\ Made(s, madeSeg') /\ Made(t, madeSet')
          /\ Made(segment', madeSeg') /\ Made(semset', madeSet')
          /\ madeSeg \subseteq madeSeg' /\ madeSet \subseteq madeSet'
          /\ madeSeg' \subseteq Id /\ madeSet' \subseteq Id
      BY <1>2, <1>b, Zenon DEF Objects, Made
    <2>2. UNCHANGED <<buf, over, typed>> /\ printed' \in Seq(Line \cup {Blank})
          /\ val' \in (0 .. 1) \X (0 .. 1)
      BY <1>2
    <2> QED BY <1>a, <1>c, <2>1, <2>2, PickedUp, Zenon
  <1>3. /\ proc'[p].pc = l /\ proc'[p].seg = s /\ proc'[p].set = t
        /\ \A q \in Prog \ {p} : proc'[q] = proc[q]
    BY <1>c, Zenon DEF Objects, ShmTypeOK
  <1> QED BY <1>2, <1>3, Zenon DEF s, t

\* A semaphore is given a value.
LEMMA SetSemaphore ==
  ASSUME NEW q \in (0 .. 1) \X (0 .. 1), NEW v \in 0 .. 1
  PROVE  /\ q[1] \in 0 .. 1 /\ q[2] \in 0 .. 1
         /\ [q EXCEPT ![1] = v] \in (0 .. 1) \X (0 .. 1)
         /\ [q EXCEPT ![1] = v][1] = v /\ [q EXCEPT ![1] = v][2] = q[2]
         /\ [q EXCEPT ![2] = v] \in (0 .. 1) \X (0 .. 1)
         /\ [q EXCEPT ![2] = v][2] = v /\ [q EXCEPT ![2] = v][1] = q[1]
PROOF OBVIOUS

\* A finds that it may write.
LEMMA WaitToWriteStep ==
  ASSUME ShmInv, waitToWrite
  PROVE  ShmInv'
PROOF
  <1> USE DEF At, Live, HasTurn, Found, Joined, SaidQuit, OverSeg, OverSet
  <1>0. /\ At("A", "P1") /\ (Live("A") => val[2] > 0)
        /\ UNCHANGED <<segment, buf, semset, typed, printed, over, stale>>
    BY DEF waitToWrite, P
  <1>1. Objects /\ OneTurn /\ "A" \in Prog /\ "B" \in Prog /\ Prog = {"A", "B"}
    BY DEF ShmInv, Prog
  <1>2. /\ val[1] \in 0 .. 1 /\ val[2] \in 0 .. 1 /\ val' \in (0 .. 1) \X (0 .. 1)
        /\ Live("A") => val[2] = 1 /\ val[1] = 0 /\ val'[2] = 0 /\ val'[1] = 0
        /\ ~ Live("A") => val'[1] = val[1] /\ val'[2] = val[2]
    <2>1. val \in (0 .. 1) \X (0 .. 1) BY <1>1, Zenon DEF Objects, ShmTypeOK
    <2>2. val' = IF Live("A") THEN [val EXCEPT ![2] = val[2] - 1] ELSE val
      BY DEF waitToWrite, P
    <2>3. val[1] \in 0 .. 1 /\ val[2] \in 0 .. 1 BY <2>1
    <2>4. Live("A") => val[2] = 1 /\ val[1] = 0 BY <1>0, <1>1, <2>3 DEF OneTurn
    <2>5. CASE Live("A")
      <3>a. val[2] - 1 = 0 BY <2>4, <2>5
      <3>1. val' = [val EXCEPT ![2] = 0] BY <2>2, <2>5, <3>a, Zenon
      <3>2. val'[2] = 0 /\ val'[1] = val[1] /\ val' \in (0 .. 1) \X (0 .. 1)
        BY <2>1, <3>1, SetSemaphore
      <3> QED BY <2>3, <2>4, <2>5, <3>2, Zenon
    <2>6. CASE ~ Live("A") BY <2>1, <2>2, <2>3, <2>6, Zenon
    <2> QED BY <2>5, <2>6, Zenon
  <1>3. /\ proc'["A"].pc = "fgets" /\ proc'["A"].seg = proc["A"].seg
        /\ proc'["A"].set = proc["A"].set /\ proc'["B"] = proc["B"] /\ Objects'
    <2>1. "fgets" \in Places("A") BY DEF Places
    <2>2. Goto("A", "fgets") /\ UNCHANGED <<buf, madeSeg, madeSet, over, typed>>
          /\ segment' \in {segment, None} /\ semset' \in {semset, None}
      BY Zenon DEF waitToWrite, P
    <2>3. printed' \in Seq(Line \cup {Blank}) BY <1>0, <1>1, Zenon DEF Objects
    <2> QED BY <1>1, <1>2, <2>1, <2>2, <2>3, Moved, Zenon
  <1>4. OneTurn' BY <1>0, <1>1, <1>2, <1>3 DEF OneTurn
  <1>5. ASSUME ~ stale' PROVE InSession'
    <2>1. HoldsCurrent /\ QuitMarks /\ TurnKept /\ SentByA /\ LineByLine
      BY <1>0, <1>5, Zenon DEF ShmInv, InSession
    <2>h. HoldsCurrent BY <2>1
    <2>q. QuitMarks BY <2>1
    <2>t. TurnKept BY <2>1
    <2>s. SentByA BY <2>1
    <2>l. LineByLine BY <2>1
    <2>a. /\ Live("A") /\ ~ HasTurn("B")
          /\ val[1] = 0 /\ val[2] = 1 /\ val'[1] = 0 /\ val'[2] = 0
      BY <1>0, <1>1, <1>2, <2>h DEF HoldsCurrent, OneTurn
    <2>2. HoldsCurrent' BY <1>0, <1>3, <2>h, Zenon DEF HoldsCurrent
    <2>3. QuitMarks' BY <1>0, <1>3, <2>h, <2>q, Zenon DEF QuitMarks, HoldsCurrent
    <2>4. TurnKept' BY <1>0, <1>3, <2>a, <2>h, <2>t, Zenon DEF TurnKept, HoldsCurrent
    <2>5. SentByA' BY <1>0, <1>3, <2>a, <2>h, <2>s, <2>q DEF SentByA, Ready, HoldsCurrent, QuitMarks
    <2>6. LineByLine'
      <3>1. OnItsWay' <=> OnItsWay
        BY <1>0, <1>3, <2>a, <2>h, <2>s, <2>q, Zenon
          DEF OnItsWay, Ready, OneTurn, HoldsCurrent, SentByA, QuitMarks
      <3> QED BY <1>0, <1>3, <2>a, <2>l, <3>1, Zenon DEF LineByLine
    <2> QED BY <2>2, <2>3, <2>4, <2>5, <2>6 DEF InSession
  <1> QED BY <1>3, <1>4, <1>5, Zenon DEF ShmInv

\* A announces the line.
LEMMA LineReadyStep ==
  ASSUME ShmInv, lineReady
  PROVE  ShmInv'
PROOF
  <1> USE DEF At, Live, HasTurn, Found, Joined, SaidQuit, OverSeg, OverSet
  <1>0. /\ At("A", "V0")
        /\ UNCHANGED <<segment, buf, semset, typed, printed, over, stale>>
    BY DEF lineReady, V
  <1>1. Objects /\ OneTurn /\ "A" \in Prog /\ "B" \in Prog /\ Prog = {"A", "B"}
    BY DEF ShmInv, Prog
  <1>2. /\ val[1] \in 0 .. 1 /\ val[2] \in 0 .. 1 /\ val' \in (0 .. 1) \X (0 .. 1)
        /\ Live("A") => val[1] = 0 /\ val[2] = 0 /\ val'[1] = 1 /\ val'[2] = 0
        /\ ~ Live("A") => val'[1] = val[1] /\ val'[2] = val[2]
    <2>1. val \in (0 .. 1) \X (0 .. 1) BY <1>1, Zenon DEF Objects, ShmTypeOK
    <2>2. val' = IF Live("A") THEN [val EXCEPT ![1] = val[1] + 1] ELSE val
      BY DEF lineReady, V
    <2>3. val[1] \in 0 .. 1 /\ val[2] \in 0 .. 1 BY <2>1
    <2>4. Live("A") => val[1] = 0 /\ val[2] = 0 BY <1>0, <1>1, <2>3, Zenon DEF OneTurn
    <2>5. CASE Live("A")
      <3>a. val[1] + 1 = 1 BY <2>4, <2>5
      <3>1. val' = [val EXCEPT ![1] = 1] BY <2>2, <2>5, <3>a, Zenon
      <3>2. val'[1] = 1 /\ val'[2] = val[2] /\ val' \in (0 .. 1) \X (0 .. 1)
        BY <2>1, <3>1, SetSemaphore
      <3> QED BY <2>3, <2>4, <2>5, <3>2, Zenon
    <2>6. CASE ~ Live("A") BY <2>1, <2>2, <2>3, <2>6, Zenon
    <2> QED BY <2>5, <2>6, Zenon
  <1>3. /\ proc'["A"].pc = "sent" /\ proc'["A"].seg = proc["A"].seg
        /\ proc'["A"].set = proc["A"].set /\ proc'["B"] = proc["B"] /\ Objects'
    <2>1. "sent" \in Places("A") BY DEF Places
    <2>2. Goto("A", "sent") /\ UNCHANGED <<buf, madeSeg, madeSet, over, typed>>
          /\ segment' \in {segment, None} /\ semset' \in {semset, None}
      BY DEF lineReady, V
    <2>3. printed' \in Seq(Line \cup {Blank}) BY <1>0, <1>1, Zenon DEF Objects
    <2> QED BY <1>1, <1>2, <2>1, <2>2, <2>3, Moved, Zenon
  <1>4. OneTurn' BY <1>0, <1>1, <1>2, <1>3, Zenon DEF OneTurn
  <1>5. ASSUME ~ stale' PROVE InSession'
    <2>1. HoldsCurrent /\ QuitMarks /\ TurnKept /\ SentByA /\ LineByLine
      BY <1>0, <1>5 DEF ShmInv, InSession
    <2>h. HoldsCurrent BY <2>1
    <2>q. QuitMarks BY <2>1
    <2>t. TurnKept BY <2>1
    <2>s. SentByA BY <2>1
    <2>l. LineByLine BY <2>1
    <2>a. /\ Live("A") /\ ~ HasTurn("B")
          /\ val[1] = 0 /\ val[2] = 0 /\ val'[1] = 1 /\ val'[2] = 0
      BY <1>0, <1>1, <1>2, <2>h, Zenon DEF HoldsCurrent, OneTurn
    <2>2. HoldsCurrent' BY <1>0, <1>3, <2>h, Zenon DEF HoldsCurrent
    <2>3. QuitMarks' BY <1>0, <1>3, <2>h, <2>q, Zenon DEF QuitMarks, HoldsCurrent
    <2>4. TurnKept' BY <1>0, <1>3, <2>a, <2>h, <2>t, Zenon DEF TurnKept, HoldsCurrent
    <2>5. SentByA' BY <1>0, <1>3, <2>a, <2>h, <2>s, <2>q, Zenon DEF SentByA, Ready, HoldsCurrent, QuitMarks
    <2>6. LineByLine'
      <3>1. OnItsWay' <=> OnItsWay
        BY <1>0, <1>3, <2>a, <2>h, <2>s, <2>q, Zenon
          DEF OnItsWay, Ready, OneTurn, HoldsCurrent, SentByA, QuitMarks
      <3> QED BY <1>0, <1>3, <2>a, <2>l, <3>1, Zenon DEF LineByLine
    <2> QED BY <2>2, <2>3, <2>4, <2>5, <2>6 DEF InSession
  <1> QED BY <1>3, <1>4, <1>5, Zenon DEF ShmInv

\* B finds that a line is ready.
LEMMA WaitForLineStep ==
  ASSUME ShmInv, waitForLine
  PROVE  ShmInv'
PROOF
  <1> USE DEF At, Live, HasTurn, Found, Joined, SaidQuit, OverSeg, OverSet
  <1>0. /\ At("B", "P0") /\ (Live("B") => val[1] > 0)
        /\ UNCHANGED <<segment, buf, semset, typed, printed, over, stale>>
    BY DEF waitForLine, P
  <1>1. Objects /\ OneTurn /\ "A" \in Prog /\ "B" \in Prog /\ Prog = {"A", "B"}
    BY DEF ShmInv, Prog
  <1>2. /\ val[1] \in 0 .. 1 /\ val[2] \in 0 .. 1 /\ val' \in (0 .. 1) \X (0 .. 1)
        /\ Live("B") => val[1] = 1 /\ val[2] = 0 /\ val'[1] = 0 /\ val'[2] = 0
        /\ ~ Live("B") => val'[1] = val[1] /\ val'[2] = val[2]
    <2>1. val \in (0 .. 1) \X (0 .. 1) BY <1>1, Zenon DEF Objects, ShmTypeOK
    <2>2. val' = IF Live("B") THEN [val EXCEPT ![1] = val[1] - 1] ELSE val
      BY DEF waitForLine, P
    <2>3. val[1] \in 0 .. 1 /\ val[2] \in 0 .. 1 BY <2>1
    <2>4. Live("B") => val[1] = 1 /\ val[2] = 0 BY <1>0, <1>1, <2>3 DEF OneTurn
    <2>5. CASE Live("B")
      <3>a. val[1] - 1 = 0 BY <2>4, <2>5
      <3>1. val' = [val EXCEPT ![1] = 0] BY <2>2, <2>5, <3>a, Zenon
      <3>2. val'[1] = 0 /\ val'[2] = val[2] /\ val' \in (0 .. 1) \X (0 .. 1)
        BY <2>1, <3>1, SetSemaphore
      <3> QED BY <2>3, <2>4, <2>5, <3>2, Zenon
    <2>6. CASE ~ Live("B") BY <2>1, <2>2, <2>3, <2>6, Zenon
    <2> QED BY <2>5, <2>6, Zenon
  <1>3. /\ proc'["B"].pc = "look" /\ proc'["B"].seg = proc["B"].seg
        /\ proc'["B"].set = proc["B"].set /\ proc'["A"] = proc["A"] /\ Objects'
    <2>1. "look" \in Places("B") BY DEF Places
    <2>2. Goto("B", "look") /\ UNCHANGED <<buf, madeSeg, madeSet, over, typed>>
          /\ segment' \in {segment, None} /\ semset' \in {semset, None}
      BY DEF waitForLine, P
    <2>3. printed' \in Seq(Line \cup {Blank}) BY <1>0, <1>1, Zenon DEF Objects
    <2> QED BY <1>1, <1>2, <2>1, <2>2, <2>3, Moved, Zenon
  <1>4. OneTurn' BY <1>0, <1>1, <1>2, <1>3 DEF OneTurn
  <1>5. ASSUME ~ stale' PROVE InSession'
    <2>1. HoldsCurrent /\ QuitMarks /\ TurnKept /\ SentByA /\ LineByLine
      BY <1>0, <1>5, Zenon DEF ShmInv, InSession
    <2>h. HoldsCurrent BY <2>1
    <2>q. QuitMarks BY <2>1
    <2>t. TurnKept BY <2>1
    <2>s. SentByA BY <2>1
    <2>l. LineByLine BY <2>1
    <2>a. /\ Live("B") /\ ~ HasTurn("A")
          /\ val[1] = 1 /\ val[2] = 0 /\ val'[1] = 0 /\ val'[2] = 0
      BY <1>0, <1>1, <1>2, <2>h DEF HoldsCurrent, OneTurn
    <2>b. buf[proc["B"].seg] = Quit <=> OverSeg(proc["B"].seg)
      <3>1. proc["B"].seg \in Id BY <1>0, <1>1, <2>h, Zenon DEF Objects, ShmTypeOK, HoldsCurrent
      <3> QED BY <3>1, <2>q, Zenon DEF QuitMarks
    <2>2. HoldsCurrent' BY <1>0, <1>3, <2>h, Zenon DEF HoldsCurrent
    <2>3. QuitMarks' BY <1>0, <1>3, <2>h, <2>q, Zenon DEF QuitMarks, HoldsCurrent
    <2>4. TurnKept' BY <1>0, <1>3, <2>a, <2>h, <2>t, Zenon DEF TurnKept, HoldsCurrent
    <2>5. SentByA' BY <1>0, <1>3, <2>a, <2>h, <2>s, <2>q, Zenon DEF SentByA, Ready, HoldsCurrent, QuitMarks
    <2>6. LineByLine'
      <3>1. OnItsWay' <=> OnItsWay
        BY <1>0, <1>3, <2>a, <2>b, <2>h, <2>s, <2>q, Zenon
          DEF OnItsWay, Ready, OneTurn, HoldsCurrent, SentByA, QuitMarks
      <3> QED BY <1>0, <1>3, <2>a, <2>b, <2>l, <3>1, Zenon DEF LineByLine
    <2> QED BY <2>2, <2>3, <2>4, <2>5, <2>6 DEF InSession
  <1> QED BY <1>3, <1>4, <1>5, Zenon DEF ShmInv

\* B lets A write again.
LEMMA MayWriteStep ==
  ASSUME ShmInv, mayWrite
  PROVE  ShmInv'
PROOF
  <1> USE DEF At, Live, HasTurn, Found, Joined, SaidQuit, OverSeg, OverSet
  <1>0. /\ At("B", "V1")
        /\ UNCHANGED <<segment, buf, semset, typed, printed, over, stale>>
    BY DEF mayWrite, V
  <1>1. Objects /\ OneTurn /\ "A" \in Prog /\ "B" \in Prog /\ Prog = {"A", "B"}
    BY DEF ShmInv, Prog
  <1>2. /\ val[1] \in 0 .. 1 /\ val[2] \in 0 .. 1 /\ val' \in (0 .. 1) \X (0 .. 1)
        /\ Live("B") => val[2] = 0 /\ val[1] = 0 /\ val'[2] = 1 /\ val'[1] = 0
        /\ ~ Live("B") => val'[1] = val[1] /\ val'[2] = val[2]
    <2>1. val \in (0 .. 1) \X (0 .. 1) BY <1>1, Zenon DEF Objects, ShmTypeOK
    <2>2. val' = IF Live("B") THEN [val EXCEPT ![2] = val[2] + 1] ELSE val
      BY DEF mayWrite, V
    <2>3. val[1] \in 0 .. 1 /\ val[2] \in 0 .. 1 BY <2>1
    <2>4. Live("B") => val[2] = 0 /\ val[1] = 0 BY <1>0, <1>1, <2>3, Zenon DEF OneTurn
    <2>5. CASE Live("B")
      <3>a. val[2] + 1 = 1 BY <2>4, <2>5
      <3>1. val' = [val EXCEPT ![2] = 1] BY <2>2, <2>5, <3>a, Zenon
      <3>2. val'[2] = 1 /\ val'[1] = val[1] /\ val' \in (0 .. 1) \X (0 .. 1)
        BY <2>1, <3>1, SetSemaphore
      <3> QED BY <2>3, <2>4, <2>5, <3>2, Zenon
    <2>6. CASE ~ Live("B") BY <2>1, <2>2, <2>3, <2>6, Zenon
    <2> QED BY <2>5, <2>6, Zenon
  <1>3. /\ proc'["B"].pc = "P0" /\ proc'["B"].seg = proc["B"].seg
        /\ proc'["B"].set = proc["B"].set /\ proc'["A"] = proc["A"] /\ Objects'
    <2>1. "P0" \in Places("B") BY DEF Places
    <2>2. Goto("B", "P0") /\ UNCHANGED <<buf, madeSeg, madeSet, over, typed>>
          /\ segment' \in {segment, None} /\ semset' \in {semset, None}
      BY DEF mayWrite, V
    <2>3. printed' \in Seq(Line \cup {Blank}) BY <1>0, <1>1, Zenon DEF Objects
    <2> QED BY <1>1, <1>2, <2>1, <2>2, <2>3, Moved, Zenon
  <1>4. OneTurn' BY <1>0, <1>1, <1>2, <1>3, Zenon DEF OneTurn
  <1>5. ASSUME ~ stale' PROVE InSession'
    <2>1. HoldsCurrent /\ QuitMarks /\ TurnKept /\ SentByA /\ LineByLine
      BY <1>0, <1>5 DEF ShmInv, InSession
    <2>h. HoldsCurrent BY <2>1
    <2>q. QuitMarks BY <2>1
    <2>t. TurnKept BY <2>1
    <2>s. SentByA BY <2>1
    <2>l. LineByLine BY <2>1
    <2>a. /\ Live("B") /\ ~ HasTurn("A")
          /\ val[1] = 0 /\ val[2] = 0 /\ val'[1] = 0 /\ val'[2] = 1
      BY <1>0, <1>1, <1>2, <2>h, Zenon DEF HoldsCurrent, OneTurn
    <2>2. HoldsCurrent' BY <1>0, <1>3, <2>h, Zenon DEF HoldsCurrent
    <2>3. QuitMarks' BY <1>0, <1>3, <2>h, <2>q, Zenon DEF QuitMarks, HoldsCurrent
    <2>4. TurnKept' BY <1>0, <1>3, <2>a, <2>h, <2>t, Zenon DEF TurnKept, HoldsCurrent
    <2>5. SentByA' BY <1>0, <1>3, <2>a, <2>h, <2>s, <2>q, Zenon DEF SentByA, Ready, HoldsCurrent, QuitMarks
    <2>6. LineByLine'
      <3>1. OnItsWay' <=> OnItsWay
        BY <1>0, <1>3, <2>a, <2>h, <2>s, <2>q, Zenon
          DEF OnItsWay, Ready, OneTurn, HoldsCurrent, SentByA, QuitMarks
      <3> QED BY <1>0, <1>3, <2>a, <2>l, <3>1, Zenon DEF LineByLine
    <2> QED BY <2>2, <2>3, <2>4, <2>5, <2>6 DEF InSession
  <1> QED BY <1>3, <1>4, <1>5, Zenon DEF ShmInv

\* A reads its line back.
LEMMA AfterSendStep ==
  ASSUME ShmInv, afterSend
  PROVE  ShmInv'
PROOF
  <1> USE DEF At, Live, HasTurn, Found, Joined, SaidQuit, OverSeg, OverSet
  <1> DEFINE l == IF buf[proc["A"].seg] = Quit THEN "done" ELSE "P1"
  <1>0. /\ At("A", "sent") /\ Goto("A", l)
        /\ UNCHANGED <<segment, buf, semset, val, madeSeg, madeSet, typed, printed, over, stale>>
    BY DEF afterSend
  <1>1. Objects /\ OneTurn /\ "A" \in Prog /\ "B" \in Prog /\ Prog = {"A", "B"}
    BY DEF ShmInv, Prog
  <1>3. /\ proc'["A"].pc = l /\ proc'["A"].seg = proc["A"].seg
        /\ proc'["A"].set = proc["A"].set /\ proc'["B"] = proc["B"] /\ Objects'
    <2>1. l \in Places("A") BY DEF Places
    <2>2. Goto("A", l) /\ UNCHANGED <<buf, madeSeg, madeSet, over, typed>>
          /\ segment' \in {segment, None} /\ semset' \in {semset, None}
      BY <1>0, Zenon
    <2>3. printed' \in Seq(Line \cup {Blank}) BY <1>0, <1>1, Zenon DEF Objects
    <2>4. val' \in (0 .. 1) \X (0 .. 1) BY <1>0, <1>1, Zenon DEF Objects, ShmTypeOK
    <2> QED BY <1>1, <2>1, <2>2, <2>3, <2>4, Moved, Zenon
  <1>4. OneTurn' BY <1>0, <1>1, <1>3, Zenon DEF OneTurn
  <1>5. ASSUME ~ stale' PROVE InSession'
    <2>1. HoldsCurrent /\ QuitMarks /\ TurnKept /\ SentByA /\ LineByLine
      BY <1>0, <1>5, Zenon DEF ShmInv, InSession
    <2>h. HoldsCurrent BY <2>1
    <2>q. QuitMarks BY <2>1
    <2>t. TurnKept BY <2>1
    <2>s. SentByA BY <2>1
    <2>l. LineByLine BY <2>1
    <2>2. HoldsCurrent' BY <1>0, <1>3, <2>h, Zenon DEF HoldsCurrent
    <2>3. QuitMarks' BY <1>0, <1>3, <2>h, <2>q, Zenon DEF QuitMarks, HoldsCurrent
    <2>4. TurnKept' BY <1>0, <1>3, <2>h, <2>t, Zenon DEF TurnKept, HoldsCurrent
    <2>5. SentByA' BY <1>0, <1>3, <2>h, <2>s, <2>q, Zenon DEF SentByA, Ready, HoldsCurrent, QuitMarks
    <2>6. LineByLine'
      <3>1. OnItsWay' <=> OnItsWay
        BY <1>0, <1>3, <2>h, <2>s, <2>q, Zenon DEF OnItsWay, Ready, OneTurn, HoldsCurrent, SentByA, QuitMarks
      <3> QED BY <1>0, <1>3, <2>l, <3>1, Zenon DEF LineByLine
    <2> QED BY <2>2, <2>3, <2>4, <2>5, <2>6 DEF InSession
  <1> QED BY <1>3, <1>4, <1>5, Zenon DEF ShmInv

\* B looks at the line: it dies without a segment, goes to clean up on "quit", or prints.
LEMMA LookStep ==
  ASSUME ShmInv, look
  PROVE  ShmInv'
PROOF
  <1> USE DEF At, Live, HasTurn, Found, Joined, SaidQuit, OverSeg, OverSet
  <1> DEFINE s == proc["B"].seg
             l == IF s = None THEN "dead" ELSE IF buf[s] = Quit THEN "rmshm" ELSE "V1"
  <1>0. /\ At("B", "look") /\ Goto("B", l)
        /\ printed' = IF l = "V1" THEN Append(printed, buf[s]) ELSE printed
        /\ UNCHANGED <<segment, buf, semset, val, madeSeg, madeSet, typed, over, stale>>
    BY Zenon DEF look
  <1>1. Objects /\ OneTurn /\ "A" \in Prog /\ "B" \in Prog /\ Prog = {"A", "B"}
    BY DEF ShmInv, Prog
  <1>2. printed' \in Seq(Line \cup {Blank})
    <2>1. s \in Id \cup {None} BY <1>1, Zenon DEF Objects, ShmTypeOK
    <2>2. l = "V1" => buf[s] \in Line \cup {Blank} BY <1>1, <2>1, Zenon DEF Objects
    <2>3. printed \in Seq(Line \cup {Blank}) BY <1>1, Zenon DEF Objects
    <2> QED BY <1>0, <2>2, <2>3
  <1>3. /\ proc'["B"].pc = l /\ proc'["B"].seg = proc["B"].seg
        /\ proc'["B"].set = proc["B"].set /\ proc'["A"] = proc["A"] /\ Objects'
    <2>1. l \in Places("B") BY DEF Places
    <2>2. Goto("B", l) /\ UNCHANGED <<buf, madeSeg, madeSet, over, typed>>
          /\ segment' \in {segment, None} /\ semset' \in {semset, None}
      BY <1>0, Zenon
    <2>3. printed' \in Seq(Line \cup {Blank}) BY <1>2
    <2>4. val' \in (0 .. 1) \X (0 .. 1) BY <1>0, <1>1, Zenon DEF Objects, ShmTypeOK
    <2> QED BY <1>1, <2>1, <2>2, <2>3, <2>4, Moved, Zenon
  <1>4. OneTurn' BY <1>0, <1>1, <1>3, Zenon DEF OneTurn
  <1>5. ASSUME ~ stale' PROVE InSession'
    <2>1. HoldsCurrent /\ QuitMarks /\ TurnKept /\ SentByA /\ LineByLine
      BY <1>0, <1>5, Zenon DEF ShmInv, InSession
    <2>h. HoldsCurrent BY <2>1
    <2>q. QuitMarks BY <2>1
    <2>t. TurnKept BY <2>1
    <2>s. SentByA BY <2>1
    <2>l. LineByLine BY <2>1
    <2>a. s \in Id /\ s # None /\ s = segment /\ (buf[s] = Quit <=> OverSeg(s)) /\ val[1] = 0
          /\ proc["A"].pc # "V0"
      <3>1. s \in Id /\ s # None /\ s = segment /\ Live("B")
        BY <1>0, <1>1, <2>h, Zenon DEF Objects, ShmTypeOK, HoldsCurrent
      <3>2. buf[s] = Quit <=> OverSeg(s) BY <3>1, <2>q, Zenon DEF QuitMarks
      <3>3. val[1] = 0 /\ ~ HasTurn("A") BY <1>0, <1>1, <3>1, Zenon DEF OneTurn
      <3>4. proc["A"].pc # "V0" BY <2>h, <3>3, Zenon DEF HoldsCurrent
      <3> QED BY <3>1, <3>2, <3>3, <3>4, Zenon
    <2>2. HoldsCurrent' BY <1>0, <1>3, <2>a, <2>h, Zenon DEF HoldsCurrent, QuitMarks
    <2>3. QuitMarks' BY <1>0, <1>3, <2>a, <2>h, <2>q, Zenon DEF QuitMarks, HoldsCurrent
    <2>4. TurnKept' BY <1>0, <1>3, <2>a, <2>h, <2>t, Zenon DEF TurnKept, HoldsCurrent
    <2>5. SentByA' BY <1>0, <1>3, <2>a, <2>h, <2>s, <2>q, Zenon DEF SentByA, Ready, HoldsCurrent, QuitMarks
    <2>6. LineByLine'
      <3>1. ~ OnItsWay' /\ (OnItsWay <=> buf[s] # Quit)
        BY <1>0, <1>3, <2>a, <2>h, <2>s, <2>q
          DEF OnItsWay, Ready, OneTurn, HoldsCurrent, SentByA, QuitMarks
      <3> QED BY <1>0, <1>3, <2>a, <2>l, <3>1, Zenon DEF LineByLine
    <2> QED BY <2>2, <2>3, <2>4, <2>5, <2>6 DEF InSession
  <1> QED BY <1>3, <1>4, <1>5, Zenon DEF ShmInv

\* B removes the segment that "quit" is in.
LEMMA RemoveSegmentStep ==
  ASSUME ShmInv, removeSegment
  PROVE  ShmInv'
PROOF
  <1> USE DEF At, Live, HasTurn, Found, Joined, SaidQuit, OverSeg, OverSet
  <1>0. /\ At("B", "rmshm") /\ Goto("B", "rmsem") /\ segment' = IF segment = proc["B"].seg THEN None ELSE segment
        /\ UNCHANGED <<semset, buf, val, madeSeg, madeSet, typed, printed, over, stale>>
    BY DEF removeSegment
  <1>1. Objects /\ OneTurn /\ "A" \in Prog /\ "B" \in Prog /\ Prog = {"A", "B"}
    BY DEF ShmInv, Prog
  <1>3. /\ proc'["B"].pc = "rmsem" /\ proc'["B"].seg = proc["B"].seg
        /\ proc'["B"].set = proc["B"].set /\ proc'["A"] = proc["A"] /\ Objects'
    <2>1. "rmsem" \in Places("B") BY DEF Places
    <2>2. Goto("B", "rmsem") /\ UNCHANGED <<buf, madeSeg, madeSet, over, typed>>
          /\ segment' \in {segment, None} /\ semset' \in {semset, None}
      BY <1>0
    <2>3. printed' \in Seq(Line \cup {Blank}) BY <1>0, <1>1, Zenon DEF Objects
    <2>4. val' \in (0 .. 1) \X (0 .. 1) BY <1>0, <1>1, Zenon DEF Objects, ShmTypeOK
    <2> QED BY <1>1, <2>1, <2>2, <2>3, <2>4, Moved, Zenon
  <1>4. OneTurn' BY <1>0, <1>1, <1>3, Zenon DEF OneTurn
  <1>5. ASSUME ~ stale' PROVE InSession'
    <2>1. HoldsCurrent /\ QuitMarks /\ TurnKept /\ SentByA /\ LineByLine
      BY <1>0, <1>5 DEF ShmInv, InSession
    <2>h. HoldsCurrent BY <2>1
    <2>q. QuitMarks BY <2>1
    <2>t. TurnKept BY <2>1
    <2>s. SentByA BY <2>1
    <2>l. LineByLine BY <2>1
    <2>a. /\ OverSeg(proc["B"].seg) /\ OverSet(semset) /\ Live("B") /\ val[1] = 0
          /\ proc["A"].pc \notin {"fgets", "V0", "setval0", "setval1"}
      <3>1. OverSeg(proc["B"].seg) /\ Live("B") /\ OverSet(semset)
        BY <1>0, <2>h, <2>q, Zenon DEF HoldsCurrent, QuitMarks
      <3>2. val[1] = 0 BY <1>0, <1>1, <3>1, Zenon DEF OneTurn
      <3>3. ~ HasTurn("A") BY <1>0, <1>1, <3>1, Zenon DEF OneTurn
      <3>4. proc["A"].pc \notin {"fgets", "V0", "setval0", "setval1"} BY <2>h, <3>3, Zenon DEF HoldsCurrent
      <3> QED BY <3>1, <3>2, <3>4, Zenon
    <2>2. HoldsCurrent' BY <1>0, <1>3, <2>a, <2>q, <2>h, Zenon DEF HoldsCurrent, QuitMarks
    <2>3. QuitMarks' BY <1>0, <1>3, <2>a, <2>h, <2>q, Zenon DEF QuitMarks, HoldsCurrent
    <2>4. TurnKept' BY <1>0, <1>3, <2>a, <2>h, <2>t, Zenon DEF TurnKept, HoldsCurrent
    <2>5. SentByA' BY <1>0, <1>3, <2>a, <2>h, <2>s, <2>q, Zenon DEF SentByA, Ready, HoldsCurrent, QuitMarks
    <2>6. LineByLine'
      <3>1. ~ OnItsWay' /\ ~ OnItsWay
        BY <1>0, <1>3, <2>a, <2>h, <2>s, <2>q, Zenon
          DEF OnItsWay, Ready, OneTurn, HoldsCurrent, SentByA, QuitMarks
      <3> QED BY <1>0, <1>3, <2>a, <2>l, <3>1, Zenon DEF LineByLine
    <2> QED BY <2>2, <2>3, <2>4, <2>5, <2>6 DEF InSession
  <1> QED BY <1>3, <1>4, <1>5, Zenon DEF ShmInv

\* B removes the set, or leaves it behind.
LEMMA RemoveSetStep ==
  ASSUME ShmInv, removeSet
  PROVE  ShmInv'
PROOF
  <1> USE DEF At, Live, HasTurn, Found, Joined, SaidQuit, OverSeg, OverSet
  <1>0. /\ At("B", "rmsem") /\ Goto("B", "done") /\ semset' = IF semset = proc["B"].seg THEN None ELSE semset
        /\ UNCHANGED <<segment, buf, val, madeSeg, madeSet, typed, printed, over, stale>>
    BY DEF removeSet
  <1>1. Objects /\ OneTurn /\ "A" \in Prog /\ "B" \in Prog /\ Prog = {"A", "B"}
    BY DEF ShmInv, Prog
  <1>3. /\ proc'["B"].pc = "done" /\ proc'["B"].seg = proc["B"].seg
        /\ proc'["B"].set = proc["B"].set /\ proc'["A"] = proc["A"] /\ Objects'
    <2>1. "done" \in Places("B") BY DEF Places
    <2>2. Goto("B", "done") /\ UNCHANGED <<buf, madeSeg, madeSet, over, typed>>
          /\ segment' \in {segment, None} /\ semset' \in {semset, None}
      BY <1>0
    <2>3. printed' \in Seq(Line \cup {Blank}) BY <1>0, <1>1, Zenon DEF Objects
    <2>4. val' \in (0 .. 1) \X (0 .. 1) BY <1>0, <1>1, Zenon DEF Objects, ShmTypeOK
    <2> QED BY <1>1, <2>1, <2>2, <2>3, <2>4, Moved, Zenon
  <1>4. OneTurn' BY <1>0, <1>1, <1>3, Zenon DEF OneTurn
  <1>5. ASSUME ~ stale' PROVE InSession'
    <2>1. HoldsCurrent /\ QuitMarks /\ TurnKept /\ SentByA /\ LineByLine
      BY <1>0, <1>5, Zenon DEF ShmInv, InSession
    <2>h. HoldsCurrent BY <2>1
    <2>q. QuitMarks BY <2>1
    <2>t. TurnKept BY <2>1
    <2>s. SentByA BY <2>1
    <2>l. LineByLine BY <2>1
    <2>a. /\ OverSeg(proc["B"].seg) /\ OverSet(semset) /\ Live("B") /\ val[1] = 0
          /\ proc["A"].pc \notin {"fgets", "V0", "setval0", "setval1"}
      <3>1. OverSeg(proc["B"].seg) /\ Live("B") /\ OverSet(semset)
        BY <1>0, <2>h, <2>q, Zenon DEF HoldsCurrent, QuitMarks
      <3>2. val[1] = 0 BY <1>0, <1>1, <3>1, Zenon DEF OneTurn
      <3>3. ~ HasTurn("A") BY <1>0, <1>1, <3>1, Zenon DEF OneTurn
      <3>4. proc["A"].pc \notin {"fgets", "V0", "setval0", "setval1"} BY <2>h, <3>3, Zenon DEF HoldsCurrent
      <3> QED BY <3>1, <3>2, <3>4, Zenon
    <2>2. HoldsCurrent' BY <1>0, <1>3, <2>a, <2>q, <2>h, Zenon DEF HoldsCurrent, QuitMarks
    <2>3. QuitMarks' BY <1>0, <1>3, <2>a, <2>h, <2>q, Zenon DEF QuitMarks, HoldsCurrent
    <2>4. TurnKept' BY <1>0, <1>3, <2>a, <2>h, <2>t, Zenon DEF TurnKept, HoldsCurrent
    <2>5. SentByA' BY <1>0, <1>3, <2>a, <2>h, <2>s, <2>q, Zenon DEF SentByA, Ready, HoldsCurrent, QuitMarks
    <2>6. LineByLine'
      <3>1. ~ OnItsWay' /\ ~ OnItsWay
        BY <1>0, <1>3, <2>a, <2>h, <2>s, <2>q, Zenon
          DEF OnItsWay, Ready, OneTurn, HoldsCurrent, SentByA, QuitMarks
      <3> QED BY <1>0, <1>3, <2>a, <2>l, <3>1, Zenon DEF LineByLine
    <2> QED BY <2>2, <2>3, <2>4, <2>5, <2>6 DEF InSession
  <1> QED BY <1>3, <1>4, <1>5, Zenon DEF ShmInv

\* A types a line, or "quit", with which its objects are over.
LEMMA FgetsStep ==
  ASSUME ShmInv, fgets
  PROVE  ShmInv'
PROOF
  <1> USE DEF At, Live, HasTurn, Found, Joined, SaidQuit, OverSeg, OverSet
  <1>1. /\ Objects /\ OneTurn /\ "A" \in Prog /\ "B" \in Prog /\ Prog = {"A", "B"}
        /\ At("A", "fgets")
        /\ UNCHANGED <<segment, semset, val, madeSeg, madeSet, printed, stale>>
    BY Zenon DEF ShmInv, Prog, fgets
  <1>2. CASE proc["A"].seg = None
    <2>1. Goto("A", "dead") /\ UNCHANGED <<buf, typed, over>> BY <1>2 DEF fgets
    <2>2. /\ proc'["A"].pc = "dead" /\ proc'["A"].seg = proc["A"].seg
          /\ proc'["A"].set = proc["A"].set /\ proc'["B"] = proc["B"] /\ Objects'
      <3>1. "dead" \in Places("A") BY DEF Places
      <3>2. printed' \in Seq(Line \cup {Blank}) /\ val' \in (0 .. 1) \X (0 .. 1)
        BY <1>1, Zenon DEF Objects, ShmTypeOK
      <3> QED BY <1>1, <2>1, <3>1, <3>2, Moved, Zenon
    <2>3. OneTurn' BY <1>1, <2>1, <2>2, Zenon DEF OneTurn
    <2>4. stale BY <1>1, <1>2, Zenon DEF ShmInv, InSession, HoldsCurrent
    <2> QED BY <1>1, <2>2, <2>3, <2>4, Zenon DEF ShmInv
  <1>3. CASE proc["A"].seg # None
    <2> DEFINE s == proc["A"].seg
               t == proc["A"].set
    <2>1. PICK l \in Line \cup {Quit} :
            /\ buf' = [buf EXCEPT ![s] = l]
            /\ typed' = IF l = Quit THEN typed ELSE Append(typed, l)
            /\ over' = IF l = Quit THEN over \cup {<<"seg", s>>, <<"set", t>>} ELSE over
            /\ Goto("A", "V0")
      BY <1>3, Zenon DEF fgets
    <2>2. s \in Id /\ s \in madeSeg /\ Made(t, madeSet) /\ t \in Id \cup {None}
      BY <1>1, <1>3, Zenon DEF Objects, ShmTypeOK, Made
    <2>3. /\ proc'["A"].pc = "V0" /\ proc'["A"].seg = s
          /\ proc'["A"].set = t /\ proc'["B"] = proc["B"]
      <3>1. "V0" \in Places("A") BY DEF Places
      <3> QED BY <1>1, <2>1, <3>1, Moved, Zenon
    <2>4. /\ buf' \in [Id -> Line \cup {Quit, Blank}] /\ buf'[s] = l
          /\ \A i \in Id \ {s} : buf'[i] = buf[i]
      BY <1>1, <2>1, <2>2, Zenon DEF Objects
    <2>5. /\ \A i \in Id : OverSeg(i)' <=> OverSeg(i) \/ (i = s /\ l = Quit)
          /\ \A i \in Id : OverSet(i)' <=> OverSet(i) \/ (i = t /\ l = Quit)
      BY <2>1, <2>2, Zenon
    <2>6. Objects'
      <3>1. ShmTypeOK'
        <4>1. proc' \in [Prog -> [pc : {"shmget", "shmget2", "semget", "semget2",
                                        "setval0", "setval1", "P1", "fgets", "V0", "sent",
                                        "P0", "look", "V1", "rmshm", "rmsem", "done", "dead"},
                                  seg : Id \cup {None}, set : Id \cup {None}]]
          BY <1>1, <2>1 DEF Objects, ShmTypeOK, Goto
        <4> QED BY <1>1, <4>1, Zenon DEF Objects, ShmTypeOK
      <3>2. typed' \in Seq(Line) BY <1>1, <2>1 DEF Objects
      <3>3. \A i \in Id : /\ <<"seg", i>> \in over' => i \in madeSeg'
                          /\ <<"set", i>> \in over' => i \in madeSet'
        <4>1. \A i \in Id : (OverSeg(i) => i \in madeSeg) /\ (OverSet(i) => i \in madeSet)
          BY <1>1, Zenon DEF Objects
        <4>2. t \in Id => t \in madeSet BY <2>2, ShmAssumption, Zenon DEF Made
        <4> QED BY <1>1, <2>2, <2>5, <4>1, <4>2, Zenon
      <3>4. \A q \in Prog : Made(proc'[q].seg, madeSeg') /\ Made(proc'[q].set, madeSet')
        BY <1>1, <2>2, <2>3 DEF Objects, Made
      <3> QED BY <1>1, <2>3, <2>4, <3>1, <3>2, <3>3, <3>4, Zenon DEF Objects
    <2>7. OneTurn' BY <1>1, <2>3, Zenon DEF OneTurn
    <2>8. ASSUME ~ stale' PROVE InSession'
      <3>1. HoldsCurrent /\ QuitMarks /\ TurnKept /\ SentByA /\ LineByLine
        BY <1>1, <2>8, Zenon DEF ShmInv, InSession
      <3>h. HoldsCurrent BY <3>1
      <3>q. QuitMarks BY <3>1
      <3>2. /\ s = segment /\ t = semset /\ t \in Id /\ t # None
            /\ ~ OverSeg(s) /\ ~ OverSet(t) /\ buf[s] # Quit
        <4>1. s = segment /\ t = semset /\ t # None BY <1>1, <3>h, Zenon DEF HoldsCurrent
        <4>2. ~ OverSeg(s) /\ ~ OverSet(t) BY <1>1, <3>q, Zenon DEF QuitMarks
        <4> QED BY <2>2, <3>q, <4>1, <4>2, Zenon DEF QuitMarks
      <3>3. val[1] = 0 /\ val[2] = 0 /\ ~ HasTurn("B") BY <1>1, <3>2, Zenon DEF OneTurn
      <3>b. proc["B"].pc \notin {"look", "V1", "rmshm", "rmsem", "setval0", "setval1"}
        BY <1>1, <3>h, <3>3, Zenon DEF HoldsCurrent
      <3>4. HoldsCurrent' BY <1>1, <2>3, <3>h, Zenon DEF HoldsCurrent
      <3>5. QuitMarks'
        <4>1. (\A i \in Id : OverSeg(i) <=> buf[i] = Quit)'
          BY <2>2, <2>4, <2>5, <3>q, <3>2, Zenon DEF QuitMarks
        <4>2. SaidQuit' <=> l = Quit BY <2>3, <2>4, Zenon
        <4>3. (Found("B") => s = proc["B"].seg) /\ (Joined("B") => t = proc["B"].set)
          BY <1>1, <3>h, <3>b, <3>2, Zenon DEF HoldsCurrent
        <4> QED BY <1>1, <2>2, <2>3, <2>5, <3>q, <3>b, <3>2, <4>1, <4>2, <4>3, Zenon DEF QuitMarks
      <3>6. TurnKept' BY <2>3, <1>1, <3>2, Zenon DEF TurnKept
      <3>7. SentByA' BY <1>1, <3>3 DEF SentByA, Ready
      <3>8. LineByLine'
        <4>1. ~ OnItsWay BY <1>1, <3>3, <3>b DEF OnItsWay, Ready
        <4>2. typed = printed BY <3>1, <4>1 DEF LineByLine
        <4>3. OnItsWay' <=> l # Quit BY <1>1, <2>3, <2>4, <3>3, <3>b DEF OnItsWay, Ready
        <4> QED BY <1>1, <2>1, <2>4, <3>2, <4>2, <4>3, Zenon DEF LineByLine
      <3> QED BY <3>4, <3>5, <3>6, <3>7, <3>8 DEF InSession
    <2> QED BY <2>6, <2>7, <2>8 DEF ShmInv
  <1> QED BY <1>2, <1>3

-----------------------------------------------------------------------------
(* Shared memory: setting up                                               *)

\* A program's record when it goes to l and picks up a segment.
LEMMA RecordSeg ==
  ASSUME NEW W, NEW r \in [pc : W, seg : Id \cup {None}, set : Id \cup {None}], NEW l, NEW i
  PROVE  [[r EXCEPT !.pc = l] EXCEPT !.seg = i] = [pc |-> l, seg |-> i, set |-> r.set]
PROOF
  <1> DEFINE a == r.seg
             b == r.set
  <1>1. [r EXCEPT !.pc = l] = [pc |-> l, seg |-> a, set |-> b] OBVIOUS
  <1> HIDE DEF a, b
  <1>2. [[pc |-> l, seg |-> a, set |-> b] EXCEPT !.seg = i] = [pc |-> l, seg |-> i, set |-> b] OBVIOUS
  <1> QED BY <1>1, <1>2, Zenon DEF a, b

\* A program's record when it goes to l and picks up a set.
LEMMA RecordSet ==
  ASSUME NEW W, NEW r \in [pc : W, seg : Id \cup {None}, set : Id \cup {None}], NEW l, NEW i
  PROVE  [[r EXCEPT !.pc = l] EXCEPT !.set = i] = [pc |-> l, seg |-> r.seg, set |-> i]
PROOF
  <1> DEFINE a == r.seg
             b == r.set
  <1>1. [r EXCEPT !.pc = l] = [pc |-> l, seg |-> a, set |-> b] OBVIOUS
  <1> HIDE DEF a, b
  <1>2. [[pc |-> l, seg |-> a, set |-> b] EXCEPT !.set = i] = [pc |-> l, seg |-> a, set |-> i] OBVIOUS
  <1> QED BY <1>1, <1>2, Zenon DEF a, b

\* The segment that was there is picked up.
LEMMA ShmgetExistingStep ==
  ASSUME ShmInv, NEW p \in Prog, shmgetExisting(p)
  PROVE  ShmInv'
PROOF
  <1> USE DEF At, Live, HasTurn, Found, Joined, SaidQuit, OverSeg, OverSet
  <1>1. Objects /\ OneTurn /\ "A" \in Prog /\ "B" \in Prog /\ Prog = {"A", "B"}
    BY DEF ShmInv, Prog
  <1>2. p = "A" \/ p = "B" BY <1>1
  <1>a. proc' = [proc EXCEPT ![p] = [pc |-> "semget", seg |-> segment, set |-> proc[p].set]]
    <2> DEFINE r == proc[p]
               l == "semget"
    <2>1. PICK W : r \in [pc : W, seg : Id \cup {None}, set : Id \cup {None}]
      BY <1>1, Zenon DEF Objects, ShmTypeOK
    <2>2. proc' = [proc EXCEPT ![p] = [r EXCEPT !.pc = l, !.seg = segment]] BY DEF shmgetExisting
    <2> HIDE DEF r, l
    <2>3. [r EXCEPT !.pc = l, !.seg = segment] = [pc |-> l, seg |-> segment, set |-> r.set]
      BY <2>1, RecordSeg, Zenon
    <2> QED BY <2>2, <2>3, Zenon DEF r, l
  <1>0. /\ At(p, "shmget2")
        /\ stale' = (stale \/ segment = None \/ OverSeg(segment))
        /\ UNCHANGED <<segment, buf, semset, val, madeSeg, madeSet, typed, printed, over>>
    BY DEF shmgetExisting
  <1>3. /\ proc'[p].pc = "semget" /\ proc'[p].seg = segment /\ proc'[p].set = proc[p].set
        /\ \A q \in Prog \ {p} : proc'[q] = proc[q]
        /\ Objects'
    <2> DEFINE l == "semget"
               s == segment
               t == proc[p].set
    <2>1. l \in Places(p) BY <1>2 DEF Places
    <2>2. /\ Made(s, madeSeg') /\ Made(t, madeSet') /\ Made(segment', madeSeg') /\ Made(semset', madeSet')
          /\ s \in Id \cup {None} /\ t \in Id \cup {None}
          /\ madeSeg \subseteq madeSeg' /\ madeSet \subseteq madeSet'
          /\ madeSeg' \subseteq Id /\ madeSet' \subseteq Id
      BY <1>0, <1>1, Zenon DEF Objects, ShmTypeOK, Made
    <2>3. /\ UNCHANGED <<buf, over, typed>> /\ printed' \in Seq(Line \cup {Blank})
          /\ val' \in (0 .. 1) \X (0 .. 1)
      BY <1>0, <1>1, Zenon DEF Objects, ShmTypeOK
    <2>4. proc' = [proc EXCEPT ![p] = [pc |-> l, seg |-> s, set |-> t]] BY <1>a
    <2> HIDE DEF l, s, t
    <2>5. /\ proc'[p].pc = l /\ proc'[p].seg = s /\ proc'[p].set = t
          /\ \A q \in Prog \ {p} : proc'[q] = proc[q]
      BY <1>1, <2>4, Zenon DEF Objects, ShmTypeOK
    <2>6. Objects' BY <1>1, <2>1, <2>2, <2>3, <2>4, PickedUp, ZenonT(30)
    <2> QED BY <2>5, <2>6, Zenon DEF l, s, t
  <1>4. OneTurn' BY <1>0, <1>1, <1>2, <1>3, Zenon DEF OneTurn
  <1>5. ASSUME ~ stale' PROVE InSession'
    <2>1. HoldsCurrent /\ QuitMarks /\ TurnKept /\ SentByA /\ LineByLine
      BY <1>0, <1>5, Zenon DEF ShmInv, InSession
    <2>h. HoldsCurrent BY <2>1
    <2>q. QuitMarks BY <2>1
    <2>t. TurnKept BY <2>1
    <2>s. SentByA BY <2>1
    <2>l. LineByLine BY <2>1
    <2>2. HoldsCurrent'
      BY <1>0, <1>1, <1>2, <1>3, <1>5, <2>q, <2>h, ZenonT(30) DEF HoldsCurrent, QuitMarks
    <2>3. QuitMarks'
      <3>1. (\A j \in Id : OverSeg(j) <=> buf[j] = Quit)' BY <1>0, <2>q, Zenon DEF QuitMarks
      <3>2. CASE p = "A"
        <4>1. /\ proc'["A"].pc = "semget" /\ proc'["A"].seg = segment /\ proc'["A"].set = proc["A"].set
              /\ proc'["B"] = proc["B"]
          BY <1>1, <1>2, <1>3, <3>2, Zenon
        <4> QED BY <1>0, <1>5, <2>h, <2>q, <3>1, <3>2, <4>1, Zenon DEF QuitMarks, HoldsCurrent
      <3>3. CASE p = "B"
        <4>1. /\ proc'["B"].pc = "semget" /\ proc'["B"].seg = segment /\ proc'["B"].set = proc["B"].set
              /\ proc'["A"] = proc["A"]
          BY <1>1, <1>2, <1>3, <3>3, Zenon
        <4> QED BY <1>0, <1>5, <2>h, <2>q, <3>1, <3>3, <4>1, Zenon DEF QuitMarks, HoldsCurrent
      <3> QED BY <1>2, <3>2, <3>3
    <2>4. TurnKept' BY <1>0, <1>1, <1>2, <1>3, <1>5, <2>h, <2>t, Zenon DEF TurnKept, HoldsCurrent
    <2>5. SentByA'
      BY <1>0, <1>1, <1>2, <1>3, <1>5, <2>h, <2>s, <2>q, Zenon DEF SentByA, Ready, HoldsCurrent, QuitMarks
    <2>6. LineByLine'
      <3>1. OnItsWay' <=> OnItsWay
        BY <1>0, <1>1, <1>2, <1>3, <1>5, <2>h, <2>s, <2>q
          DEF OnItsWay, Ready, OneTurn, HoldsCurrent, SentByA, QuitMarks
      <3> QED BY <1>0, <1>1, <1>2, <1>3, <1>5, <2>l, <3>1, Zenon DEF LineByLine
    <2> QED BY <2>2, <2>3, <2>4, <2>5, <2>6 DEF InSession
  <1> QED BY <1>3, <1>4, <1>5, Zenon DEF ShmInv

\* The set that was there is picked up.
LEMMA SemgetExistingStep ==
  ASSUME ShmInv, NEW p \in Prog, semgetExisting(p)
  PROVE  ShmInv'
PROOF
  <1> USE DEF At, Live, HasTurn, Found, Joined, SaidQuit, OverSeg, OverSet
  <1>1. Objects /\ OneTurn /\ "A" \in Prog /\ "B" \in Prog /\ Prog = {"A", "B"}
    BY DEF ShmInv, Prog
  <1>2. (p = "A" /\ Loop(p) = "P1") \/ (p = "B" /\ Loop(p) = "P0") BY <1>1 DEF Loop
  <1>a. proc' = [proc EXCEPT ![p] = [pc |-> Loop(p), seg |-> proc[p].seg, set |-> semset]]
    <2> DEFINE r == proc[p]
               l == Loop(p)
    <2>1. PICK W : r \in [pc : W, seg : Id \cup {None}, set : Id \cup {None}]
      BY <1>1, Zenon DEF Objects, ShmTypeOK
    <2>2. proc' = [proc EXCEPT ![p] = [r EXCEPT !.pc = l, !.set = semset]] BY DEF semgetExisting
    <2> HIDE DEF r, l
    <2>3. [r EXCEPT !.pc = l, !.set = semset] = [pc |-> l, seg |-> r.seg, set |-> semset]
      BY <2>1, RecordSet, Zenon
    <2> QED BY <2>2, <2>3, Zenon DEF r, l
  <1>0. /\ At(p, "semget2")
        /\ stale' = (stale \/ semset = None \/ OverSet(semset))
        /\ UNCHANGED <<segment, buf, semset, val, madeSeg, madeSet, typed, printed, over>>
    BY DEF semgetExisting
  <1>3. /\ proc'[p].pc = Loop(p) /\ proc'[p].seg = proc[p].seg /\ proc'[p].set = semset
        /\ \A q \in Prog \ {p} : proc'[q] = proc[q]
        /\ Objects'
    <2> DEFINE l == Loop(p)
               s == proc[p].seg
               t == semset
    <2>1. l \in Places(p) BY <1>2 DEF Places
    <2>2. /\ Made(s, madeSeg') /\ Made(t, madeSet') /\ Made(segment', madeSeg') /\ Made(semset', madeSet')
          /\ s \in Id \cup {None} /\ t \in Id \cup {None}
          /\ madeSeg \subseteq madeSeg' /\ madeSet \subseteq madeSet'
          /\ madeSeg' \subseteq Id /\ madeSet' \subseteq Id
      BY <1>0, <1>1, Zenon DEF Objects, ShmTypeOK, Made
    <2>3. /\ UNCHANGED <<buf, over, typed>> /\ printed' \in Seq(Line \cup {Blank})
          /\ val' \in (0 .. 1) \X (0 .. 1)
      BY <1>0, <1>1, Zenon DEF Objects, ShmTypeOK
    <2>4. proc' = [proc EXCEPT ![p] = [pc |-> l, seg |-> s, set |-> t]] BY <1>a
    <2> HIDE DEF l, s, t
    <2>5. /\ proc'[p].pc = l /\ proc'[p].seg = s /\ proc'[p].set = t
          /\ \A q \in Prog \ {p} : proc'[q] = proc[q]
      BY <1>1, <2>4, Zenon DEF Objects, ShmTypeOK
    <2>6. Objects' BY <1>1, <2>1, <2>2, <2>3, <2>4, PickedUp, Zenon
    <2> QED BY <2>5, <2>6, Zenon DEF l, s, t
  <1>4. OneTurn' BY <1>0, <1>1, <1>2, <1>3, Zenon DEF OneTurn
  <1>5. ASSUME ~ stale' PROVE InSession'
    <2>1. HoldsCurrent /\ QuitMarks /\ TurnKept /\ SentByA /\ LineByLine
      BY <1>0, <1>5, Zenon DEF ShmInv, InSession
    <2>h. HoldsCurrent BY <2>1
    <2>q. QuitMarks BY <2>1
    <2>t. TurnKept BY <2>1
    <2>s. SentByA BY <2>1
    <2>l. LineByLine BY <2>1
    <2>2. HoldsCurrent'
      BY <1>0, <1>1, <1>2, <1>3, <1>5, <2>q, <2>h, ZenonT(30) DEF HoldsCurrent, QuitMarks
    <2>3. QuitMarks'
      <3>1. (\A j \in Id : OverSeg(j) <=> buf[j] = Quit)' BY <1>0, <2>q, Zenon DEF QuitMarks
      <3>2. CASE p = "A"
        <4>1. /\ proc'["A"].pc = "P1" /\ proc'["A"].seg = proc["A"].seg /\ proc'["A"].set = semset
              /\ proc'["B"] = proc["B"]
          BY <1>1, <1>2, <1>3, <3>2, Zenon
        <4> QED BY <1>0, <1>5, <2>h, <2>q, <3>1, <3>2, <4>1, Zenon DEF QuitMarks, HoldsCurrent
      <3>3. CASE p = "B"
        <4>1. /\ proc'["B"].pc = "P0" /\ proc'["B"].seg = proc["B"].seg /\ proc'["B"].set = semset
              /\ proc'["A"] = proc["A"]
          BY <1>1, <1>2, <1>3, <3>3, Zenon
        <4> QED BY <1>0, <1>5, <2>h, <2>q, <3>1, <3>3, <4>1, Zenon DEF QuitMarks, HoldsCurrent
      <3> QED BY <1>2, <3>2, <3>3
    <2>4. TurnKept' BY <1>0, <1>1, <1>2, <1>3, <1>5, <2>h, <2>t, Zenon DEF TurnKept, HoldsCurrent
    <2>5. SentByA'
      BY <1>0, <1>1, <1>2, <1>3, <1>5, <2>h, <2>s, <2>q, Zenon DEF SentByA, Ready, HoldsCurrent, QuitMarks
    <2>6. LineByLine'
      <3>1. OnItsWay' <=> OnItsWay
        BY <1>0, <1>1, <1>2, <1>3, <1>5, <2>h, <2>s, <2>q
          DEF OnItsWay, Ready, OneTurn, HoldsCurrent, SentByA, QuitMarks
      <3> QED BY <1>0, <1>1, <1>2, <1>3, <1>5, <2>l, <3>1, Zenon DEF LineByLine
    <2> QED BY <2>2, <2>3, <2>4, <2>5, <2>6 DEF InSession
  <1> QED BY <1>3, <1>4, <1>5, Zenon DEF ShmInv

\* A program that ended is started again.
LEMMA StartStep ==
  ASSUME ShmInv, NEW p \in Prog, start(p)
  PROVE  ShmInv'
PROOF
  <1> USE DEF At, Live, HasTurn, Found, Joined, SaidQuit, OverSeg, OverSet
  <1>1. Objects /\ OneTurn /\ "A" \in Prog /\ "B" \in Prog /\ Prog = {"A", "B"}
    BY DEF ShmInv, Prog
  <1>2. p = "A" \/ p = "B" BY <1>1
  <1>0. /\ proc[p].pc \in {"done", "dead"}
        /\ UNCHANGED <<segment, buf, semset, val, madeSeg, madeSet, typed, printed, over, stale>>
    BY Zenon DEF start
  <1>a. proc' = [proc EXCEPT ![p] = [pc |-> "shmget", seg |-> None, set |-> None]] BY DEF start
  <1>3. /\ proc'[p].pc = "shmget" /\ proc'[p].seg = None /\ proc'[p].set = None
        /\ \A q \in Prog \ {p} : proc'[q] = proc[q]
        /\ Objects'
    <2> DEFINE l == "shmget"
               s == None
               t == None
    <2>1. l \in Places(p) BY <1>2 DEF Places
    <2>2. /\ Made(s, madeSeg') /\ Made(t, madeSet') /\ Made(segment', madeSeg') /\ Made(semset', madeSet')
          /\ s \in Id \cup {None} /\ t \in Id \cup {None}
          /\ madeSeg \subseteq madeSeg' /\ madeSet \subseteq madeSet'
          /\ madeSeg' \subseteq Id /\ madeSet' \subseteq Id
      BY <1>0, <1>1, Zenon DEF Objects, ShmTypeOK, Made
    <2>3. /\ UNCHANGED <<buf, over, typed>> /\ printed' \in Seq(Line \cup {Blank})
          /\ val' \in (0 .. 1) \X (0 .. 1)
      BY <1>0, <1>1, Zenon DEF Objects, ShmTypeOK
    <2>4. proc' = [proc EXCEPT ![p] = [pc |-> l, seg |-> s, set |-> t]] BY <1>a
    <2> HIDE DEF l, s, t
    <2>5. /\ proc'[p].pc = l /\ proc'[p].seg = s /\ proc'[p].set = t
          /\ \A q \in Prog \ {p} : proc'[q] = proc[q]
      BY <1>1, <2>4, Zenon DEF Objects, ShmTypeOK
    <2>6. Objects' BY <1>1, <2>1, <2>2, <2>3, <2>4, PickedUp, ZenonT(30)
    <2> QED BY <2>5, <2>6, Zenon DEF l, s, t
  <1>4. OneTurn' BY <1>0, <1>1, <1>2, <1>3, Zenon DEF OneTurn
  <1>5. ASSUME ~ stale' PROVE InSession'
    <2>1. HoldsCurrent /\ QuitMarks /\ TurnKept /\ SentByA /\ LineByLine
      BY <1>0, <1>5, Zenon DEF ShmInv, InSession
    <2>h. HoldsCurrent BY <2>1
    <2>q. QuitMarks BY <2>1
    <2>t. TurnKept BY <2>1
    <2>s. SentByA BY <2>1
    <2>l. LineByLine BY <2>1
    <2>2. HoldsCurrent' BY <1>0, <1>1, <1>2, <1>3, <2>h, Zenon DEF HoldsCurrent
    <2>3. QuitMarks' BY <1>0, <1>1, <1>2, <1>3, <2>h, <2>q, Zenon DEF QuitMarks, HoldsCurrent
    <2>4. TurnKept' BY <1>0, <1>1, <1>2, <1>3, <2>h, <2>t, Zenon DEF TurnKept, HoldsCurrent
    <2>5. SentByA'
      BY <1>0, <1>1, <1>2, <1>3, <2>h, <2>s, <2>q, Zenon DEF SentByA, Ready, HoldsCurrent, QuitMarks
    <2>6. LineByLine'
      <3>1. OnItsWay' <=> OnItsWay
        BY <1>0, <1>1, <1>2, <1>3, <2>h, <2>s, <2>q
          DEF OnItsWay, Ready, OneTurn, HoldsCurrent, SentByA, QuitMarks
      <3> QED BY <1>0, <1>1, <1>2, <1>3, <2>l, <3>1, Zenon DEF LineByLine
    <2> QED BY <2>2, <2>3, <2>4, <2>5, <2>6 DEF InSession
  <1> QED BY <1>3, <1>4, <1>5, Zenon DEF ShmInv

\* The segment is made.
LEMMA ShmgetMakes ==
  ASSUME ShmInv, NEW p \in Prog, shmget(p), segment = None
  PROVE  ShmInv'
PROOF
  <1> USE DEF At, Live, HasTurn, Found, Joined, SaidQuit, OverSeg, OverSet
  <1>1. Objects /\ OneTurn /\ "A" \in Prog /\ "B" \in Prog /\ Prog = {"A", "B"}
    BY DEF ShmInv, Prog
  <1>2. p = "A" \/ p = "B" BY <1>1
  <1>i. PICK i \in Id \ madeSeg :
            /\ segment' = i /\ madeSeg' = madeSeg \cup {i}
            /\ proc' = [proc EXCEPT ![p] = [pc |-> "semget", seg |-> i, set |-> proc[p].set]]
    <2> DEFINE r == proc[p]
               l == "semget"
    <2>1. PICK W : r \in [pc : W, seg : Id \cup {None}, set : Id \cup {None}]
      BY <1>1, Zenon DEF Objects, ShmTypeOK
    <2> HIDE DEF r, l
    <2>2. \A j \in Id : [r EXCEPT !.pc = l, !.seg = j] = [pc |-> l, seg |-> j, set |-> r.set]
      BY <2>1, RecordSeg, Zenon
    <2>3. PICK i \in Id \ madeSeg : segment' = i /\ madeSeg' = madeSeg \cup {i} /\ proc' = [proc EXCEPT ![p] = [r EXCEPT !.pc = l, !.seg = i]]
      BY Zenon DEF shmget, r, l
    <2> QED BY <2>2, <2>3, Zenon DEF r, l
  <1>a. proc' = [proc EXCEPT ![p] = [pc |-> "semget", seg |-> i, set |-> proc[p].set]] BY <1>i, Zenon
  <1>m. segment' = i /\ madeSeg' = madeSeg \cup {i} /\ i \in Id /\ i # None /\ ~ OverSeg(i) /\ segment = None
    BY <1>i, <1>1, ShmAssumption, Zenon DEF Objects
  <1>0. At(p, "shmget") /\ UNCHANGED <<buf, semset, val, madeSet, typed, printed, over, stale>>
    BY Zenon DEF shmget
  <1>3. /\ proc'[p].pc = "semget" /\ proc'[p].seg = i /\ proc'[p].set = proc[p].set
        /\ \A q \in Prog \ {p} : proc'[q] = proc[q]
        /\ Objects'
    <2> DEFINE l == "semget"
               s == i
               t == proc[p].set
    <2>1. l \in Places(p) BY <1>2 DEF Places
    <2>2. /\ Made(s, madeSeg') /\ Made(t, madeSet') /\ Made(segment', madeSeg') /\ Made(semset', madeSet')
          /\ s \in Id \cup {None} /\ t \in Id \cup {None}
          /\ madeSeg \subseteq madeSeg' /\ madeSet \subseteq madeSet'
          /\ madeSeg' \subseteq Id /\ madeSet' \subseteq Id
      BY <1>0, <1>m, <1>1, Zenon DEF Objects, ShmTypeOK, Made
    <2>3. /\ UNCHANGED <<buf, over, typed>> /\ printed' \in Seq(Line \cup {Blank})
          /\ val' \in (0 .. 1) \X (0 .. 1)
      BY <1>0, <1>m, <1>1, Zenon DEF Objects, ShmTypeOK
    <2>4. proc' = [proc EXCEPT ![p] = [pc |-> l, seg |-> s, set |-> t]] BY <1>a
    <2> HIDE DEF l, s, t
    <2>5. /\ proc'[p].pc = l /\ proc'[p].seg = s /\ proc'[p].set = t
          /\ \A q \in Prog \ {p} : proc'[q] = proc[q]
      BY <1>1, <2>4, Zenon DEF Objects, ShmTypeOK
    <2>6. Objects' BY <1>1, <2>1, <2>2, <2>3, <2>4, PickedUp, ZenonT(30)
    <2> QED BY <2>5, <2>6, Zenon DEF l, s, t
  <1>4. OneTurn' BY <1>0, <1>1, <1>2, <1>3, Zenon DEF OneTurn
  <1>5. ASSUME ~ stale' PROVE InSession'
    <2>1. HoldsCurrent /\ QuitMarks /\ TurnKept /\ SentByA /\ LineByLine
      BY <1>0, <1>5, Zenon DEF ShmInv, InSession
    <2>h. HoldsCurrent BY <2>1
    <2>q. QuitMarks BY <2>1
    <2>t. TurnKept BY <2>1
    <2>s. SentByA BY <2>1
    <2>l. LineByLine BY <2>1
    <2>2. HoldsCurrent' BY <1>0, <1>m, <1>1, <1>2, <1>3, <2>h, Zenon DEF HoldsCurrent
    <2>3. QuitMarks'
      <3>1. (\A j \in Id : OverSeg(j) <=> buf[j] = Quit)' BY <1>0, <2>q, Zenon DEF QuitMarks
      <3>2. CASE p = "A"
        <4>1. /\ proc'["A"].pc = "semget" /\ proc'["A"].seg = i /\ proc'["A"].set = proc["A"].set
              /\ proc'["B"] = proc["B"]
          BY <1>1, <1>2, <1>3, <3>2, Zenon
        <4> QED BY <1>0, <1>5, <1>m, <2>h, <2>q, <3>1, <3>2, <4>1, Zenon DEF QuitMarks, HoldsCurrent
      <3>3. CASE p = "B"
        <4>1. /\ proc'["B"].pc = "semget" /\ proc'["B"].seg = i /\ proc'["B"].set = proc["B"].set
              /\ proc'["A"] = proc["A"]
          BY <1>1, <1>2, <1>3, <3>3, Zenon
        <4> QED BY <1>0, <1>5, <1>m, <2>h, <2>q, <3>1, <3>3, <4>1, Zenon DEF QuitMarks, HoldsCurrent
      <3> QED BY <1>2, <3>2, <3>3
    <2>4. TurnKept' BY <1>0, <1>m, <1>1, <1>2, <1>3, <1>m, <2>h, <2>t, Zenon DEF TurnKept, HoldsCurrent
    <2>5. SentByA'
      BY <1>0, <1>m, <1>1, <1>2, <1>3, <2>h, <2>s, <2>q, Zenon DEF SentByA, Ready, HoldsCurrent, QuitMarks
    <2>6. LineByLine'
      <3>1. ~ OnItsWay' /\ ~ OnItsWay
        BY <1>0, <1>m, <1>1, <1>2, <1>3, <2>h, <2>s, <2>q, Zenon
          DEF OnItsWay, Ready, OneTurn, HoldsCurrent, SentByA, QuitMarks
      <3> QED BY <1>0, <1>m, <1>1, <1>2, <1>3, <2>l, <3>1, Zenon DEF LineByLine
    <2> QED BY <2>2, <2>3, <2>4, <2>5, <2>6 DEF InSession
  <1> QED BY <1>3, <1>4, <1>5, Zenon DEF ShmInv

\* The segment is found to exist.
LEMMA ShmgetFinds ==
  ASSUME ShmInv, NEW p \in Prog, shmget(p), segment # None
  PROVE  ShmInv'
PROOF
  <1> USE DEF At, Live, HasTurn, Found, Joined, SaidQuit, OverSeg, OverSet
  <1>1. Objects /\ OneTurn /\ "A" \in Prog /\ "B" \in Prog /\ Prog = {"A", "B"}
    BY DEF ShmInv, Prog
  <1>2. p = "A" \/ p = "B" BY <1>1
  <1>0. At(p, "shmget") /\ Goto(p, "shmget2") /\ UNCHANGED <<segment, buf, semset, val, madeSeg, madeSet, typed, printed, over, stale>>
    BY DEF shmget
  <1>3. /\ proc'[p].pc = "shmget2" /\ proc'[p].seg = proc[p].seg /\ proc'[p].set = proc[p].set
        /\ \A q \in Prog \ {p} : proc'[q] = proc[q]
        /\ Objects'
    <2>1. "shmget2" \in Places(p) BY DEF Places
    <2>2. printed' \in Seq(Line \cup {Blank}) /\ val' \in (0 .. 1) \X (0 .. 1)
      BY <1>0, <1>1, Zenon DEF Objects, ShmTypeOK
    <2> QED BY <1>0, <1>1, <2>1, <2>2, Moved
  <1>4. OneTurn' BY <1>0, <1>1, <1>2, <1>3, Zenon DEF OneTurn
  <1>5. ASSUME ~ stale' PROVE InSession'
    <2>1. HoldsCurrent /\ QuitMarks /\ TurnKept /\ SentByA /\ LineByLine
      BY <1>0, <1>5, Zenon DEF ShmInv, InSession
    <2>h. HoldsCurrent BY <2>1
    <2>q. QuitMarks BY <2>1
    <2>t. TurnKept BY <2>1
    <2>s. SentByA BY <2>1
    <2>l. LineByLine BY <2>1
    <2>2. HoldsCurrent' BY <1>0, <1>1, <1>2, <1>3, <2>h, Zenon DEF HoldsCurrent
    <2>3. QuitMarks'
      <3>1. (\A j \in Id : OverSeg(j) <=> buf[j] = Quit)' BY <1>0, <2>q, Zenon DEF QuitMarks
      <3>2. CASE p = "A"
        <4>1. /\ proc'["A"].pc = "shmget2" /\ proc'["A"].seg = proc["A"].seg /\ proc'["A"].set = proc["A"].set
              /\ proc'["B"] = proc["B"]
          BY <1>1, <1>2, <1>3, <3>2, Zenon
        <4> QED BY <1>0, <1>5, <2>h, <2>q, <3>1, <3>2, <4>1, Zenon DEF QuitMarks, HoldsCurrent
      <3>3. CASE p = "B"
        <4>1. /\ proc'["B"].pc = "shmget2" /\ proc'["B"].seg = proc["B"].seg /\ proc'["B"].set = proc["B"].set
              /\ proc'["A"] = proc["A"]
          BY <1>1, <1>2, <1>3, <3>3, Zenon
        <4> QED BY <1>0, <1>5, <2>h, <2>q, <3>1, <3>3, <4>1, Zenon DEF QuitMarks, HoldsCurrent
      <3> QED BY <1>2, <3>2, <3>3
    <2>4. TurnKept' BY <1>0, <1>1, <1>2, <1>3, <2>h, <2>t, Zenon DEF TurnKept, HoldsCurrent
    <2>5. SentByA'
      BY <1>0, <1>1, <1>2, <1>3, <2>h, <2>s, <2>q, Zenon DEF SentByA, Ready, HoldsCurrent, QuitMarks
    <2>6. LineByLine'
      <3>1. OnItsWay' <=> OnItsWay
        BY <1>0, <1>1, <1>2, <1>3, <2>h, <2>s, <2>q
          DEF OnItsWay, Ready, OneTurn, HoldsCurrent, SentByA, QuitMarks
      <3> QED BY <1>0, <1>1, <1>2, <1>3, <2>l, <3>1, Zenon DEF LineByLine
    <2> QED BY <2>2, <2>3, <2>4, <2>5, <2>6 DEF InSession
  <1> QED BY <1>3, <1>4, <1>5, Zenon DEF ShmInv

\* The set is found to exist.
LEMMA SemgetFinds ==
  ASSUME ShmInv, NEW p \in Prog, semget(p), semset # None
  PROVE  ShmInv'
PROOF
  <1> USE DEF At, Live, HasTurn, Found, Joined, SaidQuit, OverSeg, OverSet
  <1>1. Objects /\ OneTurn /\ "A" \in Prog /\ "B" \in Prog /\ Prog = {"A", "B"}
    BY DEF ShmInv, Prog
  <1>2. p = "A" \/ p = "B" BY <1>1
  <1>0. At(p, "semget") /\ Goto(p, "semget2") /\ UNCHANGED <<segment, buf, semset, val, madeSeg, madeSet, typed, printed, over, stale>>
    BY DEF semget
  <1>3. /\ proc'[p].pc = "semget2" /\ proc'[p].seg = proc[p].seg /\ proc'[p].set = proc[p].set
        /\ \A q \in Prog \ {p} : proc'[q] = proc[q]
        /\ Objects'
    <2>1. "semget2" \in Places(p) BY DEF Places
    <2>2. printed' \in Seq(Line \cup {Blank}) /\ val' \in (0 .. 1) \X (0 .. 1)
      BY <1>0, <1>1, Zenon DEF Objects, ShmTypeOK
    <2> QED BY <1>0, <1>1, <2>1, <2>2, Moved, Zenon
  <1>4. OneTurn' BY <1>0, <1>1, <1>2, <1>3, Zenon DEF OneTurn
  <1>5. ASSUME ~ stale' PROVE InSession'
    <2>1. HoldsCurrent /\ QuitMarks /\ TurnKept /\ SentByA /\ LineByLine
      BY <1>0, <1>5, Zenon DEF ShmInv, InSession
    <2>h. HoldsCurrent BY <2>1
    <2>q. QuitMarks BY <2>1
    <2>t. TurnKept BY <2>1
    <2>s. SentByA BY <2>1
    <2>l. LineByLine BY <2>1
    <2>2. HoldsCurrent' BY <1>0, <1>1, <1>2, <1>3, <2>h DEF HoldsCurrent
    <2>3. QuitMarks'
      <3>1. (\A j \in Id : OverSeg(j) <=> buf[j] = Quit)' BY <1>0, <2>q, Zenon DEF QuitMarks
      <3>2. CASE p = "A"
        <4>1. /\ proc'["A"].pc = "semget2" /\ proc'["A"].seg = proc["A"].seg /\ proc'["A"].set = proc["A"].set
              /\ proc'["B"] = proc["B"]
          BY <1>1, <1>2, <1>3, <3>2, Zenon
        <4> QED BY <1>0, <1>5, <2>h, <2>q, <3>1, <3>2, <4>1, Zenon DEF QuitMarks, HoldsCurrent
      <3>3. CASE p = "B"
        <4>1. /\ proc'["B"].pc = "semget2" /\ proc'["B"].seg = proc["B"].seg /\ proc'["B"].set = proc["B"].set
              /\ proc'["A"] = proc["A"]
          BY <1>1, <1>2, <1>3, <3>3, Zenon
        <4> QED BY <1>0, <1>5, <2>h, <2>q, <3>1, <3>3, <4>1, Zenon DEF QuitMarks, HoldsCurrent
      <3> QED BY <1>2, <3>2, <3>3
    <2>4. TurnKept' BY <1>0, <1>1, <1>2, <1>3, <2>h, <2>t, Zenon DEF TurnKept, HoldsCurrent
    <2>5. SentByA'
      BY <1>0, <1>1, <1>2, <1>3, <2>h, <2>s, <2>q, Zenon DEF SentByA, Ready, HoldsCurrent, QuitMarks
    <2>6. LineByLine'
      <3>1. OnItsWay' <=> OnItsWay
        BY <1>0, <1>1, <1>2, <1>3, <2>h, <2>s, <2>q
          DEF OnItsWay, Ready, OneTurn, HoldsCurrent, SentByA, QuitMarks
      <3> QED BY <1>0, <1>1, <1>2, <1>3, <2>l, <3>1, Zenon DEF LineByLine
    <2> QED BY <2>2, <2>3, <2>4, <2>5, <2>6 DEF InSession
  <1> QED BY <1>3, <1>4, <1>5, Zenon DEF ShmInv

\* The set is made, its values still to be given.
LEMMA SemgetMakes ==
  ASSUME ShmInv, NEW p \in Prog, semget(p), semset = None
  PROVE  ShmInv'
PROOF
  <1> USE DEF At, Live, HasTurn, Found, Joined, SaidQuit, OverSeg, OverSet
  <1>1. Objects /\ OneTurn /\ "A" \in Prog /\ "B" \in Prog /\ Prog = {"A", "B"}
    BY DEF ShmInv, Prog
  <1>2. p = "A" \/ p = "B" BY <1>1
  <1>i. PICK i \in Id \ madeSet :
            /\ semset' = i /\ madeSet' = madeSet \cup {i} /\ val' = <<0, 0>>
            /\ proc' = [proc EXCEPT ![p] = [pc |-> "setval0", seg |-> proc[p].seg, set |-> i]]
    <2> DEFINE r == proc[p]
               l == "setval0"
    <2>1. PICK W : r \in [pc : W, seg : Id \cup {None}, set : Id \cup {None}]
      BY <1>1, Zenon DEF Objects, ShmTypeOK
    <2> HIDE DEF r, l
    <2>2. \A j \in Id : [r EXCEPT !.pc = l, !.set = j] = [pc |-> l, seg |-> r.seg, set |-> j]
      BY <2>1, RecordSet, Zenon
    <2>3. PICK i \in Id \ madeSet : semset' = i /\ madeSet' = madeSet \cup {i} /\ val' = <<0, 0>> /\ proc' = [proc EXCEPT ![p] = [r EXCEPT !.pc = l, !.set = i]]
      BY Zenon DEF semget, r, l
    <2> QED BY <2>2, <2>3, Zenon DEF r, l
  <1>a. proc' = [proc EXCEPT ![p] = [pc |-> "setval0", seg |-> proc[p].seg, set |-> i]] BY <1>i, Zenon
  <1>v. val' \in (0 .. 1) \X (0 .. 1) /\ val'[1] = 0 /\ val'[2] = 0 BY <1>i
  <1>m. /\ semset' = i /\ madeSet' = madeSet \cup {i} /\ i \in Id /\ i # None /\ ~ OverSet(i) /\ semset = None
        /\ proc["A"].set # i /\ proc["B"].set # i /\ val'[1] = 0 /\ val'[2] = 0
    BY <1>i, <1>v, <1>1, ShmAssumption, Zenon DEF Objects, Made
  <1>0. At(p, "semget") /\ UNCHANGED <<segment, buf, madeSeg, typed, printed, over, stale>>
    BY Zenon DEF semget
  <1>3. /\ proc'[p].pc = "setval0" /\ proc'[p].seg = proc[p].seg /\ proc'[p].set = i
        /\ \A q \in Prog \ {p} : proc'[q] = proc[q]
        /\ Objects'
    <2> DEFINE l == "setval0"
               s == proc[p].seg
               t == i
    <2>1. l \in Places(p) BY <1>2 DEF Places
    <2>2. /\ Made(s, madeSeg') /\ Made(t, madeSet') /\ Made(segment', madeSeg') /\ Made(semset', madeSet')
          /\ s \in Id \cup {None} /\ t \in Id \cup {None}
          /\ madeSeg \subseteq madeSeg' /\ madeSet \subseteq madeSet'
          /\ madeSeg' \subseteq Id /\ madeSet' \subseteq Id
      BY <1>0, <1>m, <1>v, <1>1, Zenon DEF Objects, ShmTypeOK, Made
    <2>3. /\ UNCHANGED <<buf, over, typed>> /\ printed' \in Seq(Line \cup {Blank})
          /\ val' \in (0 .. 1) \X (0 .. 1)
      BY <1>0, <1>m, <1>v, <1>1, Zenon DEF Objects, ShmTypeOK
    <2>4. proc' = [proc EXCEPT ![p] = [pc |-> l, seg |-> s, set |-> t]] BY <1>a, Zenon
    <2> HIDE DEF l, s, t
    <2>5. /\ proc'[p].pc = l /\ proc'[p].seg = s /\ proc'[p].set = t
          /\ \A q \in Prog \ {p} : proc'[q] = proc[q]
      BY <1>1, <2>4, Zenon DEF Objects, ShmTypeOK
    <2>6. Objects' BY <1>1, <2>1, <2>2, <2>3, <2>4, PickedUp, ZenonT(30)
    <2> QED BY <2>5, <2>6, Zenon DEF l, s, t
  <1>4. OneTurn' BY <1>0, <1>1, <1>2, <1>3, <1>m, Zenon DEF OneTurn
  <1>5. ASSUME ~ stale' PROVE InSession'
    <2>1. HoldsCurrent /\ QuitMarks /\ TurnKept /\ SentByA /\ LineByLine
      BY <1>0, <1>5, Zenon DEF ShmInv, InSession
    <2>h. HoldsCurrent BY <2>1
    <2>q. QuitMarks BY <2>1
    <2>t. TurnKept BY <2>1
    <2>s. SentByA BY <2>1
    <2>l. LineByLine BY <2>1
    <2>2. HoldsCurrent' BY <1>0, <1>m, <1>1, <1>2, <1>3, <2>h DEF HoldsCurrent
    <2>3. QuitMarks'
      <3>1. (\A j \in Id : OverSeg(j) <=> buf[j] = Quit)' BY <1>0, <2>q, Zenon DEF QuitMarks
      <3>2. CASE p = "A"
        <4>1. /\ proc'["A"].pc = "setval0" /\ proc'["A"].seg = proc["A"].seg /\ proc'["A"].set = i
              /\ proc'["B"] = proc["B"]
          BY <1>1, <1>2, <1>3, <3>2, Zenon
        <4> QED BY <1>0, <1>5, <1>m, <2>h, <2>q, <3>1, <3>2, <4>1, Zenon DEF QuitMarks, HoldsCurrent
      <3>3. CASE p = "B"
        <4>1. /\ proc'["B"].pc = "setval0" /\ proc'["B"].seg = proc["B"].seg /\ proc'["B"].set = i
              /\ proc'["A"] = proc["A"]
          BY <1>1, <1>2, <1>3, <3>3, Zenon
        <4> QED BY <1>0, <1>5, <1>m, <2>h, <2>q, <3>1, <3>3, <4>1, Zenon DEF QuitMarks, HoldsCurrent
      <3> QED BY <1>2, <3>2, <3>3
    <2>4. TurnKept' BY <1>0, <1>m, <1>1, <1>2, <1>3, <2>h, <2>t, Zenon DEF TurnKept, HoldsCurrent
    <2>5. SentByA'
      BY <1>0, <1>m, <1>1, <1>2, <1>3, <2>h, <2>s, <2>q DEF SentByA, Ready, HoldsCurrent, QuitMarks
    <2>6. LineByLine'
      <3>1. OnItsWay' <=> OnItsWay
        BY <1>0, <1>m, <1>1, <1>2, <1>3, <2>h, <2>s, <2>q
          DEF OnItsWay, Ready, OneTurn, HoldsCurrent, SentByA, QuitMarks
      <3> QED BY <1>0, <1>m, <1>1, <1>2, <1>3, <2>l, <3>1, Zenon DEF LineByLine
    <2> QED BY <2>2, <2>3, <2>4, <2>5, <2>6 DEF InSession
  <1> QED BY <1>3, <1>4, <1>5, Zenon DEF ShmInv

\* The maker of the set gives semaphore 0 its value.
LEMMA SetVal0Step ==
  ASSUME ShmInv, NEW p \in Prog, SetVal(p, "setval0", 0, 0, "setval1")
  PROVE  ShmInv'
PROOF
  <1> USE DEF At, Live, HasTurn, Found, Joined, SaidQuit, OverSeg, OverSet
  <1>1. Objects /\ OneTurn /\ "A" \in Prog /\ "B" \in Prog /\ Prog = {"A", "B"}
    BY DEF ShmInv, Prog
  <1>2. (p = "A" /\ Loop(p) = "P1") \/ (p = "B" /\ Loop(p) = "P0") BY <1>1 DEF Loop
  <1>0. At(p, "setval0") /\ Goto(p, "setval1") /\ UNCHANGED <<segment, buf, semset, madeSeg, madeSet, typed, printed, over, stale>>
    BY Zenon DEF SetVal
  <1>v. /\ val' \in (0 .. 1) \X (0 .. 1)
        /\ Live(p) => val[1] = 0 /\ val[2] = 0 /\ val'[1] = 0 /\ val'[2] = 0
        /\ ~ Live(p) => val'[1] = val[1] /\ val'[2] = val[2]
    <2>1. val \in (0 .. 1) \X (0 .. 1) BY <1>1, Zenon DEF Objects, ShmTypeOK
    <2>2. val' = IF Live(p) THEN [val EXCEPT ![1] = 0] ELSE val BY DEF SetVal
    <2>3. Live(p) => val[1] = 0 /\ val[2] = 0 BY <1>0, <1>1, <1>2, Zenon DEF OneTurn
    <2>4. CASE Live(p)
      <3>1. val' = [val EXCEPT ![1] = 0] BY <2>2, <2>4
      <3>2. val'[1] = 0 /\ val'[2] = val[2] /\ val' \in (0 .. 1) \X (0 .. 1)
        BY <2>1, <3>1, SetSemaphore
      <3> QED BY <2>3, <2>4, <3>2, Zenon
    <2>5. CASE ~ Live(p) BY <2>1, <2>2, <2>5, Zenon
    <2> QED BY <2>4, <2>5, Zenon
  <1>3. /\ proc'[p].pc = "setval1" /\ proc'[p].seg = proc[p].seg /\ proc'[p].set = proc[p].set
        /\ \A q \in Prog \ {p} : proc'[q] = proc[q]
        /\ Objects'
    <2>1. "setval1" \in Places(p) BY <1>2 DEF Places
    <2>2. printed' \in Seq(Line \cup {Blank}) BY <1>0, <1>1, Zenon DEF Objects
    <2> QED BY <1>0, <1>1, <1>v, <2>1, <2>2, Moved
  <1>4. OneTurn' BY <1>0, <1>1, <1>2, <1>3, <1>v DEF OneTurn
  <1>5. ASSUME ~ stale' PROVE InSession'
    <2>1. HoldsCurrent /\ QuitMarks /\ TurnKept /\ SentByA /\ LineByLine
      BY <1>0, <1>5, Zenon DEF ShmInv, InSession
    <2>h. HoldsCurrent BY <2>1
    <2>q. QuitMarks BY <2>1
    <2>t. TurnKept BY <2>1
    <2>s. SentByA BY <2>1
    <2>l. LineByLine BY <2>1
    <2>a. Live(p) /\ val'[1] = 0 /\ val'[2] = 0 /\ val[1] = 0 /\ val[2] = 0
      <3>1. Live(p) BY <1>0, <1>2, <2>h, Zenon DEF HoldsCurrent
      <3> QED BY <1>v, <3>1, Zenon
    <2>2. HoldsCurrent' BY <1>0, <1>1, <1>2, <1>3, <1>v, <2>h DEF HoldsCurrent
    <2>3. QuitMarks'
      <3>1. (\A j \in Id : OverSeg(j) <=> buf[j] = Quit)' BY <1>0, <2>q, Zenon DEF QuitMarks
      <3>2. CASE p = "A"
        <4>1. /\ proc'["A"].pc = "setval1" /\ proc'["A"].seg = proc["A"].seg /\ proc'["A"].set = proc["A"].set
              /\ proc'["B"] = proc["B"]
          BY <1>1, <1>2, <1>3, <3>2, Zenon
        <4> QED BY <1>0, <1>5, <2>h, <2>q, <3>1, <3>2, <4>1, Zenon DEF QuitMarks, HoldsCurrent
      <3>3. CASE p = "B"
        <4>1. /\ proc'["B"].pc = "setval1" /\ proc'["B"].seg = proc["B"].seg /\ proc'["B"].set = proc["B"].set
              /\ proc'["A"] = proc["A"]
          BY <1>1, <1>2, <1>3, <3>3, Zenon
        <4> QED BY <1>0, <1>5, <2>h, <2>q, <3>1, <3>3, <4>1, Zenon DEF QuitMarks, HoldsCurrent
      <3> QED BY <1>2, <3>2, <3>3
    <2>4. TurnKept' BY <1>0, <1>1, <1>2, <1>3, <1>v, <2>a, <2>h, <2>t, Zenon DEF TurnKept, HoldsCurrent
    <2>5. SentByA'
      BY <1>0, <1>1, <1>2, <1>3, <1>v, <2>a, <2>h, <2>s, <2>q, Zenon
        DEF SentByA, Ready, HoldsCurrent, QuitMarks
    <2>6. LineByLine'
      <3>1. OnItsWay' <=> OnItsWay
        BY <1>0, <1>1, <1>2, <1>3, <1>v, <2>a, <2>h, <2>s, <2>q, ZenonT(30)
          DEF OnItsWay, Ready, OneTurn, HoldsCurrent, SentByA, QuitMarks
      <3> QED BY <1>0, <1>1, <1>2, <1>3, <1>v, <2>a, <2>l, <3>1, Zenon DEF LineByLine
    <2> QED BY <2>2, <2>3, <2>4, <2>5, <2>6 DEF InSession
  <1> QED BY <1>3, <1>4, <1>5, Zenon DEF ShmInv

\* The maker of the set gives semaphore 1 its value, with which the turn is there.
LEMMA SetVal1Step ==
  ASSUME ShmInv, NEW p \in Prog, SetVal(p, "setval1", 1, 1, Loop(p))
  PROVE  ShmInv'
PROOF
  <1> USE DEF At, Live, HasTurn, Found, Joined, SaidQuit, OverSeg, OverSet
  <1>1. Objects /\ OneTurn /\ "A" \in Prog /\ "B" \in Prog /\ Prog = {"A", "B"}
    BY DEF ShmInv, Prog
  <1>2. (p = "A" /\ Loop(p) = "P1") \/ (p = "B" /\ Loop(p) = "P0") BY <1>1 DEF Loop
  <1>0. At(p, "setval1") /\ Goto(p, Loop(p)) /\ UNCHANGED <<segment, buf, semset, madeSeg, madeSet, typed, printed, over, stale>>
    BY Zenon DEF SetVal
  <1>v. /\ val' \in (0 .. 1) \X (0 .. 1)
        /\ Live(p) => val[1] = 0 /\ val[2] = 0 /\ val'[1] = 0 /\ val'[2] = 1
        /\ ~ Live(p) => val'[1] = val[1] /\ val'[2] = val[2]
    <2>1. val \in (0 .. 1) \X (0 .. 1) BY <1>1, Zenon DEF Objects, ShmTypeOK
    <2>2. val' = IF Live(p) THEN [val EXCEPT ![2] = 1] ELSE val BY DEF SetVal
    <2>3. Live(p) => val[1] = 0 /\ val[2] = 0 BY <1>0, <1>1, <1>2, Zenon DEF OneTurn
    <2>4. CASE Live(p)
      <3>1. val' = [val EXCEPT ![2] = 1] BY <2>2, <2>4
      <3>2. val'[2] = 1 /\ val'[1] = val[1] /\ val' \in (0 .. 1) \X (0 .. 1)
        BY <2>1, <3>1, SetSemaphore
      <3> QED BY <2>3, <2>4, <3>2, Zenon
    <2>5. CASE ~ Live(p) BY <2>1, <2>2, <2>5, Zenon
    <2> QED BY <2>4, <2>5, Zenon
  <1>3. /\ proc'[p].pc = Loop(p) /\ proc'[p].seg = proc[p].seg /\ proc'[p].set = proc[p].set
        /\ \A q \in Prog \ {p} : proc'[q] = proc[q]
        /\ Objects'
    <2>1. Loop(p) \in Places(p) BY <1>2 DEF Places
    <2>2. printed' \in Seq(Line \cup {Blank}) BY <1>0, <1>1, Zenon DEF Objects
    <2> QED BY <1>0, <1>1, <1>v, <2>1, <2>2, Moved
  <1>4. OneTurn' BY <1>0, <1>1, <1>2, <1>3, <1>v, Zenon DEF OneTurn
  <1>5. ASSUME ~ stale' PROVE InSession'
    <2>1. HoldsCurrent /\ QuitMarks /\ TurnKept /\ SentByA /\ LineByLine
      BY <1>0, <1>5, Zenon DEF ShmInv, InSession
    <2>h. HoldsCurrent BY <2>1
    <2>q. QuitMarks BY <2>1
    <2>t. TurnKept BY <2>1
    <2>s. SentByA BY <2>1
    <2>l. LineByLine BY <2>1
    <2>a. Live(p) /\ val'[1] = 0 /\ val'[2] = 1 /\ val[1] = 0 /\ val[2] = 0
      <3>1. Live(p) BY <1>0, <1>2, <2>h, Zenon DEF HoldsCurrent
      <3> QED BY <1>v, <3>1, Zenon
    <2>2. HoldsCurrent' BY <1>0, <1>1, <1>2, <1>3, <1>v, <2>h, ZenonT(30) DEF HoldsCurrent
    <2>3. QuitMarks'
      <3>1. (\A j \in Id : OverSeg(j) <=> buf[j] = Quit)' BY <1>0, <2>q, Zenon DEF QuitMarks
      <3>2. CASE p = "A"
        <4>1. /\ proc'["A"].pc = "P1" /\ proc'["A"].seg = proc["A"].seg /\ proc'["A"].set = proc["A"].set
              /\ proc'["B"] = proc["B"]
          BY <1>1, <1>2, <1>3, <3>2, Zenon
        <4> QED BY <1>0, <1>5, <2>h, <2>q, <3>1, <3>2, <4>1, Zenon DEF QuitMarks, HoldsCurrent
      <3>3. CASE p = "B"
        <4>1. /\ proc'["B"].pc = "P0" /\ proc'["B"].seg = proc["B"].seg /\ proc'["B"].set = proc["B"].set
              /\ proc'["A"] = proc["A"]
          BY <1>1, <1>2, <1>3, <3>3, Zenon
        <4> QED BY <1>0, <1>5, <2>h, <2>q, <3>1, <3>3, <4>1, Zenon DEF QuitMarks, HoldsCurrent
      <3> QED BY <1>2, <3>2, <3>3
    <2>4. TurnKept' BY <1>0, <1>1, <1>2, <1>3, <1>v, <2>a, <2>h, <2>t, Zenon DEF TurnKept, HoldsCurrent
    <2>5. SentByA'
      BY <1>0, <1>1, <1>2, <1>3, <1>v, <2>a, <2>h, <2>s, <2>q, ZenonT(30)
        DEF SentByA, Ready, HoldsCurrent, QuitMarks
    <2>6. LineByLine'
      <3>1. OnItsWay' <=> OnItsWay
        BY <1>0, <1>1, <1>2, <1>3, <1>v, <2>a, <2>h, <2>s, <2>q, ZenonT(30)
          DEF OnItsWay, Ready, OneTurn, HoldsCurrent, SentByA, QuitMarks
      <3> QED BY <1>0, <1>1, <1>2, <1>3, <1>v, <2>a, <2>l, <3>1, Zenon DEF LineByLine
    <2> QED BY <2>2, <2>3, <2>4, <2>5, <2>6 DEF InSession
  <1> QED BY <1>3, <1>4, <1>5, Zenon DEF ShmInv

-----------------------------------------------------------------------------
(* Shared memory: the theorem                                              *)

\* At first there are no objects and nothing was typed.
LEMMA ShmInitInv == ShmInit => ShmInv
PROOF
  <1> SUFFICES ASSUME ShmInit PROVE ShmInv OBVIOUS
  <1>1. /\ proc["A"] = [pc |-> "shmget", seg |-> None, set |-> None]
        /\ proc["B"] = [pc |-> "shmget", seg |-> None, set |-> None]
        /\ segment = None /\ semset = None /\ over = {} /\ typed = << >> /\ printed = << >>
        /\ val[1] = 0 /\ val[2] = 0
        /\ \A i \in Id : buf[i] = Blank
    BY DEF ShmInit, Prog
  <1>2. Objects
    <2>1. ShmTypeOK BY DEF ShmInit, ShmTypeOK
    <2>2. \A p \in Prog : Made(proc[p].seg, madeSeg) /\ Made(proc[p].set, madeSet)
      BY <1>1 DEF Made, Prog
    <2>3. buf \in [Id -> Line \cup {Quit, Blank}] /\ madeSeg = {} /\ madeSet = {} BY DEF ShmInit
    <2> QED BY <1>1, <2>1, <2>2, <2>3 DEF Objects, Made
  <1>3. OneTurn BY <1>1 DEF OneTurn, HasTurn
  <1>4. HoldsCurrent BY <1>1 DEF HoldsCurrent, Found, Joined, At
  <1>5. Blank # Quit BY DEF Blank, Quit
  <1>6. QuitMarks
    <2>1. \A i \in Id : OverSeg(i) <=> buf[i] = Quit BY <1>1, <1>5, Zenon DEF OverSeg
    <2> QED BY <1>1, <2>1 DEF QuitMarks, Found, Joined
  <1>7. TurnKept /\ SentByA BY <1>1, Zenon DEF TurnKept, SentByA, Ready
  <1>8. LineByLine BY <1>1 DEF LineByLine, OnItsWay, Ready, At
  <1> QED BY <1>2, <1>3, <1>4, <1>6, <1>7, <1>8 DEF ShmInv, InSession

\* Every step of either program, and of the users who type and start them, keeps ShmInv.
LEMMA ShmStepInv == ShmInv /\ [ShmNext]_shmvars => ShmInv'
PROOF
  <1> SUFFICES ASSUME ShmInv, [ShmNext]_shmvars PROVE ShmInv' OBVIOUS
  <1>1. ASSUME NEW p \in Prog, SetUp(p) PROVE ShmInv'
    <2>1. CASE shmget(p) BY <2>1, ShmgetMakes, ShmgetFinds
    <2>2. CASE shmgetExisting(p) BY <2>2, ShmgetExistingStep
    <2>3. CASE semget(p) BY <2>3, SemgetMakes, SemgetFinds
    <2>4. CASE semgetExisting(p) BY <2>4, SemgetExistingStep
    <2>5. CASE setVal(p) BY <2>5, SetVal0Step, SetVal1Step, Zenon DEF setVal
    <2> QED BY <1>1, <2>1, <2>2, <2>3, <2>4, <2>5, Zenon DEF SetUp
  <1>2. CASE ProgramA
    BY <1>1, <1>2, WaitToWriteStep, LineReadyStep, AfterSendStep DEF ProgramA, Prog
  <1>3. CASE ProgramB
    BY <1>1, <1>3, WaitForLineStep, LookStep, MayWriteStep, RemoveSegmentStep, RemoveSetStep
    DEF ProgramB, Prog
  <1>4. CASE fgets BY <1>4, FgetsStep
  <1>5. ASSUME NEW p \in Prog, start(p) PROVE ShmInv' BY <1>5, StartStep
  <1>6. CASE UNCHANGED shmvars
    <2> USE <1>6 DEF shmvars, HasTurn, Live, At, Found, Joined, SaidQuit, OverSeg, OverSet, Ready
    <2>1. Objects' BY Zenon DEF ShmInv, Objects, ShmTypeOK
    <2>2. OneTurn' BY Zenon DEF ShmInv, OneTurn
    <2>3. ASSUME ~ stale PROVE InSession'
      <3>1. InSession BY <2>3 DEF ShmInv
      <3>2. HoldsCurrent' BY <3>1, Zenon DEF InSession, HoldsCurrent
      <3>3. QuitMarks' BY <3>1, ZenonT(30) DEF InSession, QuitMarks
      <3>4. TurnKept' /\ SentByA' BY <3>1, Zenon DEF InSession, TurnKept, SentByA
      <3>5. LineByLine' BY <3>1, Zenon DEF InSession, LineByLine, OnItsWay
      <3> QED BY <3>2, <3>3, <3>4, <3>5, Zenon DEF InSession
    <2> QED BY <2>1, <2>2, <2>3, Zenon DEF ShmInv
  <1> QED BY <1>2, <1>3, <1>4, <1>5, <1>6 DEF ShmNext

\* The invariant gives the four parts of TakeTurns.
LEMMA ShmInvTakesTurns == ShmInv => TakeTurns
PROOF
  <1> SUFFICES ASSUME ShmInv PROVE TakeTurns OBVIOUS
  <1>1. ShmTypeOK BY Zenon DEF ShmInv, Objects
  <1>2. OneTurn BY DEF ShmInv
  <1>3. OneInSegment
    BY <1>2, Zenon DEF ShmInv, InSession, OneInSegment, HoldsCurrent, OneTurn, HasTurn, Joined, Found, At
  <1>4. PrintedInStep
    <2>1. SUFFICES ASSUME ~ stale PROVE /\ Len(printed) \in {Len(typed), Len(typed) - 1}
                                       /\ printed = SubSeq(typed, 1, Len(printed))
      BY DEF PrintedInStep
    <2>2. typed = (IF OnItsWay THEN Append(printed, buf[segment]) ELSE printed)
      BY <2>1 DEF ShmInv, InSession, LineByLine
    <2>3. printed \in Seq(Line \cup {Blank}) /\ typed \in Seq(Line) BY Zenon DEF ShmInv, Objects
    <2> HIDE DEF OnItsWay
    <2>4. CASE typed = printed BY <2>3, <2>4
    <2>5. CASE typed = Append(printed, buf[segment])
      <3> DEFINE x == buf[segment]
      <3>1. /\ Len(typed) = Len(printed) + 1 /\ Len(printed) \in Nat
            /\ \A i \in 1 .. Len(printed) : typed[i] = printed[i]
        BY <2>3, <2>5
      <3>2. SubSeq(typed, 1, Len(printed)) = printed BY <2>3, <3>1
      <3> QED BY <3>1, <3>2
    <2> QED BY <2>2, <2>4, <2>5, Zenon
  <1>5. StuckOnlyOnLeftOvers
    <2>1. SUFFICES ASSUME Stuck, ~ stale PROVE FALSE BY DEF StuckOnlyOnLeftOvers
    <2>2. QuitMarks /\ TurnKept BY <2>1 DEF ShmInv, InSession
    <2>3. semset # None /\ ~ OverSet(semset)
      BY <2>1, <2>2, Zenon DEF Stuck, Live, At, QuitMarks, Joined, Found, SaidQuit
    <2> QED BY <2>1, <2>2, <2>3 DEF Stuck, At, TurnKept, HasTurn
  <1> QED BY <1>1, <1>3, <1>4, <1>5 DEF TakeTurns

\* Whatever order the two programs are started in, and started again, they take turns in the
\* segment, no line is lost, repeated or reordered, and they never both wait, until one of
\* them takes over an object that a session which is over left in the kernel.
THEOREM AlwaysTakeTurns == ShmSpec => []TakeTurns
PROOF
  <1>1. ShmInit => ShmInv BY ShmInitInv
  <1>2. ShmInv /\ [ShmNext]_shmvars => ShmInv' BY ShmStepInv
  <1>3. ShmInv => TakeTurns BY ShmInvTakesTurns
  <1> QED BY <1>1, <1>2, <1>3, PTL DEF ShmSpec

-----------------------------------------------------------------------------
(* Message queues: the invariant                                           *)

Typed == Text \cup {MqQuit}
Message == [from : Side, text : Typed]

\* Types, and a line to be sent is one that was typed.
Kinds ==
  /\ MqTypeOK /\ madeQ \in Nat
  /\ line \in [Side -> Typed \cup {NotTyped}] /\ \A s \in Side : child[s] = "msgsnd" => line[s] \in Typed
  /\ said \in [Side -> Seq(Typed)] /\ heard \in [Side -> Seq(Typed)]

\* A child runs only while its parent receives or is about to kill it; a parent was killed by
\* its own child only; one that ended by itself has removed its queue.
Lives ==
  \A s \in Side :
    /\ parent[s] # "none"
    /\ child[s] \notin Over => parent[s] \in {"msgrcv", "kill"}
    /\ parent[s] = "killed" => child[s] = "done"
    /\ parent[s] = "done" => ~ QueueLives(s)

\* f gives the places in the queue q of what s sent, u, but for the n texts that were received:
\* all of it, in the order in which it was sent.
Waits(q, s, u, n, f) ==
  /\ \A j, k \in DOMAIN f : j < k => f[j] < f[k]
  /\ \A i \in DOMAIN q : q[i].from = s => \E k \in DOMAIN f : f[k] = i
  /\ \A k \in DOMAIN f : q[f[k]].from = s /\ q[f[k]].text = u[n + k]

Waiting(q, s, u, n) == \E f \in [1 .. (Len(u) - n) -> 1 .. Len(q)] : Waits(q, s, u, n, f)

InOrder ==
  \A s \in Side :
    /\ PrefixOf(heard[Other(s)], said[s])
    /\ queue # MqNone => Waiting(msgs, s, said[s], Len(heard[Other(s)]))

MqInv == Kinds /\ Lives /\ InOrder

-----------------------------------------------------------------------------
(* Message queues: the queue                                               *)

\* What is left when a message is taken out of the queue.
LEMMA TakenOut ==
  ASSUME NEW q \in Seq(Message), NEW i \in 1 .. Len(q)
  PROVE  /\ Drop(q, i) \in Seq(Message) /\ Len(Drop(q, i)) = Len(q) - 1
         /\ DOMAIN Drop(q, i) = 1 .. (Len(q) - 1)
         /\ \A j \in 1 .. (Len(q) - 1) : Drop(q, i)[j] = IF j < i THEN q[j] ELSE q[j + 1]
PROOF
  <1> DEFINE a == SubSeq(q, 1, i - 1)
             b == SubSeq(q, i + 1, Len(q))
  <1>1. a \in Seq(Message) /\ Len(a) = i - 1 /\ \A j \in 1 .. (i - 1) : a[j] = q[j] OBVIOUS
  <1>2. b \in Seq(Message) /\ Len(b) = Len(q) - i /\ \A j \in 1 .. (Len(q) - i) : b[j] = q[i + j]
    OBVIOUS
  <1> HIDE DEF a, b
  <1>3. /\ a \o b \in Seq(Message) /\ Len(a \o b) = Len(q) - 1
        /\ DOMAIN (a \o b) = 1 .. (Len(q) - 1)
    <2>a. a \in Seq(Message) /\ b \in Seq(Message) BY <1>1, <1>2
    <2>1. a \o b \in Seq(Message) BY <2>a
    <2>2. Len(a \o b) = Len(a) + Len(b) BY <2>a
    <2>3. (i - 1) + (Len(q) - i) = Len(q) - 1 OBVIOUS
    <2>4. Len(a \o b) = Len(q) - 1 BY <1>1, <1>2, <2>2, <2>3
    <2>5. DOMAIN (a \o b) = 1 .. Len(a \o b) BY <2>1
    <2> QED BY <2>1, <2>4, <2>5, Zenon
  <1>4. \A j \in 1 .. (Len(q) - 1) : (a \o b)[j] = IF j < i THEN q[j] ELSE q[j + 1]
    <2> SUFFICES ASSUME NEW j \in 1 .. (Len(q) - 1)
                 PROVE  (a \o b)[j] = IF j < i THEN q[j] ELSE q[j + 1]
      BY Zenon
    <2>1. CASE j < i BY <1>1, <1>2, <2>1
    <2>2. CASE ~ (j < i)
      <3>1. (a \o b)[j] = b[j - (i - 1)] BY <1>1, <1>2, <2>2
      <3>2. j - (i - 1) \in 1 .. (Len(q) - i) /\ i + (j - (i - 1)) = j + 1 BY <2>2
      <3>3. b[j - (i - 1)] = q[j + 1] BY <1>2, <3>2
      <3> QED BY <2>2, <3>1, <3>3
    <2> QED BY <2>1, <2>2, Zenon
  <1> QED BY <1>3, <1>4, Zenon DEF Drop, a, b

\* A queue that was just made.
LEMMA NothingWaits ==
  ASSUME NEW s
  PROVE  Waiting(<<>>, s, <<>>, 0)
PROOF
  <1> DEFINE f == [k \in 1 .. 0 |-> k]
  <1>1. f \in [1 .. (Len(<<>>) - 0) -> 1 .. Len(<<>>)] /\ DOMAIN f = {} OBVIOUS
  <1>2. Waits(<<>>, s, <<>>, 0, f) BY <1>1 DEF Waits
  <1> QED BY <1>1, <1>2, Zenon DEF Waiting

\* A message that is sent waits behind the others of its sender.
LEMMA SentWaits ==
  ASSUME NEW q \in Seq(Message), NEW s \in Side, NEW x \in Typed, NEW u \in Seq(Typed),
         NEW n \in 0 .. Len(u), Waiting(q, s, u, n)
  PROVE  Waiting(Append(q, [from |-> s, text |-> x]), s, Append(u, x), n)
PROOF
  <1> DEFINE m == Len(u) - n
             p == Append(q, [from |-> s, text |-> x])
  <1>1. PICK f \in [1 .. m -> 1 .. Len(q)] : Waits(q, s, u, n, f) BY DEF Waiting
  <1> DEFINE g == [k \in 1 .. (m + 1) |-> IF k = m + 1 THEN Len(q) + 1 ELSE f[k]]
  <1>2. /\ Len(p) = Len(q) + 1 /\ \A i \in 1 .. Len(q) : p[i] = q[i]
        /\ p[Len(q) + 1].from = s /\ p[Len(q) + 1].text = x /\ DOMAIN p = 1 .. (Len(q) + 1)
    OBVIOUS
  <1>3. /\ Len(Append(u, x)) = Len(u) + 1 /\ Append(u, x)[Len(u) + 1] = x
        /\ \A i \in 1 .. Len(u) : Append(u, x)[i] = u[i]
    OBVIOUS
  <1>4. m \in Nat /\ Len(Append(u, x)) - n = m + 1 /\ n + (m + 1) = Len(u) + 1 BY <1>3
  <1> HIDE DEF m
  <1>5. \A k \in 1 .. m : f[k] \in 1 .. Len(q) /\ g[k] = f[k]
    <2> SUFFICES ASSUME NEW k \in 1 .. m PROVE f[k] \in 1 .. Len(q) /\ g[k] = f[k] BY Zenon
    <2>1. k \in 1 .. (m + 1) /\ k # m + 1 BY <1>4
    <2>2. g[k] = f[k] BY <2>1
    <2> QED BY <1>1, <2>2
  <1>6. g[m + 1] = Len(q) + 1 /\ DOMAIN g = 1 .. (m + 1) BY <1>4
  <1>7. g \in [1 .. (m + 1) -> 1 .. (Len(q) + 1)]
    <2>1. Len(q) \in Nat OBVIOUS
    <2>2. ASSUME NEW k \in 1 .. (m + 1) PROVE g[k] \in 1 .. (Len(q) + 1)
      <3>1. CASE k = m + 1 BY <1>6, <2>1, <3>1
      <3>2. CASE k # m + 1
        <4>1. k \in 1 .. m BY <1>4, <3>2
        <4>2. g[k] \in 1 .. Len(q) BY <1>5, <4>1, Zenon
        <4> HIDE DEF g
        <4> QED BY <2>1, <4>2
      <3> QED BY <3>1, <3>2
    <2> QED BY <2>2
  <1> HIDE DEF g, p, m
  <1>8. \A j, k \in DOMAIN g : j < k => g[j] < g[k]
    <2> SUFFICES ASSUME NEW j \in 1 .. (m + 1), NEW k \in 1 .. (m + 1), j < k PROVE g[j] < g[k]
      BY <1>6, Zenon
    <2>1. j \in 1 .. m /\ (k = m + 1 \/ k \in 1 .. m) BY <1>4
    <2>2. g[j] = f[j] /\ f[j] \in 1 .. Len(q) BY <1>5, <2>1, Zenon
    <2>3. CASE k = m + 1 BY <1>6, <2>2, <2>3
    <2>4. CASE k \in 1 .. m
      <3>1. f[j] < f[k] BY <1>1, <2>1, <2>4, Zenon DEF Waits
      <3>2. g[k] = f[k] BY <1>5, <2>4, Zenon
      <3> QED BY <2>2, <3>1, <3>2
    <2> QED BY <2>1, <2>3, <2>4
  <1>9. \A i \in DOMAIN p : p[i].from = s => \E k \in DOMAIN g : g[k] = i
    <2> SUFFICES ASSUME NEW i \in 1 .. (Len(q) + 1), p[i].from = s
                 PROVE  \E k \in 1 .. (m + 1) : g[k] = i
      BY <1>2, <1>6, Zenon
    <2>1. CASE i = Len(q) + 1 BY <1>4, <1>6, <2>1
    <2>2. CASE i # Len(q) + 1
      <3>1. i \in DOMAIN q /\ q[i].from = s BY <1>2, <2>2
      <3>2. PICK k \in 1 .. m : f[k] = i BY <1>1, <3>1, Zenon DEF Waits
      <3> QED BY <1>4, <1>5, <3>2, SMTT(30)
    <2> QED BY <2>1, <2>2
  <1>10. \A k \in DOMAIN g : p[g[k]].from = s /\ p[g[k]].text = Append(u, x)[n + k]
    <2> SUFFICES ASSUME NEW k \in 1 .. (m + 1)
                 PROVE  p[g[k]].from = s /\ p[g[k]].text = Append(u, x)[n + k]
      BY <1>6, Zenon
    <2>1. CASE k = m + 1 BY <1>2, <1>3, <1>4, <1>6, <2>1, Zenon
    <2>2. CASE k # m + 1
      <3>1. k \in 1 .. m /\ n + k \in 1 .. Len(u) BY <1>4, <2>2 DEF m
      <3>2. q[f[k]].from = s /\ q[f[k]].text = u[n + k] BY <1>1, <3>1, Zenon DEF Waits
      <3> QED BY <1>2, <1>3, <1>5, <3>1, <3>2
    <2> QED BY <2>1, <2>2, Zenon
  <1>11. Waits(p, s, Append(u, x), n, g) BY <1>8, <1>9, <1>10, Zenon DEF Waits
  <1> QED BY <1>2, <1>4, <1>7, <1>11, Zenon DEF Waiting, p

\* A message of the other side changes nothing for those of s.
LEMMA OtherSent ==
  ASSUME NEW q \in Seq(Message), NEW s \in Side, NEW x \in Message, x.from # s,
         NEW u \in Seq(Typed), NEW n \in Nat, Waiting(q, s, u, n)
  PROVE  Waiting(Append(q, x), s, u, n)
PROOF
  <1> DEFINE m == Len(u) - n
             p == Append(q, x)
  <1>1. PICK f \in [1 .. m -> 1 .. Len(q)] : Waits(q, s, u, n, f) BY DEF Waiting
  <1>2. /\ Len(p) = Len(q) + 1 /\ \A i \in 1 .. Len(q) : p[i] = q[i]
        /\ p[Len(q) + 1] = x /\ DOMAIN p = 1 .. (Len(q) + 1)
    OBVIOUS
  <1>3. f \in [1 .. m -> 1 .. Len(p)] BY <1>2
  <1> HIDE DEF p, m
  <1>4. \A i \in DOMAIN p : p[i].from = s => i \in DOMAIN q /\ p[i] = q[i] BY <1>2
  <1>5. \A k \in 1 .. m : p[f[k]] = q[f[k]] BY <1>1, <1>2, Zenon
  <1>6. /\ \A j, k \in 1 .. m : j < k => f[j] < f[k]
        /\ \A i \in DOMAIN q : q[i].from = s => \E k \in 1 .. m : f[k] = i
        /\ \A k \in 1 .. m : q[f[k]].from = s /\ q[f[k]].text = u[n + k]
    BY <1>1, Zenon DEF Waits
  <1>7. DOMAIN f = 1 .. m BY <1>1
  <1>8. \A i \in DOMAIN p : p[i].from = s => \E k \in 1 .. m : f[k] = i
    BY <1>2, <1>4, <1>6, Zenon
  <1>9. \A k \in 1 .. m : p[f[k]].from = s /\ p[f[k]].text = u[n + k] BY <1>5, <1>6, Zenon
  <1>10. Waits(p, s, u, n, f) BY <1>6, <1>7, <1>8, <1>9, Zenon DEF Waits
  <1> QED BY <1>3, <1>10 DEF Waiting, p, m

\* The first message of s in the queue is the next of those it sent; the others go on waiting.
LEMMA NextReceived ==
  ASSUME NEW q \in Seq(Message), NEW s \in Side, NEW u \in Seq(Typed), NEW n \in 0 .. Len(u),
         Waiting(q, s, u, n), NEW i \in DOMAIN q, q[i].from = s,
         \A j \in 1 .. (i - 1) : q[j].from # s
  PROVE  n < Len(u) /\ q[i].text = u[n + 1] /\ Waiting(Drop(q, i), s, u, n + 1)
PROOF
  <1> DEFINE m == Len(u) - n
             p == Drop(q, i)
  <1>1. PICK f \in [1 .. m -> 1 .. Len(q)] : Waits(q, s, u, n, f) BY DEF Waiting
  <1>2. m \in Nat /\ i \in 1 .. Len(q) OBVIOUS
  <1>3. /\ Len(p) = Len(q) - 1 /\ DOMAIN p = 1 .. (Len(q) - 1)
        /\ \A j \in 1 .. (Len(q) - 1) : p[j] = IF j < i THEN q[j] ELSE q[j + 1]
    BY <1>2, TakenOut, Zenon
  <1> HIDE DEF p, m
  <1>4. PICK k \in 1 .. m : f[k] = i BY <1>1, Zenon DEF Waits
  <1>5. 1 \in 1 .. m /\ f[1] = i
    <2>1. 1 \in 1 .. m BY <1>2, <1>4
    <2>2. ASSUME k # 1 PROVE FALSE
      <3>0. 1 \in DOMAIN f /\ k \in DOMAIN f /\ 1 < k BY <1>1, <1>4, <2>1, <2>2
      <3>1. f[1] < i /\ q[f[1]].from = s BY <1>1, <1>4, <3>0, Zenon DEF Waits
      <3>2. f[1] \in 1 .. (i - 1) BY <1>1, <1>2, <2>1, <3>1
      <3> QED BY <3>1, <3>2
    <2> QED BY <1>4, <2>1, <2>2
  <1>6. n < Len(u) /\ q[i].text = u[n + 1]
    <2>1. n < Len(u) BY <1>5 DEF m
    <2>2. 1 \in DOMAIN f BY <1>1, <1>5, Zenon
    <2> QED BY <1>1, <1>5, <2>1, <2>2, Zenon DEF Waits
  <1>7. Waiting(p, s, u, n + 1)
    <2> DEFINE g == [j \in 1 .. (m - 1) |-> f[j + 1] - 1]
    <2>1. \A j \in 1 .. (m - 1) : /\ j + 1 \in 1 .. m /\ f[j + 1] \in 1 .. Len(q)
                                  /\ f[j + 1] > i /\ g[j] = f[j + 1] - 1
      BY <1>1, <1>2, <1>5, SMTT(30) DEF Waits
    <2>2. \A j \in 1 .. (m - 1) : g[j] \in 1 .. Len(p) /\ g[j] >= i /\ p[g[j]] = q[f[j + 1]]
      <3> SUFFICES ASSUME NEW j \in 1 .. (m - 1)
                   PROVE  g[j] \in 1 .. Len(p) /\ g[j] >= i /\ p[g[j]] = q[f[j + 1]]
        BY Zenon
      <3>1. f[j + 1] \in 1 .. Len(q) /\ f[j + 1] > i /\ g[j] = f[j + 1] - 1 BY <2>1, Zenon
      <3> HIDE DEF g
      <3>2. /\ g[j] \in 1 .. (Len(q) - 1) /\ g[j] >= i /\ ~ (g[j] < i) /\ g[j] + 1 = f[j + 1]
        BY <1>2, <3>1, SMTT(30)
      <3>3. p[g[j]] = q[g[j] + 1] BY <1>3, <3>2, Zenon
      <3>4. g[j] \in 1 .. Len(p) BY <1>3, <3>2, Zenon
      <3> QED BY <3>2, <3>3, <3>4, Zenon
    <2>3. g \in [1 .. (m - 1) -> 1 .. Len(p)] /\ DOMAIN g = 1 .. (m - 1) BY <2>2, Zenon
    <2> HIDE DEF g
    <2>4. \A j, l \in 1 .. (m - 1) : j < l => g[j] < g[l]
      <3> SUFFICES ASSUME NEW j \in 1 .. (m - 1), NEW l \in 1 .. (m - 1), j < l PROVE g[j] < g[l]
        BY Zenon
      <3>1. j + 1 \in 1 .. m /\ l + 1 \in 1 .. m /\ j + 1 < l + 1 BY <1>2
      <3>2. f[j + 1] < f[l + 1] BY <1>1, <3>1 DEF Waits
      <3>3. /\ g[j] = f[j + 1] - 1 /\ g[l] = f[l + 1] - 1
            /\ f[j + 1] \in 1 .. Len(q) /\ f[l + 1] \in 1 .. Len(q)
        BY <2>1, Zenon
      <3> QED BY <3>2, <3>3, SMTT(30)
    <2>5. \A j \in DOMAIN p : p[j].from = s => \E l \in 1 .. (m - 1) : g[l] = j
      <3> SUFFICES ASSUME NEW j \in 1 .. (Len(q) - 1), p[j].from = s
                   PROVE  \E l \in 1 .. (m - 1) : g[l] = j
        BY <1>3, ZenonT(30)
      <3>1. ~ (j < i)
        <4>1. ASSUME j < i PROVE FALSE
          <5>1. p[j] = q[j] /\ j \in 1 .. (i - 1) BY <1>2, <1>3, <4>1
          <5> QED BY <5>1
        <4> QED BY <4>1
      <3>2. p[j] = q[j + 1] /\ j + 1 \in DOMAIN q BY <1>3, <3>1, SMTT(30)
      <3>3. PICK l \in 1 .. m : f[l] = j + 1 BY <1>1, <3>2, Zenon DEF Waits
      <3>4. l # 1 BY <1>2, <1>5, <3>1, <3>3
      <3>5. l - 1 \in 1 .. (m - 1) /\ (l - 1) + 1 = l BY <1>2, <3>4, SMTT(30)
      <3>6. g[l - 1] = j BY <2>1, <3>3, <3>5
      <3> QED BY <3>5, <3>6
    <2>6. \A j \in 1 .. (m - 1) : p[g[j]].from = s /\ p[g[j]].text = u[(n + 1) + j]
      <3> SUFFICES ASSUME NEW j \in 1 .. (m - 1)
                   PROVE  p[g[j]].from = s /\ p[g[j]].text = u[(n + 1) + j]
        BY Zenon
      <3>1. p[g[j]] = q[f[j + 1]] /\ j + 1 \in 1 .. m BY <2>1, <2>2, Zenon
      <3>2. q[f[j + 1]].from = s /\ q[f[j + 1]].text = u[n + (j + 1)] BY <1>1, <3>1, Zenon DEF Waits
      <3>3. n + (j + 1) = (n + 1) + j BY <1>2
      <3> QED BY <3>1, <3>2, <3>3
    <2>7. Waits(p, s, u, n + 1, g) BY <2>3, <2>4, <2>5, <2>6, Zenon DEF Waits
    <2>8. m - 1 = Len(u) - (n + 1) BY DEF m
    <2> QED BY <2>3, <2>7, <2>8 DEF Waiting
  <1> QED BY <1>6, <1>7 DEF p

\* A message of the other side that is taken out leaves those of s in their order.
LEMMA OtherReceived ==
  ASSUME NEW q \in Seq(Message), NEW s \in Side, NEW u \in Seq(Typed), NEW n \in Nat,
         Waiting(q, s, u, n), NEW i \in DOMAIN q, q[i].from # s
  PROVE  Waiting(Drop(q, i), s, u, n)
PROOF
  <1> DEFINE m == Len(u) - n
             p == Drop(q, i)
  <1>1. PICK f \in [1 .. m -> 1 .. Len(q)] : Waits(q, s, u, n, f) BY DEF Waiting
  <1>2. m \in Int /\ i \in 1 .. Len(q) OBVIOUS
  <1>3. /\ Len(p) = Len(q) - 1 /\ DOMAIN p = 1 .. (Len(q) - 1)
        /\ \A j \in 1 .. (Len(q) - 1) : p[j] = IF j < i THEN q[j] ELSE q[j + 1]
    BY <1>2, TakenOut, Zenon
  <1> DEFINE g == [k \in 1 .. m |-> IF f[k] < i THEN f[k] ELSE f[k] - 1]
  <1> HIDE DEF p, m
  <1>a. \A k \in 1 .. m : f[k] \in 1 .. Len(q) /\ f[k] # i
    <2>1. \A k \in 1 .. m : q[f[k]].from = s BY <1>1, Zenon DEF Waits
    <2> QED BY <1>1, <2>1, Zenon
  <1>4. \A k \in 1 .. m : /\ f[k] \in 1 .. Len(q) /\ f[k] # i
                          /\ g[k] = IF f[k] < i THEN f[k] ELSE f[k] - 1
    BY <1>a, Zenon
  <1>5. \A k \in 1 .. m : g[k] \in 1 .. Len(p) /\ p[g[k]] = q[f[k]]
    <2> SUFFICES ASSUME NEW k \in 1 .. m PROVE g[k] \in 1 .. Len(p) /\ p[g[k]] = q[f[k]] BY Zenon
    <2> DEFINE a == f[k]
               b == g[k]
    <2>1. a \in 1 .. Len(q) /\ a # i /\ b = IF a < i THEN a ELSE a - 1 BY <1>4, Zenon
    <2> HIDE DEF a, b, g
    <2>2. b \in 1 .. (Len(q) - 1) /\ (IF b < i THEN b = a ELSE b + 1 = a) BY <1>2, <2>1
    <2>3. p[b] = q[a] BY <1>3, <2>2
    <2> QED BY <1>3, <2>2, <2>3, Zenon DEF a, b
  <1>6. g \in [1 .. m -> 1 .. Len(p)] /\ DOMAIN g = 1 .. m BY <1>5, Zenon
  <1> HIDE DEF g
  <1>7. \A j, k \in 1 .. m : j < k => g[j] < g[k]
    <2> SUFFICES ASSUME NEW j \in 1 .. m, NEW k \in 1 .. m, j < k PROVE g[j] < g[k] OBVIOUS
    <2>1. f[j] < f[k] BY <1>1, ZenonT(30) DEF Waits
    <2>2. /\ f[j] \in 1 .. Len(q) /\ f[j] # i /\ g[j] = IF f[j] < i THEN f[j] ELSE f[j] - 1
          /\ f[k] \in 1 .. Len(q) /\ f[k] # i /\ g[k] = IF f[k] < i THEN f[k] ELSE f[k] - 1
      BY <1>4, Zenon
    <2> DEFINE a == f[j]
               b == f[k]
    <2>3. a \in Int /\ b \in Int /\ i \in Int BY <1>2, <2>2
    <2> HIDE DEF a, b
    <2>4. a < b => (IF a < i THEN a ELSE a - 1) < (IF b < i THEN b ELSE b - 1) \/ a = i \/ b = i
      BY <2>3, SMTT(30)
    <2> QED BY <2>1, <2>2, <2>4, Zenon DEF a, b
  <1>8. \A j \in DOMAIN p : p[j].from = s => \E k \in 1 .. m : g[k] = j
    <2> SUFFICES ASSUME NEW j \in 1 .. (Len(q) - 1), p[j].from = s
                 PROVE  \E k \in 1 .. m : g[k] = j
      BY <1>3, Zenon
    <2> DEFINE h == IF j < i THEN j ELSE j + 1
    <2>1. p[j] = q[h] /\ h \in DOMAIN q BY <1>3, SMTT(30)
    <2>2. PICK k \in 1 .. m : f[k] = h BY <1>1, <2>1, Zenon DEF Waits
    <2>3. g[k] = j BY <1>2, <1>4, <2>2
    <2> QED BY <2>3
  <1>9. \A k \in 1 .. m : p[g[k]].from = s /\ p[g[k]].text = u[n + k]
    <2>1. \A k \in 1 .. m : q[f[k]].from = s /\ q[f[k]].text = u[n + k] BY <1>1, Zenon DEF Waits
    <2>2. \A k \in 1 .. m : p[g[k]] = q[f[k]] BY <1>5, Zenon
    <2> QED BY <2>1, <2>2
  <1>10. Waits(p, s, u, n, g) BY <1>6, <1>7, <1>8, <1>9, Zenon DEF Waits
  <1> QED BY <1>6, <1>10 DEF Waiting, p, m

\* A prefix remains one when more is said, and when the next text is heard.
LEMMA PrefixGrows ==
  ASSUME NEW h \in Seq(Typed), NEW u \in Seq(Typed), PrefixOf(h, u), NEW x \in Typed
  PROVE  /\ Len(h) \in 0 .. Len(u) /\ PrefixOf(h, Append(u, x))
         /\ Len(h) < Len(u) /\ x = u[Len(h) + 1] => PrefixOf(Append(h, x), u)
PROOF
  <1> DEFINE a == SubSeq(h, 1, Len(h))
             b == SubSeq(u, 1, Len(h))
  <1>0. Len(h) \in 0 .. Len(u) /\ a = b BY DEF PrefixOf
  <1>1. \A i \in 1 .. Len(h) : a[i] = h[i] /\ b[i] = u[i] BY <1>0
  <1>2. \A i \in 1 .. Len(h) : h[i] = u[i] BY <1>0, <1>1
  <1> HIDE DEF a, b
  <1>3. PrefixOf(h, Append(u, x))
    <2>1. SubSeq(h, 1, Len(h)) = SubSeq(Append(u, x), 1, Len(h)) BY <1>0, <1>2
    <2> QED BY <1>0, <2>1 DEF PrefixOf
  <1>4. ASSUME Len(h) < Len(u), x = u[Len(h) + 1] PROVE PrefixOf(Append(h, x), u)
    <2>1. /\ Len(Append(h, x)) = Len(h) + 1 /\ Len(h) + 1 <= Len(u)
          /\ \A i \in 1 .. (Len(h) + 1) : Append(h, x)[i] = u[i]
      BY <1>0, <1>2, <1>4
    <2>2. SubSeq(Append(h, x), 1, Len(h) + 1) = SubSeq(u, 1, Len(h) + 1) BY <1>0, <2>1
    <2> QED BY <2>1, <2>2 DEF PrefixOf
  <1> QED BY <1>0, <1>3, <1>4

-----------------------------------------------------------------------------
(* Message queues: the steps                                               *)

LEMMA TwoSides ==
  ASSUME NEW s \in Side
  PROVE  /\ Other(s) \in Side /\ Other(s) # s /\ Other(Other(s)) = s
         /\ \A t \in Side : t = s \/ t = Other(s)
PROOF BY DEF Side, Other

\* The queue is made, with nothing in it, or found to exist.
LEMMA MsggetStep ==
  ASSUME MqInv, NEW s \in Side, msgget(s)
  PROVE  MqInv'
PROOF
  <1>0. Kinds /\ Lives /\ InOrder /\ parent[s] = "msgget" /\ UNCHANGED <<line, rcv, mqStarts, leftOver>>
    BY Zenon DEF MqInv, msgget
  <1>1. child[s] \in Over BY <1>0 DEF Lives
  <1>2. CASE queue = MqNone
    <2>1. /\ queue' = madeQ + 1 /\ madeQ' = madeQ + 1 /\ msgs' = <<>>
          /\ msqid' = [msqid EXCEPT ![s] = madeQ + 1]
          /\ parent' = [parent EXCEPT ![s] = "msgrcv"] /\ child' = [child EXCEPT ![s] = "fgets"]
          /\ said' = [t \in Side |-> <<>>] /\ heard' = [t \in Side |-> <<>>]
      BY <1>2, Zenon DEF msgget
    <2>2. Kinds' BY <1>0, <2>1, MqAssumption, SMTT(30) DEF Kinds, MqTypeOK, Typed
    <2>3. Lives' BY <1>0, <2>1 DEF Lives, Kinds, MqTypeOK, QueueLives, Over
    <2>4. InOrder'
      <3> SUFFICES ASSUME NEW t \in Side
                   PROVE  /\ PrefixOf(heard'[Other(t)], said'[t])
                          /\ Waiting(msgs', t, said'[t], Len(heard'[Other(t)]))
        BY DEF InOrder
      <3>1. heard'[Other(t)] = <<>> /\ said'[t] = <<>> BY <2>1, TwoSides
      <3>2. PrefixOf(<<>>, <<>>) BY DEF PrefixOf
      <3>3. Len(<<>>) = 0 BY Zenon
      <3> QED BY <2>1, <3>1, <3>2, <3>3, NothingWaits
    <2> QED BY <2>2, <2>3, <2>4 DEF MqInv
  <1>3. CASE queue # MqNone
    <2>1. /\ parent' = [parent EXCEPT ![s] = "msgget2"]
          /\ UNCHANGED <<queue, madeQ, msgs, msqid, used, child, said, heard>>
      BY <1>3 DEF msgget
    <2>2. Kinds' BY <1>0, <2>1, Zenon DEF Kinds, MqTypeOK
    <2>3. Lives' BY <1>0, <1>1, <2>1, Zenon DEF Lives, Kinds, MqTypeOK, QueueLives, Over
    <2>4. InOrder' BY <1>0, <2>1 DEF InOrder
    <2> QED BY <2>2, <2>3, <2>4 DEF MqInv
  <1> QED BY <1>2, <1>3

\* The queue that was there is picked up, or none.
LEMMA MsggetExistingStep ==
  ASSUME MqInv, NEW s \in Side, msggetExisting(s)
  PROVE  MqInv'
PROOF
  <1>0. Kinds /\ Lives /\ InOrder BY DEF MqInv
  <1>1. /\ msqid' = [msqid EXCEPT ![s] = queue]
        /\ parent' = [parent EXCEPT ![s] = "msgrcv"] /\ child' = [child EXCEPT ![s] = "fgets"]
        /\ UNCHANGED <<line, rcv, queue, msgs, madeQ, said, heard>>
    BY DEF msggetExisting
  <1>2. queue \in 0 .. madeQ BY <1>0 DEF Kinds, MqTypeOK, MqNone
  <1>3. Kinds' BY <1>0, <1>1, <1>2, Zenon DEF Kinds, MqTypeOK
  <1>4. Lives' BY <1>0, <1>1, Zenon DEF Lives, Kinds, MqTypeOK, QueueLives, Over
  <1>5. InOrder' BY <1>0, <1>1 DEF InOrder
  <1> QED BY <1>3, <1>4, <1>5 DEF MqInv

\* A line is typed.
LEMMA TypeStep ==
  ASSUME MqInv, NEW s \in Side, type(s)
  PROVE  MqInv'
PROOF
  <1>0. Kinds /\ Lives /\ InOrder /\ child[s] = "fgets" BY DEF MqInv, type
  <1>1. PICK l \in Typed : line' = [line EXCEPT ![s] = l] BY Zenon DEF type, Typed
  <1>2. /\ child' = [child EXCEPT ![s] = "msgsnd"]
        /\ UNCHANGED <<parent, rcv, msqid, queue, msgs, madeQ, said, heard>>
    BY DEF type
  <1>3. Kinds' BY <1>0, <1>1, <1>2, Zenon DEF Kinds, MqTypeOK
  <1>4. Lives' BY <1>0, <1>2, Zenon DEF Lives, Kinds, MqTypeOK, QueueLives, Over
  <1>5. InOrder' BY <1>0, <1>2 DEF InOrder
  <1> QED BY <1>3, <1>4, <1>5 DEF MqInv

\* The line is sent, behind what is in the queue, or to no queue at all.
LEMMA MsgsndStep ==
  ASSUME MqInv, NEW s \in Side, msgsnd(s)
  PROVE  MqInv'
PROOF
  <1>0. Kinds /\ Lives /\ InOrder /\ child[s] = "msgsnd" BY Zenon DEF MqInv, msgsnd
  <1>1. /\ child' = [child EXCEPT ![s] = IF line[s] = MqQuit THEN "kill" ELSE "fgets"]
        /\ UNCHANGED <<parent, line, rcv, msqid, queue, madeQ, heard>>
    BY Zenon DEF msgsnd
  <1>2. Lives' BY <1>0, <1>1, Zenon DEF Lives, Kinds, MqTypeOK, QueueLives, Over
  <1>3. CASE ~ QueueLives(s)
    <2>1. UNCHANGED <<msgs, said>> BY <1>3, Zenon DEF msgsnd
    <2>2. Kinds' BY <1>0, <1>1, <2>1, Zenon DEF Kinds, MqTypeOK
    <2>3. InOrder' BY <1>0, <1>1, <2>1, Zenon DEF InOrder
    <2> QED BY <1>2, <2>2, <2>3 DEF MqInv
  <1>4. CASE QueueLives(s)
    <2> DEFINE x == line[s]
               m == [from |-> s, text |-> x]
    <2>1. /\ Len(msgs) < QueueMax /\ msgs' = Append(msgs, m)
          /\ said' = [said EXCEPT ![s] = Append(@, x)]
      BY <1>4, Zenon DEF msgsnd
    <2>2. x \in Typed /\ m \in Message /\ msgs \in Seq(Message)
      BY <1>0, Zenon DEF Kinds, MqTypeOK, Message, Typed
    <2>3. Kinds'
      <3>1. msgs' \in Seq(Message) /\ Len(msgs') <= QueueMax
        BY <2>1, <2>2, MqAssumption
      <3>2. said' \in [Side -> Seq(Typed)] BY <1>0, <2>1, <2>2 DEF Kinds
      <3> QED BY <1>0, <1>1, <3>1, <3>2, Zenon DEF Kinds, MqTypeOK, Message, Typed
    <2>4. InOrder'
      <3> SUFFICES ASSUME NEW t \in Side
                   PROVE  /\ PrefixOf(heard[Other(t)], said'[t])
                          /\ queue # MqNone => Waiting(msgs', t, said'[t], Len(heard[Other(t)]))
        BY <1>1, Zenon DEF InOrder
      <3> DEFINE u == said[t]
                 h == heard[Other(t)]
      <3>1. /\ u \in Seq(Typed) /\ h \in Seq(Typed) /\ PrefixOf(h, u)
            /\ queue # MqNone => Waiting(msgs, t, u, Len(h))
        BY <1>0, TwoSides, Zenon DEF Kinds, InOrder
      <3>2. Len(h) \in 0 .. Len(u) /\ PrefixOf(h, Append(u, x)) BY <2>2, <3>1, PrefixGrows, Zenon
      <3>3. CASE t = s
        <4>1. said'[t] = Append(u, x) BY <1>0, <2>1, <3>3, Zenon DEF Kinds
        <4>2. queue # MqNone => Waiting(Append(msgs, m), t, Append(u, x), Len(h))
          BY <2>2, <3>1, <3>2, <3>3, SentWaits, Zenon
        <4> QED BY <2>1, <3>2, <4>1, <4>2, Zenon
      <3>4. CASE t # s
        <4>1. said'[t] = u BY <1>0, <2>1, <3>4, Zenon DEF Kinds
        <4>2. m.from # t /\ Len(h) \in Nat BY <3>1, <3>4, SMTT(30)
        <4>3. queue # MqNone => Waiting(Append(msgs, m), t, u, Len(h))
          BY <2>2, <3>1, <4>2, OtherSent
        <4> QED BY <2>1, <3>1, <4>1, <4>3
      <3> QED BY <3>3, <3>4, Zenon
    <2> QED BY <1>2, <2>3, <2>4 DEF MqInv
  <1> QED BY <1>3, <1>4

\* The child that said "quit" kills its parent and ends.
LEMMA KillParentStep ==
  ASSUME MqInv, NEW s \in Side, killParent(s)
  PROVE  MqInv'
PROOF
  <1>0. Kinds /\ Lives /\ InOrder /\ child[s] = "kill" BY DEF MqInv, killParent
  <1>1. /\ parent' = [parent EXCEPT ![s] = IF @ \in Over THEN @ ELSE "killed"]
        /\ child' = [child EXCEPT ![s] = "done"]
        /\ UNCHANGED <<line, rcv, msqid, queue, msgs, madeQ, said, heard>>
    BY DEF killParent
  <1>2. Kinds' BY <1>0, <1>1, Zenon DEF Kinds, MqTypeOK, Over
  <1>3. Lives' BY <1>0, <1>1, Zenon DEF Lives, Kinds, MqTypeOK, QueueLives, Over
  <1>4. InOrder' BY <1>0, <1>1, Zenon DEF InOrder
  <1> QED BY <1>2, <1>3, <1>4 DEF MqInv

\* The parent that heard "quit" kills its child.
LEMMA KillChildStep ==
  ASSUME MqInv, NEW s \in Side, killChild(s)
  PROVE  MqInv'
PROOF
  <1>0. Kinds /\ Lives /\ InOrder /\ parent[s] = "kill" BY DEF MqInv, killChild
  <1>1. /\ child' = [child EXCEPT ![s] = IF @ \in Over THEN @ ELSE "killed"]
        /\ parent' = [parent EXCEPT ![s] = "msgctl"]
        /\ UNCHANGED <<line, rcv, msqid, queue, msgs, madeQ, said, heard>>
    BY DEF killChild
  <1>2. Kinds' BY <1>0, <1>1, Zenon DEF Kinds, MqTypeOK, Over
  <1>3. Lives' BY <1>0, <1>1, Zenon DEF Lives, Kinds, MqTypeOK, QueueLives, Over
  <1>4. InOrder' BY <1>0, <1>1, Zenon DEF InOrder
  <1> QED BY <1>2, <1>3, <1>4 DEF MqInv

\* The parent removes the queue, with what is in it, and ends.
LEMMA MsgctlStep ==
  ASSUME MqInv, NEW s \in Side, msgctl(s)
  PROVE  MqInv'
PROOF
  <1>0. Kinds /\ Lives /\ InOrder /\ parent[s] = "msgctl" BY DEF MqInv, msgctl
  <1>1. /\ parent' = [parent EXCEPT ![s] = "done"]
        /\ queue' = IF QueueLives(s) THEN MqNone ELSE queue
        /\ msgs' = IF QueueLives(s) THEN <<>> ELSE msgs
        /\ UNCHANGED <<child, line, rcv, msqid, madeQ, said, heard>>
    BY Zenon DEF msgctl
  <1>2. Kinds' BY <1>0, <1>1, MqAssumption, SMTT(30) DEF Kinds, MqTypeOK, Over
  <1>3. Lives' BY <1>0, <1>1, Zenon DEF Lives, Kinds, MqTypeOK, QueueLives, Over
  <1>4. InOrder' BY <1>0, <1>1, Zenon DEF InOrder
  <1> QED BY <1>2, <1>3, <1>4 DEF MqInv

\* A side whose two processes are over is started again.
LEMMA StartAgainStep ==
  ASSUME MqInv, NEW s \in Side, startAgain(s)
  PROVE  MqInv'
PROOF
  <1>0. Kinds /\ Lives /\ InOrder BY DEF MqInv
  <1>1. /\ parent' = [parent EXCEPT ![s] = "msgget"] /\ child' = [child EXCEPT ![s] = "none"]
        /\ rcv' = [rcv EXCEPT ![s] = Garbage] /\ msqid' = [msqid EXCEPT ![s] = MqNone]
        /\ UNCHANGED <<line, queue, msgs, madeQ, said, heard>>
    BY DEF startAgain
  <1>2. Kinds' BY <1>0, <1>1 DEF Kinds, MqTypeOK, Over, MqNone
  <1>3. Lives' BY <1>0, <1>1, Zenon DEF Lives, Kinds, MqTypeOK, QueueLives, Over
  <1>4. InOrder' BY <1>0, <1>1, Zenon DEF InOrder
  <1> QED BY <1>2, <1>3, <1>4 DEF MqInv

\* The next message of the other side is received, or nothing from a queue that is gone.
LEMMA MsgrcvStep ==
  ASSUME MqInv, NEW s \in Side, msgrcv(s)
  PROVE  MqInv'
PROOF
  <1>0. Kinds /\ Lives /\ InOrder /\ parent[s] = "msgrcv" BY Zenon DEF MqInv, msgrcv
  <1>1. /\ parent' = [parent EXCEPT ![s] = IF rcv'[s] = MqQuit THEN "kill" ELSE "msgrcv"]
        /\ UNCHANGED <<child, line, msqid, queue, madeQ, said>>
    BY Zenon DEF msgrcv
  <1>2. Lives' BY <1>0, <1>1, Zenon DEF Lives, Kinds, MqTypeOK, QueueLives, Over
  <1>3. CASE ~ QueueLives(s)
    <2>1. PICK g \in {Garbage, MqQuit} : rcv' = [rcv EXCEPT ![s] = IF @ = Garbage THEN g ELSE @]
      BY <1>3, Zenon DEF msgrcv
    <2>2. UNCHANGED <<heard, msgs>> BY <1>3, Zenon DEF msgrcv
    <2>3. Kinds' BY <1>0, <1>1, <2>1, <2>2, Zenon DEF Kinds, MqTypeOK
    <2>4. InOrder' BY <1>0, <1>1, <2>2, Zenon DEF InOrder
    <2> QED BY <1>2, <2>3, <2>4 DEF MqInv
  <1>4. CASE QueueLives(s)
    <2> DEFINE o == Other(s)
               i == FirstFrom(o)
               x == msgs[i].text
    <2>1. /\ rcv' = [rcv EXCEPT ![s] = x]
          /\ heard' = [heard EXCEPT ![s] = Append(@, x)]
          /\ msgs' = Drop(msgs, i)
          /\ \E j \in DOMAIN msgs : msgs[j].from = o
      BY <1>4, Zenon DEF msgrcv
    <2>2. o \in Side /\ o # s /\ Other(o) = s BY TwoSides
    <2>3. msgs \in Seq(Message) BY <1>0, Zenon DEF Kinds, MqTypeOK, Message, Typed
    <2> DEFINE u == said[o]
               h == heard[s]
    <2>4. /\ u \in Seq(Typed) /\ h \in Seq(Typed) /\ PrefixOf(h, u) /\ queue # MqNone
          /\ Waiting(msgs, o, u, Len(h))
      BY <1>0, <1>4, <2>2, Zenon DEF Kinds, InOrder, QueueLives
    <2>5. i \in DOMAIN msgs /\ msgs[i].from = o /\ \A j \in 1 .. (i - 1) : msgs[j].from # o
      <3>1. PICK f \in [1 .. (Len(u) - Len(h)) -> 1 .. Len(msgs)] : Waits(msgs, o, u, Len(h), f)
        BY <2>4, Zenon DEF Waiting
      <3>2. PICK j \in DOMAIN msgs : msgs[j].from = o BY <2>1, Zenon
      <3>3. PICK k \in 1 .. (Len(u) - Len(h)) : f[k] = j BY <3>1, <3>2, Zenon DEF Waits
      <3> DEFINE m == Len(u) - Len(h)
      <3>a. m \in Int /\ Len(msgs) \in Nat /\ DOMAIN msgs = 1 .. Len(msgs) BY <2>3, <2>4
      <3>4. 1 \in 1 .. m /\ f[1] \in 1 .. Len(msgs) /\ msgs[f[1]].from = o
        <4> HIDE DEF m
        <4>1. 1 \in 1 .. m BY <3>3, <3>a DEF m
        <4>2. f[1] \in 1 .. Len(msgs) BY <3>1, <4>1, Zenon DEF m
        <4>3. msgs[f[1]].from = o BY <3>1, <4>1, Zenon DEF Waits, m
        <4> QED BY <4>1, <4>2, <4>3, Zenon
      <3>5. \A l \in 1 .. (f[1] - 1) : msgs[l].from # o
        <4> SUFFICES ASSUME NEW l \in 1 .. (f[1] - 1), msgs[l].from = o PROVE FALSE OBVIOUS
        <4>1. l \in DOMAIN msgs /\ l < f[1] /\ l \in Int /\ f[1] \in Int BY <3>a, <3>4
        <4>2. PICK k2 \in 1 .. m : f[k2] = l BY <3>1, <4>1, Zenon DEF Waits
        <4>3. k2 = 1 \/ 1 < k2 BY <3>a, <4>2
        <4>4. 1 < k2 => f[1] < f[k2] BY <3>1, <3>4, Zenon DEF Waits
        <4>5. 1 < k2 => f[1] < l BY <4>2, <4>4
        <4>6. k2 = 1 => f[1] = l BY <4>2
        <4> QED BY <4>1, <4>3, <4>5, <4>6
      <3> QED BY <3>4, <3>5, <3>a, Zenon DEF FirstFrom
    <2> HIDE DEF i
    <2>6. Len(h) \in 0 .. Len(u) /\ x \in Typed
      <3>1. msgs[i] \in Message BY <2>3, <2>5
      <3>2. x \in Typed BY <3>1, Zenon DEF Message
      <3> QED BY <2>4, <3>2, PrefixGrows, Zenon
    <2>7. Len(h) < Len(u) /\ x = u[Len(h) + 1] /\ Waiting(Drop(msgs, i), o, u, Len(h) + 1)
      BY <2>2, <2>3, <2>4, <2>5, <2>6, NextReceived, Zenon
    <2>8. Drop(msgs, i) \in Seq(Message) /\ Len(Drop(msgs, i)) = Len(msgs) - 1
      BY <2>3, <2>5, TakenOut
    <2>9. Kinds'
      <3>1. msgs' \in Seq(Message) /\ Len(msgs') <= QueueMax
        BY <1>0, <2>1, <2>3, <2>8, MqAssumption, SMTT(30) DEF Kinds, MqTypeOK
      <3>2. heard' \in [Side -> Seq(Typed)] BY <1>0, <2>1, <2>6 DEF Kinds
      <3>3. rcv' \in [Side -> Text \cup {MqQuit, Garbage}]
        BY <1>0, <2>1, <2>6, Zenon DEF Kinds, MqTypeOK, Typed
      <3> QED BY <1>0, <1>1, <3>1, <3>2, <3>3, Zenon DEF Kinds, MqTypeOK, Message, Typed
    <2>10. InOrder'
      <3>1. heard'[s] = Append(h, x) /\ heard'[o] = heard[o] BY <1>0, <2>1, <2>2 DEF Kinds
      <3>2. PrefixOf(heard'[s], said[o]) BY <2>4, <2>6, <2>7, <3>1, PrefixGrows, Zenon
      <3>3. Waiting(msgs', o, said[o], Len(heard'[s]))
        <4>1. Len(heard'[s]) = Len(h) + 1 BY <2>4, <3>1
        <4> QED BY <2>1, <2>7, <4>1, Zenon
      <3>4. /\ said[s] \in Seq(Typed) /\ heard[o] \in Seq(Typed) /\ PrefixOf(heard[o], said[s])
            /\ Waiting(msgs, s, said[s], Len(heard[o]))
        BY <1>0, <2>2, <2>4, Zenon DEF Kinds, InOrder
      <3>5. msgs[i].from # s /\ Len(heard[o]) \in Nat BY <2>2, <2>5, <3>4, SMTT(30)
      <3>6. Waiting(msgs', s, said[s], Len(heard[o])) BY <2>1, <2>3, <2>5, <3>4, <3>5, OtherReceived
      <3>7. \A t \in Side : t = s \/ t = o BY TwoSides
      <3> QED BY <1>1, <2>2, <3>1, <3>2, <3>3, <3>4, <3>6, <3>7, Zenon DEF InOrder
    <2> QED BY <1>2, <2>9, <2>10 DEF MqInv
  <1> QED BY <1>3, <1>4

-----------------------------------------------------------------------------
(* Message queues: the theorem                                             *)

\* At first no queue exists and nothing was said.
LEMMA MqInitInv == MqInit => MqInv
PROOF
  <1> SUFFICES ASSUME MqInit PROVE MqInv OBVIOUS
  <1>1. Kinds BY MqAssumption DEF MqInit, Kinds, MqTypeOK, Over, MqNone
  <1>2. Lives BY DEF MqInit, Lives, Over
  <1>3. \A s \in Side : heard[Other(s)] = <<>> /\ said[s] = <<>> BY TwoSides DEF MqInit
  <1>4. PrefixOf(<<>>, <<>>) BY DEF PrefixOf
  <1>5. InOrder BY <1>3, <1>4 DEF MqInit, InOrder
  <1> QED BY <1>1, <1>2, <1>5 DEF MqInv

\* Every step of the four processes, and of the users, keeps MqInv.
LEMMA MqStepInv == MqInv /\ [MqNext]_mqvars => MqInv'
PROOF
  <1> SUFFICES ASSUME MqInv, [MqNext]_mqvars PROVE MqInv' OBVIOUS
  <1>1. ASSUME NEW s \in Side, Child(s) \/ Parent(s) \/ type(s) \/ startAgain(s) PROVE MqInv'
    BY <1>1, MsggetStep, MsggetExistingStep, TypeStep, MsgsndStep, KillParentStep, MsgrcvStep,
       KillChildStep, MsgctlStep, StartAgainStep, Zenon
    DEF Child, Parent
  <1>2. CASE UNCHANGED mqvars
    BY <1>2, Zenon DEF mqvars, MqInv, Kinds, MqTypeOK, Lives, QueueLives, InOrder
  <1> QED BY <1>1, <1>2 DEF MqNext

\* In every session of the chat, whichever process is killed first and whatever queue is found:
\* what a side hears is a prefix of what the other said, a child never kills init for its
\* parent, and a queue outlives both sides only if "quit" was typed on both.
THEOREM AlwaysChatSound == MqSpec => []ChatSound
PROOF
  <1>1. MqInit => MqInv BY MqInitInv
  <1>2. MqInv /\ [MqNext]_mqvars => MqInv' BY MqStepInv
  <1>3. MqInv => ChatSound
    <2> SUFFICES ASSUME MqInv PROVE ChatSound OBVIOUS
    <2>1. MqTypeOK BY DEF MqInv, Kinds
    <2>2. KillsItsParent BY Zenon DEF MqInv, Lives, KillsItsParent, Over
    <2>3. HeardInOrder
      <3> SUFFICES ASSUME NEW s \in Side PROVE PrefixOf(heard[s], said[Other(s)])
        BY DEF HeardInOrder
      <3>1. Other(s) \in Side /\ Other(Other(s)) = s BY TwoSides
      <3> QED BY <3>1 DEF MqInv, InOrder
    <2>4. QueueRemoved BY DEF MqInv, Lives, QueueRemoved, SideOver, Over
    <2> QED BY <2>1, <2>2, <2>3, <2>4 DEF ChatSound
  <1> QED BY <1>1, <1>2, <1>3, PTL DEF MqSpec

=============================================================================
