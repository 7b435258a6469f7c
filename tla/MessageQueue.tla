---------------------------- MODULE MessageQueue ----------------------------
(***************************************************************************)
(* The message-queue exercise: test_ipcA.c and test_ipcB.c chat over one   *)
(* System V queue.  Each program forks; its child reads lines and sends    *)
(* them with the program's message type, its parent prints the messages of *)
(* the other type.  "quit" ends all four processes: the child that typed   *)
(* it kills its parent, the parent that receives it kills its child and    *)
(* removes the queue.                                                      *)
(*                                                                         *)
(* fork and ftok are taken to succeed.  The result of msgsnd and msgrcv is *)
(* not looked at by the code: on a queue that is gone the child goes on    *)
(* typing and the parent looks at the message it received before (or at    *)
(* what its stack happened to hold).                                       *)
(***************************************************************************)
EXTENDS Integers, Sequences

CONSTANTS
    Text,           \* what is typed, "quit" apart
    QueueMax,       \* messages a queue holds before msgsnd waits
    MqMaxTyped,     \* bound: lines typed on each side
    MqMaxStarts     \* bound: how often each program is started

MqNone == 0
MqQuit == "quit"
NotTyped == ""      \* a buffer nothing was typed into yet
Garbage == "garbage"      \* the uninitialised receive buffer

ASSUME MqAssumption == MqQuit \notin Text /\ QueueMax \in Nat

Side == {"A", "B"}
Other(s) == IF s = "A" THEN "B" ELSE "A"

VARIABLES
    child, parent,  \* where the two processes of each side are
    line,           \* what the child has typed last
    rcv,            \* what the parent's buffer holds
    msqid,          \* the queue each side works with
    queue,          \* the queue the key names, or MqNone
    msgs,           \* its messages, [from, text]
    madeQ,          \* queues made so far, numbered from 1
    mqStarts,       \* how often each side was started
    said, heard,    \* history: texts each side sent and received through the queue
    used,           \* history: queues each side has worked with
    leftOver        \* history: a side found a queue of its own earlier session

mqvars == <<child, parent, line, rcv, msqid, queue, msgs, madeQ, mqStarts,
            said, heard, used, leftOver>>

Over == {"none", "done", "killed"}

MqInit ==
    /\ child = [s \in Side |-> "none"] /\ parent = [s \in Side |-> "msgget"]
    /\ line = [s \in Side |-> NotTyped] /\ rcv = [s \in Side |-> Garbage]
    /\ msqid = [s \in Side |-> MqNone]
    /\ queue = MqNone /\ msgs = <<>> /\ madeQ = 0
    /\ mqStarts = [s \in Side |-> 1]
    /\ said = [s \in Side |-> <<>>] /\ heard = [s \in Side |-> <<>>]
    /\ used = [s \in Side |-> {}] /\ leftOver = FALSE

QueueLives(s) == msqid[s] # MqNone /\ msqid[s] = queue
-----------------------------------------------------------------------------
\* msgget(IPC_CREAT|IPC_EXCL), and fork when it made the queue.
msgget(s) ==
    /\ parent[s] = "msgget"
    /\ IF queue = MqNone
       THEN /\ queue' = madeQ + 1 /\ madeQ' = madeQ + 1 /\ msgs' = <<>>
            /\ msqid' = [msqid EXCEPT ![s] = queue']
            /\ used' = [used EXCEPT ![s] = @ \cup {queue'}]
            /\ parent' = [parent EXCEPT ![s] = "msgrcv"]
            /\ child' = [child EXCEPT ![s] = "fgets"]
            /\ said' = [t \in Side |-> <<>>] /\ heard' = [t \in Side |-> <<>>]
       ELSE /\ parent' = [parent EXCEPT ![s] = "msgget2"]
            /\ UNCHANGED <<queue, madeQ, msgs, msqid, used, child, said, heard>>
    /\ UNCHANGED <<line, rcv, mqStarts, leftOver>>

\* The second msgget, and fork: the queue may have been removed in between.
msggetExisting(s) ==
    /\ parent[s] = "msgget2"
    /\ msqid' = [msqid EXCEPT ![s] = queue]
    /\ leftOver' = (leftOver \/ queue = MqNone \/ queue \in used[s])
    /\ used' = [used EXCEPT ![s] = @ \cup {queue}]
    /\ parent' = [parent EXCEPT ![s] = "msgrcv"]
    /\ child' = [child EXCEPT ![s] = "fgets"]
    /\ UNCHANGED <<line, rcv, queue, msgs, madeQ, mqStarts, said, heard>>

type(s) ==
    /\ child[s] = "fgets"
    /\ \E l \in Text \cup {MqQuit} :
         /\ Len(said[s]) < MqMaxTyped \/ l = MqQuit
         /\ line' = [line EXCEPT ![s] = l]
    /\ child' = [child EXCEPT ![s] = "msgsnd"]
    /\ UNCHANGED <<parent, rcv, msqid, queue, msgs, madeQ, mqStarts, said, heard,
                   used, leftOver>>

\* msgsnd waits while the queue is full; "quit" is acted on after it was sent.
msgsnd(s) ==
    /\ child[s] = "msgsnd"
    /\ QueueLives(s) => Len(msgs) < QueueMax
    /\ IF QueueLives(s)
       THEN /\ msgs' = Append(msgs, [from |-> s, text |-> line[s]])
            /\ said' = [said EXCEPT ![s] = Append(@, line[s])]
       ELSE UNCHANGED <<msgs, said>>
    /\ child' = [child EXCEPT ![s] = IF line[s] = MqQuit THEN "kill" ELSE "fgets"]
    /\ UNCHANGED <<parent, line, rcv, msqid, queue, madeQ, mqStarts, heard, used, leftOver>>

\* kill(getppid(), SIGKILL): an orphan's parent is init, which ignores it.
killParent(s) ==
    /\ child[s] = "kill"
    /\ parent' = [parent EXCEPT ![s] = IF @ \in Over THEN @ ELSE "killed"]
    /\ child' = [child EXCEPT ![s] = "done"]
    /\ UNCHANGED <<line, rcv, msqid, queue, msgs, madeQ, mqStarts, said, heard, used, leftOver>>

\* A queue without its i-th message.
Drop(q, i) == SubSeq(q, 1, i - 1) \o SubSeq(q, i + 1, Len(q))

\* The first message of the other side.
FirstFrom(s) == CHOOSE i \in DOMAIN msgs :
    msgs[i].from = s /\ \A j \in 1..(i - 1) : msgs[j].from # s

\* msgrcv waits for a message of the other type; it fails on a dead queue and
\* leaves the buffer as it was.
msgrcv(s) ==
    /\ parent[s] = "msgrcv"
    /\ IF QueueLives(s)
       THEN /\ \E i \in DOMAIN msgs : msgs[i].from = Other(s)
            /\ LET i == FirstFrom(Other(s)) IN
                 /\ rcv' = [rcv EXCEPT ![s] = msgs[i].text]
                 /\ heard' = [heard EXCEPT ![s] = Append(@, msgs[i].text)]
                 /\ msgs' = Drop(msgs, i)
       ELSE /\ \E g \in {Garbage, MqQuit} :
                 rcv' = [rcv EXCEPT ![s] = IF @ = Garbage THEN g ELSE @]
            /\ UNCHANGED <<heard, msgs>>
    /\ parent' = [parent EXCEPT ![s] = IF rcv'[s] = MqQuit THEN "kill" ELSE "msgrcv"]
    /\ UNCHANGED <<child, line, msqid, queue, madeQ, mqStarts, said, used, leftOver>>

\* The child is left running.
killChildForgotten(s) ==
    /\ parent[s] = "kill"
    /\ parent' = [parent EXCEPT ![s] = "msgctl"]
    /\ UNCHANGED <<child, line, rcv, msqid, queue, msgs, madeQ, mqStarts, said,
                   heard, used, leftOver>>

\* "quit" received: kill(pid, SIGKILL).  A child that ended is a zombie, its
\* pid is not given away.
killChild(s) ==
    /\ parent[s] = "kill"
    /\ child' = [child EXCEPT ![s] = IF @ \in Over THEN @ ELSE "killed"]
    /\ parent' = [parent EXCEPT ![s] = "msgctl"]
    /\ UNCHANGED <<line, rcv, msqid, queue, msgs, madeQ, mqStarts, said, heard, used, leftOver>>

\* The queue is left in the kernel.
msgctlForgotten(s) ==
    /\ parent[s] = "msgctl"
    /\ parent' = [parent EXCEPT ![s] = "done"]
    /\ UNCHANGED <<child, line, rcv, msqid, queue, msgs, madeQ, mqStarts, said,
                   heard, used, leftOver>>

\* msgctl(IPC_RMID).
msgctl(s) ==
    /\ parent[s] = "msgctl"
    /\ parent' = [parent EXCEPT ![s] = "done"]
    /\ IF QueueLives(s) THEN queue' = MqNone /\ msgs' = <<>>
                        ELSE UNCHANGED <<queue, msgs>>
    /\ UNCHANGED <<child, line, rcv, msqid, madeQ, mqStarts, said, heard, used, leftOver>>

SideOver(s) == parent[s] \in Over /\ child[s] \in Over

startAgain(s) ==
    /\ SideOver(s) /\ mqStarts[s] < MqMaxStarts
    /\ mqStarts' = [mqStarts EXCEPT ![s] = @ + 1]
    /\ parent' = [parent EXCEPT ![s] = "msgget"] /\ child' = [child EXCEPT ![s] = "none"]
    /\ rcv' = [rcv EXCEPT ![s] = Garbage] /\ msqid' = [msqid EXCEPT ![s] = MqNone]
    /\ UNCHANGED <<line, queue, msgs, madeQ, said, heard, used, leftOver>>

Child(s) == msgsnd(s) \/ killParent(s)
Parent(s) == msgget(s) \/ msggetExisting(s) \/ msgrcv(s) \/ killChild(s) \/ msgctl(s)

MqNext == \E s \in Side : Child(s) \/ Parent(s) \/ type(s) \/ startAgain(s)

MqSpec == MqInit /\ [][MqNext]_mqvars
-----------------------------------------------------------------------------
(* Properties.                                                             *)

MqTypeOK ==
    /\ child \in [Side -> {"fgets", "msgsnd", "kill"} \cup Over]
    /\ parent \in [Side -> {"msgget", "msgget2", "msgrcv", "kill", "msgctl"} \cup Over]
    /\ rcv \in [Side -> Text \cup {MqQuit, Garbage}]
    /\ msqid \in [Side -> 0..madeQ] /\ queue \in {MqNone, madeQ}
    /\ msgs \in Seq([from : Side, text : Text \cup {MqQuit}]) /\ Len(msgs) <= QueueMax

\* The process a child kills is its own parent: getppid() never names init,
\* because a parent kills its child before it ends by itself.
KillsItsParent == \A s \in Side : child[s] = "kill" => parent[s] \notin Over

PrefixOf(s, t) == Len(s) <= Len(t) /\ SubSeq(s, 1, Len(s)) = SubSeq(t, 1, Len(s))

\* What a side prints is what the other typed, in order, with nothing left out,
\* although both directions share the queue and its room.
HeardInOrder == \A s \in Side : PrefixOf(heard[s], said[Other(s)])

\* When both sides of a chat are over, its queue is still in the kernel only if
\* "quit" was typed on both: then each child kills the parent that was to remove it.
QueueRemoved ==
    (\A s \in Side : SideOver(s) /\ QueueLives(s))
      => \A s \in Side : child[s] = "done"

\* A chat over one queue and four processes is heard in order and, but for that case,
\* leaves nothing behind, whoever is killed first.
ChatSound == MqTypeOK /\ KillsItsParent /\ HeardInOrder /\ QueueRemoved

\* A "quit" in the queue ends both processes of the side that is to read it, and
\* both of the side that sent it, whoever is killed first.
QuitWaits(s) == /\ QueueLives(Other(s))
                /\ \E i \in DOMAIN msgs : msgs[i] = [from |-> s, text |-> MqQuit]
QuitEndsAll ==
    \A s \in Side : /\ QuitWaits(s) ~> (SideOver(Other(s)) \/ leftOver)
                    /\ (child[s] = "kill") ~> SideOver(s)
=============================================================================
