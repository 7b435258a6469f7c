----------------------------- MODULE MCPrograms -----------------------------
(***************************************************************************)
(* The small programs of the repository, side by side: `program' says      *)
(* which of them a behaviour is about, the others stay as they begin.      *)
(***************************************************************************)
EXTENDS SharedMemory, MessageQueue, ChunkedUpload, ChatRoom, Dialler

MCUpload == {"u", "v"}
\* Two uploads of one name, and one whose name is that of the other's first chunk.
MCNaming == {[u |-> <<1>>, v |-> <<1>>], [u |-> <<1>>, v |-> <<1, 0>>]}
MCTotalChunks == [u |-> 2, v |-> 1]
MCLinks == [1..3 -> LinkKind]

VARIABLE program
vars == <<program, shmvars, mqvars, upvars, chatvars, dialvars>>

Program == {"shared memory", "message queue", "upload", "chat", "dialler"}

\* The choices a program that is not run would make are made once.
Init ==
    /\ program \in Program
    /\ ShmInit /\ MqInit /\ UpInit /\ ChatInit /\ DialInit
    /\ program # "upload" => fileName = CHOOSE f \in MCNaming : TRUE
    /\ program # "dialler" => file = CHOOSE f \in MCLinks : TRUE

RunShm(A) == program = "shared memory" /\ A
             /\ UNCHANGED <<program, mqvars, upvars, chatvars, dialvars>>
RunMq(A) == program = "message queue" /\ A
            /\ UNCHANGED <<program, shmvars, upvars, chatvars, dialvars>>
RunUp(A) == program = "upload" /\ A
            /\ UNCHANGED <<program, shmvars, mqvars, chatvars, dialvars>>
RunChat(A) == program = "chat" /\ A
              /\ UNCHANGED <<program, shmvars, mqvars, upvars, dialvars>>
RunDial(A) == program = "dialler" /\ A
              /\ UNCHANGED <<program, shmvars, mqvars, upvars, chatvars>>

Next == RunShm(ShmNext) \/ RunMq(MqNext) \/ RunUp(UpNext) \/ RunChat(ChatNext) \/ RunDial(DialNext)

\* The scheduler runs every process that can run, and a request, a dial or a
\* rendering ends; users type, click and start programs as they like.
Fairness ==
    /\ WF_vars(RunShm(ProgramA)) /\ WF_vars(RunShm(ProgramB))
    /\ \A s \in Side : WF_vars(RunMq(Child(s))) /\ WF_vars(RunMq(Parent(s)))
    /\ \A u \in Upload : WF_vars(RunUp((post(u) \/ answered(u)) /\ UNCHANGED fileName))
    /\ \A u \in User : /\ WF_vars(RunChat(onmessage(u))) /\ WF_vars(RunChat(render(u)))
                       /\ WF_vars(RunChat(incoming(u)))
    /\ WF_vars(RunDial(DialNext))

Spec == Init /\ [][Next]_vars /\ Fairness

\* What was started ends: the upload page reports on every upload, as a chunk that failed
\* does not stop its loop, and the dialler's main returns with the result of every
\* goroutine.
WorkEnds == /\ program = "upload" => EveryUploadReported
            /\ program = "dialler" => DialEnds
=============================================================================
