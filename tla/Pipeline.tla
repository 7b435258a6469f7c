------------------------------ MODULE Pipeline ------------------------------
(***************************************************************************)
(* One connection from the bytes it sends to the bytes it gets: the        *)
(* request parser, the commands it executes and the output buffer,         *)
(* composed as readQueryFromClient and beforeSleep compose them.           *)
(*                                                                         *)
(* A client is put in the queue of pending writes by the first reply after *)
(* its buffers were empty.  beforeSleep takes it out and writes once; what *)
(* the socket does not take then stays, for sendReplyToClient, the write   *)
(* handler, does nothing in this build.                                    *)
(***************************************************************************)
EXTENDS QueryParser

CONSTANTS BufSize, Chunk, Slack, IovMax, MaxWrite   \* those of ReplyBuffer

VARIABLES
  merged,     \* whether populateCommandTable found its _debugCommand
  o,          \* the output buffer: c of ReplyBuffer
  wire,       \* the symbols the socket has taken
  pending,    \* CLIENT_PENDING_WRITE
  cut,        \* history: a write left something behind
  closed      \* the client was freed

pipevars == <<stream, received, c, out, merged, o, wire, pending, cut, closed>>

Output == INSTANCE ReplyBuffer
            WITH c <- o, want <- << >>, ReplyLen <- {1}, MaxBytes <- 0, MaxDeferred <- 0

\* What the client is answered for a request, Error included.
ReplyTo(argv) ==
  IF argv = Error THEN addReplyError("Protocol error") ELSE processCommand(argv, merged)

\* prepareClientToWrite, before each chunk.
Queued_inverted(b, p) == p \/ Output!clientHasPendingReplies(b)
Queued(b, p) == p \/ ~ Output!clientHasPendingReplies(b)

\* The chunks of the replies, one after the other.
AddChunk(st, s) ==
  IF s = << >> THEN [st EXCEPT !.pending = Queued(st.o, st.pending)]
  ELSE [o |-> Output!_addReplyToBufferOrList(st.o, s, 0), pending |-> Queued(st.o, st.pending)]
Replied(st, argv) == FoldLeft(AddChunk, st, ReplyTo(argv))

\* readQueryFromClient: what arrived is parsed, every complete request executed and
\* answered, and a client that sent a refused one freed with the replies it had waiting.
Read(n) ==
  /\ ~ closed
  /\ readQueryFromClient(n)
  /\ LET done == SubSeq(out', Len(out) + 1, Len(out'))
         st == FoldLeft(Replied, [o |-> o, pending |-> pending], done)
     IN  o' = st.o /\ pending' = st.pending
  /\ closed' = ("CLOSE_ASAP" \in c'.flags)
  /\ UNCHANGED <<merged, wire, cut>>

\* How much writeToClient may send: _writeToClient again and again, while the socket takes
\* something and no more than NET_MAX_WRITES_PER_EVENT is out.
WriteTotals(b) ==
  LET all == Len(Output!Unsent(b))
  IN  UNION {{t + k : k \in 0 .. Len(Output!Vector(Output!Sent(b, t)))} : t \in 0 .. Least(MaxWrite, all)}

\* beforeSleep, for a client in the queue: one writeToClient, that sends n; with everything
\* out a client that is to be closed after its reply is.
Flush_closes_early(n) ==
  /\ ~ closed /\ pending
  /\ n \in WriteTotals(o)
  /\ o' = Output!Sent(o, n) /\ wire' = wire \o SubSeq(Output!Unsent(o), 1, n)
  /\ pending' = FALSE
  /\ cut' = (cut \/ n < Len(Output!Unsent(o)))
  /\ closed' = ("CLOSE_AFTER_REPLY" \in c.flags)
  /\ UNCHANGED <<stream, received, c, out, merged>>

Flush(n) ==
  /\ ~ closed /\ pending
  /\ n \in WriteTotals(o)
  /\ o' = Output!Sent(o, n) /\ wire' = wire \o SubSeq(Output!Unsent(o), 1, n)
  /\ pending' = FALSE
  /\ cut' = (cut \/ n < Len(Output!Unsent(o)))
  /\ closed' = (n = Len(Output!Unsent(o)) /\ "CLOSE_AFTER_REPLY" \in c.flags)
  /\ UNCHANGED <<stream, received, c, out, merged>>

beforeSleep == \E n \in WriteTotals(o) : Flush(n)

PipeInit ==
  /\ Init /\ merged \in BOOLEAN
  /\ o = Output!NoReply /\ wire = << >> /\ pending = FALSE /\ cut = FALSE /\ closed = FALSE

PipeNext == (\E n \in 1 .. IoBuf : Read(n)) \/ beforeSleep

\* beforeSleep runs in every turn of the loop.
PipeSpec == PipeInit /\ [][PipeNext]_pipevars /\ WF_pipevars(beforeSleep)

-----------------------------------------------------------------------------
(* Properties                                                              *)

\* What the whole of the connection so far is to be answered: a function of the bytes
\* received alone, computed by the reference parser.
Expected ==
  LET requests == Requests(SubSeq(stream, 1, received))
  IN  FlattenSeq([i \in DOMAIN requests |-> FlattenSeq(ReplyTo(requests[i]))])

\* A connection is closed for a protocol error only once every answer, the error's too, is
\* on the wire; only a refused request loses answers, those of the requests before it.
ClosedAfterError == closed /\ "CLOSE_ASAP" \notin c.flags => wire = Expected

\* A reader of the protocol: how many replies there are in s.
RECURSIVE Replies(_)
Replies(s) ==
  IF s = << >> THEN 0
  ELSE LET length == CHOOSE n \in 0 .. Len(s) : ToString(n) = s[2]
           size == CASE s[1] = "+PONG" -> 2 [] s[1] = "-ERR " -> 3 [] s[1] = "$" -> 3 + length + 1
       IN  1 + Replies(From(s, size))

\* A client that reads one reply for each request it sent stays in step with the server:
\* every request executed has exactly one reply, an unknown command like any other (ping
\* answers for it), if the build found _debugCommand; if it did not, nothing but protocol
\* errors is ever answered.
OneReplyPerRequest ==
  LET answered(argv) == IF argv = Error THEN TRUE ELSE merged /\ ~ processCommandRefuses(argv)
  IN  Replies(wire \o Output!Unsent(o)) = Len(SelectSeq(out, answered))

\* End to end: what the client got and what waits in its buffers is, byte for byte and in
\* order, the answers to the complete requests among the bytes it sent, whatever the reads
\* and writes cut them into; the output buffer is sound for what commands really add to it.
RepliesExact ==
  /\ wire \o Output!Unsent(o) = Expected
  /\ Output!ReplyBytesExact /\ Output!SentlenInPiece /\ Output!BlocksFull
  /\ ClosedAfterError /\ OneReplyPerRequest

\* Every request is answered: time and again nothing is waiting, unless the connection was
\* closed or a write took less than everything.
Answered == []<>(Output!Unsent(o) = << >> \/ closed \/ cut)
=============================================================================
