---------------------------- MODULE ReplyBuffer ----------------------------
(***************************************************************************)
(* The output buffer of one client (networking.c): the fixed buffer c->buf,*)
(* the list of reply blocks behind it, placeholders whose bytes are known  *)
(* only after what follows them, and the writes that send as much of it as *)
(* the socket takes, with c->sentlen the bytes already sent of the first   *)
(* piece.                                                                  *)
(*                                                                         *)
(* A byte is a number, and every byte is different; a placeholder is a     *)
(* negative number until its bytes replace it.                             *)
(***************************************************************************)
EXTENDS Integers, SequencesExt

CONSTANTS
  BufSize,     \* c->buf_usable_size
  Chunk,       \* PROTO_REPLY_CHUNK_BYTES
  Slack,       \* bytes the allocator may give beyond what it is asked for
  IovMax,      \* IOV_MAX
  MaxWrite,    \* NET_MAX_WRITES_PER_EVENT
  ReplyLen,    \* lengths of what one call adds
  MaxBytes,    \* bound: bytes of replies
  MaxDeferred  \* bound: placeholders

ASSUME ReplyBufferAssumption ==
  /\ {BufSize, Chunk, IovMax, MaxWrite} \subseteq Nat \ {0}
  /\ Slack \subseteq Nat /\ Slack # {}
  /\ ReplyLen \subseteq Nat \ {0}
  /\ MaxBytes \in Nat /\ MaxDeferred \in Nat

VARIABLES
  c,       \* the client's buf, sentlen, reply and reply_bytes
  want,    \* the bytes the client is owed since it connected, in order
  wire     \* the bytes the socket has taken

rbvars == <<c, want, wire>>

\* A node of c->reply: a block, or a placeholder, whose value is NULL.
IsNull(n) == n.deferred # 0
Block(size, data) == [size |-> size, data |-> data, deferred |-> 0]
Placeholder(id) == [size |-> 0, data |-> << >>, deferred |-> id]
used(n) == Len(n.data)

\* The type invariant.
RbTypeOK ==
  /\ c.buf \in Seq(Nat) /\ Len(c.buf) <= BufSize
  /\ c.sentlen \in Nat /\ c.reply_bytes \in Nat
  /\ \A i \in DOMAIN c.reply :
       /\ c.reply[i].data \in Seq(Nat) /\ used(c.reply[i]) <= c.reply[i].size
       /\ c.reply[i].deferred \in 0 .. MaxDeferred

clientHasPendingReplies(b) == b.buf # << >> \/ b.reply # << >>
OpenDeferred(b) == {n.deferred : n \in Range(b.reply)} \ {0}
NodeOf(b, id) == SelectInSeq(b.reply, LAMBDA n : n.deferred = id)

-----------------------------------------------------------------------------
(* Adding                                                                  *)

\* What fits in c->buf, which takes nothing once the list is in use.
_addReplyToBuffer_ignores_list(b, s) ==
  IF BufSize - Len(b.buf) < Len(s) THEN BufSize - Len(b.buf) ELSE Len(s)

_addReplyToBuffer(b, s) ==
  IF b.reply # << >> THEN 0
  ELSE IF BufSize - Len(b.buf) < Len(s) THEN BufSize - Len(b.buf) ELSE Len(s)

\* What fits in the last block, unless it is a placeholder.
TailRoom(b, s) ==
  IF b.reply = << >> \/ IsNull(Last(b.reply)) THEN 0
  ELSE LET room == Last(b.reply).size - used(Last(b.reply))
       IN  IF room < Len(s) THEN room ELSE Len(s)

_addReplyProtoToList(b, s, slack) ==
  LET n    == TailRoom(b, s)
      left == SubSeq(s, n + 1, Len(s))
      size == slack + IF Len(left) < Chunk THEN Chunk ELSE Len(left)
      e    == IF n = 0 THEN b
              ELSE [b EXCEPT !.reply[Len(b.reply)].data = @ \o SubSeq(s, 1, n)]
  IN  IF left = << >> THEN e
      ELSE [e EXCEPT !.reply = Append(@, Block(size, left)),
                     !.reply_bytes = @ + size]

_addReplyToBufferOrList(b, s, slack) ==
  LET n == _addReplyToBuffer(b, s)
      e == [b EXCEPT !.buf = @ \o SubSeq(s, 1, n)]
  IN  IF n = Len(s) THEN e
      ELSE _addReplyProtoToList(e, SubSeq(s, n + 1, Len(s)), slack)

\* Room in the block before the placeholder at position p.
PrevRoom(b, p, s) ==
  IF p = 1 \/ IsNull(b.reply[p - 1]) THEN 0
  ELSE LET room == b.reply[p - 1].size - used(b.reply[p - 1])
       IN  IF room < Len(s) THEN room ELSE Len(s)

FitsNext(b, p, s) ==
  /\ p < Len(b.reply)
  /\ ~ IsNull(b.reply[p + 1])
  /\ b.reply[p + 1].size - used(b.reply[p + 1]) >= Len(s)
  /\ used(b.reply[p + 1]) < Chunk * 4

\* The bytes of a placeholder go to the block before it as far as they fit,
\* the rest to the front of the block after it or to a block of its own.
setDeferredReply(b, p, s, slack) ==
  LET n    == PrevRoom(b, p, s)
      left == SubSeq(s, n + 1, Len(s))
      e    == IF n = 0 THEN b
              ELSE [b EXCEPT !.reply[p - 1].data = @ \o SubSeq(s, 1, n)]
  IN  IF left = << >> THEN [e EXCEPT !.reply = RemoveAt(@, p)]
      ELSE IF FitsNext(e, p, left)
      THEN [e EXCEPT !.reply = RemoveAt([@ EXCEPT ![p + 1].data = left \o @], p)]
      ELSE [e EXCEPT !.reply[p] = Block(Len(left) + slack, left),
                     !.reply_bytes = @ + Len(left) + slack]

-----------------------------------------------------------------------------
(* Sending                                                                 *)

From(s, n) == SubSeq(s, n + 1, Len(s))

\* The pieces _writevToClient or _writeToClient has to send, in order.
Pieces(b) ==
  LET blocks == [i \in DOMAIN b.reply |-> b.reply[i].data]
      all == IF b.buf # << >> THEN <<b.buf>> \o blocks ELSE blocks
  IN  IF all = << >> THEN all ELSE [all EXCEPT ![1] = From(@, b.sentlen)]

\* (A node without bytes would be dropped here; BlocksFull says there is none.)
\* ... and those that go into the vector: no more than IOV_MAX, and none once
\* NET_MAX_WRITES_PER_EVENT bytes are in it.  c->buf is always the first.
Vector(b) ==
  LET p == Pieces(b)
      goes(i) == /\ i <= IovMax
                 /\ Len(FlattenSeq(SubSeq(p, 1, i - 1))) < MaxWrite
      n == Cardinality({i \in DOMAIN p : i = 1 \/ goes(i)})
  IN  FlattenSeq(SubSeq(p, 1, n))

\* The blocks n bytes of the list complete are freed; sentlen is what was sent
\* of the next one.
RECURSIVE Consume(_, _)
Consume(b, n) ==
  IF n = 0 THEN b
  ELSE LET first == Head(b.reply)
       IN  IF n < used(first) - b.sentlen THEN [b EXCEPT !.sentlen = @ + n]
           ELSE Consume([b EXCEPT !.reply = Tail(@), !.reply_bytes = @ - first.size,
                                  !.sentlen = 0],
                        n - (used(first) - b.sentlen))

\* The socket took n bytes.
Sent(b, n) ==
  LET rest == Len(b.buf) - b.sentlen
  IN  IF b.buf = << >> THEN Consume(b, n)
      ELSE IF n < rest THEN [b EXCEPT !.sentlen = @ + n]
      ELSE Consume([b EXCEPT !.buf = << >>, !.sentlen = 0], n - rest)

-----------------------------------------------------------------------------
NoReply == [buf |-> << >>, sentlen |-> 0, reply |-> << >>, reply_bytes |-> 0]

RbInit == c = NoReply /\ want = << >> /\ wire = << >>

\* n bytes that were never used before.
NewBytes(n) ==
  LET made == Cardinality({x \in Range(want) : x > 0})
  IN  [i \in 1 .. n |-> made + i]
Room(n) == Cardinality({x \in Range(want) : x > 0}) + n <= MaxBytes

addReply(n, slack) ==
  /\ Room(n)
  /\ c' = _addReplyToBufferOrList(c, NewBytes(n), slack)
  /\ want' = want \o NewBytes(n)
  /\ UNCHANGED wire

addReplyDeferredLen(id) ==
  /\ id \notin OpenDeferred(c)
  /\ c' = [c EXCEPT !.reply = Append(@, Placeholder(id))]
  /\ want' = Append(want, -id)
  /\ UNCHANGED wire

SetDeferred(id, n, slack) ==
  /\ id \in OpenDeferred(c) /\ Room(n)
  /\ c' = setDeferredReply(c, NodeOf(c, id), NewBytes(n), slack)
  /\ want' = LET i == SelectInSeq(want, LAMBDA x : x = -id)
             IN  SubSeq(want, 1, i - 1) \o NewBytes(n) \o From(want, i)
  /\ UNCHANGED wire

\* One _writeToClient, the socket taking n bytes.  It runs between commands, and
\* a command fills its placeholders before it returns.
WriteToClient(n) ==
  /\ OpenDeferred(c) = {}
  /\ n \in 1 .. Len(Vector(c))
  /\ wire' = wire \o SubSeq(Vector(c), 1, n)
  /\ c' = Sent(c, n)
  /\ UNCHANGED want

RbNext ==
  \/ \E n \in ReplyLen, slack \in Slack : addReply(n, slack)
  \/ \E id \in 1 .. MaxDeferred : addReplyDeferredLen(id)
  \/ \E id \in 1 .. MaxDeferred, n \in ReplyLen, slack \in Slack : SetDeferred(id, n, slack)
  \/ \E n \in 1 .. MaxBytes : WriteToClient(n)

-----------------------------------------------------------------------------
(* Properties                                                              *)

\* What the client has not been sent yet, placeholders included.
Unsent(b) ==
  LET blocks == [i \in DOMAIN b.reply |->
                   IF IsNull(b.reply[i]) THEN <<-b.reply[i].deferred>> ELSE b.reply[i].data]
      all == IF b.buf # << >> THEN <<b.buf>> \o blocks ELSE blocks
  IN  IF all = << >> THEN all ELSE FlattenSeq([all EXCEPT ![1] = From(@, b.sentlen)])

\* Every byte of the replies reaches the socket once and in order, however
\* they are spread over buffer, blocks and placeholders and however little of
\* them each write takes.
StreamExact == wire \o Unsent(c) = want

\* reply_bytes is the memory of the blocks.  The code asserts that it is 0 when
\* the list is empty, and the output limits are checked against it.
ReplyBytesExact ==
  c.reply_bytes = FoldSeq(LAMBDA n, sum : n.size + sum, 0, c.reply)

\* sentlen is an offset into the first piece, which has something left: a write
\* with nothing to send would return 0 and be taken for an error.
SentlenInPiece ==
  \/ c.sentlen = 0
  \/ c.buf # << >> /\ c.sentlen < Len(c.buf)
  \/ c.buf = << >> /\ c.reply # << >> /\ c.sentlen < used(c.reply[1])

\* Nodes never become empty: _writevToClient takes every one for a block with
\* bytes once no command is running.
BlocksFull == \A i \in DOMAIN c.reply : IsNull(c.reply[i]) \/ used(c.reply[i]) > 0

\* The output buffer loses and repeats nothing, and its counters and offsets are right.
OutputSound == RbTypeOK /\ StreamExact /\ ReplyBytesExact /\ SentlenInPiece /\ BlocksFull
=============================================================================
