---------------------------- MODULE QueryParser ----------------------------
(***************************************************************************)
(* The request parser of networking.c: readQueryFromClient appends what    *)
(* the socket has to the query buffer, processInputBuffer takes requests   *)
(* out of it, inline or multibulk, and remembers in reqtype, multibulklen, *)
(* bulklen and argv how far it got when a request is not complete.         *)
(*                                                                         *)
(* A byte is a one-character string.                                       *)
(***************************************************************************)
EXTENDS SplitArgs, Numbers, Dispatch

CONSTANTS
  Stream,     \* what clients send over the life of a connection
  IoBuf,      \* PROTO_IOBUF_LEN
  BigArg,     \* PROTO_MBULK_BIG_ARG
  InlineMax,  \* PROTO_INLINE_MAX_SIZE
  IntMax,     \* INT_MAX, the most arguments a request may announce
  MaxBulk,    \* server.proto_max_bulk_len
  ArgvStep    \* the 1024 entries argv starts with at most

ASSUME QueryParserAssumption ==
  /\ {IoBuf, BigArg, ArgvStep} \subseteq Nat \ {0}
  /\ {InlineMax, IntMax, MaxBulk} \subseteq Nat

VARIABLES
  stream,    \* what this client sends
  received,  \* how much of it has been read
  c,         \* the fields of the client the parser uses
  out        \* the requests handed to processCommand, Error after the last if it was malformed

vars == <<stream, received, c, out>>

\* No request without arguments is executed.
Error == << >>

TypeOK ==
  /\ received \in 0 .. Len(stream)
  /\ c.qb_pos = 0 /\ Len(c.querybuf) \in 0 .. Len(stream)
  /\ c.reqtype \in {"none", "inline", "multibulk"}
  /\ c.multibulklen \in Nat /\ c.bulklen \in Nat \cup {-1}
  /\ Len(c.argv) <= c.argv_len
  /\ c.flags \subseteq {"CLOSE_AFTER_REPLY", "CLOSE_ASAP"}

From(s, n) == SubSeq(s, n + 1, Len(s))
Least(a, b) == IF a < b THEN a ELSE b

\* The position of the first x at or after position p, 0 if there is none.
strchr(s, p, x) == SelectInSubSeq(s, p, Len(s), LAMBDA y : y = x)

-----------------------------------------------------------------------------
(* One request                                                             *)

Ok(b) == [status |-> "C_OK", b |-> b]
Err(b) == [status |-> "C_ERR", b |-> b]
ProtocolError(b) == Err([b EXCEPT !.flags = @ \cup {"CLOSE_AFTER_REPLY"}])

\* What is left to parse is longer than a line may be.
TooBig(b) == Len(b.querybuf) - b.qb_pos > InlineMax
NoNewline(b) == IF TooBig(b) THEN ProtocolError(b) ELSE Err(b)

\* The line before the "\n" at position nl, without its "\r".
InlineLine(b, nl) ==
  LET cr == nl # b.qb_pos + 1 /\ b.querybuf[nl - 1] = "\r"
  IN  SubSeq(b.querybuf, b.qb_pos + 1, IF cr THEN nl - 2 ELSE nl - 1)

InlineRequest(b, nl, args) ==
  IF ~ args.ok THEN ProtocolError(b)
  ELSE Ok([b EXCEPT !.qb_pos = nl, !.argv = args.argv, !.argv_len = Len(args.argv)])

processInlineBuffer(b) ==
  LET nl == strchr(b.querybuf, b.qb_pos + 1, "\n")
  IN  IF nl = 0 THEN NoNewline(b) ELSE InlineRequest(b, nl, sdssplitargs(InlineLine(b, nl)))

\* The line that starts at qb_pos ends at position cr; its "\n" is there too.
LineComplete_without_lf(b, cr) == cr <= Len(b.querybuf)

LineComplete(b, cr) == cr < Len(b.querybuf)
LineNumber(b, cr) == string2ll(SubSeq(b.querybuf, b.qb_pos + 2, cr - 1))

\* The header of the next argument.  An argument that is not there yet and is
\* big is given a query buffer of its own.
BulkLength(b, cr, number) ==
  LET ll == number.value
      own == ll >= BigArg /\ Len(b.querybuf) - (cr + 1) <= ll + 2
  IN  IF b.querybuf[b.qb_pos + 1] # "$" \/ ~ number.ok \/ ll < 0 \/ ll > MaxBulk
      THEN ProtocolError(b)
      ELSE Ok(IF own THEN [b EXCEPT !.bulklen = ll, !.qb_pos = 0, !.querybuf = From(@, cr + 1)]
              ELSE [b EXCEPT !.bulklen = ll, !.qb_pos = cr + 1])

BulkHeader(b) ==
  LET cr == strchr(b.querybuf, b.qb_pos + 1, "\r")
  IN  IF cr = 0 THEN NoNewline(b)
      ELSE IF ~ LineComplete(b, cr) THEN Err(b) ELSE BulkLength(b, cr, LineNumber(b, cr))

Grow(b) ==
  IF Len(b.argv) >= b.argv_len
  THEN Least(b.argv_len * 2, Len(b.argv) + b.multibulklen) ELSE b.argv_len

\* The argument, all of the query buffer when it has one of its own.
BulkArgument(b) ==
  LET own == b.qb_pos = 0 /\ b.bulklen >= BigArg /\ Len(b.querybuf) = b.bulklen + 2
      arg == SubSeq(b.querybuf, b.qb_pos + 1, b.qb_pos + b.bulklen)
  IN  [b EXCEPT !.argv = Append(@, arg), !.argv_len = Grow(b),
                !.querybuf = IF own THEN << >> ELSE @,
                !.qb_pos = IF own THEN 0 ELSE @ + b.bulklen + 2,
                !.bulklen = -1, !.multibulklen = @ - 1]

\* The loop over the arguments.
RECURSIVE Arguments(_), AfterBulkHeader(_)
Arguments(b) ==
  IF b.multibulklen = 0 THEN Ok(b)
  ELSE AfterBulkHeader(IF b.bulklen = -1 THEN BulkHeader(b) ELSE Ok(b))

\* ... with its header read, or not.
AfterBulkHeader(h) ==
  IF h.status = "C_ERR" THEN h
  ELSE IF Len(h.b.querybuf) - h.b.qb_pos < h.b.bulklen + 2 THEN Err(h.b)
  ELSE Arguments(BulkArgument(h.b))

\* The number of arguments: a request without any, or with the loop to come.
MultibulkHeader(b) ==
  LET cr == strchr(b.querybuf, b.qb_pos + 1, "\r")
      number == LineNumber(b, cr)
      ll == number.value
  IN  IF cr = 0 THEN NoNewline(b)
      ELSE IF ~ LineComplete(b, cr) THEN Err(b)
      ELSE IF ~ number.ok \/ ll > IntMax THEN ProtocolError(b)
      ELSE IF ll <= 0 THEN Ok([b EXCEPT !.qb_pos = cr + 1])
      ELSE Ok([b EXCEPT !.qb_pos = cr + 1, !.multibulklen = ll, !.argv_len = Least(ll, ArgvStep)])

AfterHeader(h) == IF h.status = "C_ERR" THEN h ELSE Arguments(h.b)

processMultibulkBuffer(b) ==
  AfterHeader(IF b.multibulklen # 0 THEN Ok(b) ELSE MultibulkHeader(b))

-----------------------------------------------------------------------------
(* The query buffer                                                        *)

freeClientArgv(b) == [b EXCEPT !.argv = << >>, !.argv_len = 0]

resetClient(b) ==
  [freeClientArgv(b) EXCEPT !.reqtype = "none", !.multibulklen = 0, !.bulklen = -1]

Typed(b) ==
  IF b.reqtype # "none" THEN b
  ELSE [b EXCEPT !.reqtype = IF b.querybuf[b.qb_pos + 1] = "*" THEN "multibulk" ELSE "inline"]

\* Requests are taken until none is complete; then what they occupied is dropped.
Trim(b) == [b EXCEPT !.querybuf = From(@, b.qb_pos), !.qb_pos = 0]

\* processCommandAndResetClient: a command that was refused leaves the client as it is,
\* to be freed.
Executed(b) ==
  IF b.argv # << >> /\ processCommandRefuses(b.argv)
  THEN [b EXCEPT !.flags = @ \cup {"CLOSE_ASAP"}]
  ELSE resetClient(b)

OneRequest(b) ==
  IF b.reqtype = "inline" THEN processInlineBuffer(b) ELSE processMultibulkBuffer(b)

RECURSIVE processInputBuffer(_, _), AfterRequest(_, _)
processInputBuffer(b, done) ==
  IF b.qb_pos >= Len(b.querybuf) \/ b.flags # {} THEN [b |-> Trim(b), out |-> done]
  ELSE AfterRequest(OneRequest(Typed(b)), done)

AfterRequest(r, done) ==
  IF r.status = "C_ERR"
  THEN [b |-> Trim(r.b), out |-> IF r.b.flags # {} THEN Append(done, Error) ELSE done]
  ELSE processInputBuffer(Executed(r.b),
                          IF r.b.argv = << >> THEN done ELSE Append(done, r.b.argv))

\* A big argument that has its own buffer is read up to its end and no further.
ReadLen(b) ==
  LET remaining == b.bulklen + 2 - (Len(b.querybuf) - b.qb_pos)
  IN  IF b.reqtype = "multibulk" /\ b.multibulklen # 0 /\ b.bulklen >= BigArg /\ remaining > 0
      THEN remaining ELSE IoBuf

NoQuery ==
  [querybuf |-> << >>, qb_pos |-> 0, reqtype |-> "none", multibulklen |-> 0, bulklen |-> -1,
   argv |-> << >>, argv_len |-> 0, flags |-> {}]

Init == stream \in Stream /\ received = 0 /\ c = NoQuery /\ out = << >>

readQueryFromClient(n) ==
  LET nread == SubSeq(stream, received + 1, received + n)
      p == processInputBuffer([c EXCEPT !.querybuf = @ \o nread], << >>)
  IN  /\ "CLOSE_ASAP" \notin c.flags     \* beforeNextClient freed it
      /\ n \in 1 .. Least(ReadLen(c), Len(stream) - received)
      /\ received' = received + n
      /\ c' = p.b
      /\ out' = out \o p.out
      /\ UNCHANGED stream

Next == \E n \in 1 .. IoBuf : readQueryFromClient(n)

Spec == Init /\ [][Next]_vars

-----------------------------------------------------------------------------
(* Properties                                                              *)

\* The reference: the requests in the bytes s, parsed from the start of s with
\* no memory of how they arrived.
RECURSIVE Requests(_), Bulks(_, _, _)
Bulks(s, n, args) ==
  LET cr == strchr(s, 1, "\r")
      number == string2ll(SubSeq(s, 2, cr - 1))
      ll == number.value
  IN  IF n = 0 THEN <<args>> \o IF processCommandRefuses(args) THEN << >> ELSE Requests(s)
      ELSE IF cr = 0 \/ cr = Len(s) THEN << >>
      ELSE IF s[1] # "$" \/ ~ number.ok \/ ll < 0 \/ ll > MaxBulk THEN <<Error>>
      ELSE IF Len(s) < cr + 1 + ll + 2 THEN << >>
      ELSE Bulks(From(s, cr + 1 + ll + 2), n - 1, Append(args, SubSeq(s, cr + 2, cr + 1 + ll)))
Requests(s) ==
  LET cr == strchr(s, 1, "\r")
      nl == strchr(s, 1, "\n")
      number == string2ll(SubSeq(s, 2, cr - 1))
      ll == number.value
      line == SubSeq(s, 1, IF nl > 1 /\ s[nl - 1] = "\r" THEN nl - 2 ELSE nl - 1)
      args == sdssplitargs(line)
  IN  IF s = << >> THEN << >>
      ELSE IF s[1] = "*"
      THEN IF cr = 0 \/ cr = Len(s) THEN << >>
           ELSE IF ~ number.ok \/ ll > IntMax THEN <<Error>>
           ELSE IF ll <= 0 THEN Requests(From(s, cr + 1))
           ELSE Bulks(From(s, cr + 1), ll, << >>)
      ELSE IF nl = 0 THEN << >>
      ELSE IF ~ args.ok THEN <<Error>>
      ELSE IF args.argv = << >> THEN Requests(From(s, nl))
      ELSE <<args.argv>>
           \o IF processCommandRefuses(args.argv) THEN << >> ELSE Requests(From(s, nl))

\* serverAssertWithInfo(c,NULL,c->argc == 0) and
\* serverAssertWithInfo(c,NULL,c->querybuf[c->qb_pos] == '*'): a request that
\* stays incomplete keeps its place at the start of the buffer.
ResumesAtStart ==
  c.reqtype = "multibulk" /\ c.multibulklen = 0 /\ "CLOSE_ASAP" \notin c.flags
    => c.argv = << >> /\ c.querybuf # << >> /\ c.querybuf[1] = "*"

\* However the bytes are cut into reads, the requests executed are the complete
\* ones of what has arrived, each with its own arguments, and nothing after a
\* protocol error or after a request that closes the connection.
RequestsExact ==
  /\ TypeOK /\ ResumesAtStart
  /\ out = Requests(SubSeq(stream, 1, received))
=============================================================================
