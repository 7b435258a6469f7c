---------------------------- MODULE ClientsCron ----------------------------
(***************************************************************************)
(* What the server keeps about its clients' memory, and the timer that     *)
(* gives some of it back (server.c, networking.c): query buffers that grow *)
(* with what is read and shrink when clientsCron visits, a few clients at a*)
(* time, in turn; the memory recorded for each client, in total and by     *)
(* bucket; and the cached clock, which moves only when a command is called.*)
(*                                                                         *)
(* Only sizes: a client sends requests of one argument each, "*1\r\n",     *)
(* "$<length>\r\n", the argument and "\r\n".                               *)
(***************************************************************************)
EXTENDS Sds, SequencesExt

CONSTANTS
  Clients,        \* the connections there can be
  ArgLengths,     \* ArgLengths[c]: the lengths of the arguments c sends, one per request
  IobufLen,       \* PROTO_IOBUF_LEN
  BigArg,         \* PROTO_MBULK_BIG_ARG
  ResizeThreshold,\* PROTO_RESIZE_THRESHOLD
  MinIterations,  \* CLIENTS_CRON_MIN_ITERATIONS
  Hz,             \* server.hz
  ReadSizes,      \* bound: how much a read gets, when not all it may
  ShortReads,     \* bound: how often a client's reads get less than they may
  Step,           \* bound: the seconds by which the clock moves
  MaxSeconds      \* bound: the clock

ASSUME ClientsCronAssumption ==
  /\ ArgLengths \in [Clients -> Seq(Nat)]
  /\ {IobufLen, BigArg, ResizeThreshold, MinIterations, Hz} \subseteq Nat \ {0}
  /\ ReadSizes \subseteq Nat \ {0} /\ {ShortReads, Step, MaxSeconds} \subseteq Nat

VARIABLES
  order,      \* server.clients
  cl,         \* cl[c]: the fields of client c
  memory,     \* stat_clients_type_memory of normal clients, client_mem_usage_buckets
  unixtime,   \* server.unixtime
  now,        \* the clock
  closed,     \* clients that have been freed
  seen        \* history: seen[c], whom clientsCron visited since it visited c or c came

cronvars == <<order, cl, memory, unixtime, now, closed, seen>>

CountLine == 4      \* the bytes of "*1\r\n"
LengthLine == 8     \* the bytes of a "$<length>\r\n" of five digits, taken for every length
Fixed == 1024       \* the client structure
NoBucket == -1
MinLog == 15        \* CLIENT_MEM_USAGE_BUCKET_MIN_LOG
MaxLog == 33        \* CLIENT_MEM_USAGE_BUCKET_MAX_LOG
Buckets == 0 .. MaxLog - MinLog

SumTo(s, n) == FoldLeft(LAMBDA sum, len : sum + CountLine + LengthLine + len + 2, 0, SubSeq(s, 1, n))

\* createClient, of a client that has all its requests still to send.
NewClient(c) ==
  [qb |-> sdsnewlen(0), peak |-> 0, multibulklen |-> 0, bulklen |-> -1, requests |-> 0,
   left |-> SumTo(ArgLengths[c], Len(ArgLengths[c])), reply |-> 0, short |-> 0,
   lastinteraction |-> unixtime, usage |-> 0, bucket |-> NoBucket]

\* The type invariant.
CronTypeOK ==
  /\ order \in Seq(Clients) /\ closed \subseteq Clients /\ unixtime \in 0 .. now /\ now \in 0 .. MaxSeconds
  /\ DOMAIN cl = ToSet(order) /\ DOMAIN seen = ToSet(order)
  /\ \A c \in DOMAIN cl :
       /\ cl[c].multibulklen \in {0, 1} /\ cl[c].short \in 0 .. ShortReads
       /\ {cl[c].left, cl[c].peak, cl[c].reply, cl[c].usage} \subseteq Nat
       /\ cl[c].bulklen \in {-1} \cup ToSet(ArgLengths[c]) /\ cl[c].bucket \in {NoBucket} \cup Buckets
       /\ cl[c].lastinteraction \in 0 .. unixtime
  /\ memory.total \in Nat /\ memory.sum \in [Buckets -> Nat] /\ memory.clients \in [Buckets -> Seq(Clients)]

CronInit ==
  /\ order = << >> /\ cl = << >> /\ unixtime = 0 /\ now = 0 /\ closed = {} /\ seen = << >>
  /\ memory = [total |-> 0, sum |-> [b \in Buckets |-> 0], clients |-> [b \in Buckets |-> << >>]]

-----------------------------------------------------------------------------
(* Memory of the clients                                                   *)

getClientMemoryUsage(f) == f.reply + f.qb.mem + Fixed

Bits(mem) == CHOOSE k \in 0 .. 30 : mem < 2^k /\ (k = 0 \/ mem >= 2^(k - 1))
getMemUsageBucket(mem) ==
  LET idx == Bits(mem) IN (IF idx > MaxLog THEN MaxLog ELSE IF idx < MinLog THEN MinLog ELSE idx) - MinLog

\* updateClientMemUsage on the pair of what the server keeps, m, and client c's fields, f.
updateClientMemUsage_same_bucket(m, c, f) ==
  LET mem == getClientMemoryUsage(f)
      new == IF f.bucket = NoBucket THEN getMemUsageBucket(mem) ELSE f.bucket
      sum == IF f.bucket = NoBucket THEN m.sum ELSE [m.sum EXCEPT ![f.bucket] = @ - f.usage]
  IN  <<[total |-> m.total + mem - f.usage, sum |-> [sum EXCEPT ![new] = @ + mem],
         clients |-> IF new = f.bucket THEN m.clients ELSE [m.clients EXCEPT ![new] = Append(@, c)]],
        [f EXCEPT !.usage = mem, !.bucket = new]>>

updateClientMemUsage(m, c, f) ==
  LET mem == getClientMemoryUsage(f)
      new == getMemUsageBucket(mem)
      sum == IF f.bucket = NoBucket THEN m.sum ELSE [m.sum EXCEPT ![f.bucket] = @ - f.usage]
      out == IF f.bucket \in {NoBucket, new} THEN m.clients
             ELSE [m.clients EXCEPT ![f.bucket] = Remove(@, c)]
  IN  <<[total |-> m.total + mem - f.usage, sum |-> [sum EXCEPT ![new] = @ + mem],
         clients |-> IF new = f.bucket THEN m.clients ELSE [out EXCEPT ![new] = Append(@, c)]],
        [f EXCEPT !.usage = mem, !.bucket = new]>>

\* freeClient's part in it.
Forget(m, c, f) ==
  [m EXCEPT !.total = @ - f.usage,
            !.sum = IF f.bucket = NoBucket THEN @ ELSE [@ EXCEPT ![f.bucket] = @ - f.usage],
            !.clients = IF f.bucket = NoBucket THEN @ ELSE [@ EXCEPT ![f.bucket] = Remove(@, c)]]

-----------------------------------------------------------------------------
(* Reading                                                                 *)

BigArgument(f) == f.multibulklen # 0 /\ f.bulklen # -1 /\ f.bulklen >= BigArg

\* How much readQueryFromClient asks for: no more than the rest of a big argument.
ReadLen(f) ==
  IF BigArgument(f) /\ f.bulklen + 2 - f.qb.len > 0 THEN f.bulklen + 2 - f.qb.len ELSE IobufLen

\* The buffer with room for it, and how much the read may then get.
WithRoom(f) ==
  IF BigArgument(f) \/ f.qb.alloc < IobufLen
  THEN [qb |-> _sdsMakeRoomFor(f.qb, ReadLen(f), FALSE), most |-> ReadLen(f)]
  ELSE LET s == _sdsMakeRoomFor(f.qb, ReadLen(f), TRUE) IN [qb |-> s, most |-> sdsavail(s)]

\* The header of an argument: a big one gets the buffer for itself if nothing follows it.
LengthParsed(f, pos, len) ==
  LET rest == sdsrange(f.qb, pos)
  IN  IF len >= BigArg /\ f.qb.len - pos <= len + 2
      THEN <<[f EXCEPT !.qb = _sdsMakeRoomFor(rest, len + 2 - rest.len, FALSE), !.bulklen = len], 0>>
      ELSE <<[f EXCEPT !.bulklen = len], pos>>

\* An argument that fills the buffer is not copied out of it, the buffer becomes it.
ArgumentParsed(f, pos) ==
  LET done == [f EXCEPT !.bulklen = -1, !.multibulklen = 0, !.requests = @ + 1]
  IN  IF pos = 0 /\ f.bulklen >= BigArg /\ f.qb.len = f.bulklen + 2
      THEN <<[done EXCEPT !.qb = sdssetlen(sdsnewlen(f.bulklen + 2), 0)], 0>>
      ELSE <<done, pos + f.bulklen + 2>>

\* A request executed: its argument is echoed, what c->buf does not take of it in blocks;
\* call refreshes the clock, commandProcessed resets the client.
Execute(st, c) ==
  LET f == [st.f EXCEPT !.reply = @ + IF st.arg > IobufLen THEN st.arg - IobufLen ELSE 0]
      u == updateClientMemUsage(st.m, c, f)
  IN  [st EXCEPT !.m = u[1], !.f = u[2], !.unixtime = now]

\* processInputBuffer, from qb_pos pos on; client c's requests are ArgLengths[c].
RECURSIVE processInputBuffer(_, _)
processInputBuffer(st, c) ==
  LET f == st.f
      avail == f.qb.len - st.pos
      len == ArgLengths[c][f.requests + 1]
      line == LengthParsed(f, st.pos + LengthLine, len)
      arg == ArgumentParsed(f, st.pos)
      u == updateClientMemUsage(st.m, c, [f EXCEPT !.qb = IF st.pos = 0 THEN @ ELSE sdsrange(@, st.pos)])
  IN  CASE f.multibulklen = 0 /\ avail >= CountLine ->
             processInputBuffer([st EXCEPT !.f.multibulklen = 1, !.pos = @ + CountLine], c)
        [] f.multibulklen = 1 /\ f.bulklen = -1 /\ avail >= LengthLine ->
             processInputBuffer([st EXCEPT !.f = line[1], !.pos = line[2]], c)
        [] f.bulklen # -1 /\ avail >= f.bulklen + 2 ->
             processInputBuffer(Execute([st EXCEPT !.f = arg[1], !.pos = arg[2], !.arg = f.bulklen], c), c)
        [] OTHER -> [st EXCEPT !.m = u[1], !.f = u[2]]

-----------------------------------------------------------------------------
(* Handlers                                                                *)

\* createClient and linkClient.
Connect(c) ==
  /\ c \notin ToSet(order) \cup closed
  /\ order' = Append(order, c)
  /\ cl' = [d \in ToSet(order) \cup {c} |-> IF d = c THEN NewClient(c) ELSE cl[d]]
  /\ seen' = [d \in ToSet(order) \cup {c} |-> IF d = c THEN << >> ELSE seen[d]]
  /\ UNCHANGED <<memory, unixtime, now, closed>>

\* The most a read of a client gets, and what it may get.
Limit(f) == LET most == WithRoom(f).most IN IF most < f.left THEN most ELSE f.left
Available(f) == {n \in ReadSizes : n < Limit(f) /\ f.short < ShortReads} \cup ({Limit(f)} \ {0})

\* readQueryFromClient, that gets n bytes.
Receive(c, n) ==
  /\ c \in ToSet(order)
  /\ LET f == cl[c]
         s == sdssetlen(WithRoom(f).qb, f.qb.len + n)
         read == [f EXCEPT !.qb = s, !.left = @ - n,
                           !.short = IF n < Limit(f) THEN @ + 1 ELSE @, !.lastinteraction = unixtime,
                           !.peak = IF @ < s.len THEN s.len ELSE @]
         st == processInputBuffer([f |-> read, m |-> memory, pos |-> 0, arg |-> 0, unixtime |-> unixtime], c)
     IN  cl' = [cl EXCEPT ![c] = st.f] /\ memory' = st.m /\ unixtime' = st.unixtime
  /\ UNCHANGED <<order, now, closed, seen>>

\* readQueryFromClient, when there is nothing to read after all: the room stays.
ReceiveNothing(c) ==
  /\ c \in ToSet(order)
  /\ cl' = [cl EXCEPT ![c].qb = WithRoom(cl[c]).qb]
  /\ UNCHANGED <<order, memory, unixtime, now, closed, seen>>

\* writeToClient, when the socket takes everything.
Write(c) ==
  /\ c \in ToSet(order) /\ cl[c].requests > 0
  /\ LET u == updateClientMemUsage(memory, c, [cl[c] EXCEPT !.reply = 0, !.lastinteraction = unixtime])
     IN  memory' = u[1] /\ cl' = [cl EXCEPT ![c] = u[2]]
  /\ UNCHANGED <<order, unixtime, now, closed, seen>>

\* freeClient.
Free(c) ==
  /\ c \in ToSet(order)
  /\ memory' = Forget(memory, c, cl[c])
  /\ order' = Remove(order, c) /\ closed' = closed \cup {c}
  /\ cl' = [d \in ToSet(order) \ {c} |-> cl[d]]
  /\ seen' = [d \in ToSet(order) \ {c} |-> seen[d]]
  /\ UNCHANGED <<unixtime, now>>

Idle(f) == unixtime - f.lastinteraction > 2

\* The size a buffer is cut to: not below what it holds, held of late, or is to hold.
ResizeTo_bulklen(f) == IF f.bulklen # -1 THEN f.bulklen ELSE f.peak
ResizeTo_forgets_bulk(f) == IF f.qb.len < f.peak THEN f.peak ELSE f.qb.len
ResizeTo(f) == LET most == IF f.qb.len < f.peak THEN f.peak ELSE f.qb.len
               IN  IF f.bulklen # -1 /\ most < f.bulklen THEN f.bulklen ELSE most

clientsCronResizeQueryBuffer(f) ==
  LET s == CASE sdsavail(f.qb) <= 1024 * 4 -> f.qb
             [] sdsavail(f.qb) > 1024 * 4 /\ Idle(f) -> sdsRemoveFreeSpace(f.qb)
             [] OTHER -> IF f.qb.alloc > ResizeThreshold /\ f.qb.alloc \div 2 > f.peak
                         THEN sdsResize(f.qb, ResizeTo(f)) ELSE f.qb
  IN  [f EXCEPT !.qb = s, !.peak = IF f.bulklen > s.len THEN f.bulklen ELSE s.len]

RotateTailToHead(l) == <<Last(l)>> \o Front(l)
\* One turn of clientsCron's loop, on the list, the clients and the history.
Visit(w) ==
  LET l == RotateTailToHead(w.order)
      c == Head(l)
  IN  [order |-> l, cl |-> [w.cl EXCEPT ![c] = clientsCronResizeQueryBuffer(@)],
       seen |-> [d \in DOMAIN w.seen |-> IF d = c THEN << >> ELSE Append(w.seen[d], c)]]

Iterations ==
  LET n == Len(order)
  IN  IF n \div Hz >= MinIterations THEN n \div Hz ELSE IF n < MinIterations THEN n ELSE MinIterations

clientsCron ==
  /\ order # << >>
  /\ LET w == FoldLeft(LAMBDA v, i : Visit(v), [order |-> order, cl |-> cl, seen |-> seen],
                       [i \in 1 .. Iterations |-> i])
     IN  order' = w.order /\ cl' = w.cl /\ seen' = w.seen
  /\ UNCHANGED <<memory, unixtime, now, closed>>

TimePasses == now + Step <= MaxSeconds /\ now' = now + Step /\ UNCHANGED <<order, cl, memory, unixtime, closed, seen>>

CronNext ==
  \/ \E c \in Clients : Connect(c) \/ ReceiveNothing(c) \/ Write(c) \/ Free(c)
  \/ \E c \in ToSet(order) : \E n \in Available(cl[c]) : Receive(c, n)
  \/ clientsCron
  \/ TimePasses

-----------------------------------------------------------------------------
(* Properties                                                              *)

\* No size of a query buffer is beyond its allocation, through every change of header, and
\* every byte that was read and not yet parsed is in it: neither the growth for a read nor
\* clientsCron's cuts, in the middle of a request or not, drop one.
QueryBuffersSound ==
  CronTypeOK /\ \A c \in ToSet(order) :
    LET f == cl[c]
        parsed == SumTo(ArgLengths[c], f.requests)
                    + (IF f.multibulklen = 1 THEN CountLine ELSE 0)
                    + (IF f.bulklen # -1 THEN LengthLine ELSE 0)
    IN  Sound(f.qb) /\ parsed + f.qb.len + f.left = SumTo(ArgLengths[c], Len(ArgLengths[c]))

\* A big argument being read is alone in its buffer from the first byte on, and the read
\* that ends it gets nothing else: so the buffer becomes the argument, without a copy,
\* whatever clientsCron did to its size in between.
BigArgumentAlone ==
  [][\A c \in ToSet(order) \cap ToSet(order') :
       BigArgument(cl[c]) =>
         \/ cl'[c].requests = cl[c].requests /\ cl'[c].qb.len < cl[c].bulklen + 2
         \/ cl'[c].requests = cl[c].requests + 1 /\ cl'[c].qb.len = 0]_cronvars

\* clientsCron takes no room an argument being read will need, from a client it does not
\* hold for idle.
RoomForArgument ==
  [][\A c \in ToSet(order) \cap ToSet(order') :
       (cl[c].bulklen # -1 /\ cl'[c].bulklen = cl[c].bulklen /\ ~ Idle(cl[c]) /\ cl[c].qb.alloc >= cl[c].bulklen)
         => cl'[c].qb.alloc >= cl[c].bulklen]_cronvars

\* So neither a read nor the cron job disturbs an argument that is being read.
ArgumentsUndisturbed == BigArgumentAlone /\ RoomForArgument

\* The total and the buckets say what the clients' own records add up to, and each client is
\* in the bucket of its record, once, and in no other.
MemoryAccounted ==
  LET recorded(S) == FoldSet(LAMBDA c, sum : cl[c].usage + sum, 0, S)
      member(b) == {c \in ToSet(order) : cl[c].bucket = b}
  IN  /\ memory.total = recorded(ToSet(order))
      /\ \A b \in Buckets :
           /\ memory.sum[b] = recorded(member(b))
           /\ ToSet(memory.clients[b]) = member(b) /\ Len(memory.clients[b]) = Cardinality(member(b))
           /\ \A c \in member(b) : getMemUsageBucket(cl[c].usage) = b

\* clientsCron takes the clients in turn: between two visits to one it visits no other
\* twice, whoever comes and goes.
VisitsInTurn == \A c \in ToSet(order) : IsInjective(seen[c])

\* The accounts and the turns of the cron job, as clients come, are measured and go.
CronSound == MemoryAccounted /\ VisitsInTurn
=============================================================================
