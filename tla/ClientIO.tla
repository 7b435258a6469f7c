------------------------------ MODULE ClientIO ------------------------------
(***************************************************************************)
(* The life of a client connection in the server: accepted by the event   *)
(* loop, read by readQueryFromClient, answered through the pending-write   *)
(* queue, closed through the asynchronous free queue (networking.c,        *)
(* socket.c, ae.c and beforeSleep of server.c).                            *)
(*                                                                         *)
(* The server is one thread.  Its handlers are written as operators from   *)
(* the server's state s to the state they leave, in the order of the       *)
(* code's calls; an action applies one handler, or one iteration of a      *)
(* handler's loop when the loop runs over several clients or requests.     *)
(***************************************************************************)
EXTENDS Integers, Sequences

CONSTANTS
  Client,    \* connections, each used once: server.next_client_id never reuses an id
  Fd,        \* the file descriptors the process may hold
  SetSize,   \* eventLoop->setsize: descriptors below it can be registered
  ReplySize, \* sizes a command's reply may have
  MaxWrite,  \* NET_MAX_WRITES_PER_EVENT
  SndBuf,    \* what a socket takes before the peer reads
  MaxSend    \* bound: requests the peers send, in all

None == "none"

ASSUME ClientIOAssumption ==
  /\ None \notin Client
  /\ Fd \subseteq Nat
  /\ SetSize \in Nat
  /\ ReplySize \subseteq Nat \ {0}
  /\ MaxWrite \in Nat
  /\ SndBuf \in Nat
  /\ MaxSend \in Nat

NoFd == -1
Flag == {"PENDING_WRITE", "CLOSE_ASAP", "CLOSE_AFTER_REPLY"}
Mask == {"READABLE", "WRITABLE"}

\* What a peer can send, by what the server does with it: a command (every
\* one of them answers), an empty request, "POST"/"Host:", a malformed request.
Request == {"command", "empty", "post", "malformed"}

VARIABLES
  server,    \* the state the handlers share, see ServerState
  stage,     \* what the event loop is doing
  fired,     \* eventLoop->fired of the current iteration, entries not yet handled
  polled,    \* history: the client that owned a fired descriptor when it fired
  accepting, \* the listening socket is among them
  reading,   \* the client whose readQueryFromClient is on the stack
  peer,      \* each connection as its peer sees it
  backlog,   \* connections waiting in the listening socket
  inbox,     \* requests in the socket, not read yet
  sndbuf,    \* reply bytes in the socket, not read by the peer yet
  sent       \* number of requests the peers have sent

vars == <<server, stage, fired, polled, accepting, reading, peer, backlog, inbox, sndbuf, sent>>
env  == <<peer, backlog, inbox, sndbuf, sent>>
loop == <<stage, fired, polled, accepting, reading>>

\* The fields of struct redisServer and of the clients that the handlers change.
ServerState ==
  [clients               : SUBSET Client,
   fd                    : [Client -> Fd \cup {NoFd}],
   flags                 : [Client -> SUBSET Flag],
   clients_pending_write : [Client -> Nat],  \* nodes of the list that hold c
   clients_to_close      : [Client -> Nat],  \* nodes of the list that hold c
   events                : [Fd -> SUBSET Mask],
   reply                 : [Client -> Nat],  \* bytes in buf and in the reply list, unsent
   querybuf              : [Client -> Seq(Request)]]

\* The type invariant.
TypeOK ==
  /\ server \in ServerState
  /\ stage \in {"writes", "frees", "poll", "events", "dead"}
  /\ fired \in [Fd -> SUBSET Mask]
  /\ polled \in [Fd -> Client \cup {None}]
  /\ accepting \in BOOLEAN
  /\ reading \in Client \cup {None}
  /\ peer \in [Client -> {"idle", "open", "closed"}]
  /\ backlog \in SUBSET Client
  /\ inbox \in [Client -> Seq(Request)]
  /\ sndbuf \in [Client -> Nat]
  /\ sent \in Nat

-----------------------------------------------------------------------------
(* Registering and closing (ae.c, socket.c)                                *)

\* A descriptor at or above setsize is refused with ERANGE.
aeCreateFileEvent(s, f, mask) ==
  IF f < SetSize THEN [s EXCEPT !.events[f] = @ \cup {mask}] ELSE s

connSocketClose_leaves_events(s, c) == [s EXCEPT !.fd[c] = NoFd]

connSocketClose(s, c) ==
  [s EXCEPT !.events = [f \in Fd |-> IF f = s.fd[c] THEN {} ELSE @[f]],
            !.fd[c] = NoFd]

\* The result of connSetReadHandler is not looked at.
createClient(s, c, f) ==
  aeCreateFileEvent(
    [s EXCEPT !.clients = @ \cup {c}, !.fd[c] = f, !.flags[c] = {},
              !.reply[c] = 0, !.querybuf[c] = << >>],
    f, "READABLE")

-----------------------------------------------------------------------------
(* Freeing (networking.c)                                                  *)

freeClientAsync(s, c) ==
  IF "CLOSE_ASAP" \in s.flags[c] THEN s
  ELSE [s EXCEPT !.flags[c] = @ \cup {"CLOSE_ASAP"},
                 !.clients_to_close[c] = @ + 1]

unlinkClient_leaves_node(s, c) == connSocketClose([s EXCEPT !.clients = @ \ {c}], c)

unlinkClient(s, c) ==
  LET t == connSocketClose([s EXCEPT !.clients = @ \ {c}], c)
  IN  IF "PENDING_WRITE" \in t.flags[c]
      THEN [t EXCEPT !.clients_pending_write[c] = @ - 1,
                     !.flags[c] = @ \ {"PENDING_WRITE"}]
      ELSE t

\* The memory of c is gone: what is left of it is reset.
freeClient(s, c) ==
  LET t == IF "CLOSE_ASAP" \in s.flags[c]
           THEN [s EXCEPT !.clients_to_close[c] = @ - 1] ELSE s
      u == unlinkClient([t EXCEPT !.reply[c] = 0, !.querybuf[c] = << >>], c)
  IN  [u EXCEPT !.flags[c] = {}]

beforeNextClient(s, c) ==
  IF "CLOSE_ASAP" \in s.flags[c] THEN freeClient(s, c) ELSE s

-----------------------------------------------------------------------------
(* Replying (networking.c)                                                 *)

putClientInPendingWriteQueue(s, c) ==
  IF "PENDING_WRITE" \in s.flags[c] THEN s
  ELSE [s EXCEPT !.flags[c] = @ \cup {"PENDING_WRITE"},
                 !.clients_pending_write[c] = @ + 1]

addReply(s, c, n) ==
  LET t == IF s.reply[c] = 0 THEN putClientInPendingWriteQueue(s, c) ELSE s
  IN  IF "CLOSE_ASAP" \in s.flags[c] THEN s
      ELSE IF "CLOSE_AFTER_REPLY" \in s.flags[c] THEN t
      ELSE [t EXCEPT !.reply[c] = @ + n]

installClientWriteHandler(s, c) ==
  IF s.fd[c] < SetSize THEN aeCreateFileEvent(s, s.fd[c], "WRITABLE")
  ELSE freeClientAsync(s, c)

\* writeToClient(c, 0): the socket took k bytes, or the write failed.
writeToClient(s, c, k, failed) ==
  LET t == [s EXCEPT !.reply[c] = @ - k]
  IN  IF failed THEN freeClientAsync(s, c)
      ELSE IF t.reply[c] = 0 /\ "CLOSE_AFTER_REPLY" \in t.flags[c]
           THEN freeClientAsync(t, c)
      ELSE t

\* What one call of writeToClient can write: its loop ends when nothing is left,
\* when the socket is full (the peer may have read meanwhile) or past MaxWrite.
Accepted(c) ==
  {k \in 0..server.reply[c] :
     k = server.reply[c] \/ k >= SndBuf - sndbuf[c] \/ k > MaxWrite}

handlePendingWrite_without_handler(s, c, k, failed) ==
  LET t == [s EXCEPT !.flags[c] = @ \ {"PENDING_WRITE"},
                     !.clients_pending_write[c] = @ - 1]
  IN  IF "CLOSE_ASAP" \in t.flags[c] THEN t ELSE writeToClient(t, c, k, failed)

\* One iteration of handleClientsWithPendingWrites.
handlePendingWrite(s, c, k, failed) ==
  LET t == [s EXCEPT !.flags[c] = @ \ {"PENDING_WRITE"},
                     !.clients_pending_write[c] = @ - 1]
      u == writeToClient(t, c, k, failed)
  IN  IF "CLOSE_ASAP" \in t.flags[c] THEN t
      ELSE IF "CLOSE_ASAP" \notin u.flags[c] /\ u.reply[c] > 0
           THEN installClientWriteHandler(u, c)
      ELSE u

-----------------------------------------------------------------------------
(* Reading (networking.c, server.c)                                        *)

\* Marks the client; describing it in the log reads c->db and c->user, which
\* createClient leaves uninitialized: see Dereference below.
setProtocolError(s, c) == [s EXCEPT !.flags[c] = @ \cup {"CLOSE_AFTER_REPLY"}]

\* One iteration of processInputBuffer on request r, its reply n bytes long.
processRequest(s, c, r, n) ==
  CASE r = "command"   -> addReply(s, c, n)
    [] r = "empty"     -> s
    [] r = "post"      -> freeClientAsync(s, c)
    [] r = "malformed" -> setProtocolError(addReply(s, c, n), c)

-----------------------------------------------------------------------------
(* The event loop: aeMain, aeProcessEvents, beforeSleep                    *)

Init ==
  /\ server = [clients               |-> {},
               fd                    |-> [c \in Client |-> NoFd],
               flags                 |-> [c \in Client |-> {}],
               clients_pending_write |-> [c \in Client |-> 0],
               clients_to_close      |-> [c \in Client |-> 0],
               events                |-> [f \in Fd |-> {}],
               reply                 |-> [c \in Client |-> 0],
               querybuf              |-> [c \in Client |-> << >>]]
  /\ stage = "writes"
  /\ fired = [f \in Fd |-> {}]
  /\ polled = [f \in Fd |-> None]
  /\ accepting = FALSE
  /\ reading = None
  /\ peer = [c \in Client |-> "idle"]
  /\ backlog = {}
  /\ inbox = [c \in Client |-> << >>]
  /\ sndbuf = [c \in Client |-> 0]
  /\ sent = 0

PendingWrites == {c \in Client : server.clients_pending_write[c] > 0}
PendingFrees  == {c \in Client : server.clients_to_close[c] > 0}

\* beforeSleep, first half: the clients of clients_pending_write, one by one.
HandlePendingWrite(c) ==
  /\ stage = "writes"
  /\ c \in PendingWrites
  /\ \E failed \in {FALSE, peer[c] = "closed"}, k \in Accepted(c) :
       /\ server' = handlePendingWrite(server, c, k, failed)
       /\ sndbuf' = [sndbuf EXCEPT ![c] = IF @ + k < SndBuf THEN @ + k ELSE SndBuf]
  /\ UNCHANGED <<loop, peer, backlog, inbox, sent>>

EndPendingWrites ==
  /\ stage = "writes"
  /\ PendingWrites = {}
  /\ stage' = "frees"
  /\ UNCHANGED <<server, fired, polled, accepting, reading, env>>

FreeQueuedClient_keeps_flag(c) ==
  /\ stage = "frees"
  /\ c \in PendingFrees
  /\ LET s == freeClient(server, c)
     IN  server' = [s EXCEPT !.clients_to_close[c] = @ - 1]
  /\ UNCHANGED <<loop, env>>

\* beforeSleep, second half: freeClientsInAsyncFreeQueue.
FreeQueuedClient(c) ==
  /\ stage = "frees"
  /\ c \in PendingFrees
  /\ LET s == freeClient([server EXCEPT !.flags[c] = @ \ {"CLOSE_ASAP"}], c)
     IN  server' = [s EXCEPT !.clients_to_close[c] = @ - 1]
  /\ UNCHANGED <<loop, env>>

EndFrees ==
  /\ stage = "frees"
  /\ PendingFrees = {}
  /\ stage' = "poll"
  /\ UNCHANGED <<server, fired, polled, accepting, reading, env>>

Readable(c) == inbox[c] # << >> \/ peer[c] = "closed"
Writable(c) == sndbuf[c] < SndBuf \/ peer[c] = "closed"

Ready(f) ==
  {m \in server.events[f] : \E c \in server.clients :
     server.fd[c] = f /\ IF m = "READABLE" THEN Readable(c) ELSE Writable(c)}

\* epoll is level triggered: every registered descriptor that is ready fires.
aeApiPoll ==
  /\ stage = "poll"
  /\ fired' = [f \in Fd |-> Ready(f)]
  /\ polled' = [f \in Fd |-> IF Ready(f) = {} THEN None
                             ELSE CHOOSE c \in server.clients : server.fd[c] = f]
  /\ accepting' = (backlog # {})
  /\ stage' = "events"
  /\ UNCHANGED <<server, reading, env>>

FreeFds == {f \in Fd : \A c \in Client : server.fd[c] # f}

\* One iteration of connSocketAcceptHandler; the kernel gives the lowest free descriptor.
AcceptClient(c) ==
  /\ stage = "events" /\ accepting /\ reading = None
  /\ c \in backlog
  /\ \E f \in FreeFds :
       /\ \A g \in FreeFds : f <= g
       /\ server' = createClient(server, c, f)
  /\ backlog' = backlog \ {c}
  /\ UNCHANGED <<loop, peer, inbox, sndbuf, sent>>

EndAccept ==
  /\ stage = "events" /\ accepting /\ reading = None
  /\ backlog = {} \/ FreeFds = {}
  /\ accepting' = FALSE
  /\ UNCHANGED <<server, stage, fired, polled, reading, env>>

ReadQuery_ignores_eof(c) ==
  \/ /\ inbox[c] = << >> /\ peer[c] = "closed"
     /\ UNCHANGED <<server, reading, inbox>>
  \/ \E n \in 1..Len(inbox[c]) :
       /\ server' = [server EXCEPT !.querybuf[c] = @ \o SubSeq(inbox[c], 1, n)]
       /\ inbox' = [inbox EXCEPT ![c] = SubSeq(@, n + 1, Len(@))]
       /\ reading' = c

\* readQueryFromClient up to processInputBuffer: data was read, or the read
\* returned 0 or an error and the client goes.
ReadQuery(c) ==
  \/ /\ inbox[c] = << >> /\ peer[c] = "closed"
     /\ server' = beforeNextClient(freeClientAsync(server, c), c)
     /\ UNCHANGED <<reading, inbox>>
  \/ \E n \in 1..Len(inbox[c]) :
       /\ server' = [server EXCEPT !.querybuf[c] = @ \o SubSeq(inbox[c], 1, n)]
       /\ inbox' = [inbox EXCEPT ![c] = SubSeq(@, n + 1, Len(@))]
       /\ reading' = c

\* sendReplyToClient, the write handler: its call of writeToClient is commented out.
sendReplyToClient(s, c) == s

\* connSocketEventHandler for descriptor f.
HandleEvent(f) ==
  /\ stage = "events" /\ reading = None
  /\ fired[f] # {}
  /\ fired' = [fired EXCEPT ![f] = {}]
  /\ polled' = [polled EXCEPT ![f] = None]
  /\ \E c \in server.clients :
       /\ server.fd[c] = f
       /\ IF "READABLE" \in fired[f] \cap server.events[f]
          THEN ReadQuery(c)
          ELSE server' = sendReplyToClient(server, c) /\ UNCHANGED <<reading, inbox>>
  /\ UNCHANGED <<stage, accepting, peer, backlog, sndbuf, sent>>

InputDone_close_asap_only(c) ==
  server.querybuf[c] = << >> \/ "CLOSE_ASAP" \in server.flags[c]

\* The conditions under which the loop of processInputBuffer ends.
InputDone(c) ==
  \/ server.querybuf[c] = << >>
  \/ server.flags[c] \cap {"CLOSE_AFTER_REPLY", "CLOSE_ASAP"} # {}

ProcessInput_evicts(c) ==
  /\ reading = c
  /\ ~InputDone(c)
  /\ \E d \in server.clients \ {c}, n \in ReplySize :
       server' = freeClient(processRequest([server EXCEPT !.querybuf[c] = Tail(@)], c,
                                           Head(server.querybuf[c]), n), d)
  /\ UNCHANGED <<loop, env>>

\* One iteration of the loop of processInputBuffer.
ProcessInput(c) ==
  /\ reading = c
  /\ ~InputDone(c)
  /\ \E n \in ReplySize :
       server' = processRequest([server EXCEPT !.querybuf[c] = Tail(@)], c,
                                Head(server.querybuf[c]), n)
  /\ UNCHANGED <<loop, env>>

\* Undefined behaviour of catClientInfoString on an uninitialized c->db: the
\* outcome other than a line in the log is the end of the process.
Dereference(c) ==
  /\ reading = c
  /\ ~InputDone(c)
  /\ Head(server.querybuf[c]) = "malformed"
  /\ stage' = "dead"
  /\ reading' = None
  /\ UNCHANGED <<server, fired, polled, accepting, env>>

\* The end of processInputBuffer and of readQueryFromClient.
EndInput(c) ==
  /\ reading = c
  /\ InputDone(c)
  /\ server' = beforeNextClient(server, c)
  /\ reading' = None
  /\ UNCHANGED <<stage, fired, polled, accepting, env>>

EndEvents_skips_writes ==
  /\ stage = "events" /\ ~accepting /\ reading = None
  /\ \A f \in Fd : fired[f] = {}
  /\ stage' = "frees"
  /\ UNCHANGED <<server, fired, polled, accepting, reading, env>>

\* The iteration is over; serverCron, the one time event, changes none of this.
EndEvents ==
  /\ stage = "events" /\ ~accepting /\ reading = None
  /\ \A f \in Fd : fired[f] = {}
  /\ stage' = "writes"
  /\ UNCHANGED <<server, fired, polled, accepting, reading, env>>

EventLoop ==
  \/ EndPendingWrites \/ EndFrees \/ aeApiPoll \/ EndAccept \/ EndEvents
  \/ \E c \in Client :
       \/ HandlePendingWrite(c) \/ FreeQueuedClient(c) \/ AcceptClient(c)
       \/ ProcessInput(c) \/ Dereference(c) \/ EndInput(c)
  \/ \E f \in Fd : HandleEvent(f)

-----------------------------------------------------------------------------
(* The peers and the kernel                                                *)

Connect(c) ==
  /\ peer[c] = "idle"
  /\ peer' = [peer EXCEPT ![c] = "open"]
  /\ backlog' = backlog \cup {c}
  /\ UNCHANGED <<server, loop, inbox, sndbuf, sent>>

PeerSend(c, r) ==
  /\ peer[c] = "open"
  /\ sent < MaxSend
  /\ sent' = sent + 1
  /\ inbox' = [inbox EXCEPT ![c] = Append(@, r)]
  /\ UNCHANGED <<server, loop, peer, backlog, sndbuf>>

PeerRead(c) ==
  /\ peer[c] = "open"
  /\ sndbuf[c] > 0
  /\ sndbuf' = [sndbuf EXCEPT ![c] = 0]
  /\ UNCHANGED <<server, loop, peer, backlog, inbox, sent>>

\* An orderly close leaves what was sent readable, a reset discards it.
PeerClose(c) ==
  /\ peer[c] = "open"
  /\ peer' = [peer EXCEPT ![c] = "closed"]
  /\ inbox' \in {inbox, [inbox EXCEPT ![c] = << >>]}
  /\ UNCHANGED <<server, loop, backlog, sndbuf, sent>>

Environment ==
  \E c \in Client :
    \/ Connect(c) \/ PeerRead(c) \/ PeerClose(c)
    \/ \E r \in Request : PeerSend(c, r)

Next == EventLoop \/ Environment

\* The loop never stops by itself (aeMain) and the kernel schedules it.
Spec == Init /\ [][Next]_vars /\ WF_vars(EventLoop)

\* Peers that go on reading what they are sent.
ReadingPeers == \A c \in Client : WF_vars(PeerRead(c))

-----------------------------------------------------------------------------
(* Properties                                                              *)

\* A client is linked once in clients_pending_write exactly while it carries
\* CLIENT_PENDING_WRITE: the list node is part of the client, so linking it twice
\* would corrupt the list, and unlinkClient unlinks by the flag.  It is in
\* clients_to_close exactly once while it carries CLIENT_CLOSE_ASAP: what freeClient
\* asserts before it removes the node.
QueuesMatchFlags ==
  \A c \in Client :
    /\ server.clients_pending_write[c] = IF "PENDING_WRITE" \in server.flags[c] THEN 1 ELSE 0
    /\ server.clients_to_close[c] = IF "CLOSE_ASAP" \in server.flags[c] THEN 1 ELSE 0

\* Nothing refers to a client that was freed: no queue, no registered
\* descriptor, no event of the current iteration, no handler on the stack.
NoDanglingClient ==
  /\ \A c \in Client \ server.clients :
       /\ server.flags[c] = {}
       /\ server.fd[c] = NoFd
       /\ reading # c
  /\ \A f \in Fd : server.events[f] # {} =>
       \E c \in server.clients : server.fd[c] = f

\* An event is handled for the client it fired for, never for a later one that
\* got the same descriptor in the same iteration of the loop.
NoStaleEvent ==
  \A f \in Fd : fired[f] # {} =>
    /\ polled[f] \in server.clients
    /\ server.fd[polled[f]] = f

\* A reply that is waiting has somebody to send it: the client is queued for
\* beforeSleep, or has the write handler installed, or is being closed.
ReplyScheduled ==
  \A c \in server.clients : server.reply[c] > 0 =>
    \/ "PENDING_WRITE" \in server.flags[c]
    \/ "CLOSE_ASAP" \in server.flags[c]
    \/ "WRITABLE" \in server.events[server.fd[c]]

\* beforeSleep leaves no client queued for writing or for closing when the
\* loop goes to sleep: such a client would wait for an unrelated event.
NothingQueuedWhileAsleep ==
  stage = "poll" => PendingWrites = {} /\ PendingFrees = {}

\* A protocol error is the last thing a client is answered: once
\* CLIENT_CLOSE_AFTER_REPLY is set no request of its query buffer is executed
\* and its output only shrinks.
NothingAfterProtocolError ==
  [][\A c \in server.clients \cap server'.clients :
       "CLOSE_AFTER_REPLY" \in server.flags[c] =>
         /\ Len(server'.querybuf[c]) >= Len(server.querybuf[c])
         /\ server'.reply[c] <= server.reply[c]]_vars

\* A connection its peer has closed is freed, whatever was left in its buffers,
\* as long as its descriptor could be registered.
ClosedPeerFreed ==
  \A c \in Client :
    (c \in server.clients /\ peer[c] = "closed" /\ server.fd[c] < SetSize)
      ~> (c \notin server.clients \/ stage = "dead")

\* "Write event handler. Just send data to the client." (networking.c:1980): to a
\* peer that goes on reading, every reply is sent in the end.
RepliesFlushed ==
  \A c \in Client : (server.reply[c] > 0) ~> (server.reply[c] = 0 \/ stage = "dead")

\* Every accepted client is registered with the event loop.
EveryClientRegistered ==
  \A c \in server.clients : "READABLE" \in server.events[server.fd[c]]

\* A malformed request is recorded in the log and closes its own connection: it
\* does not end the server.
ProtocolErrorIsContained == stage # "dead"

=============================================================================
