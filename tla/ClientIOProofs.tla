--------------------------- MODULE ClientIOProofs ---------------------------
(***************************************************************************)
(* Proofs about ClientIO, for any number of clients and descriptors.  The  *)
(* handlers are operators on the server's state: a first group of lemmas   *)
(* says what each handler leaves in the fields of that state, a second one *)
(* that every handler preserves ServerOK, the part of the inductive        *)
(* invariant that speaks of the server's state.  Then the invariant, one   *)
(* lemma per action that preserves it, and the theorems that follow.       *)
(***************************************************************************)
EXTENDS ClientIO, TLAPS

-----------------------------------------------------------------------------
(* What the handlers do to the fields                                      *)

\* freeClientAsync on a client that is already scheduled does nothing, otherwise
\* it sets the flag and appends one node.
AsyncFreed(s, t, c) ==
  /\ t \in ServerState
  /\ t.clients = s.clients /\ t.fd = s.fd /\ t.events = s.events
  /\ t.reply = s.reply /\ t.querybuf = s.querybuf
  /\ t.clients_pending_write = s.clients_pending_write
  /\ t.flags = [s.flags EXCEPT ![c] = @ \cup {"CLOSE_ASAP"}]
  /\ t.clients_to_close =
       [s.clients_to_close EXCEPT ![c] =
          IF "CLOSE_ASAP" \in s.flags[c] THEN @ ELSE @ + 1]

\* freeClientAsync does this.
LEMMA FreeClientAsyncEffect ==
  ASSUME NEW s \in ServerState, NEW c \in Client
  PROVE  AsyncFreed(s, freeClientAsync(s, c), c)
<1> USE DEF AsyncFreed
<1> DEFINE F == [s.flags EXCEPT ![c] = @ \cup {"CLOSE_ASAP"}]
           Q == [s.clients_to_close EXCEPT ![c] = @ + 1]
<1>1. CASE "CLOSE_ASAP" \in s.flags[c]
  BY <1>1 DEF freeClientAsync, ServerState
<1>2. CASE "CLOSE_ASAP" \notin s.flags[c]
  <2>1. F \in [Client -> SUBSET Flag] /\ Q \in [Client -> Nat]
    BY DEF ServerState, Flag
  <2>2. freeClientAsync(s, c) = [s EXCEPT !.flags = F, !.clients_to_close = Q]
    BY <1>2 DEF freeClientAsync, ServerState
  <2> HIDE DEF F, Q
  <2>3. [s EXCEPT !.flags = F, !.clients_to_close = Q] \in ServerState
    BY <2>1, Zenon DEF ServerState
  <2>4. QED
    BY <1>2, <2>2, <2>3, Zenon DEF ServerState, F, Q
<1>3. QED
  BY <1>1, <1>2, Zenon

\* freeClient takes the client out of everything.
Freed(s, t, c) ==
  /\ t \in ServerState
  /\ t.clients = s.clients \ {c}
  /\ t.fd = [s.fd EXCEPT ![c] = NoFd]
  /\ t.events = [f \in Fd |-> IF f = s.fd[c] THEN {} ELSE s.events[f]]
  /\ t.flags = [s.flags EXCEPT ![c] = {}]
  /\ t.reply = [s.reply EXCEPT ![c] = 0]
  /\ t.querybuf = [s.querybuf EXCEPT ![c] = << >>]
  /\ t.clients_pending_write =
       [s.clients_pending_write EXCEPT ![c] =
          IF "PENDING_WRITE" \in s.flags[c] THEN @ - 1 ELSE @]
  /\ t.clients_to_close =
       [s.clients_to_close EXCEPT ![c] =
          IF "CLOSE_ASAP" \in s.flags[c] THEN @ - 1 ELSE @]

\* freeClient does this.
LEMMA FreeClientEffect ==
  ASSUME NEW s \in ServerState, NEW c \in Client,
         "PENDING_WRITE" \in s.flags[c] => s.clients_pending_write[c] > 0,
         "CLOSE_ASAP" \in s.flags[c] => s.clients_to_close[c] > 0
  PROVE  Freed(s, freeClient(s, c), c)
<1> USE DEF Freed
<1> DEFINE C == s.clients \ {c}
           D == [s.fd EXCEPT ![c] = NoFd]
           E == [f \in Fd |-> IF f = s.fd[c] THEN {} ELSE s.events[f]]
           F == [s.flags EXCEPT ![c] = {}]
           R == [s.reply EXCEPT ![c] = 0]
           B == [s.querybuf EXCEPT ![c] = << >>]
           W == [s.clients_pending_write EXCEPT ![c] =
                   IF "PENDING_WRITE" \in s.flags[c] THEN @ - 1 ELSE @]
           Q == [s.clients_to_close EXCEPT ![c] =
                   IF "CLOSE_ASAP" \in s.flags[c] THEN @ - 1 ELSE @]
           p == IF "CLOSE_ASAP" \in s.flags[c]
                THEN [s EXCEPT !.clients_to_close[c] = @ - 1] ELSE s
           q == [p EXCEPT !.reply[c] = 0, !.querybuf[c] = << >>]
           x == [q EXCEPT !.clients = @ \ {c}]
           u == connSocketClose(x, c)
           y == IF "PENDING_WRITE" \in u.flags[c]
                THEN [u EXCEPT !.clients_pending_write[c] = @ - 1,
                               !.flags[c] = @ \ {"PENDING_WRITE"}]
                ELSE u
           z == [y EXCEPT !.flags[c] = {}]
<1>1. /\ C \in SUBSET Client
      /\ D \in [Client -> Fd \cup {NoFd}]
      /\ F \in [Client -> SUBSET Flag]
      /\ W \in [Client -> Nat]
      /\ Q \in [Client -> Nat]
      /\ E \in [Fd -> SUBSET Mask]
      /\ R \in [Client -> Nat]
      /\ B \in [Client -> Seq(Request)]
  BY SMTT(30) DEF ServerState
<1>2. freeClient(s, c) = z
  BY Zenon DEF freeClient, unlinkClient
<1>3. /\ p \in ServerState /\ p.clients_to_close = Q
      /\ p.clients = s.clients /\ p.fd = s.fd /\ p.events = s.events /\ p.flags = s.flags
      /\ p.reply = s.reply /\ p.querybuf = s.querybuf
      /\ p.clients_pending_write = s.clients_pending_write
  <2>1. CASE "CLOSE_ASAP" \in s.flags[c]
    BY <1>1, <2>1, Zenon DEF ServerState
  <2>2. CASE "CLOSE_ASAP" \notin s.flags[c]
    BY <2>2, Zenon DEF ServerState
  <2> QED BY <2>1, <2>2, Zenon
<1> HIDE DEF p, C, Q
<1>4. /\ x \in ServerState /\ x.clients_to_close = Q /\ x.reply = R /\ x.querybuf = B
      /\ x.clients = C /\ x.fd = s.fd /\ x.events = s.events /\ x.flags = s.flags
      /\ x.clients_pending_write = s.clients_pending_write
  BY <1>1, <1>3, Zenon DEF ServerState, C
<1> HIDE DEF x, R, B
<1>5. /\ u \in ServerState /\ u.clients_to_close = Q /\ u.reply = R /\ u.querybuf = B
      /\ u.clients = C /\ u.fd = D /\ u.events = E /\ u.flags = s.flags
      /\ u.clients_pending_write = s.clients_pending_write
  BY <1>1, <1>4, ZenonT(40) DEF connSocketClose, ServerState
<1> HIDE DEF u, D, E
<1>6. /\ z \in ServerState /\ z.clients_to_close = Q /\ z.reply = R /\ z.querybuf = B
      /\ z.clients = C /\ z.fd = D /\ z.events = E /\ z.flags = F
      /\ z.clients_pending_write = W
  <2>1. CASE "PENDING_WRITE" \in s.flags[c]
    BY <1>1, <1>5, <2>1, ZenonT(40) DEF ServerState
  <2>2. CASE "PENDING_WRITE" \notin s.flags[c]
    <3>1. y = u /\ W = s.clients_pending_write
      BY <1>5, <2>2, Zenon DEF ServerState
    <3> HIDE DEF y, W
    <3> QED BY <1>1, <1>5, <3>1, Zenon DEF ServerState
  <2> QED BY <2>1, <2>2, Zenon
<1> HIDE DEF z, F, W
<1>7. QED
  BY <1>2, <1>6, Zenon DEF C, D, E, F, R, B, W, Q

\* aeCreateFileEvent only changes the mask of one descriptor below setsize.
Registered(s, t, f, m) ==
  /\ t \in ServerState
  /\ t.clients = s.clients /\ t.fd = s.fd /\ t.flags = s.flags
  /\ t.reply = s.reply /\ t.querybuf = s.querybuf
  /\ t.clients_pending_write = s.clients_pending_write
  /\ t.clients_to_close = s.clients_to_close
  /\ t.events = [s.events EXCEPT ![f] = IF f < SetSize THEN @ \cup {m} ELSE @]

\* aeCreateFileEvent does this.
LEMMA CreateFileEventEffect ==
  ASSUME NEW s \in ServerState, NEW f \in Fd, NEW m \in Mask
  PROVE  Registered(s, aeCreateFileEvent(s, f, m), f, m)
<1> USE DEF Registered
<1> DEFINE E == [s.events EXCEPT ![f] = @ \cup {m}]
<1>1. CASE f < SetSize
  <2>1. E \in [Fd -> SUBSET Mask]
    BY DEF ServerState
  <2>2. aeCreateFileEvent(s, f, m) = [s EXCEPT !.events = E]
    BY <1>1 DEF aeCreateFileEvent, ServerState
  <2> HIDE DEF E
  <2>3. [s EXCEPT !.events = E] \in ServerState
    BY <2>1, Zenon DEF ServerState
  <2>4. QED
    BY <1>1, <2>2, <2>3, Zenon DEF ServerState, E
<1>2. CASE ~(f < SetSize)
  BY <1>2, Zenon DEF aeCreateFileEvent, ServerState
<1>3. QED
  BY <1>1, <1>2, Zenon

\* createClient links the client and registers its descriptor if it can.
Created(s, t, c, f) ==
  /\ t \in ServerState
  /\ t.clients = s.clients \cup {c}
  /\ t.fd = [s.fd EXCEPT ![c] = f]
  /\ t.flags = [s.flags EXCEPT ![c] = {}]
  /\ t.reply = [s.reply EXCEPT ![c] = 0]
  /\ t.querybuf = [s.querybuf EXCEPT ![c] = << >>]
  /\ t.clients_pending_write = s.clients_pending_write
  /\ t.clients_to_close = s.clients_to_close
  /\ t.events = [s.events EXCEPT ![f] = IF f < SetSize THEN @ \cup {"READABLE"} ELSE @]

\* createClient does this.
LEMMA CreateClientEffect ==
  ASSUME NEW s \in ServerState, NEW c \in Client, NEW f \in Fd
  PROVE  Created(s, createClient(s, c, f), c, f)
<1> USE DEF Created
<1> DEFINE x == [s EXCEPT !.clients = @ \cup {c}, !.fd[c] = f, !.flags[c] = {},
                          !.reply[c] = 0, !.querybuf[c] = << >>]
<1>1. /\ x \in ServerState
      /\ x.clients = s.clients \cup {c}
      /\ x.fd = [s.fd EXCEPT ![c] = f]
      /\ x.flags = [s.flags EXCEPT ![c] = {}]
      /\ x.reply = [s.reply EXCEPT ![c] = 0]
      /\ x.querybuf = [s.querybuf EXCEPT ![c] = << >>]
      /\ x.clients_pending_write = s.clients_pending_write
      /\ x.clients_to_close = s.clients_to_close
      /\ x.events = s.events
  <2> DEFINE D == [s.fd EXCEPT ![c] = f]
             F == [s.flags EXCEPT ![c] = {}]
             R == [s.reply EXCEPT ![c] = 0]
             B == [s.querybuf EXCEPT ![c] = << >>]
  <2>1. /\ D \in [Client -> Fd \cup {NoFd}]
        /\ F \in [Client -> SUBSET Flag]
        /\ R \in [Client -> Nat]
        /\ B \in [Client -> Seq(Request)]
    BY DEF ServerState
  <2>2. x = [s EXCEPT !.clients = @ \cup {c}, !.fd = D, !.flags = F, !.reply = R, !.querybuf = B]
    BY DEF ServerState
  <2> HIDE DEF x, D, F, R, B
  <2>3. x \in ServerState
    BY <2>1, <2>2, Zenon DEF ServerState
  <2>4. QED
    BY <2>2, <2>3, Zenon DEF ServerState, D, F, R, B
<1>2. createClient(s, c, f) = aeCreateFileEvent(x, f, "READABLE")
  BY DEF createClient
<1> HIDE DEF x
<1> DEFINE w == aeCreateFileEvent(x, f, "READABLE")
<1>3. Registered(x, w, f, "READABLE")
  BY <1>1, CreateFileEventEffect, Zenon DEF Mask
<1> HIDE DEF w
<1>4. QED
  BY <1>1, <1>2, <1>3, Zenon DEF w, Registered

\* addReply queues the client when it had no reply waiting, and drops the reply of
\* a client that is being closed.
Replied(s, t, c, n) ==
  LET queued == "CLOSE_ASAP" \notin s.flags[c] /\ s.reply[c] = 0
  IN  /\ t \in ServerState
      /\ t.clients = s.clients /\ t.fd = s.fd /\ t.events = s.events
      /\ t.querybuf = s.querybuf /\ t.clients_to_close = s.clients_to_close
      /\ t.flags = [s.flags EXCEPT ![c] = IF queued THEN @ \cup {"PENDING_WRITE"} ELSE @]
      /\ t.clients_pending_write =
           [s.clients_pending_write EXCEPT ![c] =
              IF queued /\ "PENDING_WRITE" \notin s.flags[c] THEN @ + 1 ELSE @]
      /\ t.reply =
           [s.reply EXCEPT ![c] =
              IF s.flags[c] \cap {"CLOSE_ASAP", "CLOSE_AFTER_REPLY"} = {} THEN @ + n ELSE @]

\* addReply does this.
LEMMA AddReplyEffect ==
  ASSUME NEW s \in ServerState, NEW c \in Client, NEW n \in Nat
  PROVE  Replied(s, addReply(s, c, n), c, n)
<1> USE DEF Replied
<1> DEFINE t == IF s.reply[c] = 0 THEN putClientInPendingWriteQueue(s, c) ELSE s
           queued == "CLOSE_ASAP" \notin s.flags[c] /\ s.reply[c] = 0
           F == [s.flags EXCEPT ![c] = IF s.reply[c] = 0 THEN @ \cup {"PENDING_WRITE"} ELSE @]
           W == [s.clients_pending_write EXCEPT ![c] =
                   IF s.reply[c] = 0 /\ "PENDING_WRITE" \notin s.flags[c] THEN @ + 1 ELSE @]
<1>1. F \in [Client -> SUBSET Flag] /\ W \in [Client -> Nat]
  BY DEF ServerState, Flag
<1>2. /\ t \in ServerState
      /\ t.clients = s.clients /\ t.fd = s.fd /\ t.events = s.events
      /\ t.querybuf = s.querybuf /\ t.clients_to_close = s.clients_to_close
      /\ t.reply = s.reply /\ t.flags = F /\ t.clients_pending_write = W
  <2>1. CASE s.reply[c] = 0 /\ "PENDING_WRITE" \notin s.flags[c]
    BY <1>1, <2>1, Zenon DEF putClientInPendingWriteQueue, ServerState
  <2>2. CASE s.reply[c] # 0 \/ "PENDING_WRITE" \in s.flags[c]
    <3>1. t = s
      BY <2>2 DEF putClientInPendingWriteQueue
    <3>2. F = s.flags /\ W = s.clients_pending_write
      BY <2>2 DEF ServerState
    <3> QED BY <3>1, <3>2, Zenon
  <2> QED BY <2>1, <2>2, Zenon
<1>3. addReply(s, c, n) =
        IF "CLOSE_ASAP" \in s.flags[c] THEN s
        ELSE IF "CLOSE_AFTER_REPLY" \in s.flags[c] THEN t
        ELSE [t EXCEPT !.reply[c] = @ + n]
  BY DEF addReply
<1> HIDE DEF t
<1>4. CASE "CLOSE_ASAP" \in s.flags[c]
  BY <1>3, <1>4, Zenon DEF ServerState
<1>5. CASE "CLOSE_ASAP" \notin s.flags[c] /\ "CLOSE_AFTER_REPLY" \in s.flags[c]
  BY <1>2, <1>3, <1>5 DEF ServerState
<1>6. CASE "CLOSE_ASAP" \notin s.flags[c] /\ "CLOSE_AFTER_REPLY" \notin s.flags[c]
  <2> DEFINE R == [s.reply EXCEPT ![c] = @ + n]
  <2>1. R \in [Client -> Nat]
    BY DEF ServerState
  <2>2. addReply(s, c, n) = [t EXCEPT !.reply = R]
    BY <1>2, <1>3, <1>6, Zenon DEF ServerState
  <2> HIDE DEF R, F, W
  <2>3. /\ [t EXCEPT !.reply = R] \in ServerState
        /\ [t EXCEPT !.reply = R].reply = R
        /\ [t EXCEPT !.reply = R].clients = t.clients
        /\ [t EXCEPT !.reply = R].fd = t.fd
        /\ [t EXCEPT !.reply = R].events = t.events
        /\ [t EXCEPT !.reply = R].querybuf = t.querybuf
        /\ [t EXCEPT !.reply = R].flags = t.flags
        /\ [t EXCEPT !.reply = R].clients_to_close = t.clients_to_close
        /\ [t EXCEPT !.reply = R].clients_pending_write = t.clients_pending_write
    BY <1>2, <2>1, ZenonT(40) DEF ServerState
  <2>4. QED
    BY <1>2, <1>6, <2>2, <2>3 DEF R, F, W
<1>7. QED
  BY <1>4, <1>5, <1>6, Zenon

\* One iteration of handleClientsWithPendingWrites takes the client out of the
\* queue; it is then closed, or has nothing left to send, or waits for the socket.
Written(s, t, c, k, failed) ==
  LET r == IF failed THEN s.reply[c] ELSE s.reply[c] - k
    closed == \/ failed
              \/ r = 0 /\ "CLOSE_AFTER_REPLY" \in s.flags[c]
              \/ r > 0 /\ ~(s.fd[c] < SetSize)
  IN  /\ t \in ServerState
      /\ t.clients = s.clients /\ t.fd = s.fd /\ t.querybuf = s.querybuf
      /\ t.clients_pending_write = [s.clients_pending_write EXCEPT ![c] = @ - 1]
      /\ "CLOSE_ASAP" \in s.flags[c] =>
           /\ t.flags = [s.flags EXCEPT ![c] = @ \ {"PENDING_WRITE"}]
           /\ t.clients_to_close = s.clients_to_close
           /\ t.reply = s.reply
           /\ t.events = s.events
      /\ "CLOSE_ASAP" \notin s.flags[c] =>
           /\ t.reply = [s.reply EXCEPT ![c] = r]
           /\ closed =>
                /\ t.flags = [s.flags EXCEPT ![c] =
                                (@ \ {"PENDING_WRITE"}) \cup {"CLOSE_ASAP"}]
                /\ t.clients_to_close = [s.clients_to_close EXCEPT ![c] = @ + 1]
                /\ t.events = s.events
           /\ ~closed =>
                /\ t.flags = [s.flags EXCEPT ![c] = @ \ {"PENDING_WRITE"}]
                /\ t.clients_to_close = s.clients_to_close
                /\ t.events = IF r = 0 THEN s.events
                              ELSE [s.events EXCEPT ![s.fd[c]] = @ \cup {"WRITABLE"}]

\* handlePendingWrite does this.
LEMMA HandlePendingWriteEffect ==
  ASSUME NEW s \in ServerState, NEW c \in Client, s.fd[c] \in Fd,
         s.clients_pending_write[c] > 0,
         NEW k \in 0..s.reply[c], NEW failed \in BOOLEAN
  PROVE  Written(s, handlePendingWrite(s, c, k, failed), c, k, failed)
<1> USE DEF Written
<1> DEFINE r == IF failed THEN s.reply[c] ELSE s.reply[c] - k
           F == [s.flags EXCEPT ![c] = @ \ {"PENDING_WRITE"}]
           W == [s.clients_pending_write EXCEPT ![c] = @ - 1]
           R == [s.reply EXCEPT ![c] = @ - k]
           t == [s EXCEPT !.flags[c] = @ \ {"PENDING_WRITE"},
                          !.clients_pending_write[c] = @ - 1]
           v == [t EXCEPT !.reply[c] = @ - k]
           u == writeToClient(t, c, k, failed)
<1>1. /\ F \in [Client -> SUBSET Flag] /\ W \in [Client -> Nat] /\ R \in [Client -> Nat]
      /\ ("CLOSE_ASAP" \in F[c]) = ("CLOSE_ASAP" \in s.flags[c])
      /\ ("CLOSE_AFTER_REPLY" \in F[c]) = ("CLOSE_AFTER_REPLY" \in s.flags[c])
      /\ R[c] = s.reply[c] - k
  BY DEF ServerState
<1>2. /\ t \in ServerState /\ t.flags = F /\ t.clients_pending_write = W
      /\ t.clients = s.clients /\ t.fd = s.fd /\ t.querybuf = s.querybuf
      /\ t.events = s.events /\ t.reply = s.reply /\ t.clients_to_close = s.clients_to_close
  <2>1. t = [s EXCEPT !.flags = F, !.clients_pending_write = W]
    BY DEF ServerState
  <2> HIDE DEF t, F, W
  <2> QED BY <1>1, <2>1, Zenon DEF ServerState
<1> HIDE DEF t, F, W
<1>3. /\ v \in ServerState /\ v.flags = F /\ v.clients_pending_write = W
      /\ v.clients = s.clients /\ v.fd = s.fd /\ v.querybuf = s.querybuf
      /\ v.events = s.events /\ v.reply = R /\ v.clients_to_close = s.clients_to_close
  <2>1. v = [t EXCEPT !.reply = R]
    BY <1>2, Zenon DEF ServerState
  <2> HIDE DEF v, R
  <2> QED BY <1>1, <1>2, <2>1, Zenon DEF ServerState
<1>4. u = IF failed THEN freeClientAsync(t, c)
          ELSE IF v.reply[c] = 0 /\ "CLOSE_AFTER_REPLY" \in v.flags[c] THEN freeClientAsync(v, c)
          ELSE v
  BY DEF writeToClient
<1>5. handlePendingWrite(s, c, k, failed) =
        IF "CLOSE_ASAP" \in t.flags[c] THEN t
        ELSE IF "CLOSE_ASAP" \notin u.flags[c] /\ u.reply[c] > 0
             THEN installClientWriteHandler(u, c)
        ELSE u
  BY SMTT(30) DEF handlePendingWrite, t
<1> HIDE DEF u, v
<1>6. CASE "CLOSE_ASAP" \in s.flags[c]
  BY <1>1, <1>2, <1>5, <1>6, Zenon DEF F, W
<1>7. CASE "CLOSE_ASAP" \notin s.flags[c] /\ failed
  <2> DEFINE w == freeClientAsync(t, c)
  <2>1. AsyncFreed(t, w, c)
    BY <1>2, FreeClientAsyncEffect, Zenon
  <2> HIDE DEF w
  <2>2. "CLOSE_ASAP" \in w.flags[c] /\ [s.reply EXCEPT ![c] = r] = s.reply
    BY <1>1, <1>2, <1>7, <2>1, SMTT(30) DEF ServerState, AsyncFreed
  <2>3. handlePendingWrite(s, c, k, failed) = w
    BY <1>1, <1>2, <1>4, <1>5, <1>7, <2>2, Zenon DEF w
  <2>4. QED
    BY <1>1, <1>2, <1>7, <2>1, <2>2, <2>3 DEF F, W, ServerState, AsyncFreed
<1>8. CASE "CLOSE_ASAP" \notin s.flags[c] /\ ~failed /\ R[c] = 0 /\ "CLOSE_AFTER_REPLY" \in s.flags[c]
  <2> DEFINE w == freeClientAsync(v, c)
  <2>1. AsyncFreed(v, w, c)
    BY <1>3, FreeClientAsyncEffect, Zenon
  <2> HIDE DEF w
  <2>2. "CLOSE_ASAP" \in w.flags[c]
    BY <1>1, <1>3, <2>1, SMTT(30) DEF AsyncFreed
  <2>3. handlePendingWrite(s, c, k, failed) = w
    BY <1>1, <1>2, <1>3, <1>4, <1>5, <1>8, <2>2, Zenon DEF w
  <2>4. QED
    BY <1>1, <1>3, <1>8, <2>1, <2>3 DEF F, W, ServerState, AsyncFreed
<1>9. CASE "CLOSE_ASAP" \notin s.flags[c] /\ ~failed /\ ~(R[c] = 0 /\ "CLOSE_AFTER_REPLY" \in s.flags[c])
  <2>1. u = v
    BY <1>1, <1>3, <1>4, <1>9, Zenon
  <2>2. CASE R[c] = 0
    <3>1. handlePendingWrite(s, c, k, failed) = v
      BY <1>1, <1>2, <1>3, <1>5, <1>9, <2>1, <2>2, SMTT(30)
    <3> QED BY <1>1, <1>3, <1>9, <2>2, <3>1 DEF F, W
  <2>3. CASE R[c] > 0
    <3>1. handlePendingWrite(s, c, k, failed) = installClientWriteHandler(v, c)
      BY <1>1, <1>2, <1>3, <1>5, <1>9, <2>1, <2>3, Zenon
    <3>2. CASE s.fd[c] < SetSize
      <4>1. installClientWriteHandler(v, c) = aeCreateFileEvent(v, s.fd[c], "WRITABLE")
        BY <1>3, <3>2, Zenon DEF installClientWriteHandler
      <4> DEFINE w == aeCreateFileEvent(v, s.fd[c], "WRITABLE")
      <4>2. Registered(v, w, s.fd[c], "WRITABLE")
        BY <1>3, CreateFileEventEffect, Zenon DEF Mask
      <4> HIDE DEF w
      <4>3. handlePendingWrite(s, c, k, failed) = w
        BY <3>1, <4>1, Zenon DEF w
      <4> QED BY <1>1, <1>3, <1>9, <2>3, <3>2, <4>2, <4>3 DEF F, W, Registered
    <3>3. CASE ~(s.fd[c] < SetSize)
      <4>1. installClientWriteHandler(v, c) = freeClientAsync(v, c)
        BY <1>3, <3>3, Zenon DEF installClientWriteHandler
      <4> DEFINE w == freeClientAsync(v, c)
      <4>2. AsyncFreed(v, w, c)
        BY <1>3, FreeClientAsyncEffect, Zenon
      <4> HIDE DEF w
      <4>3. handlePendingWrite(s, c, k, failed) = w
        BY <3>1, <4>1, Zenon DEF w
      <4> QED BY <1>1, <1>3, <1>9, <2>3, <3>3, <4>2, <4>3, SMTT(30) DEF F, W, ServerState, AsyncFreed
    <3>4. QED BY <3>2, <3>3, Zenon
  <2>4. R[c] \in Nat
    BY <1>1, Zenon
  <2>5. QED BY <2>2, <2>3, <2>4
<1>10. QED
  BY <1>6, <1>7, <1>8, <1>9, Zenon

-----------------------------------------------------------------------------
(* The invariant of the server's state                                     *)

\* Each queue holds a client as often as its flag says.
Queues(s) ==
  \A c \in Client :
    /\ s.clients_pending_write[c] = IF "PENDING_WRITE" \in s.flags[c] THEN 1 ELSE 0
    /\ s.clients_to_close[c] = IF "CLOSE_ASAP" \in s.flags[c] THEN 1 ELSE 0

\* A client outside the list of clients has neither flags nor a descriptor.
Unlinked(s) == \A c \in Client \ s.clients : s.flags[c] = {} /\ s.fd[c] = NoFd

\* The clients of the list have a descriptor each.
Distinct(s) ==
  /\ \A c \in s.clients : s.fd[c] \in Fd
  /\ \A c, d \in s.clients : s.fd[c] = s.fd[d] => c = d

\* Only descriptors of clients are registered.
Owned(s) == \A f \in Fd : s.events[f] # {} => \E c \in s.clients : s.fd[c] = f

\* ReplyScheduled of a state.
Scheduled(s) ==
  \A c \in s.clients : s.reply[c] > 0 =>
    \/ "PENDING_WRITE" \in s.flags[c]
    \/ "CLOSE_ASAP" \in s.flags[c]
    \/ "WRITABLE" \in s.events[s.fd[c]]

ServerOK(s) ==
  /\ s \in ServerState
  /\ Queues(s) /\ Unlinked(s) /\ Distinct(s) /\ Owned(s) /\ Scheduled(s)

-----------------------------------------------------------------------------
(* The handlers preserve the invariant of the server's state               *)

\* Scheduling a client to be freed keeps the server's invariant.
LEMMA FreeClientAsyncOK ==
  ASSUME NEW s, ServerOK(s), NEW c \in s.clients
  PROVE  ServerOK(freeClientAsync(s, c))
<1> DEFINE t == freeClientAsync(s, c)
<1>0. s \in ServerState /\ c \in Client
  BY Zenon DEF ServerOK, ServerState
<1>1. AsyncFreed(s, t, c)
  BY <1>0, FreeClientAsyncEffect, SMTT(30)
<1> HIDE DEF t
<1> USE DEF AsyncFreed
<1>2. Queues(t)
  BY <1>0, <1>1, SMTT(30) DEF ServerOK, Queues, ServerState
<1>3. Unlinked(t) /\ Distinct(t) /\ Owned(t)
  <2>1. Unlinked(t)
    BY <1>0, <1>1, Zenon DEF ServerOK, Unlinked, ServerState
  <2>2. Distinct(t)
    BY <1>1, Zenon DEF ServerOK, Distinct
  <2>3. Owned(t)
    BY <1>1, SMTT(30) DEF ServerOK, Owned
  <2> QED BY <2>1, <2>2, <2>3
<1>4. Scheduled(t)
  BY <1>0, <1>1, SMTT(30) DEF ServerOK, Scheduled, ServerState
<1>5. QED
  BY <1>1, <1>2, <1>3, <1>4, Zenon DEF ServerOK, t

\* Freeing a client keeps the server's invariant: nothing refers to it any more.
LEMMA FreedOK ==
  ASSUME NEW s, ServerOK(s), NEW c \in s.clients, NEW t, Freed(s, t, c)
  PROVE  ServerOK(t)
<1> USE DEF Freed
<1>0. s \in ServerState /\ c \in Client
  BY Zenon DEF ServerOK, ServerState
<1>2. t \in ServerState
  BY Zenon
<1>3. Queues(t)
  BY <1>0, SMTT(30) DEF ServerOK, Queues, ServerState
<1>4. Unlinked(t) /\ Distinct(t)
  BY <1>0, SMTT(30) DEF ServerOK, Unlinked, Distinct, ServerState
<1>5. Owned(t)
  <2> SUFFICES ASSUME NEW f \in Fd, t.events[f] # {}
               PROVE  \E d \in t.clients : t.fd[d] = f
    BY Zenon DEF Owned
  <2>1. f # s.fd[c] /\ s.events[f] # {}
    OBVIOUS
  <2>2. PICK d \in s.clients : s.fd[d] = f
    BY <2>1, Zenon DEF ServerOK, Owned
  <2>3. d \in t.clients /\ t.fd[d] = f
    BY <1>0, <2>1, <2>2, Zenon DEF ServerState
  <2> QED BY <2>3, Zenon
<1>6. Scheduled(t)
  BY <1>0, SMTT(30) DEF ServerOK, Scheduled, Distinct, ServerState
<1>7. QED
  BY <1>2, <1>3, <1>4, <1>5, <1>6, Zenon DEF ServerOK

\* Linking a new client on a free descriptor keeps the server's invariant.
LEMMA CreateClientOK ==
  ASSUME NEW s, ServerOK(s), NEW c \in Client \ s.clients,
         NEW f \in Fd, \A d \in Client : s.fd[d] # f
  PROVE  ServerOK(createClient(s, c, f))
<1> DEFINE t == createClient(s, c, f)
<1>0. s \in ServerState /\ c \in Client
  BY DEF ServerOK
<1>1. Created(s, t, c, f)
  BY <1>0, CreateClientEffect, Zenon
<1> HIDE DEF t
<1> USE DEF Created
<1>2. s.flags[c] = {} /\ s.fd \in [Client -> Fd \cup {NoFd}] /\ s.clients \subseteq Client
  BY <1>0, Zenon DEF ServerOK, Unlinked, ServerState
<1>3. Queues(t)
  BY <1>0, <1>1, <1>2, SMTT(30) DEF ServerOK, Queues, ServerState
<1>4. Unlinked(t)
  BY <1>0, <1>1 DEF ServerOK, Unlinked, ServerState
<1>5. Distinct(t)
  <2>1. \A d \in s.clients : t.fd[d] = s.fd[d] /\ s.fd[d] \in Fd /\ s.fd[d] # f /\ d # c
    BY <1>1, <1>2, Zenon DEF ServerOK, Distinct
  <2>2. t.fd[c] = f
    BY <1>1, <1>2, Zenon
  <2>3. \A d \in t.clients : d \in s.clients \/ d = c
    BY <1>1, Zenon
  <2>4. \A d, e \in s.clients : s.fd[d] = s.fd[e] => d = e
    BY Zenon DEF ServerOK, Distinct
  <2> QED BY <2>1, <2>2, <2>3, <2>4, Zenon DEF Distinct
<1>6. Owned(t)
  <2> SUFFICES ASSUME NEW g \in Fd, t.events[g] # {}
               PROVE  \E d \in t.clients : t.fd[d] = g
    BY DEF Owned
  <2>1. CASE g = f
    BY <1>1, <1>2, <2>1
  <2>2. CASE g # f
    <3>1. s.events[g] # {}
      BY <1>0, <1>1, <2>2 DEF ServerState
    <3>2. PICK d \in s.clients : s.fd[d] = g
      BY <3>1, Zenon DEF ServerOK, Owned
    <3>3. d \in t.clients /\ t.fd[d] = g
      BY <1>1, <1>2, <3>2, Zenon
    <3> QED BY <3>3, Zenon
  <2> QED BY <2>1, <2>2, Zenon
<1>7. Scheduled(t)
  BY <1>0, <1>1, <1>2, SMTT(30) DEF ServerOK, Scheduled, Distinct, ServerState
<1>8. QED
  BY <1>1, <1>3, <1>4, <1>5, <1>6, <1>7, Zenon DEF ServerOK, t

\* Adding a reply keeps the server's invariant: the first bytes of an empty output
\* buffer queue the client, later ones find it queued or waiting for the socket.
LEMMA AddReplyOK ==
  ASSUME NEW s, ServerOK(s), NEW c \in s.clients, NEW n \in Nat
  PROVE  ServerOK(addReply(s, c, n))
<1> DEFINE t == addReply(s, c, n)
           queued == "CLOSE_ASAP" \notin s.flags[c] /\ s.reply[c] = 0
<1>0. s \in ServerState /\ c \in Client
  BY Zenon DEF ServerOK, ServerState
<1>1. Replied(s, t, c, n)
  BY <1>0, AddReplyEffect, SMTT(30)
<1> HIDE DEF t
<1> USE DEF Replied
<1>2. Queues(t)
  BY <1>0, <1>1, SMTT(30) DEF ServerOK, Queues, ServerState
<1>3. Unlinked(t)
  BY <1>0, <1>1, SMTT(30) DEF ServerOK, Unlinked, ServerState
<1>4. Distinct(t)
  BY <1>1, Zenon DEF ServerOK, Distinct
<1>5. Owned(t)
  BY <1>1, SMTT(30) DEF ServerOK, Owned
<1>6. Scheduled(t)
  BY <1>0, <1>1, SMTT(30) DEF ServerOK, Scheduled, ServerState
<1>7. QED
  BY <1>1, <1>2, <1>3, <1>4, <1>5, <1>6, Zenon DEF ServerOK, t

\* One iteration of handleClientsWithPendingWrites keeps the server's invariant:
\* what is left of the reply is handed to the write handler.
LEMMA HandlePendingWriteOK ==
  ASSUME NEW s, ServerOK(s), NEW c \in s.clients, "PENDING_WRITE" \in s.flags[c],
         NEW k \in 0..s.reply[c], NEW failed \in BOOLEAN
  PROVE  ServerOK(handlePendingWrite(s, c, k, failed))
<1> DEFINE t == handlePendingWrite(s, c, k, failed)
           r == IF failed THEN s.reply[c] ELSE s.reply[c] - k
<1>0. /\ s \in ServerState /\ c \in Client /\ s.fd[c] \in Fd
      /\ s.clients_pending_write[c] = 1 /\ s.clients_pending_write[c] > 0
  BY DEF ServerOK, ServerState, Distinct, Queues
<1>1. Written(s, t, c, k, failed)
  BY <1>0, HandlePendingWriteEffect, Zenon
<1> HIDE DEF t
<1> USE DEF Written
<1>2. Queues(t)
  <2>1. \/ /\ t.flags = [s.flags EXCEPT ![c] = @ \ {"PENDING_WRITE"}]
           /\ t.clients_to_close = s.clients_to_close
        \/ /\ "CLOSE_ASAP" \notin s.flags[c]
           /\ t.flags = [s.flags EXCEPT ![c] = (@ \ {"PENDING_WRITE"}) \cup {"CLOSE_ASAP"}]
           /\ t.clients_to_close = [s.clients_to_close EXCEPT ![c] = @ + 1]
    BY <1>1, Zenon
  <2>2. t.clients_pending_write = [s.clients_pending_write EXCEPT ![c] = @ - 1]
    BY <1>1, Zenon
  <2> HIDE DEF Written
  <2>3. /\ s.flags \in [Client -> SUBSET Flag]
        /\ s.clients_pending_write \in [Client -> Nat]
        /\ s.clients_to_close \in [Client -> Nat]
    BY <1>0, Zenon DEF ServerState
  <2> SUFFICES ASSUME NEW d \in Client
               PROVE  /\ t.clients_pending_write[d] = IF "PENDING_WRITE" \in t.flags[d] THEN 1 ELSE 0
                      /\ t.clients_to_close[d] = IF "CLOSE_ASAP" \in t.flags[d] THEN 1 ELSE 0
    BY DEF Queues
  <2>4. /\ s.clients_pending_write[d] = IF "PENDING_WRITE" \in s.flags[d] THEN 1 ELSE 0
        /\ s.clients_to_close[d] = IF "CLOSE_ASAP" \in s.flags[d] THEN 1 ELSE 0
    BY SMTT(30) DEF ServerOK, Queues
  <2> QED BY <1>0, <2>1, <2>2, <2>3, <2>4, SMTT(30)
<1>3. Unlinked(t)
  <2>1. \A d \in Client \ {c} : t.flags[d] = s.flags[d]
    BY <1>0, <1>1, ZenonT(40) DEF ServerState
  <2>2. t.clients = s.clients /\ t.fd = s.fd
    BY <1>1, Zenon
  <2> QED BY <2>1, <2>2, Zenon DEF ServerOK, Unlinked
<1>4. Distinct(t)
  BY <1>1, Zenon DEF ServerOK, Distinct
<1>5. Owned(t)
  <2>1. \A f \in Fd : t.events[f] # {} => f = s.fd[c] \/ s.events[f] # {}
    BY <1>0, <1>1, SMTT(30) DEF ServerState
  <2> QED BY <1>1, <2>1 DEF ServerOK, Owned
<1>6. Scheduled(t)
  <2>0. r \in Nat
    BY <1>0 DEF ServerState
  <2> HIDE DEF r
  <2>1. SUFFICES ASSUME NEW d \in t.clients, t.reply[d] > 0,
                        "PENDING_WRITE" \notin t.flags[d], "CLOSE_ASAP" \notin t.flags[d]
                 PROVE  "WRITABLE" \in t.events[t.fd[d]]
    BY SMTT(30) DEF Scheduled
  <2>2. CASE d = c
    BY <1>0, <1>1, <2>0, <2>1, <2>2, SMTT(30) DEF ServerState
  <2>3. CASE d # c
    <3>1. d \in s.clients /\ d \in Client /\ s.reply[d] > 0 /\ t.flags[d] = s.flags[d]
      BY <1>0, <1>1, <2>1, <2>3, Zenon DEF ServerState
    <3>2. "WRITABLE" \in s.events[s.fd[d]]
      BY <2>1, <3>1, Zenon DEF ServerOK, Scheduled
    <3>3. s.fd[d] \in Fd
      BY <3>1, Zenon DEF ServerOK, Distinct
    <3>4. t.fd = s.fd
      BY <1>1, Zenon
    <3>5. CASE t.events = s.events
      BY <3>2, <3>4, <3>5, Zenon
    <3>6. CASE t.events = [s.events EXCEPT ![s.fd[c]] = @ \cup {"WRITABLE"}]
      BY <1>0, <3>2, <3>3, <3>4, <3>6, SMTT(30) DEF ServerState
    <3>7. t.events = s.events \/ t.events = [s.events EXCEPT ![s.fd[c]] = @ \cup {"WRITABLE"}]
      BY <1>1, Zenon
    <3> QED BY <3>5, <3>6, <3>7, Zenon
  <2> QED BY <2>2, <2>3, Zenon
<1>7. QED
  BY <1>1, <1>2, <1>3, <1>4, <1>5, <1>6, Zenon DEF ServerOK, t

\* What is in the query buffer is no concern of the server's invariant.
LEMMA QuerybufOK ==
  ASSUME NEW s, ServerOK(s), NEW q \in [Client -> Seq(Request)]
  PROVE  ServerOK([s EXCEPT !.querybuf = q])
<1> DEFINE t == [s EXCEPT !.querybuf = q]
<1>1. /\ t \in ServerState
      /\ t.clients = s.clients /\ t.fd = s.fd /\ t.events = s.events /\ t.flags = s.flags
      /\ t.reply = s.reply /\ t.clients_pending_write = s.clients_pending_write
      /\ t.clients_to_close = s.clients_to_close
  BY ZenonT(40) DEF ServerOK, ServerState
<1> HIDE DEF t
<1>2. Queues(t) /\ Unlinked(t)
  BY <1>1 DEF ServerOK, Queues, Unlinked
<1>3. Distinct(t)
  BY <1>1, Zenon DEF ServerOK, Distinct
<1>4. Owned(t)
  BY <1>1 DEF ServerOK, Owned
<1>5. Scheduled(t)
  BY <1>1, Zenon DEF ServerOK, Scheduled
<1>6. QED
  BY <1>1, <1>2, <1>3, <1>4, <1>5, Zenon DEF ServerOK, t

\* setProtocolError only adds a flag that no queue depends on.
LEMMA SetProtocolErrorOK ==
  ASSUME NEW s, ServerOK(s), NEW c \in s.clients
  PROVE  ServerOK(setProtocolError(s, c))
<1> DEFINE F == [s.flags EXCEPT ![c] = @ \cup {"CLOSE_AFTER_REPLY"}]
           t == [s EXCEPT !.flags = F]
<1>0. s \in ServerState /\ c \in Client
  BY Zenon DEF ServerOK, ServerState
<1>1. setProtocolError(s, c) = t /\ F \in [Client -> SUBSET Flag]
  BY <1>0, Zenon DEF setProtocolError, ServerState, Flag
<1> HIDE DEF F
<1>2. /\ t \in ServerState
      /\ t.clients = s.clients /\ t.fd = s.fd /\ t.events = s.events /\ t.flags = F
      /\ t.reply = s.reply /\ t.clients_pending_write = s.clients_pending_write
      /\ t.clients_to_close = s.clients_to_close
  BY <1>0, <1>1, Zenon DEF ServerState
<1> HIDE DEF t
<1> USE DEF F
<1>3. Queues(t)
  BY <1>0, <1>2, SMTT(30) DEF ServerOK, Queues, ServerState
<1>4. Unlinked(t)
  BY <1>0, <1>2, Zenon DEF ServerOK, Unlinked, ServerState
<1>5. Distinct(t)
  BY <1>2, Zenon DEF ServerOK, Distinct
<1>6. Owned(t)
  BY <1>2, SMTT(30) DEF ServerOK, Owned
<1>7. Scheduled(t)
  BY <1>0, <1>2, SMTT(30) DEF ServerOK, Scheduled, ServerState
<1>8. QED
  BY <1>1, <1>2, <1>3, <1>4, <1>5, <1>6, <1>7, Zenon DEF ServerOK, t

\* freeClient called on a linked client.
LEMMA FreeClientOK ==
  ASSUME NEW s, ServerOK(s), NEW c \in s.clients
  PROVE  Freed(s, freeClient(s, c), c)
<1>1. s \in ServerState /\ c \in Client
  BY Zenon DEF ServerOK, ServerState
<1>2. /\ "PENDING_WRITE" \in s.flags[c] => s.clients_pending_write[c] > 0
      /\ "CLOSE_ASAP" \in s.flags[c] => s.clients_to_close[c] > 0
  BY <1>1 DEF ServerOK, Queues
<1>3. QED
  BY <1>1, <1>2, FreeClientEffect, Zenon

\* freeClientsInAsyncFreeQueue clears CLIENT_CLOSE_ASAP, frees the client and deletes
\* the node itself: the outcome is that of freeClient.
LEMMA FreeQueuedOK ==
  ASSUME NEW s, ServerOK(s), NEW c \in s.clients, "CLOSE_ASAP" \in s.flags[c]
  PROVE  Freed(s, [freeClient([s EXCEPT !.flags[c] = @ \ {"CLOSE_ASAP"}], c)
                     EXCEPT !.clients_to_close[c] = @ - 1], c)
<1> DEFINE F == [s.flags EXCEPT ![c] = @ \ {"CLOSE_ASAP"}]
           u == [s EXCEPT !.flags = F]
           w == freeClient(u, c)
           Q == [s.clients_to_close EXCEPT ![c] = @ - 1]
           t == [w EXCEPT !.clients_to_close = Q]
<1>1. s \in ServerState /\ c \in Client /\ s.clients_to_close[c] = 1
  BY Zenon DEF ServerOK, ServerState, Queues
<1>2. /\ F \in [Client -> SUBSET Flag] /\ Q \in [Client -> Nat]
      /\ [s EXCEPT !.flags[c] = @ \ {"CLOSE_ASAP"}] = u
  BY <1>1, SMTT(30) DEF ServerState
<1>3. /\ "CLOSE_ASAP" \notin F[c]
      /\ ("PENDING_WRITE" \in F[c]) = ("PENDING_WRITE" \in s.flags[c])
      /\ [F EXCEPT ![c] = {}] = [s.flags EXCEPT ![c] = {}]
  <2>1. s.flags \in [Client -> SUBSET Flag]
    BY <1>1, Zenon DEF ServerState
  <2>2. F[c] = s.flags[c] \ {"CLOSE_ASAP"}
    BY <1>1, <2>1, Zenon
  <2>3. [F EXCEPT ![c] = {}] = [s.flags EXCEPT ![c] = {}]
    BY <1>1, <2>1, Zenon
  <2> QED BY <2>2, <2>3
<1> HIDE DEF F
<1>4. /\ u \in ServerState /\ u.flags = F
      /\ u.clients = s.clients /\ u.fd = s.fd /\ u.events = s.events /\ u.reply = s.reply
      /\ u.querybuf = s.querybuf /\ u.clients_pending_write = s.clients_pending_write
      /\ u.clients_to_close = s.clients_to_close
  BY <1>1, <1>2, Zenon DEF ServerState
<1>5. "PENDING_WRITE" \in u.flags[c] => u.clients_pending_write[c] > 0
  BY <1>1, <1>3, <1>4, SMTT(30) DEF ServerOK, Queues
<1> HIDE DEF u
<1>6. Freed(u, w, c)
  BY <1>1, <1>3, <1>4, <1>5, FreeClientEffect, Zenon
<1> HIDE DEF w
<1>7. w \in ServerState /\ w.clients_to_close = s.clients_to_close
  <2>1. [s.clients_to_close EXCEPT ![c] = @] = s.clients_to_close
    BY <1>1, Zenon DEF ServerState
  <2> QED BY <1>3, <1>4, <1>6, <2>1 DEF Freed
<1>8. [w EXCEPT !.clients_to_close[c] = @ - 1] = t
  BY <1>7 DEF ServerState
<1> HIDE DEF Q
<1>9. /\ t \in ServerState /\ t.clients_to_close = Q
      /\ t.clients = w.clients /\ t.fd = w.fd /\ t.events = w.events /\ t.reply = w.reply
      /\ t.flags = w.flags
      /\ t.querybuf = w.querybuf /\ t.clients_pending_write = w.clients_pending_write
  BY <1>2, <1>7, ZenonT(40) DEF ServerState
<1> HIDE DEF t
<1>10. Freed(s, t, c)
  BY <1>3, <1>4, <1>6, <1>9, SMTT(30) DEF Freed, Q
<1>11. QED
  BY <1>2, <1>8, <1>10, ZenonT(40) DEF w

\* A handler that runs for client c leaves the list of clients, the descriptors
\* and the buffers of the others alone.
Touches(s, t, c) ==
  /\ t.clients = s.clients
  /\ t.fd = s.fd
  /\ \A d \in Client \ {c} : t.reply[d] = s.reply[d] /\ t.querybuf[d] = s.querybuf[d]

\* One iteration of processInputBuffer keeps the server's invariant.
LEMMA ProcessRequestOK ==
  ASSUME NEW s, ServerOK(s), NEW c \in s.clients, NEW r \in Request, NEW n \in Nat
  PROVE  LET t == processRequest(s, c, r, n)
         IN  ServerOK(t) /\ Touches(s, t, c)
<1>0. s \in ServerState /\ c \in Client
  BY Zenon DEF ServerOK, ServerState
<1> DEFINE u == addReply(s, c, n)
<1>1. ServerOK(u) /\ Replied(s, u, c, n)
  BY <1>0, AddReplyOK, AddReplyEffect, Zenon
<1> HIDE DEF u
<1>2. Touches(s, u, c)
  BY <1>0, <1>1 DEF Replied, Touches, ServerState
<1>3. CASE r = "command"
  BY <1>1, <1>2, <1>3, Zenon DEF processRequest, u
<1>4. CASE r = "empty"
  BY <1>4, SMTT(30) DEF processRequest, Touches
<1>5. CASE r = "post"
  <2> DEFINE w == freeClientAsync(s, c)
  <2>1. ServerOK(w) /\ AsyncFreed(s, w, c)
    BY <1>0, FreeClientAsyncOK, FreeClientAsyncEffect, Zenon
  <2>2. processRequest(s, c, r, n) = w
    BY <1>5 DEF processRequest
  <2> HIDE DEF w
  <2> QED BY <2>1, <2>2, Zenon DEF AsyncFreed, Touches
<1>6. CASE r = "malformed"
  <2> DEFINE w == setProtocolError(u, c)
  <2>1. c \in u.clients
    BY <1>2 DEF Touches
  <2>2. ServerOK(w)
    BY <1>1, <2>1, SetProtocolErrorOK, Zenon
  <2>3. Touches(s, w, c)
    <3>1. u \in ServerState
      BY <1>1 DEF ServerOK
    <3>2. w.clients = u.clients /\ w.fd = u.fd /\ w.reply = u.reply /\ w.querybuf = u.querybuf
      BY <3>1 DEF setProtocolError, ServerState
    <3> HIDE DEF w
    <3> QED BY <1>2, <3>2, Zenon DEF Touches
  <2>4. processRequest(s, c, r, n) = w
    BY <1>6 DEF processRequest, u
  <2> HIDE DEF w
  <2> QED BY <2>2, <2>3, <2>4, Zenon
<1>7. QED
  BY <1>3, <1>4, <1>5, <1>6, Zenon DEF Request

-----------------------------------------------------------------------------
(* The inductive invariant                                                 *)

\* What beforeSleep has done by the time the loop sleeps, and what an iteration
\* has left of the events that fired.
LoopOK ==
  /\ stage \in {"frees", "poll"} => PendingWrites = {}
  /\ stage = "poll" => PendingFrees = {}
  /\ stage \in {"writes", "frees", "poll"} => \A f \in Fd : fired[f] = {}

\* The client being read is linked, and its own event is no longer pending.
ReadingOK ==
  reading # None => /\ stage = "events"
                    /\ reading \in server.clients
                    /\ fired[server.fd[reading]] = {}

\* A connection is unborn, or waits in the backlog, or is (or was) a client.
BacklogOK ==
  /\ backlog \cap server.clients = {}
  /\ \A c \in Client : peer[c] = "idle" => c \notin backlog \cup server.clients

IInv ==
  /\ TypeOK
  /\ ServerOK(server)
  /\ LoopOK
  /\ ReadingOK
  /\ BacklogOK
  /\ NoStaleEvent

-----------------------------------------------------------------------------
(* Every step preserves the invariant                                      *)

\* beforeSleep, first half.
LEMMA HandlePendingWriteStep ==
  ASSUME IInv, NEW c \in Client, HandlePendingWrite(c)
  PROVE  IInv'
<1>1. PICK failed \in {FALSE, peer[c] = "closed"}, k \in Accepted(c) :
         /\ server' = handlePendingWrite(server, c, k, failed)
         /\ sndbuf' = [sndbuf EXCEPT ![c] = IF @ + k < SndBuf THEN @ + k ELSE SndBuf]
  BY Zenon DEF HandlePendingWrite
<1>2. /\ server \in ServerState /\ sndbuf \in [Client -> Nat] /\ SndBuf \in Nat
      /\ ServerOK(server) /\ server.clients_pending_write[c] > 0
  BY ClientIOAssumption, Zenon DEF IInv, TypeOK, HandlePendingWrite, PendingWrites
<1>3. failed \in BOOLEAN /\ k \in 0..server.reply[c] /\ k \in Nat
  <2>1. (peer[c] = "closed") \in BOOLEAN
    OBVIOUS
  <2>2. failed \in BOOLEAN
    BY <2>1, Zenon
  <2>3. k \in 0..server.reply[c] /\ server.reply[c] \in Nat
    BY <1>2, Zenon DEF Accepted, ServerState
  <2> QED BY <2>2, <2>3
<1>4. "PENDING_WRITE" \in server.flags[c] /\ c \in server.clients
  BY <1>2 DEF ServerOK, Queues, Unlinked
<1>5. ServerOK(server')
  BY <1>1, <1>2, <1>3, <1>4, HandlePendingWriteOK, Zenon
<1>6. server'.clients = server.clients /\ server'.fd = server.fd
  <2>1. server.fd[c] \in Fd
    BY <1>2, <1>4, Zenon DEF ServerOK, Distinct
  <2>2. Written(server, server', c, k, failed)
    BY <1>1, <1>2, <1>3, <2>1, HandlePendingWriteEffect, Zenon
  <2> QED BY <2>2, Zenon DEF Written
<1>7. stage = "writes" /\ UNCHANGED <<loop, peer, backlog, inbox, sent>>
  BY Zenon DEF HandlePendingWrite
<1>8. sndbuf' \in [Client -> Nat]
  BY <1>1, <1>2, <1>3
<1>9. TypeOK'
  BY <1>5, <1>7, <1>8, Zenon DEF IInv, TypeOK, ServerOK, loop
<1>10. LoopOK'
  BY <1>7, Zenon DEF IInv, LoopOK, loop
<1>11. ReadingOK'
  BY <1>6, <1>7, Zenon DEF IInv, ReadingOK, loop
<1>12. BacklogOK'
  BY <1>6, <1>7, Zenon DEF IInv, BacklogOK
<1>13. NoStaleEvent'
  BY <1>6, <1>7, Zenon DEF IInv, NoStaleEvent, loop
<1>14. QED
  BY <1>5, <1>9, <1>10, <1>11, <1>12, <1>13, Zenon DEF IInv

\* beforeSleep, second half.
LEMMA FreeQueuedClientStep ==
  ASSUME IInv, NEW c \in Client, FreeQueuedClient(c)
  PROVE  IInv'
<1>1. /\ server \in ServerState /\ ServerOK(server) /\ server.clients_to_close[c] > 0
      /\ stage = "frees" /\ UNCHANGED <<loop, env>>
  BY Zenon DEF IInv, TypeOK, FreeQueuedClient, PendingFrees
<1>2. "CLOSE_ASAP" \in server.flags[c] /\ c \in server.clients
  BY <1>1 DEF ServerOK, Queues, Unlinked
<1>3. Freed(server, server', c)
  BY <1>1, <1>2, FreeQueuedOK, Zenon DEF FreeQueuedClient
<1>4. ServerOK(server')
  BY <1>1, <1>2, <1>3, FreedOK, Zenon
<1>5. TypeOK'
  BY <1>1, <1>4, Zenon DEF IInv, TypeOK, ServerOK, loop, env
<1>6. LoopOK'
  <2>1. PendingWrites = {} /\ \A f \in Fd : fired[f] = {}
    BY <1>1 DEF IInv, LoopOK
  <2>2. "PENDING_WRITE" \notin server.flags[c]
    BY <1>1, <2>1 DEF ServerOK, Queues, PendingWrites
  <2>3. server'.clients_pending_write = server.clients_pending_write
    BY <1>1, <1>3, <2>2 DEF Freed, ServerState
  <2> QED BY <1>1, <2>1, <2>3, Zenon DEF LoopOK, PendingWrites, loop
<1>7. ReadingOK'
  BY <1>1 DEF IInv, ReadingOK, loop
<1>8. BacklogOK'
  BY <1>1, <1>3, Zenon DEF IInv, BacklogOK, Freed, env
<1>9. NoStaleEvent'
  BY <1>1, Zenon DEF IInv, LoopOK, NoStaleEvent, loop
<1>10. QED
  BY <1>4, <1>5, <1>6, <1>7, <1>8, <1>9, Zenon DEF IInv

\* The loop moves on without a change of the server's state.
LEMMA LoopStep ==
  ASSUME IInv, EndPendingWrites \/ EndFrees \/ EndAccept \/ EndEvents
  PROVE  IInv'
<1>1. EndPendingWrites \/ EndFrees \/ EndAccept \/ EndEvents
  OBVIOUS
<1>2. TypeOK' /\ UNCHANGED <<server, fired, polled, reading, peer, backlog>>
  BY <1>1, Zenon DEF IInv, TypeOK, EndPendingWrites, EndFrees, EndAccept, EndEvents, env
<1>3. LoopOK'
  BY <1>1, <1>2, Zenon DEF IInv, LoopOK, EndPendingWrites, EndFrees, EndAccept, EndEvents,
                    PendingWrites, PendingFrees
<1>4. ReadingOK'
  BY <1>1, <1>2, Zenon DEF IInv, ReadingOK, EndPendingWrites, EndFrees, EndAccept, EndEvents
<1>5. QED
  BY <1>2, <1>3, <1>4, Zenon DEF IInv, BacklogOK, NoStaleEvent

\* What fires belongs to a client: only descriptors of clients are registered.
LEMMA PollStep ==
  ASSUME IInv, aeApiPoll
  PROVE  IInv'
<1>1. /\ stage = "poll" /\ stage' = "events"
      /\ fired' = [f \in Fd |-> Ready(f)]
      /\ polled' = [f \in Fd |-> IF Ready(f) = {} THEN None
                                 ELSE CHOOSE c \in server.clients : server.fd[c] = f]
      /\ accepting' \in BOOLEAN
      /\ UNCHANGED <<server, reading, env>>
  BY DEF aeApiPoll
<1>2. server \in ServerState /\ ServerOK(server) /\ server.clients \subseteq Client
  BY SMTT(30) DEF IInv, TypeOK, ServerState
<1>3. ASSUME NEW f \in Fd
      PROVE  /\ Ready(f) \in SUBSET Mask
             /\ Ready(f) # {} => /\ polled'[f] \in server.clients
                                 /\ server.fd[polled'[f]] = f
  <2>1. Ready(f) \subseteq server.events[f] /\ server.events[f] \subseteq Mask
    BY <1>2, Zenon DEF Ready, ServerState
  <2>2. Ready(f) # {} => \E c \in server.clients : server.fd[c] = f
    BY DEF Ready
  <2>3. Ready(f) # {} => polled'[f] = CHOOSE c \in server.clients : server.fd[c] = f
    BY <1>1, Zenon
  <2> QED BY <2>1, <2>2, <2>3, Zenon
<1>4. polled' \in [Fd -> Client \cup {None}]
  <2>1. \A f \in Fd : Ready(f) = {} => polled'[f] = None
    BY <1>1, Zenon
  <2>2. \A f \in Fd : polled'[f] \in Client \cup {None}
    BY <1>2, <1>3, <2>1, Zenon
  <2> QED BY <1>1, <2>2, Zenon
<1>5. TypeOK'
  BY <1>1, <1>3, <1>4, Zenon DEF IInv, TypeOK, env
<1>6. reading = None
  BY <1>1, Zenon DEF IInv, ReadingOK
<1>7. LoopOK' /\ ReadingOK' /\ BacklogOK'
  BY <1>1, <1>6, Zenon DEF IInv, LoopOK, ReadingOK, BacklogOK, env
<1>8. NoStaleEvent'
  BY <1>1, <1>3, Zenon DEF NoStaleEvent
<1>9. QED
  BY <1>1, <1>2, <1>5, <1>7, <1>8, Zenon DEF IInv

\* A new client takes a descriptor nobody has, hence one that has not fired.
LEMMA AcceptStep ==
  ASSUME IInv, NEW c \in Client, AcceptClient(c)
  PROVE  IInv'
<1>1. PICK f \in FreeFds : server' = createClient(server, c, f)
  BY DEF AcceptClient
<1>2. /\ stage = "events" /\ reading = None /\ c \in backlog
      /\ backlog' = backlog \ {c} /\ UNCHANGED <<loop, peer, inbox, sndbuf, sent>>
  BY DEF AcceptClient
<1>3. /\ server \in ServerState /\ ServerOK(server) /\ c \notin server.clients
      /\ f \in Fd /\ \A d \in Client : server.fd[d] # f
  BY <1>2, Zenon DEF IInv, BacklogOK, TypeOK, FreeFds
<1>4. ServerOK(server')
  BY <1>1, <1>3, CreateClientOK, Zenon
<1>5. Created(server, server', c, f)
  BY <1>1, <1>3, CreateClientEffect, Zenon
<1>6. TypeOK'
  BY <1>2, <1>4, Zenon DEF IInv, TypeOK, ServerOK, loop
<1>7. LoopOK' /\ ReadingOK'
  BY <1>2 DEF LoopOK, ReadingOK, loop
<1>8. BacklogOK'
  <2>1. server'.clients = server.clients \cup {c} /\ peer[c] # "idle"
    BY <1>2, <1>5, Zenon DEF Created, IInv, BacklogOK
  <2> QED BY <1>2, <2>1, Zenon DEF IInv, BacklogOK
<1>9. NoStaleEvent'
  <2> SUFFICES ASSUME NEW g \in Fd, fired[g] # {}
               PROVE  polled[g] \in server'.clients /\ server'.fd[polled[g]] = g
    BY <1>2, Zenon DEF NoStaleEvent, loop
  <2>1. polled[g] \in server.clients /\ server.fd[polled[g]] = g
    BY Zenon DEF IInv, NoStaleEvent
  <2> QED BY <1>3, <1>5, <2>1, Zenon DEF Created, ServerState
<1>10. QED
  BY <1>4, <1>6, <1>7, <1>8, <1>9, Zenon DEF IInv

\* When the client whose event was handled is freed, the events that are left
\* belong to others.
LEMMA FreedKeepsEvents ==
  ASSUME IInv, NEW c \in server.clients, Freed(server, server', c),
         NEW g \in Fd, g # server.fd[c], fired[g] # {}
  PROVE  polled[g] \in server'.clients /\ server'.fd[polled[g]] = g
<1>1. polled[g] \in server.clients /\ server.fd[polled[g]] = g /\ polled[g] # c
  BY Zenon DEF IInv, NoStaleEvent
<1>2. server \in ServerState
  BY Zenon DEF IInv, TypeOK
<1>3. QED
  BY <1>1, <1>2, SMTT(30) DEF Freed, ServerState

\* The end of readQueryFromClient.
LEMMA EndInputStep ==
  ASSUME IInv, NEW c \in Client, EndInput(c)
  PROVE  IInv'
<1>1. /\ reading = c /\ reading' = None /\ server' = beforeNextClient(server, c)
      /\ UNCHANGED <<stage, fired, polled, accepting, env>>
  BY DEF EndInput
<1>2. /\ server \in ServerState /\ ServerOK(server) /\ stage = "events"
      /\ c \in server.clients /\ fired[server.fd[c]] = {}
  BY <1>1, ClientIOAssumption, Zenon DEF IInv, ReadingOK, TypeOK
<1>3. CASE "CLOSE_ASAP" \in server.flags[c]
  <2>1. Freed(server, server', c)
    BY <1>1, <1>2, <1>3, FreeClientOK, Zenon DEF beforeNextClient
  <2>2. ServerOK(server')
    BY <1>2, <2>1, FreedOK, Zenon
  <2>3. TypeOK'
    BY <1>1, <2>2, Zenon DEF IInv, TypeOK, ServerOK, env
  <2>4. LoopOK' /\ ReadingOK'
    BY <1>1, <1>2, Zenon DEF LoopOK, ReadingOK
  <2>5. BacklogOK'
    BY <1>1, <2>1, ZenonT(40) DEF IInv, BacklogOK, Freed, env
  <2>6. NoStaleEvent'
    BY <1>1, <1>2, <2>1, FreedKeepsEvents, Zenon DEF NoStaleEvent
  <2> QED BY <2>2, <2>3, <2>4, <2>5, <2>6, Zenon DEF IInv
<1>4. CASE "CLOSE_ASAP" \notin server.flags[c]
  <2>1. server' = server
    BY <1>1, <1>4, Zenon DEF beforeNextClient
  <2>2. TypeOK'
    BY <1>1, <2>1, Zenon DEF IInv, TypeOK, env
  <2>3. LoopOK' /\ ReadingOK'
    BY <1>1, <1>2, Zenon DEF LoopOK, ReadingOK
  <2> QED BY <1>1, <1>2, <2>1, <2>2, <2>3, Zenon DEF IInv, BacklogOK, NoStaleEvent, env
<1>5. QED
  BY <1>3, <1>4

\* One request is executed for the client being read.
LEMMA ProcessInputStep ==
  ASSUME IInv, NEW c \in Client, ProcessInput(c)
  PROVE  /\ IInv'
         /\ Touches(server, server', c)
<1> DEFINE q == [server.querybuf EXCEPT ![c] = Tail(@)]
           u == [server EXCEPT !.querybuf = q]
           r == Head(server.querybuf[c])
<1>1. /\ reading = c /\ UNCHANGED <<loop, env>>
      /\ server.querybuf[c] # << >>
      /\ \E n \in ReplySize :
           server' = processRequest([server EXCEPT !.querybuf[c] = Tail(@)], c, r, n)
  BY Zenon DEF ProcessInput, InputDone
<1>2. /\ server \in ServerState /\ ServerOK(server) /\ c \in server.clients
  BY <1>1, ClientIOAssumption, Zenon DEF IInv, ReadingOK, TypeOK
<1>3. server.querybuf \in [Client -> Seq(Request)]
  BY <1>2, Zenon DEF ServerState
<1>4. r \in Request /\ Tail(server.querybuf[c]) \in Seq(Request)
  BY <1>1, <1>3
<1>5. q \in [Client -> Seq(Request)] /\ [server EXCEPT !.querybuf[c] = Tail(@)] = u
  BY <1>2, <1>3, <1>4, Zenon DEF ServerState
<1>6. PICK n \in Nat : server' = processRequest(u, c, r, n)
  BY <1>1, <1>5, ClientIOAssumption, Zenon
<1>7. ServerOK(u)
  BY <1>2, <1>5, QuerybufOK, Zenon
<1>8. u.clients = server.clients /\ u.fd = server.fd /\ u.reply = server.reply /\ u.querybuf = q
  BY <1>2, Zenon DEF ServerState
<1> HIDE DEF u, r
<1>9. ServerOK(server') /\ Touches(u, server', c)
  BY <1>2, <1>4, <1>6, <1>7, <1>8, ProcessRequestOK, Zenon
<1>10. Touches(server, server', c)
  BY <1>3, <1>8, <1>9, Zenon DEF Touches
<1>11. TypeOK'
  BY <1>1, <1>9, Zenon DEF IInv, TypeOK, ServerOK, loop, env
<1>12. LoopOK' /\ ReadingOK'
  BY <1>1, <1>10, <1>2, ClientIOAssumption, Zenon DEF IInv, LoopOK, ReadingOK, Touches, loop
<1>13. BacklogOK'
  BY <1>1, <1>10, Zenon DEF IInv, BacklogOK, Touches, env
<1>14. NoStaleEvent'
  BY <1>1, <1>10, Zenon DEF IInv, NoStaleEvent, Touches, loop
<1>15. QED
  BY <1>9, <1>10, <1>11, <1>12, <1>13, <1>14, Zenon DEF IInv

\* The process ends.
LEMMA DereferenceStep ==
  ASSUME IInv, NEW c \in Client, Dereference(c)
  PROVE  IInv'
<1>1. /\ stage' = "dead" /\ reading' = None
      /\ UNCHANGED <<server, fired, polled, accepting, env>>
  BY DEF Dereference
<1>2. TypeOK'
  BY <1>1, Zenon DEF IInv, TypeOK, env
<1>3. LoopOK' /\ ReadingOK'
  BY <1>1 DEF LoopOK, ReadingOK
<1>4. QED
  BY <1>1, <1>2, <1>3, Zenon DEF IInv, BacklogOK, NoStaleEvent, env

\* Peers change neither the server's state nor the loop's.
LEMMA EnvironmentStep ==
  ASSUME IInv, Environment
  PROVE  IInv' /\ server' = server
<1>1. PICK c \in Client : \/ Connect(c) \/ PeerRead(c) \/ PeerClose(c)
                          \/ \E r \in Request : PeerSend(c, r)
  BY DEF Environment
<1>2. server' = server /\ UNCHANGED loop
  BY <1>1, Zenon DEF Connect, PeerRead, PeerClose, PeerSend
<1>3. TypeOK' /\ BacklogOK'
  <2>1. CASE Connect(c)
    BY <1>2, <2>1, Zenon DEF IInv, TypeOK, BacklogOK, Connect, loop
  <2>2. CASE PeerRead(c)
    BY <1>2, <2>2, Zenon DEF IInv, TypeOK, BacklogOK, PeerRead, loop
  <2>3. CASE PeerClose(c)
    <3>1. inbox' \in [Client -> Seq(Request)]
      <4>1. inbox \in [Client -> Seq(Request)] /\ << >> \in Seq(Request)
        BY DEF IInv, TypeOK
      <4>2. inbox' = inbox \/ inbox' = [inbox EXCEPT ![c] = << >>]
        BY <2>3, Zenon DEF PeerClose
      <4> QED BY <4>1, <4>2, Zenon
    <3> QED BY <1>2, <2>3, <3>1, Zenon DEF IInv, TypeOK, BacklogOK, PeerClose, loop
  <2>4. ASSUME NEW r \in Request, PeerSend(c, r) PROVE TypeOK' /\ BacklogOK'
    <3>1. inbox' \in [Client -> Seq(Request)] /\ sent' \in Nat
      <4>1. inbox[c] \in Seq(Request) /\ Append(inbox[c], r) \in Seq(Request)
        BY SMTT(30) DEF IInv, TypeOK
      <4> QED BY <2>4, <4>1 DEF IInv, TypeOK, PeerSend
    <3> QED BY <1>2, <2>4, <3>1, Zenon DEF IInv, TypeOK, BacklogOK, PeerSend, loop
  <2> QED BY <1>1, <2>1, <2>2, <2>3, <2>4, Zenon
<1>4. LoopOK' /\ ReadingOK'
  BY <1>2, Zenon DEF IInv, LoopOK, ReadingOK, PendingWrites, PendingFrees, loop
<1>5. QED
  BY <1>2, <1>3, <1>4, Zenon DEF IInv, NoStaleEvent, loop

\* A descriptor's event is handled: its client is freed, or read, or left alone.
LEMMA HandleEventStep ==
  ASSUME IInv, NEW f \in Fd, HandleEvent(f)
  PROVE  IInv'
<1>1. /\ stage = "events" /\ reading = None
      /\ fired' = [fired EXCEPT ![f] = {}] /\ polled' = [polled EXCEPT ![f] = None]
      /\ UNCHANGED <<stage, accepting, peer, backlog, sndbuf, sent>>
  BY Zenon DEF HandleEvent
<1>2. PICK c \in server.clients :
         /\ server.fd[c] = f
         /\ IF "READABLE" \in fired[f] \cap server.events[f]
            THEN ReadQuery(c)
            ELSE server' = sendReplyToClient(server, c) /\ UNCHANGED <<reading, inbox>>
  BY Zenon DEF HandleEvent
<1>3. /\ server \in ServerState /\ ServerOK(server) /\ c \in Client
      /\ fired' \in [Fd -> SUBSET Mask] /\ polled' \in [Fd -> Client \cup {None}]
      /\ fired'[f] = {}
      /\ \A g \in Fd : fired'[g] # {} => g # f /\ fired[g] # {} /\ polled'[g] = polled[g]
  BY <1>1, Zenon DEF IInv, TypeOK, ServerState
<1>4. LoopOK'
  BY <1>1 DEF LoopOK
<1>5. CASE server' = beforeNextClient(freeClientAsync(server, c), c) /\ UNCHANGED <<reading, inbox>>
  <2> DEFINE u == freeClientAsync(server, c)
  <2>1. ServerOK(u) /\ AsyncFreed(server, u, c)
    BY <1>3, FreeClientAsyncOK, FreeClientAsyncEffect, Zenon
  <2>2. server' = beforeNextClient(u, c)
    BY <1>5, Zenon
  <2> HIDE DEF u
  <2>3. "CLOSE_ASAP" \in u.flags[c] /\ c \in u.clients /\ u.clients = server.clients /\ u.fd = server.fd
    BY <1>3, <2>1, SMTT(30) DEF AsyncFreed, ServerState
  <2>4. Freed(u, server', c)
    BY <2>1, <2>2, <2>3, FreeClientOK, Zenon DEF beforeNextClient
  <2>5. ServerOK(server')
    BY <2>1, <2>3, <2>4, FreedOK, Zenon
  <2>6. server'.clients = server.clients \ {c} /\ server'.fd = [server.fd EXCEPT ![c] = NoFd]
    BY <2>3, <2>4, Zenon DEF Freed
  <2>7. TypeOK'
    BY <1>1, <1>3, <1>5, <2>5, Zenon DEF IInv, TypeOK, ServerOK
  <2>8. ReadingOK'
    BY <1>1, <1>5, Zenon DEF ReadingOK
  <2>9. BacklogOK'
    BY <1>1, <2>6, Zenon DEF IInv, BacklogOK
  <2>10. NoStaleEvent'
    <3> SUFFICES ASSUME NEW g \in Fd, fired'[g] # {}
                 PROVE  polled'[g] \in server'.clients /\ server'.fd[polled'[g]] = g
      BY SMTT(30) DEF NoStaleEvent
    <3>1. /\ polled'[g] \in server.clients /\ server.fd[polled'[g]] = g /\ g # f
      BY <1>3, Zenon DEF IInv, NoStaleEvent
    <3> QED BY <1>2, <1>3, <2>6, <3>1, Zenon DEF ServerState
  <2>11. QED
    BY <1>4, <2>5, <2>7, <2>8, <2>9, <2>10, Zenon DEF IInv
<1>6. ASSUME NEW n \in 1..Len(inbox[c]),
             server' = [server EXCEPT !.querybuf[c] = @ \o SubSeq(inbox[c], 1, n)],
             inbox' = [inbox EXCEPT ![c] = SubSeq(@, n + 1, Len(@))],
             reading' = c
      PROVE  IInv'
  <2> DEFINE q == [server.querybuf EXCEPT ![c] = @ \o SubSeq(inbox[c], 1, n)]
  <2>1. /\ inbox \in [Client -> Seq(Request)] /\ server.querybuf \in [Client -> Seq(Request)]
        /\ Len(inbox[c]) \in Nat /\ n \in Nat
    <3>1. inbox \in [Client -> Seq(Request)]
      BY Zenon DEF IInv, TypeOK
    <3>2. server.querybuf \in [Client -> Seq(Request)]
      BY <1>3, Zenon DEF ServerState
    <3>3. Len(inbox[c]) \in Nat
      BY <1>3, <3>1
    <3> QED BY <1>6, <3>1, <3>2, <3>3, SMTT(30)
  <2>2. SubSeq(inbox[c], 1, n) \in Seq(Request) /\ SubSeq(inbox[c], n + 1, Len(inbox[c])) \in Seq(Request)
    BY <1>3, <2>1
  <2>3. q \in [Client -> Seq(Request)] /\ inbox' \in [Client -> Seq(Request)]
    BY <1>3, <1>6, <2>1, <2>2, SMTT(30)
  <2>4. server' = [server EXCEPT !.querybuf = q]
    BY <1>3, <1>6, Zenon DEF ServerState
  <2> HIDE DEF q
  <2>5. ServerOK(server')
    BY <1>3, <2>3, <2>4, QuerybufOK, Zenon
  <2>6. server'.clients = server.clients /\ server'.fd = server.fd
    BY <1>3, <2>4, Zenon DEF ServerState
  <2>7. TypeOK'
    BY <1>1, <1>3, <1>6, <2>3, <2>5, Zenon DEF IInv, TypeOK, ServerOK
  <2>8. ReadingOK'
    BY <1>1, <1>2, <1>3, <1>6, <2>6, Zenon DEF ReadingOK
  <2>9. BacklogOK'
    BY <1>1, <2>6, Zenon DEF IInv, BacklogOK
  <2>10. NoStaleEvent'
    BY <1>3, <2>6, Zenon DEF IInv, NoStaleEvent
  <2>11. QED
    BY <1>4, <2>5, <2>7, <2>8, <2>9, <2>10, Zenon DEF IInv
<1>7. CASE server' = server /\ UNCHANGED <<reading, inbox>>
  <2>1. TypeOK'
    BY <1>1, <1>3, <1>7, Zenon DEF IInv, TypeOK
  <2>2. ReadingOK' /\ BacklogOK'
    BY <1>1, <1>7, Zenon DEF IInv, ReadingOK, BacklogOK
  <2>3. NoStaleEvent'
    BY <1>3, <1>7, Zenon DEF IInv, NoStaleEvent
  <2>4. QED
    BY <1>3, <1>4, <1>7, <2>1, <2>2, <2>3, Zenon DEF IInv
<1>8. QED
  BY <1>2, <1>5, <1>6, <1>7, Zenon DEF ReadQuery, sendReplyToClient

-----------------------------------------------------------------------------
(* Theorems                                                                *)

\* The initial state satisfies the inductive invariant.
LEMMA InitIInv == Init => IInv
<1> SUFFICES ASSUME Init PROVE IInv
  OBVIOUS
<1> USE DEF Init
<1>1. TypeOK
  <2>1. << >> \in Seq(Request)
    BY SMTT(30)
  <2>2. server \in ServerState
    BY <2>1, Zenon DEF ServerState
  <2>3. inbox \in [Client -> Seq(Request)] /\ sndbuf \in [Client -> Nat] /\ sent \in Nat
    BY <2>1, Zenon
  <2>4. /\ stage \in {"writes", "frees", "poll", "events", "dead"}
        /\ fired \in [Fd -> SUBSET Mask] /\ polled \in [Fd -> Client \cup {None}]
        /\ accepting \in BOOLEAN /\ reading \in Client \cup {None}
        /\ peer \in [Client -> {"idle", "open", "closed"}] /\ backlog \in SUBSET Client
    BY Zenon
  <2> QED BY <2>2, <2>3, <2>4, Zenon DEF TypeOK
<1>2. ServerOK(server)
  <2>1. server \in ServerState
    BY <1>1, Zenon DEF TypeOK
  <2>2. Queues(server) /\ Unlinked(server)
    BY Zenon DEF Queues, Unlinked
  <2>3. Distinct(server) /\ Owned(server) /\ Scheduled(server)
    BY Zenon DEF Distinct, Owned, Scheduled
  <2> QED BY <2>1, <2>2, <2>3, Zenon DEF ServerOK
<1>3. LoopOK /\ ReadingOK /\ BacklogOK /\ NoStaleEvent
  BY Zenon DEF LoopOK, ReadingOK, BacklogOK, NoStaleEvent
<1>4. QED
  BY <1>1, <1>2, <1>3, Zenon DEF IInv

\* Every step of the event loop and of the peers preserves the inductive invariant.
LEMMA NextIInv == IInv /\ [Next]_vars => IInv'
<1> SUFFICES ASSUME IInv, [Next]_vars PROVE IInv'
  OBVIOUS
<1>1. CASE UNCHANGED vars
  BY <1>1, Zenon DEF vars, IInv, TypeOK, LoopOK, ReadingOK, BacklogOK, NoStaleEvent,
              PendingWrites, PendingFrees
<1>2. CASE Environment
  BY <1>2, EnvironmentStep
<1>3. CASE EndPendingWrites \/ EndFrees \/ EndAccept \/ EndEvents
  BY <1>3, LoopStep
<1>4. CASE aeApiPoll
  BY <1>4, PollStep
<1>5. ASSUME NEW c \in Client,
             \/ HandlePendingWrite(c) \/ FreeQueuedClient(c) \/ AcceptClient(c)
             \/ ProcessInput(c) \/ Dereference(c) \/ EndInput(c)
      PROVE  IInv'
  BY <1>5, HandlePendingWriteStep, FreeQueuedClientStep, AcceptStep, ProcessInputStep,
     DereferenceStep, EndInputStep, Zenon
<1>6. ASSUME NEW f \in Fd, HandleEvent(f) PROVE IInv'
  BY <1>6, HandleEventStep
<1>7. QED
  BY <1>1, <1>2, <1>3, <1>4, <1>5, <1>6, Zenon DEF Next, EventLoop

\* The inductive invariant is an invariant.
LEMMA Invariance == Spec => []IInv
<1>1. QED
  BY InitIInv, NextIInv, PTL DEF Spec

\* The server's state stays well formed: in particular no queue count of a client
\* goes below zero, no matter in which order a client is queued, closed and freed.
THEOREM TypeCorrect == Spec => []TypeOK
<1>1. IInv => TypeOK
  BY DEF IInv
<1>2. QED
  BY <1>1, Invariance, PTL

\* clients_pending_write and clients_to_close hold a client exactly once while it has
\* their flag, for any number of clients and any interleaving with their peers.
THEOREM QueuesMatch == Spec => []QueuesMatchFlags
<1>1. IInv => QueuesMatchFlags
  BY Zenon DEF IInv, ServerOK, Queues, QueuesMatchFlags
<1>2. QED
  BY <1>1, Invariance, PTL

\* Nothing refers to a freed client.
THEOREM NoDangling == Spec => []NoDanglingClient
<1>1. IInv => NoDanglingClient
  BY ClientIOAssumption, ZenonT(40) DEF IInv, ServerOK, Unlinked, Owned, ReadingOK, TypeOK, NoDanglingClient
<1>2. QED
  BY <1>1, Invariance, PTL

\* An event is only handled for the client it fired for, although descriptors are
\* reused within an iteration.
THEOREM EventsNotStale == Spec => []NoStaleEvent
<1>1. IInv => NoStaleEvent
  BY DEF IInv
<1>2. QED
  BY <1>1, Invariance, PTL

\* A waiting reply always has a sender.
THEOREM RepliesScheduled == Spec => []ReplyScheduled
<1>1. IInv => ReplyScheduled
  BY Zenon DEF IInv, ServerOK, Scheduled, ReplyScheduled
<1>2. QED
  BY <1>1, Invariance, PTL

\* beforeSleep empties both queues before every poll.
THEOREM QueuesEmptyWhileAsleep == Spec => []NothingQueuedWhileAsleep
<1>1. IInv => NothingQueuedWhileAsleep
  BY DEF IInv, LoopOK, NothingQueuedWhileAsleep
<1>2. QED
  BY <1>1, Invariance, PTL

\* No client that survives a step has its output grown or its query buffer consumed
\* once it is to be closed after its reply.
LEMMA SilentStep ==
  ASSUME IInv, [Next]_vars, NEW c \in server.clients, c \in server'.clients,
         "CLOSE_AFTER_REPLY" \in server.flags[c]
  PROVE  /\ Len(server'.querybuf[c]) >= Len(server.querybuf[c])
         /\ server'.reply[c] <= server.reply[c]
<1>0. /\ server \in ServerState /\ ServerOK(server) /\ c \in Client
      /\ server.querybuf[c] \in Seq(Request) /\ server.reply[c] \in Nat
      /\ Len(server.querybuf[c]) \in Nat
  <2>1. server \in ServerState /\ ServerOK(server)
    BY Zenon DEF IInv, TypeOK
  <2>2. c \in Client /\ server.querybuf \in [Client -> Seq(Request)] /\ server.reply[c] \in Nat
    BY <2>1, Zenon DEF ServerState
  <2>3. server.querybuf[c] \in Seq(Request)
    BY <2>2, Zenon
  <2> QED BY <2>1, <2>2, <2>3, SMTT(30)
<1>1. CASE server'.reply[c] = server.reply[c] /\ server'.querybuf[c] = server.querybuf[c]
  BY <1>0, <1>1
<1>2. CASE server' = server
  BY <1>0, <1>2
<1>3. ASSUME NEW d \in Client, HandlePendingWrite(d)
      PROVE  server'.reply[c] <= server.reply[c] /\ server'.querybuf[c] = server.querybuf[c]
  <2>1. PICK failed \in {FALSE, peer[d] = "closed"}, k \in Accepted(d) :
           server' = handlePendingWrite(server, d, k, failed)
    BY <1>3, Zenon DEF HandlePendingWrite
  <2>2. (peer[d] = "closed") \in BOOLEAN
    OBVIOUS
  <2>3. failed \in BOOLEAN
    BY <2>2, ZenonT(40)
  <2>4. k \in 0..server.reply[d] /\ server.reply[d] \in Nat
    BY <1>0, Zenon DEF Accepted, ServerState
  <2>5. server.clients_pending_write[d] > 0
    BY <1>3, Zenon DEF HandlePendingWrite, PendingWrites
  <2>6. server.fd[d] \in Fd
    BY <1>0, <2>5, SMTT(30) DEF ServerOK, Queues, Unlinked, Distinct
  <2>7. Written(server, server', d, k, failed)
    BY <1>0, <2>1, <2>3, <2>4, <2>5, <2>6, HandlePendingWriteEffect, Zenon
  <2>8. /\ server'.querybuf = server.querybuf
        /\ \/ server'.reply = server.reply
           \/ server'.reply = [server.reply EXCEPT ![d] = IF failed THEN @ ELSE @ - k]
    BY <1>0, <2>7, Zenon DEF Written, ServerState
  <2>9. server'.reply[c] <= server.reply[c]
    <3>1. server.reply \in [Client -> Nat]
      BY <1>0, Zenon DEF ServerState
    <3> QED BY <1>0, <2>4, <2>8, <3>1, SMTT(30)
  <2>10. QED
    BY <2>8, <2>9, Zenon
<1>4. ASSUME NEW d \in Client, ProcessInput(d)
      PROVE  server'.reply[c] = server.reply[c] /\ server'.querybuf[c] = server.querybuf[c]
  <2>1. d # c
    BY <1>4, Zenon DEF ProcessInput, InputDone
  <2>2. Touches(server, server', d)
    BY <1>4, ProcessInputStep, Zenon
  <2>3. QED
    BY <1>0, <2>1, <2>2, Zenon DEF Touches
<1>5. ASSUME NEW d \in Client, NEW s \in ServerState, NEW t, Freed(s, t, d),
             c \in t.clients
      PROVE  t.reply[c] = s.reply[c] /\ t.querybuf[c] = s.querybuf[c]
  BY <1>0, <1>5, SMTT(30) DEF Freed, ServerState
<1>6. ASSUME NEW d \in Client, FreeQueuedClient(d)
      PROVE  server'.reply[c] = server.reply[c] /\ server'.querybuf[c] = server.querybuf[c]
  <2>1. server.clients_to_close[d] > 0
    BY <1>6, Zenon DEF FreeQueuedClient, PendingFrees
  <2>2. "CLOSE_ASAP" \in server.flags[d] /\ d \in server.clients
    BY <1>0, <2>1 DEF ServerOK, Queues, Unlinked
  <2>3. Freed(server, server', d)
    BY <1>0, <1>6, <2>2, FreeQueuedOK, ZenonT(40) DEF FreeQueuedClient
  <2>4. QED
    BY <1>0, <1>5, <2>3
<1>7. ASSUME NEW d \in Client, AcceptClient(d)
      PROVE  server'.reply[c] = server.reply[c] /\ server'.querybuf[c] = server.querybuf[c]
  <2>1. PICK f \in Fd : server' = createClient(server, d, f)
    BY <1>7, Zenon DEF AcceptClient, FreeFds
  <2>2. Created(server, server', d, f)
    BY <1>0, <2>1, CreateClientEffect, Zenon
  <2>3. d # c
    BY <1>7, Zenon DEF AcceptClient, IInv, BacklogOK
  <2>4. QED
    BY <1>0, <2>2, <2>3, SMTT(30) DEF Created, ServerState
<1>8. ASSUME NEW d \in Client, EndInput(d)
      PROVE  server'.reply[c] = server.reply[c] /\ server'.querybuf[c] = server.querybuf[c]
  <2>1. d \in server.clients /\ server' = beforeNextClient(server, d)
    BY <1>8, ClientIOAssumption, Zenon DEF EndInput, IInv, ReadingOK
  <2>2. server' = server \/ Freed(server, server', d)
    BY <1>0, <2>1, FreeClientOK, Zenon DEF beforeNextClient
  <2>3. QED
    BY <1>0, <1>5, <2>2, SMTT(30)
<1>9. ASSUME NEW f \in Fd, HandleEvent(f)
      PROVE  /\ server'.reply[c] = server.reply[c]
             /\ Len(server'.querybuf[c]) >= Len(server.querybuf[c])
  <2>1. PICK d \in server.clients :
           IF "READABLE" \in fired[f] \cap server.events[f]
           THEN ReadQuery(d)
           ELSE server' = sendReplyToClient(server, d)
    BY <1>9, Zenon DEF HandleEvent
  <2>2. CASE server' = beforeNextClient(freeClientAsync(server, d), d)
    <3> DEFINE u == freeClientAsync(server, d)
    <3>1. ServerOK(u) /\ AsyncFreed(server, u, d) /\ server' = beforeNextClient(u, d) /\ d \in Client
      BY <1>0, <2>2, FreeClientAsyncOK, FreeClientAsyncEffect, ZenonT(40) DEF ServerState
    <3> HIDE DEF u
    <3>2. /\ u \in ServerState /\ d \in u.clients
          /\ u.reply = server.reply /\ u.querybuf = server.querybuf
      BY <3>1, Zenon DEF AsyncFreed
    <3>3. server' = u \/ Freed(u, server', d)
      BY <3>1, <3>2, FreeClientOK, Zenon DEF beforeNextClient
    <3> QED BY <1>0, <1>5, <3>1, <3>2, <3>3
  <2>3. ASSUME NEW n \in 1..Len(inbox[d]),
               server' = [server EXCEPT !.querybuf[d] = @ \o SubSeq(inbox[d], 1, n)]
        PROVE  /\ server'.reply[c] = server.reply[c]
               /\ Len(server'.querybuf[c]) >= Len(server.querybuf[c])
    <3>1. d \in Client /\ inbox[d] \in Seq(Request) /\ n \in Nat
      BY <1>0, <2>3 DEF IInv, TypeOK, ServerState
    <3>2. SubSeq(inbox[d], 1, n) \in Seq(Request)
      BY <2>3, <3>1
    <3>3. /\ server'.reply = server.reply
          /\ server'.querybuf = [server.querybuf EXCEPT ![d] = @ \o SubSeq(inbox[d], 1, n)]
      BY <1>0, <2>3, Zenon DEF ServerState
    <3>4. CASE d = c
      <4>1. server'.querybuf[c] = server.querybuf[c] \o SubSeq(inbox[d], 1, n)
        BY <1>0, <3>3, <3>4, Zenon DEF ServerState
      <4>2. Len(server'.querybuf[c]) = Len(server.querybuf[c]) + Len(SubSeq(inbox[d], 1, n))
        BY <1>0, <3>2, <4>1
      <4>3. Len(SubSeq(inbox[d], 1, n)) \in Nat
        BY <3>2
      <4> QED BY <1>0, <3>3, <4>2, <4>3, SMTT(30)
    <3>5. CASE d # c
      BY <1>0, <3>3, <3>5 DEF ServerState
    <3> QED BY <3>4, <3>5, Zenon
  <2>4. CASE server' = server
    BY <1>0, <2>4
  <2>5. QED
    BY <2>1, <2>2, <2>3, <2>4, ZenonT(40) DEF ReadQuery, sendReplyToClient
<1>10. CASE UNCHANGED vars \/ Environment \/ EndPendingWrites \/ EndFrees \/ EndAccept \/ EndEvents \/ aeApiPoll
  <2>1. server' = server
    BY <1>10, EnvironmentStep, Zenon DEF vars, EndPendingWrites, EndFrees, EndAccept, EndEvents, aeApiPoll
  <2>2. QED
    BY <1>2, <2>1, Zenon
<1>11. ASSUME NEW d \in Client, Dereference(d) PROVE server' = server
  BY <1>11, Zenon DEF Dereference
<1>12. QED
  BY <1>0, <1>1, <1>2, <1>3, <1>4, <1>6, <1>7, <1>8, <1>9, <1>10, <1>11, SMTT(30) DEF Next, EventLoop

\* A protocol error is the last answer: the client's later requests are not executed
\* and nothing is added to its output.
THEOREM ProtocolErrorIsLast == Spec => NothingAfterProtocolError
<1>1. IInv /\ [Next]_vars =>
        [\A c \in server.clients \cap server'.clients :
           "CLOSE_AFTER_REPLY" \in server.flags[c] =>
             /\ Len(server'.querybuf[c]) >= Len(server.querybuf[c])
             /\ server'.reply[c] <= server.reply[c]]_vars
  BY SilentStep, Zenon
<1>2. QED
  BY <1>1, Invariance, PTL DEF Spec, NothingAfterProtocolError

=============================================================================
