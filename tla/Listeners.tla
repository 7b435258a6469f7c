----------------------------- MODULE Listeners -----------------------------
(***************************************************************************)
(* The life of the server process from main() on: signal handlers and      *)
(* event loop (initServer), listening sockets (initListeners, anet.c),     *)
(* accepting, moving to another port (updatePort) and the two ways out,    *)
(* exit(1) and the shutdown signals.                                       *)
(*                                                                         *)
(* The kernel is the set `held` of descriptors of the process; the lowest  *)
(* free number is the next one given.  A function of anet.c is the set of  *)
(* its possible outcomes [fd, errno, held], Err being ANET_ERR.  An errno  *)
(* is one of the classes listenToPort tells apart: EADDRNOTAVAIL, the five *)
(* "protocol not supported" ones, any other.                               *)
(***************************************************************************)
EXTENDS Integers, Sequences, FiniteSets, Functions

CONSTANTS
  BindLists,     \* the bindaddr arrays of the configuration: sequences of Address
  ElSetSize,     \* aeGetSetSize(server.el): maxclients + CONFIG_FDSET_INCR
  AcceptsPerCall,\* MAX_ACCEPTS_PER_CALL
  FdLimit,       \* bound: descriptors the process may hold
  PortChanges,   \* bound: times updatePort runs
  SignalBound    \* bound: signals sent to the process

\* An element of bindaddr: its family, whether it starts with '-', whether
\* getaddrinfo knows it.
Address == [v6 : BOOLEAN, optional : BOOLEAN, resolves : BOOLEAN]

ASSUME ListenersAssumption ==
  /\ BindLists \subseteq Seq(Address)
  /\ {ElSetSize, AcceptsPerCall, FdLimit} \subseteq Nat \ {0}
  /\ {PortChanges, SignalBound} \subseteq Nat

VARIABLES
  conf,      \* server.bindaddr, port, tls_port, unixsocket; the host has IPv6 or not
  phase,     \* "loaded": before initServer; "ready": after it; "listening": in initListeners;
             \* "running": in aeMain; "moving": in updatePort; "exited"
  turn,      \* the j of listenToPort's loop, from 1 on
  held,      \* open descriptors
  events,    \* descriptors with a readable event in server.el
  tcp,       \* fd[0 .. count-1] of the socket listener
  local,     \* fd[0 .. count-1] of the unix listener
  boundTo,   \* the addresses the descriptors of the socket listener are bound to
  accepted,  \* descriptors of clients
  asap,      \* server.shutdown_asap
  sigs,      \* the signals delivered since setupSignalHandlers
  cause,     \* why the process exited
  portMoves  \* calls of updatePort

lsnvars == <<conf, phase, turn, held, events, tcp, local, boundTo, accepted, asap, sigs, cause,
             portMoves>>

Err == -1
Errnos == {"notavail", "unsupported", "other"}
Std == {0}     \* what is open before main: the standard streams, as one descriptor
Fds == 0 .. FdLimit
Stops == {"none", "startup", "panic", "signal"}

\* The type invariant.
LsnTypeOK ==
  /\ conf \in [bindaddr : BindLists, port : BOOLEAN, tls : BOOLEAN, unix : BOOLEAN, ipv6 : BOOLEAN]
  /\ phase \in {"loaded", "ready", "listening", "running", "moving", "exited"}
  /\ turn \in 1 .. Len(conf.bindaddr) + 1
  /\ held \subseteq Fds /\ events \subseteq Fds /\ accepted \subseteq Fds
  /\ tcp \in Seq(Fds) /\ local \in Seq(Fds) /\ boundTo \in Seq(Address)
  /\ asap \in BOOLEAN /\ sigs \in Seq({"SIGINT", "SIGTERM"}) /\ cause \in Stops
  /\ portMoves \in 0 .. PortChanges

LsnInit ==
  /\ conf \in [bindaddr : BindLists, port : BOOLEAN, tls : BOOLEAN, unix : BOOLEAN, ipv6 : BOOLEAN]
  /\ phase = "loaded" /\ turn = 1 /\ held = Std /\ events = {} /\ tcp = <<>> /\ local = <<>>
  /\ boundTo = <<>> /\ accepted = {} /\ asap = FALSE /\ sigs = <<>> /\ cause = "none"
  /\ portMoves = 0

-----------------------------------------------------------------------------
(* anet.c                                                                  *)

Failed(o, errnos) == [fd : {Err}, errno : errnos, held : {o}]
Opened(o, s) == [fd : {s}, errno : {"none"}, held : {o}]

\* The number socket() and accept() give, when the process has one left.
FreeFds(o) == {s \in Fds \ o : \A t \in 0 .. s - 1 : t \in o}

\* bind and listen; either failing closes the socket.
anetListen(o, s) == Opened(o, s) \cup Failed(o \ {s}, {"notavail", "other"})
\* The body of _anetTcpServer's loop for an address that gave socket s: the options
\* fail by way of the label error, which closes it.
WithSocket(o, s) == Failed((o \cup {s}) \ {s}, {"other"}) \cup anetListen(o \cup {s}, s)

\* A name that does not resolve leaves errno as some earlier call left it.  With no
\* socket for any address of the name, errno is that of the last socket().
_anetTcpServer(o, a) ==
  CASE ~ a.resolves -> Failed(o, Errnos)
    [] a.resolves /\ a.v6 /\ ~ conf.ipv6 -> Failed(o, {"unsupported"})
    [] OTHER -> Failed(o, {"other"}) \cup UNION {WithSocket(o, s) : s \in FreeFds(o)}

\* anetCreateSocket, then anetListen; a path that is too long fails before either.
anetUnixServer(o) ==
  Failed(o, {"other"}) \cup UNION {anetListen(o \cup {s}, s) : s \in FreeFds(o)}

-----------------------------------------------------------------------------
(* Listeners                                                               *)

\* exit(1), abort() and a deadly signal: the kernel closes everything.
Exit(why) ==
  /\ phase' = "exited" /\ cause' = why
  /\ held' = {} /\ events' = {} /\ tcp' = <<>> /\ local' = <<>> /\ accepted' = {}
  /\ boundTo' = <<>>

\* closeListener on the socket listener, when o is open.
closeListener(o) ==
  /\ held' = o \ Range(tcp) /\ events' = events \ Range(tcp)
  /\ tcp' = <<>> /\ boundTo' = <<>>

\* The failures listenToPort goes past.
Skips(a, errno) == (errno = "notavail" /\ a.optional) \/ errno = "unsupported"

\* Mutant: the sockets bound so far are forgotten, not closed.
listenToPort_keeps_bound ==
  /\ phase \in {"listening", "moving"} /\ turn <= Len(conf.bindaddr)
  /\ LET a == conf.bindaddr[turn]
     IN  \E r \in _anetTcpServer(held, a) :
           \/ /\ r.fd # Err
              /\ held' = r.held /\ tcp' = Append(tcp, r.fd) /\ boundTo' = Append(boundTo, a)
              /\ turn' = turn + 1 /\ UNCHANGED <<phase, events, local, accepted, cause>>
           \/ /\ r.fd = Err /\ Skips(a, r.errno)
              /\ held' = r.held /\ turn' = turn + 1
              /\ UNCHANGED <<phase, events, tcp, local, boundTo, accepted, cause>>
           \/ /\ r.fd = Err /\ ~ Skips(a, r.errno) /\ phase = "listening"
              /\ Exit("startup") /\ UNCHANGED turn
           \/ /\ r.fd = Err /\ ~ Skips(a, r.errno) /\ phase = "moving"
              /\ held' = r.held /\ tcp' = <<>> /\ boundTo' = <<>> /\ phase' = "running"
              /\ UNCHANGED <<turn, events, local, accepted, cause>>
  /\ UNCHANGED <<conf, asap, sigs, portMoves>>

\* One turn of listenToPort's loop.  When it fails, initListeners exits and updatePort goes
\* on without a listener.
listenToPort ==
  /\ phase \in {"listening", "moving"} /\ turn <= Len(conf.bindaddr)
  /\ LET a == conf.bindaddr[turn]
     IN  \E r \in _anetTcpServer(held, a) :
           \/ /\ r.fd # Err
              /\ held' = r.held /\ tcp' = Append(tcp, r.fd) /\ boundTo' = Append(boundTo, a)
              /\ turn' = turn + 1 /\ UNCHANGED <<phase, events, local, accepted, cause>>
           \/ /\ r.fd = Err /\ Skips(a, r.errno)
              /\ held' = r.held /\ turn' = turn + 1
              /\ UNCHANGED <<phase, events, tcp, local, boundTo, accepted, cause>>
           \/ /\ r.fd = Err /\ ~ Skips(a, r.errno) /\ phase = "listening"
              /\ Exit("startup") /\ UNCHANGED turn
           \/ /\ r.fd = Err /\ ~ Skips(a, r.errno) /\ phase = "moving"
              /\ closeListener(r.held) /\ phase' = "running"
              /\ UNCHANGED <<turn, local, accepted, cause>>
  /\ UNCHANGED <<conf, asap, sigs, portMoves>>

\* The first turn, or past the last when the socket listener is not configured.
FirstTurn(port) == IF port THEN 1 ELSE Len(conf.bindaddr) + 1

\* createSocketAcceptHandler succeeds: aeCreateFileEvent refuses a descriptor beyond the
\* set size.  What was registered before it is taken back, and every caller panics.
createSocketAcceptHandler(fds) == \A s \in Range(fds) : s < ElSetSize

\* The outcomes of connUnixListen, up to the exit(1) of a failure.
connUnixListen ==
  {[ret |-> IF r.fd = Err THEN "C_ERR" ELSE "C_OK", fds |-> IF r.fd = Err THEN <<>> ELSE <<r.fd>>,
    held |-> r.held] : r \in anetUnixServer(held)}

-----------------------------------------------------------------------------
(* Steps of the process                                                    *)

\* The loop's own descriptor is among Std.  aeCreateEventLoop or aeCreateTimeEvent may fail.
initServer ==
  /\ phase = "loaded"
  /\ \/ Exit("startup")
     \/ /\ phase' = "ready"
        /\ UNCHANGED <<held, events, tcp, local, boundTo, accepted, cause>>
  /\ UNCHANGED <<conf, turn, asap, sigs, portMoves>>

\* initListeners, up to the call of listenToPort; tls is not in the build.
initListeners ==
  /\ phase = "ready"
  /\ \/ conf.tls /\ Exit("startup") /\ UNCHANGED turn
     \/ /\ ~ conf.tls
        /\ phase' = "listening" /\ turn' = FirstTurn(conf.port)
        /\ UNCHANGED <<held, events, tcp, local, boundTo, accepted, cause>>
  /\ UNCHANGED <<conf, asap, sigs, portMoves>>

\* Its rest: the socket listener gets its handlers, then the unix one is opened.
ListenersOpened ==
  /\ phase = "listening" /\ turn = Len(conf.bindaddr) + 1
  /\ \/ ~ createSocketAcceptHandler(tcp) /\ Exit("panic")
     \/ /\ createSocketAcceptHandler(tcp)
        /\ \E u \in IF conf.unix THEN connUnixListen ELSE {[ret |-> "C_OK", fds |-> <<>>, held |-> held]} :
             IF u.ret = "C_ERR" THEN Exit("startup")
             ELSE IF ~ createSocketAcceptHandler(u.fds) THEN Exit("panic")
             ELSE IF tcp = <<>> /\ u.fds = <<>> THEN Exit("startup")
             ELSE /\ phase' = "running" /\ held' = u.held /\ local' = u.fds
                  /\ events' = events \cup Range(tcp) \cup Range(u.fds)
                  /\ UNCHANGED <<tcp, boundTo, accepted, cause>>
  /\ UNCHANGED <<conf, turn, asap, sigs, portMoves>>

\* The hook of the option port, after server.port got its new value: changeListener closes
\* the listener and, unless that is 0, listens on the new port.
updatePort(port) ==
  /\ phase = "running" /\ portMoves < PortChanges
  /\ portMoves' = portMoves + 1
  /\ conf' = [conf EXCEPT !.port = port]
  /\ closeListener(held) /\ phase' = "moving" /\ turn' = FirstTurn(port)
  /\ UNCHANGED <<local, accepted, asap, sigs, cause>>

\* The rest of changeListener.
changeListener ==
  /\ phase = "moving" /\ turn = Len(conf.bindaddr) + 1
  /\ IF createSocketAcceptHandler(tcp)
     THEN /\ phase' = "running" /\ events' = events \cup Range(tcp)
          /\ UNCHANGED <<held, tcp, local, boundTo, accepted, cause>>
     ELSE Exit("panic")
  /\ UNCHANGED <<conf, turn, asap, sigs, portMoves>>

\* connSocketAcceptHandler, connUnixAcceptHandler: up to n connections, until accept
\* fails.  createClient ignores that a descriptor beyond the set size gets no event.
Accepting(fd, n) ==
  /\ phase = "running" /\ fd \in events \cap (Range(tcp) \cup Range(local))
  /\ \E given \in SUBSET (Fds \ held) :
       /\ Cardinality(given) = n /\ \A t \in given, v \in (Fds \ held) \ given : t < v
       /\ held' = held \cup given /\ accepted' = accepted \cup given
       /\ events' = events \cup {s \in given : s < ElSetSize}
  /\ UNCHANGED <<conf, phase, turn, tcp, local, boundTo, asap, sigs, cause, portMoves>>
AcceptHandler == \E fd \in events, n \in 1 .. AcceptsPerCall : Accepting(fd, n)

\* connClose of a client, by whichever path.
CloseClient(s) ==
  /\ phase = "running" /\ s \in accepted
  /\ held' = held \ {s} /\ events' = events \ {s} /\ accepted' = accepted \ {s}
  /\ UNCHANGED <<conf, phase, turn, tcp, local, boundTo, asap, sigs, cause, portMoves>>

\* Before setupSignalHandlers the signal is deadly.
Killed(sig) ==
  /\ phase = "loaded" /\ sig \in {"SIGINT", "SIGTERM"}
  /\ Exit("signal")
  /\ UNCHANGED <<conf, turn, asap, sigs, portMoves>>

sigShutdownHandler_any_second_signal(sig) ==
  /\ phase \notin {"loaded", "exited"} /\ Len(sigs) < SignalBound
  /\ sigs' = Append(sigs, sig)
  /\ IF asap THEN Exit("signal") /\ UNCHANGED asap
     ELSE /\ asap' = TRUE
          /\ UNCHANGED <<phase, held, events, tcp, local, boundTo, accepted, cause>>
  /\ UNCHANGED <<conf, turn, portMoves>>

\* serverCron never looks at shutdown_asap: only the second signal's handler does.
sigShutdownHandler(sig) ==
  /\ phase \notin {"loaded", "exited"} /\ Len(sigs) < SignalBound
  /\ sigs' = Append(sigs, sig)
  /\ IF asap /\ sig = "SIGINT" THEN Exit("signal") /\ UNCHANGED asap
     ELSE /\ asap' = TRUE
          /\ UNCHANGED <<phase, held, events, tcp, local, boundTo, accepted, cause>>
  /\ UNCHANGED <<conf, turn, portMoves>>

Signalled == \E sig \in {"SIGINT", "SIGTERM"} : Killed(sig) \/ sigShutdownHandler(sig)

LsnNext ==
  \/ initServer
  \/ initListeners \/ listenToPort \/ ListenersOpened \/ changeListener
  \/ \E port \in BOOLEAN : updatePort(port)
  \/ AcceptHandler
  \/ \E s \in accepted : CloseClient(s)
  \/ Signalled

LsnSpec == LsnInit /\ [][LsnNext]_lsnvars

-----------------------------------------------------------------------------
(* Properties                                                              *)

Listening == Range(tcp) \cup Range(local)

\* Every open descriptor belongs to exactly one owner and every owner's descriptor is
\* open: no path of anet.c, of listenToPort's roll-back or of updatePort leaks a socket
\* or keeps the number of a closed one, which the next client would be given.
DescriptorsAccounted ==
  phase # "exited" =>
    /\ held = Std \cup Listening \cup accepted
    /\ Cardinality(held) = Cardinality(Std) + Len(tcp) + Len(local) + Cardinality(accepted)

\* Exactly the listening sockets have the accept handler, and those of the socket listener
\* only once all of them are bound: the event table holds them, the clients' descriptors
\* below the set size, and nothing else (aeDeleteFileEvent goes with every close).
ListenersArmed ==
  phase # "exited" =>
    events = Range(local) \cup (IF phase = "running" THEN Range(tcp) ELSE {}) \cup {s \in accepted : s < ElSetSize}

\* initListeners lets the server run only when it listens somewhere, and a listener with a
\* socket has one for every address that resolves, is not optional and has a family the
\* host supports: a failure in the middle undoes the sockets opened before it.
Mandatory(a) == a.resolves /\ ~ a.optional /\ (a.v6 => conf.ipv6)
MandatoryBound ==
  phase = "running" =>
    /\ portMoves = 0 => Listening # {}
    /\ tcp # <<>> =>
         /\ Len(boundTo) = Len(tcp)
         /\ \A i \in DOMAIN conf.bindaddr :
              Mandatory(conf.bindaddr[i]) => conf.bindaddr[i] \in Range(boundTo)

\* From setupSignalHandlers on, the process is stopped by a signal exactly when a SIGINT
\* follows an earlier SIGINT or SIGTERM.  The shutdown that one signal, or any number of
\* SIGTERMs, "schedules" is never carried out.
StopsOnSecondSigint ==
  sigs # <<>> => (cause = "signal" <=> \E i \in 2 .. Len(sigs) : sigs[i] = "SIGINT")

\* What listens, what is armed and what is open agree, after every failure of a system
\* call on the way to it.
ListenersSound == LsnTypeOK /\ DescriptorsAccounted /\ ListenersArmed /\ MandatoryBound
=============================================================================
