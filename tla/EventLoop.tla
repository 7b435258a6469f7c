----------------------------- MODULE EventLoop -----------------------------
(***************************************************************************)
(* The event loop of ae.c over epoll (ae_epoll.c): the table of registered *)
(* descriptors and the kernel's interest list that shadows it, the time    *)
(* events, and aeProcessEvents, which computes how long to wait, lets      *)
(* beforeSleep run, polls, calls the handlers and then the due timers.     *)
(*                                                                         *)
(* Handlers are known by what they do to the loop: they open, change and   *)
(* close descriptors through socket.c, and take time.  A descriptor has    *)
(* one handler for both directions, as in this server, where AE_BARRIER is *)
(* never set and no connection type has pending data of its own.           *)
(* Times are microseconds from now.                                        *)
(***************************************************************************)
EXTENDS Integers, Sequences, FiniteSets, FiniteSetsExt

CONSTANTS
  Fd,       \* descriptors of the process that are not taken otherwise
  Listener, \* the listening socket's
  SetSize,  \* eventLoop->setsize
  Timer,    \* time events, created at startup
  Period,   \* what a time event's handler may return, in milliseconds
  Ms,       \* microseconds in a millisecond
  MaxStep   \* bound: time a handler takes

Mask == {"READABLE", "WRITABLE"}

ASSUME EventLoopAssumption ==
  /\ Fd \subseteq Nat /\ IsFiniteSet(Fd)
  /\ Listener \in Fd /\ Listener < SetSize
  /\ IsFiniteSet(Timer)
  /\ SetSize \in Nat /\ Period \subseteq Nat /\ Ms \in Nat \ {0} /\ MaxStep \in Nat

VARIABLES
  open,    \* descriptors in use
  mask,    \* eventLoop->events[fd].mask
  maxfd,   \* eventLoop->maxfd
  epoll,   \* events the kernel watches for each descriptor, none: not in its list
  pc,      \* where the loop is
  wait,    \* the timeout given to epoll_wait, in milliseconds, -1 for none
  fired,   \* eventLoop->fired, entries not handled yet
  current, \* the descriptor whose handler is running
  timers,  \* the list of time events
  left,    \* microseconds until each is due
  deleted, \* those with AE_DELETED_EVENT_ID
  visit    \* time events processTimeEvents has still to visit

files == <<open, mask, maxfd, epoll>>
times == <<timers, left, deleted>>
vars == <<open, mask, maxfd, epoll, pc, wait, fired, current, timers, left, deleted, visit>>

Unknown == -1

TypeOK ==
  /\ open \subseteq Fd
  /\ mask \in [Fd -> SUBSET Mask] /\ epoll \in [Fd -> SUBSET Mask]
  /\ \A fd \in Fd : mask[fd] # {} => fd < SetSize
  /\ maxfd \in Fd \cup {-1} /\ current \in Fd \cup {Unknown}
  /\ pc \in {"top", "before", "poll", "files", "handler", "times", "timer"}
  /\ wait \in Nat \cup {-1} /\ fired \in [Fd -> SUBSET Mask]
  /\ timers \in Seq(Timer) /\ visit \in Seq(Timer)
  /\ left \in [Timer -> Nat] /\ deleted \subseteq Timer

-----------------------------------------------------------------------------
(* File events.  f is a record of open, mask, maxfd and epoll.             *)

Files == [open |-> open, mask |-> mask, maxfd |-> maxfd, epoll |-> epoll]
SetFiles(f) == open' = f.open /\ mask' = f.mask /\ maxfd' = f.maxfd /\ epoll' = f.epoll

\* epoll_ctl refuses to add a descriptor it watches and to modify or delete one
\* it does not.
Refused(f, fd, op) == (op = "ADD") = (f.epoll[fd] # {})

aeApiAddEvent(f, fd, m) ==
  LET op == IF f.mask[fd] = {} THEN "ADD" ELSE "MOD"
  IN  IF Refused(f, fd, op) THEN [ok |-> FALSE, f |-> f]
      ELSE [ok |-> TRUE, f |-> [f EXCEPT !.epoll[fd] = f.mask[fd] \cup m]]

aeApiDelEvent(f, fd, m) ==
  IF Refused(f, fd, "MOD") THEN f ELSE [f EXCEPT !.epoll[fd] = f.mask[fd] \ m]

aeCreateFileEvent(f, fd, m) ==
  LET r == aeApiAddEvent(f, fd, m)
  IN  IF fd >= SetSize \/ ~ r.ok THEN f
      ELSE [r.f EXCEPT !.mask[fd] = @ \cup m, !.maxfd = IF fd > @ THEN fd ELSE @]

Largest_below(f, fd) == fd - 1

\* The largest registered descriptor below fd, -1 if there is none.
Largest(f, fd) == Max({-1} \cup {g \in Fd : g < fd /\ f.mask[g] # {}})

aeDeleteFileEvent(f, fd, m) ==
  LET g == [aeApiDelEvent(f, fd, m) EXCEPT !.mask[fd] = @ \ m]
  IN  IF fd >= SetSize \/ (fd < SetSize /\ f.mask[fd] = {}) THEN f
      ELSE IF fd = f.maxfd /\ g.mask[fd] = {} THEN [g EXCEPT !.maxfd = Largest(g, fd)]
      ELSE g

\* The kernel forgets a descriptor that is closed.
Closed(f, fd) == [f EXCEPT !.open = @ \ {fd}, !.epoll[fd] = {}]

connSocketClose_leaves_events(f, fd) == Closed(f, fd)

connSocketClose(f, fd) == Closed(aeDeleteFileEvent(f, fd, Mask), fd)

connSocketSetHandler(f, fd, m, on) ==
  IF on = (m \in f.mask[fd]) THEN f
  ELSE IF on THEN aeCreateFileEvent(f, fd, {m}) ELSE aeDeleteFileEvent(f, fd, {m})

\* accept() returns the lowest free descriptor, createClient registers it; a
\* descriptor that cannot be registered stays open.
Accepted(f) ==
  LET fd == Min(Fd \ f.open)
  IN  aeCreateFileEvent([f EXCEPT !.open = @ \cup {fd}], fd, {"READABLE"})

-----------------------------------------------------------------------------
(* Time                                                                    *)

\* The list of time events without t.
Unlinked(s, t) ==
  IF t \notin Range(s) THEN s
  ELSE LET i == CHOOSE i \in DOMAIN s : s[i] = t
       IN  SubSeq(s, 1, i - 1) \o SubSeq(s, i + 1, Len(s))

Elapsed(d) == [t \in Timer |-> IF left[t] > d THEN left[t] - d ELSE 0]

\* Deleted time events count until processTimeEvents removes them.
usUntilEarliestTimer ==
  IF timers = << >> THEN -1 ELSE Min({left[t] : t \in Range(timers)})

\* The timeout of epoll_wait in milliseconds, rounded up.
PollTimeout_rounded_down(us) == IF us = -1 THEN -1 ELSE us \div Ms

PollTimeout(us) == IF us = -1 THEN -1 ELSE (us + Ms - 1) \div Ms

Init ==
  /\ open = {Listener}
  /\ mask = [fd \in Fd |-> IF fd = Listener THEN {"READABLE"} ELSE {}]
  /\ epoll = mask
  /\ maxfd = Listener
  /\ pc = "top" /\ wait = -1
  /\ fired = [fd \in Fd |-> {}] /\ current = Unknown
  /\ timers \in [1 .. Cardinality(Timer) -> Timer] /\ IsInjective(timers) /\ left = [t \in Timer |-> Ms]
  /\ deleted = {} /\ visit = << >>

-----------------------------------------------------------------------------
(* aeProcessEvents                                                         *)

ComputeWait ==
  /\ pc = "top"
  /\ pc' = "before"
  /\ wait' = PollTimeout(usUntilEarliestTimer)
  /\ UNCHANGED <<files, fired, current, times, visit>>

\* beforeSleep installs write handlers and frees clients.
BeforeSleep ==
  /\ pc = "before"
  /\ \E fd \in open \ {Listener} :
       \/ SetFiles(connSocketClose(Files, fd))
       \/ SetFiles(connSocketSetHandler(Files, fd, "WRITABLE", TRUE))
  /\ UNCHANGED <<pc, wait, fired, current, times, visit>>

BeforeSleepReturns ==
  /\ pc = "before"
  /\ pc' = "poll"
  /\ \E d \in 0 .. MaxStep : left' = Elapsed(d)
  /\ UNCHANGED <<files, wait, fired, current, timers, deleted, visit>>

\* What epoll_wait may report of a descriptor it watches: the events asked for,
\* and both when there is an error.
Reported(fd) == IF epoll[fd] = {} THEN {{}} ELSE SUBSET epoll[fd] \cup {Mask}

\* Polling takes time, at least a microsecond.
PollEvents ==
  /\ pc = "poll"
  /\ \E ev \in [Fd -> SUBSET Mask] :
       /\ \A fd \in Fd : ev[fd] \in Reported(fd)
       /\ \E fd \in Fd : ev[fd] # {}
       /\ fired' = ev
  /\ \E d \in 1 .. (IF wait = -1 THEN MaxStep ELSE wait * Ms) \cup {1} : left' = Elapsed(d)
  /\ pc' = "files"
  /\ UNCHANGED <<files, wait, current, timers, deleted, visit>>

PollTimesOut ==
  /\ pc = "poll" /\ wait # -1
  /\ left' = Elapsed(Max({wait * Ms, 1}))
  /\ pc' = "files"
  /\ UNCHANGED <<files, wait, fired, current, timers, deleted, visit>>

\* A signal ends epoll_wait early (EINTR).
PollInterrupted ==
  /\ pc = "poll" /\ wait # 0
  /\ left' = Elapsed(1)
  /\ pc' = "files"
  /\ UNCHANGED <<files, wait, fired, current, timers, deleted, visit>>

\* The order of the entries is the kernel's.
HandleFired(fd) ==
  /\ pc = "files" /\ fired[fd] # {}
  /\ fired' = [fired EXCEPT ![fd] = {}]
  /\ IF mask[fd] \cap fired[fd] # {}
     THEN pc' = "handler" /\ current' = fd ELSE UNCHANGED <<pc, current>>
  /\ UNCHANGED <<files, wait, times, visit>>

\* The handler of the listening socket accepts, that of a connection changes
\* or closes its own.
FileHandler ==
  /\ pc = "handler"
  /\ IF current = Listener THEN Fd # open /\ SetFiles(Accepted(Files))
     ELSE /\ current \in open
          /\ \/ SetFiles(connSocketClose(Files, current))
             \/ \E m \in Mask, on \in BOOLEAN :
                  SetFiles(connSocketSetHandler(Files, current, m, on))
  /\ UNCHANGED <<pc, wait, fired, current, times, visit>>

FileHandlerReturns ==
  /\ pc = "handler"
  /\ pc' = "files" /\ current' = Unknown
  /\ \E d \in 0 .. MaxStep : left' = Elapsed(d)
  /\ UNCHANGED <<files, wait, fired, timers, deleted, visit>>

ProcessTimeEvents ==
  /\ pc = "files" /\ \A fd \in Fd : fired[fd] = {}
  /\ pc' = "times" /\ visit' = timers
  /\ UNCHANGED <<files, wait, fired, current, times>>

VisitTimer_skips_last ==
  /\ pc = "times" /\ visit # << >>
  /\ LET t == Head(visit)
     IN  IF t \in deleted
         THEN /\ timers' = Unlinked(timers, t) /\ deleted' = deleted \ {t}
              /\ visit' = Tail(visit) /\ UNCHANGED pc
         ELSE /\ IF left[t] = 0 /\ Len(visit) > 1 THEN pc' = "timer" /\ UNCHANGED visit
                 ELSE visit' = Tail(visit) /\ UNCHANGED pc
              /\ UNCHANGED <<timers, deleted>>
  /\ UNCHANGED <<files, wait, fired, current, left>>

VisitTimer ==
  /\ pc = "times" /\ visit # << >>
  /\ LET t == Head(visit)
     IN  IF t \in deleted
         THEN /\ timers' = Unlinked(timers, t) /\ deleted' = deleted \ {t}
              /\ visit' = Tail(visit) /\ UNCHANGED pc
         ELSE /\ IF left[t] = 0 THEN pc' = "timer" /\ UNCHANGED visit
                 ELSE visit' = Tail(visit) /\ UNCHANGED pc
              /\ UNCHANGED <<timers, deleted>>
  /\ UNCHANGED <<files, wait, fired, current, left>>

\* The handler of a time event asks to be called again after a period ...
TimerAgain ==
  /\ pc = "timer"
  /\ pc' = "times" /\ visit' = Tail(visit)
  /\ \E d \in 0 .. MaxStep, p \in Period :
       left' = [Elapsed(d) EXCEPT ![Head(visit)] = p * Ms]
  /\ UNCHANGED <<files, wait, fired, current, timers, deleted>>

\* ... or returns AE_NOMORE.
TimerNoMore ==
  /\ pc = "timer"
  /\ pc' = "times" /\ visit' = Tail(visit)
  /\ deleted' = deleted \cup {Head(visit)}
  /\ \E d \in 0 .. MaxStep : left' = Elapsed(d)
  /\ UNCHANGED <<files, wait, fired, current, timers>>

EndIteration ==
  /\ pc = "times" /\ visit = << >>
  /\ pc' = "top"
  /\ UNCHANGED <<files, wait, fired, current, times, visit>>

Loop ==
  \/ ComputeWait \/ BeforeSleepReturns
  \/ PollEvents \/ PollTimesOut \/ PollInterrupted
  \/ \E fd \in Fd : HandleFired(fd)
  \/ FileHandlerReturns \/ ProcessTimeEvents
  \/ VisitTimer \/ TimerAgain \/ TimerNoMore \/ EndIteration

Next == Loop \/ BeforeSleep \/ FileHandler

\* The loop is the process's only thread; its handlers return.
Spec == Init /\ [][Next]_vars /\ WF_vars(Loop)

-----------------------------------------------------------------------------
(* Properties                                                              *)

\* The kernel watches exactly the events of the table, and nothing is left in
\* the table of a descriptor that was closed: otherwise its number, given to
\* the next connection, could not be registered again.  Nothing is registered
\* beyond the table's size.
EpollFollowsTable ==
  \A fd \in Fd : epoll[fd] = mask[fd] /\ (mask[fd] # {} => fd \in open /\ fd < SetSize)

\* eventLoop->maxfd is "highest file descriptor currently registered".
MaxfdIsLargest == maxfd = Max({-1} \cup {fd \in Fd : mask[fd] # {}})

\* The table, the kernel's list and maxfd agree, whatever descriptors the handlers open,
\* change and close.
TablesAgree == EpollFollowsTable /\ MaxfdIsLargest

\* The loop sleeps until the earliest time event: not less, which would make it
\* spin, and not more than the rounding and the time beforeSleep took.
SleepsUntilTimer ==
  pc = "poll" /\ timers # << >> =>
    LET earliest == Min({left[t] : t \in Range(timers)})
    IN  /\ earliest <= wait * Ms
        /\ wait * Ms < earliest + MaxStep + Ms

\* Every time event in the list is run, however busy the descriptors are.
Due(t) == t \in Range(timers) \ deleted
Running(t) == pc = "timer" /\ Head(visit) = t
TimersServed == \A t \in Timer : Due(t) ~> Running(t)
=============================================================================
