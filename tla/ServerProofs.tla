---------------------------- MODULE ServerProofs ----------------------------
(***************************************************************************)
(* The event loop: its table and the kernel's interest list agree, and     *)
(* maxfd is the largest registered descriptor, for any descriptors and any *)
(* set size.  FilesOK is the inductive invariant, on a record of the four  *)
(* variables the operations of ae.c and socket.c work on.  The loop sleeps *)
(* until its earliest timer: TimesInv relates the timeout it computed, the *)
(* time that has passed since and the timers' due times.                   *)
(*                                                                         *)
(* The life of the server process, for any list of addresses, any limits   *)
(* and any outcome of the calls on the way: SignalInv relates              *)
(* shutdown_asap, which the first signal sets and nothing resets, to the   *)
(* signals delivered.  LsnInv says whose each descriptor is at every step  *)
(* of listenToPort, initListeners and updatePort, and which addresses the  *)
(* loop has seen to so far.                                                *)
(***************************************************************************)
EXTENDS EventLoop, Listeners, FiniteSetTheorems, WellFoundedInduction, TLAPS

-----------------------------------------------------------------------------
(* The event loop: extremes of sets of numbers                             *)

\* A nonempty set of naturals has a least element.
LEMMA LeastNatural ==
  ASSUME NEW T, T \subseteq Nat, T # {}
  PROVE  \E x \in T : \A y \in T : x <= y
<1>1. IsWellFoundedOn(OpToRel(<, Nat), Nat)
  BY NatLessThanWellFounded, Zenon
<1>2. PICK x \in T : \A y \in T : ~ (<<y, x>> \in OpToRel(<, Nat))
  BY <1>1, WFMin, Zenon
<1>3. \A y \in T : ~ (y < x)
  BY <1>2, Zenon DEF OpToRel
<1>4. QED
  BY <1>3

\* Min is that element.
LEMMA MinIsLeast ==
  ASSUME NEW T, T \subseteq Nat, T # {}
  PROVE  Min(T) \in T /\ \A y \in T : Min(T) <= y
BY LeastNatural, Zenon DEF Min

\* Max is the only element of a set of integers that bounds it.
LEMMA MaxIsBound ==
  ASSUME NEW T, T \subseteq Int, NEW b \in T, \A y \in T : y <= b
  PROVE  Max(T) = b
<1>1. \A x \in T : (\A y \in T : x >= y) => x = b
  OBVIOUS
<1>2. \E x \in T : \A y \in T : x >= y
  OBVIOUS
<1>3. QED
  BY <1>1, <1>2, Zenon DEF Max

\* A set of integers that contains -1 and is below a natural has a maximum.
LEMMA MaxExists ==
  ASSUME NEW T, T \subseteq Int, NEW n \in Nat, -1 \in T, \A y \in T : y < n
  PROVE  Max(T) \in T /\ \A y \in T : y <= Max(T)
<1> DEFINE U == {k \in Nat : n - 1 - k \in T}
<1>1. n \in U
  OBVIOUS
<1>2. PICK k \in U : \A j \in U : k <= j
  <2> HIDE DEF U
  <2>1. U # {} /\ U \subseteq Nat
    BY <1>1 DEF U
  <2>2. QED
    BY <2>1, LeastNatural, Zenon
<1>3. \A y \in T : y <= n - 1 - k
  <2> SUFFICES ASSUME NEW y \in T PROVE y <= n - 1 - k
    OBVIOUS
  <2>1. n - 1 - y \in Nat /\ n - 1 - (n - 1 - y) = y
    OBVIOUS
  <2>2. n - 1 - y \in U
    BY <2>1
  <2>3. QED
    BY <1>2, <2>2
<1>4. QED
  BY <1>2, <1>3, MaxIsBound, Zenon

-----------------------------------------------------------------------------
(* The event loop: the operations on the event table                       *)

FilesType == [open : SUBSET Fd, mask : [Fd -> SUBSET Mask], maxfd : Int,
              epoll : [Fd -> SUBSET Mask]]

\* The kernel's list follows the table, which holds nothing of a closed
\* descriptor nor of one beyond the set size.
TableOK(f) ==
  \A fd \in Fd : /\ f.epoll[fd] = f.mask[fd]
                 /\ f.mask[fd] # {} => fd \in f.open /\ fd < SetSize

\* m is registered, or -1, and no registered descriptor is larger.
Bounds(m, mk) ==
  /\ m = -1 \/ (m \in Fd /\ mk[m] # {})
  /\ \A fd \in Fd : mk[fd] # {} => fd <= m

FilesOK(f) == f \in FilesType /\ TableOK(f) /\ Bounds(f.maxfd, f.mask)

\* aeCreateFileEvent adds the events to both tables.
Created(f, t, fd, m) ==
  /\ t \in FilesType
  /\ t.open = f.open
  /\ t.mask = [f.mask EXCEPT ![fd] = @ \cup m]
  /\ t.epoll = [f.epoll EXCEPT ![fd] = f.mask[fd] \cup m]
  /\ t.maxfd = IF fd > f.maxfd THEN fd ELSE f.maxfd

\* It does so for every descriptor below the set size.
LEMMA CreateEffect ==
  ASSUME NEW f, FilesOK(f), NEW fd \in Fd, fd < SetSize, NEW m \in SUBSET Mask
  PROVE  Created(f, aeCreateFileEvent(f, fd, m), fd, m)
<1> DEFINE E == [f.epoll EXCEPT ![fd] = f.mask[fd] \cup m]
           K == [f.mask EXCEPT ![fd] = @ \cup m]
           X == IF fd > f.maxfd THEN fd ELSE f.maxfd
           G == [f EXCEPT !.epoll = E]
<1>1. f \in FilesType /\ fd \in Int /\ ~ (fd >= SetSize)
  BY EventLoopAssumption DEF FilesOK
<1>2. ~ Refused(f, fd, IF f.mask[fd] = {} THEN "ADD" ELSE "MOD")
  BY DEF Refused, FilesOK, TableOK
<1>3. aeApiAddEvent(f, fd, m) = [ok |-> TRUE, f |-> G]
  BY <1>1, <1>2 DEF aeApiAddEvent, FilesType
<1>4. E \in [Fd -> SUBSET Mask] /\ K \in [Fd -> SUBSET Mask] /\ X \in Int
  BY <1>1 DEF FilesType
<1>5. G \in FilesType /\ G.open = f.open /\ G.mask = f.mask /\ G.maxfd = f.maxfd /\ G.epoll = E
  <2> HIDE DEF E
  <2>1. QED
    BY <1>1, <1>4 DEF FilesType
<1> HIDE DEF G
<1>6. aeCreateFileEvent(f, fd, m) = [G EXCEPT !.mask = K, !.maxfd = X]
  <2>1. aeApiAddEvent(f, fd, m).ok /\ aeApiAddEvent(f, fd, m).f = G
    BY <1>3
  <2>2. aeCreateFileEvent(f, fd, m) =
          [G EXCEPT !.mask[fd] = @ \cup m, !.maxfd = IF fd > @ THEN fd ELSE @]
    BY <1>1, <2>1 DEF aeCreateFileEvent
  <2>3. QED
    BY <1>5, <2>2 DEF FilesType
<1>7. QED
  <2> HIDE DEF E, K, X
  <2>1. [G EXCEPT !.mask = K, !.maxfd = X] \in FilesType
    BY <1>4, <1>5, Zenon DEF FilesType
  <2>2. QED
    BY <1>5, <1>6, <2>1, Zenon DEF Created, FilesType, E, K, X

\* aeCreateFileEvent keeps the tables in step.
LEMMA CreateKeeps ==
  ASSUME NEW f, FilesOK(f), NEW fd \in f.open, NEW m \in SUBSET Mask, m # {}
  PROVE  FilesOK(aeCreateFileEvent(f, fd, m)) /\ aeCreateFileEvent(f, fd, m).open = f.open
<1> DEFINE t == aeCreateFileEvent(f, fd, m)
<1>1. fd \in Fd /\ Fd \subseteq Nat /\ SetSize \in Nat
  BY EventLoopAssumption DEF FilesOK, FilesType
<1>2. CASE fd >= SetSize
  BY <1>2 DEF aeCreateFileEvent
<1>3. CASE ~ (fd >= SetSize)
  <2>1. fd < SetSize
    BY <1>1, <1>3
  <2>2. Created(f, t, fd, m)
    BY <1>1, <2>1, CreateEffect
  <2> HIDE DEF t
  <2>3. f \in FilesType /\ f.maxfd \in Int /\ f.mask \in [Fd -> SUBSET Mask] /\ f.epoll \in [Fd -> SUBSET Mask]
    BY DEF FilesOK, FilesType
  <2>4. TableOK(t)
    BY <1>1, <2>1, <2>2, <2>3 DEF Created, FilesOK, TableOK
  <2>5. Bounds(t.maxfd, t.mask)
    <3> DEFINE k == f.mask
               x == f.maxfd
    <3>1. Bounds(x, k) /\ x \in Int /\ k \in [Fd -> SUBSET Mask]
      BY <2>3 DEF FilesOK
    <3>2. t.mask = [k EXCEPT ![fd] = @ \cup m] /\ t.maxfd = IF fd > x THEN fd ELSE x
      BY <2>2 DEF Created
    <3> HIDE DEF k, x, t
    <3>3. t.mask[fd] # {} /\ \A h \in Fd : h # fd => t.mask[h] = k[h]
      BY <1>1, <3>1, <3>2
    <3>4. fd \in Int /\ \A h \in Fd : h \in Int
      BY <1>1
    <3>5. CASE fd > x
      <4>1. t.maxfd = fd
        BY <3>2, <3>5
      <4>2. \A h \in Fd : t.mask[h] # {} => h <= fd
        BY <3>1, <3>3, <3>4, <3>5 DEF Bounds
      <4>3. QED
        BY <1>1, <3>3, <4>1, <4>2, Zenon DEF Bounds
    <3>6. CASE ~ (fd > x)
      <4>1. t.maxfd = x
        BY <3>2, <3>6
      <4>2. \A h \in Fd : t.mask[h] # {} => h <= x
        BY <3>1, <3>3, <3>4, <3>6 DEF Bounds
      <4>3. x = -1 \/ (x \in Fd /\ t.mask[x] # {})
        BY <3>1, <3>3, Zenon DEF Bounds
      <4>4. QED
        BY <4>1, <4>2, <4>3, Zenon DEF Bounds
    <3>7. QED
      BY <3>5, <3>6
  <2>6. FilesOK(t) /\ t.open = f.open
    BY <2>2, <2>4, <2>5, Zenon DEF Created, FilesOK
  <2>7. QED
    BY <2>6 DEF t
<1>4. QED
  BY <1>2, <1>3

\* The largest registered descriptor below fd bounds a table without fd whose
\* descriptors are at most fd.
LEMMA LargestBounds ==
  ASSUME NEW K \in [Fd -> SUBSET Mask], NEW fd \in Fd,
         K[fd] = {}, \A h \in Fd : K[h] # {} => h <= fd,
         NEW g, g.mask = K
  PROVE  Largest(g, fd) \in Int /\ Bounds(Largest(g, fd), K)
<1> DEFINE T == {-1} \cup {h \in Fd : h < fd /\ K[h] # {}}
<1>1. Fd \subseteq Nat /\ fd \in Nat
  BY EventLoopAssumption
<1>2. Largest(g, fd) = Max(T)
  BY DEF Largest
<1>3. -1 \in T /\ \A h : h \in T <=> h = -1 \/ (h \in Fd /\ h < fd /\ K[h] # {})
  BY Zenon
<1> HIDE DEF T
<1>4. T \subseteq Int /\ \A y \in T : y < fd
  <2> SUFFICES ASSUME NEW y \in T PROVE y \in Int /\ y < fd
    OBVIOUS
  <2>1. y = -1 \/ (y \in Nat /\ y < fd)
    BY <1>1, <1>3, Zenon
  <2>2. QED
    BY <1>1, <2>1
<1>5. \A h \in Fd : K[h] # {} => h \in T
  <2> SUFFICES ASSUME NEW h \in Fd, K[h] # {} PROVE h < fd
    BY <1>3
  <2>1. h <= fd /\ h # fd
    BY <1>1
  <2>2. QED
    BY <1>1, <2>1
<1>6. Max(T) \in T /\ \A y \in T : y <= Max(T)
  BY <1>1, <1>3, <1>4, MaxExists, Zenon
<1>7. Max(T) \in Int /\ Bounds(Max(T), K)
  BY <1>3, <1>4, <1>5, <1>6, Zenon DEF Bounds
<1>8. QED
  BY <1>2, <1>7

\* aeDeleteFileEvent takes the events out of both tables.
Deleted(f, t, fd, m) ==
  /\ t \in FilesType
  /\ t.open = f.open
  /\ t.mask = [f.mask EXCEPT ![fd] = @ \ m]
  /\ t.epoll = [f.epoll EXCEPT ![fd] = f.mask[fd] \ m]
  /\ Bounds(t.maxfd, t.mask)

\* It does so for every registered descriptor.
LEMMA DeleteEffect ==
  ASSUME NEW f, FilesOK(f), NEW fd \in Fd, f.mask[fd] # {}, NEW m \in SUBSET Mask
  PROVE  Deleted(f, aeDeleteFileEvent(f, fd, m), fd, m)
<1> DEFINE E == [f.epoll EXCEPT ![fd] = f.mask[fd] \ m]
           K == [f.mask EXCEPT ![fd] = @ \ m]
           G == [f EXCEPT !.epoll = E, !.mask = K]
           A == [aeApiDelEvent(f, fd, m) EXCEPT !.mask[fd] = @ \ m]
<1>1. f \in FilesType /\ fd \in Int /\ Fd \subseteq Int /\ SetSize \in Int /\ fd < SetSize
  BY EventLoopAssumption DEF FilesOK, TableOK
<1>2. ~ Refused(f, fd, "MOD")
  BY DEF Refused, FilesOK, TableOK
<1>3. A = G
  <2>1. aeApiDelEvent(f, fd, m) = [f EXCEPT !.epoll = E]
    BY <1>1, <1>2 DEF aeApiDelEvent, FilesType
  <2>2. QED
    BY <1>1, <2>1 DEF FilesType
<1>4. E \in [Fd -> SUBSET Mask] /\ K \in [Fd -> SUBSET Mask]
  BY <1>1 DEF FilesType
<1>5. G \in FilesType /\ G.open = f.open /\ G.mask = K /\ G.maxfd = f.maxfd /\ G.epoll = E
  <2> HIDE DEF E, K
  <2>1. G \in FilesType
    BY <1>1, <1>4, Zenon DEF FilesType
  <2>2. QED
    BY <1>1, <2>1 DEF FilesType
<1>6. aeDeleteFileEvent(f, fd, m) =
        IF fd = f.maxfd /\ G.mask[fd] = {} THEN [G EXCEPT !.maxfd = Largest(G, fd)] ELSE G
  <2> HIDE DEF G
  <2>1. ~ (fd >= SetSize \/ (fd < SetSize /\ f.mask[fd] = {}))
    BY <1>1
  <2>2. QED
    BY <1>3, <2>1, Zenon DEF aeDeleteFileEvent
<1> HIDE DEF G
<1>7. Bounds(f.maxfd, f.mask)
  BY DEF FilesOK
<1>8. CASE fd = f.maxfd /\ G.mask[fd] = {}
  <2>1. \A h \in Fd : G.mask[h] # {} => h <= fd
    BY <1>1, <1>5, <1>7, <1>8, Zenon DEF Bounds, FilesType
  <2>2. Largest(G, fd) \in Int /\ Bounds(Largest(G, fd), G.mask)
    <3> HIDE DEF K
    <3>1. QED
      BY <1>4, <1>5, <1>8, <2>1, LargestBounds, Zenon
  <2> DEFINE X == Largest(G, fd)
  <2> HIDE DEF E, K, X
  <2>3. [G EXCEPT !.maxfd = X] \in FilesType
    BY <1>5, <2>2, Zenon DEF FilesType, X
  <2>4. QED
    BY <1>5, <1>6, <1>8, <2>2, <2>3, SMTT(30) DEF Deleted, FilesType, E, K, X
<1>9. CASE ~ (fd = f.maxfd /\ G.mask[fd] = {})
  <2>1. Bounds(G.maxfd, G.mask)
    BY <1>1, <1>5, <1>7, <1>9 DEF Bounds, FilesType
  <2>2. QED
    BY <1>5, <1>6, <1>9, <2>1, Zenon DEF Deleted
<1>10. QED
  BY <1>8, <1>9

\* aeDeleteFileEvent keeps the tables in step and takes the events out.
LEMMA DeleteKeeps ==
  ASSUME NEW f, FilesOK(f), NEW fd \in Fd, NEW m \in SUBSET Mask
  PROVE  /\ FilesOK(aeDeleteFileEvent(f, fd, m))
         /\ aeDeleteFileEvent(f, fd, m).open = f.open
         /\ aeDeleteFileEvent(f, fd, m).mask = [f.mask EXCEPT ![fd] = @ \ m]
<1> DEFINE t == aeDeleteFileEvent(f, fd, m)
<1>1. f \in FilesType /\ f.mask \in [Fd -> SUBSET Mask] /\ f.epoll \in [Fd -> SUBSET Mask]
  BY DEF FilesOK, FilesType
<1>2. CASE f.mask[fd] = {}
  <2>1. t = f
    <3>1. fd \in Int /\ SetSize \in Int
      BY EventLoopAssumption
    <3>2. fd >= SetSize \/ fd < SetSize
      BY <3>1
    <3>3. QED
      BY <1>2, <3>2, Zenon DEF aeDeleteFileEvent
  <2>2. f.mask = [f.mask EXCEPT ![fd] = @ \ m]
    BY <1>1, <1>2
  <2>3. QED
    BY <2>1, <2>2
<1>3. CASE f.mask[fd] # {}
  <2>1. Deleted(f, t, fd, m)
    BY <1>3, DeleteEffect
  <2> HIDE DEF t
  <2>2. TableOK(t)
    BY <1>1, <2>1 DEF Deleted, FilesOK, TableOK
  <2>3. FilesOK(t) /\ t.open = f.open /\ t.mask = [f.mask EXCEPT ![fd] = @ \ m]
    BY <2>1, <2>2, Zenon DEF Deleted, FilesOK
  <2>4. QED
    BY <2>3 DEF t
<1>4. QED
  BY <1>2, <1>3, Zenon

\* Closing a connection takes its descriptor out of both tables.
LEMMA CloseKeeps ==
  ASSUME NEW f, FilesOK(f), NEW fd \in Fd
  PROVE  FilesOK(connSocketClose(f, fd))
<1> DEFINE g == aeDeleteFileEvent(f, fd, Mask)
           E == [g.epoll EXCEPT ![fd] = {}]
           O == g.open \ {fd}
           t == [g EXCEPT !.open = O, !.epoll = E]
<1>1. FilesOK(g) /\ g.mask = [f.mask EXCEPT ![fd] = @ \ Mask]
  BY DeleteKeeps
<1>2. g.mask[fd] = {}
  BY <1>1, Zenon DEF FilesOK, FilesType
<1> HIDE DEF g
<1>3. g \in FilesType /\ E \in [Fd -> SUBSET Mask] /\ O \in SUBSET Fd
  BY <1>1 DEF FilesOK, FilesType
<1>4. Closed(g, fd) = t
  BY <1>3 DEF Closed, FilesType
<1>5. t \in FilesType /\ t.open = O /\ t.epoll = E /\ t.mask = g.mask /\ t.maxfd = g.maxfd
  <2> HIDE DEF E, O
  <2>1. t \in FilesType
    BY <1>3, Zenon DEF FilesType
  <2>2. QED
    BY <1>3, <2>1 DEF FilesType
<1> HIDE DEF t
<1>6. TableOK(t)
  BY <1>1, <1>2, <1>3, <1>5, SMTT(30) DEF FilesOK, FilesType, TableOK
<1>7. FilesOK(t)
  BY <1>1, <1>5, <1>6 DEF FilesOK
<1>8. QED
  BY <1>4, <1>7, Zenon DEF connSocketClose, g

\* So does installing or removing one of its handlers.
LEMMA SetHandlerKeeps ==
  ASSUME NEW f, FilesOK(f), NEW fd \in f.open, NEW m \in Mask, NEW on \in BOOLEAN
  PROVE  FilesOK(connSocketSetHandler(f, fd, m, on))
<1>1. fd \in Fd /\ {m} \in SUBSET Mask /\ {m} # {}
  BY DEF FilesOK, FilesType
<1>2. FilesOK(aeCreateFileEvent(f, fd, {m})) /\ FilesOK(aeDeleteFileEvent(f, fd, {m}))
  BY <1>1, CreateKeeps, DeleteKeeps, Zenon
<1>3. QED
  BY <1>2, Zenon DEF connSocketSetHandler

\* Accepting a connection registers the lowest free descriptor, which neither
\* table knew.
LEMMA AcceptKeeps ==
  ASSUME NEW f, FilesOK(f), f.open # Fd
  PROVE  FilesOK(Accepted(f))
<1> DEFINE fd == Min(Fd \ f.open)
           O == f.open \cup {fd}
           g == [f EXCEPT !.open = O]
<1>1. f \in FilesType /\ f.open \in SUBSET Fd
  BY DEF FilesOK, FilesType
<1>2. fd \in Fd \ f.open
  <2>1. Fd \ f.open \subseteq Nat /\ Fd \ f.open # {}
    BY <1>1, EventLoopAssumption, Zenon
  <2>2. QED
    BY <2>1, MinIsLeast
<1> HIDE DEF fd
<1>3. O \in SUBSET Fd /\ fd \in O
  BY <1>1, <1>2
<1>4. g \in FilesType /\ g.open = O /\ g.epoll = f.epoll /\ g.mask = f.mask /\ g.maxfd = f.maxfd
  <2> HIDE DEF O
  <2>1. g \in FilesType
    BY <1>1, <1>3, Zenon DEF FilesType
  <2>2. QED
    BY <1>1, <2>1 DEF FilesType
<1>5. Accepted(f) = aeCreateFileEvent(g, fd, {"READABLE"})
  BY <1>1 DEF Accepted, FilesType, fd
<1> HIDE DEF g
<1>6. FilesOK(g) /\ fd \in g.open
  BY <1>3, <1>4, Zenon DEF FilesOK, TableOK
<1>7. {"READABLE"} \in SUBSET Mask /\ {"READABLE"} # {}
  BY DEF Mask
<1>8. FilesOK(aeCreateFileEvent(g, fd, {"READABLE"}))
  BY <1>6, <1>7, CreateKeeps, Zenon
<1>9. QED
  BY <1>5, <1>8

-----------------------------------------------------------------------------
(* The event loop: the invariant                                           *)

FilesInv == FilesOK(Files)

\* The loop starts with the listening socket registered.
LEMMA InitFiles == Init => FilesInv
<1> SUFFICES ASSUME Init PROVE FilesInv
  OBVIOUS
<1>1. Fd \subseteq Nat /\ Listener \in Fd /\ Listener < SetSize /\ {"READABLE"} \in SUBSET Mask
  BY EventLoopAssumption DEF Mask
<1>2. Files \in FilesType
  BY <1>1 DEF Init, Files, FilesType
<1>3. TableOK(Files)
  BY <1>1 DEF Init, Files, TableOK
<1>4. Bounds(Files.maxfd, Files.mask)
  BY <1>1 DEF Init, Files, Bounds
<1>5. QED
  BY <1>2, <1>3, <1>4 DEF FilesInv, FilesOK

\* An operation that leaves good tables is a step that leaves good tables.
LEMMA SetFilesKeeps ==
  ASSUME NEW f, FilesOK(f), SetFiles(f)
  PROVE  FilesInv'
<1>1. f = [open |-> f.open, mask |-> f.mask, maxfd |-> f.maxfd, epoll |-> f.epoll]
  BY DEF FilesOK, FilesType
<1>2. Files' = f
  BY <1>1, Zenon DEF SetFiles, Files
<1>3. QED
  BY <1>2, Zenon DEF FilesInv

\* Every step of the loop and of its handlers does.
LEMMA NextFiles == FilesInv /\ [Next]_vars => FilesInv'
<1> SUFFICES ASSUME FilesInv, [Next]_vars PROVE FilesInv'
  OBVIOUS
<1>1. FilesOK(Files) /\ Files.open = open /\ open \in SUBSET Fd
  BY Zenon DEF FilesInv, Files, FilesOK, FilesType
<1>2. CASE UNCHANGED files
  BY <1>2, Zenon DEF files, FilesInv, Files
<1>3. CASE BeforeSleep
  <2>1. PICK fd \in open \ {Listener} :
          \/ SetFiles(connSocketClose(Files, fd))
          \/ SetFiles(connSocketSetHandler(Files, fd, "WRITABLE", TRUE))
    BY <1>3, Zenon DEF BeforeSleep
  <2>2. FilesOK(connSocketClose(Files, fd))
    BY <1>1, CloseKeeps
  <2>3. FilesOK(connSocketSetHandler(Files, fd, "WRITABLE", TRUE))
    <3>1. "WRITABLE" \in Mask /\ TRUE \in BOOLEAN /\ fd \in Files.open
      BY <1>1 DEF Mask
    <3>2. QED
      BY <1>1, <3>1, SetHandlerKeeps, Zenon
  <2>4. QED
    BY <2>1, <2>2, <2>3, SetFilesKeeps, Zenon
<1>4. CASE FileHandler
  <2>1. CASE current = Listener
    <3>1. Files.open # Fd /\ SetFiles(Accepted(Files))
      BY <1>1, <1>4, <2>1 DEF FileHandler
    <3>2. QED
      BY <1>1, <3>1, AcceptKeeps, SetFilesKeeps, Zenon
  <2>2. CASE current # Listener
    <3>1. current \in open /\ current \in Files.open /\ current \in Fd
      BY <1>1, <1>4, <2>2 DEF FileHandler
    <3>2. CASE SetFiles(connSocketClose(Files, current))
      BY <1>1, <3>1, <3>2, CloseKeeps, SetFilesKeeps, Zenon
    <3>3. CASE \E m \in Mask, on \in BOOLEAN :
                 SetFiles(connSocketSetHandler(Files, current, m, on))
      BY <1>1, <3>1, <3>3, SetHandlerKeeps, SetFilesKeeps, Zenon
    <3>4. QED
      BY <1>4, <2>2, <3>2, <3>3, Zenon DEF FileHandler
  <2>3. QED
    BY <2>1, <2>2
<1>5. CASE Loop
  <2>1. UNCHANGED files
    BY <1>5, Zenon DEF Loop, ComputeWait, BeforeSleepReturns, PollEvents, PollTimesOut, PollInterrupted,
      HandleFired, FileHandlerReturns, ProcessTimeEvents, VisitTimer, TimerAgain, TimerNoMore,
      EndIteration
  <2>2. QED
    BY <1>2, <2>1
<1>6. CASE UNCHANGED vars
  BY <1>2, <1>6, Zenon DEF vars, files
<1>7. QED
  BY <1>3, <1>4, <1>5, <1>6 DEF Next

\* The tables agree and maxfd is right in every reachable state.
LEMMA FilesAlways == Spec => []FilesInv
BY InitFiles, NextFiles, PTL DEF Spec

-----------------------------------------------------------------------------
(* The event loop: the theorems                                            *)

\* What aeCreateFileEvent, aeDeleteFileEvent and connSocketClose do to the table
\* they do to the kernel's interest list, a closed descriptor leaves nothing in
\* the table, and aeDeleteFileEvent's search downwards keeps maxfd the largest
\* registered descriptor, whatever the descriptors and the set size.
THEOREM TablesAlwaysAgree == Spec => []TablesAgree
<1>1. FilesInv => EpollFollowsTable
  BY Zenon DEF FilesInv, Files, FilesOK, TableOK, EpollFollowsTable
<1>2. FilesInv => MaxfdIsLargest
  <2> SUFFICES ASSUME FilesInv PROVE MaxfdIsLargest
    OBVIOUS
  <2> DEFINE T == {-1} \cup {fd \in Fd : mask[fd] # {}}
  <2>1. maxfd \in Int /\ Bounds(maxfd, mask) /\ Fd \subseteq Nat
    BY EventLoopAssumption DEF FilesInv, Files, FilesOK, FilesType
  <2>2. \A h : h \in T <=> h = -1 \/ (h \in Fd /\ mask[h] # {})
    BY Zenon
  <2>3. maxfd \in T
    BY <2>1, <2>2, Zenon DEF Bounds
  <2> HIDE DEF T
  <2>4. \A y \in T : y \in Int /\ y <= maxfd
    <3>1. \A h \in Fd : mask[h] # {} => h <= maxfd
      BY <2>1, Zenon DEF Bounds
    <3>2. -1 \in Int /\ -1 <= maxfd /\ Fd \subseteq Int
      BY <2>1 DEF Bounds
    <3>3. QED
      BY <2>2, <3>1, <3>2, Zenon
  <2>5. Max(T) = maxfd
    BY <2>3, <2>4, MaxIsBound
  <2>6. QED
    BY <2>5 DEF MaxfdIsLargest, T
<1>3. QED
  BY <1>1, <1>2, FilesAlways, PTL DEF TablesAgree

-----------------------------------------------------------------------------
(* The event loop: sleeping                                                *)

\* What integer division by a positive number rounds to.
LEMMA Division ==
  ASSUME NEW a \in Nat, NEW m \in Nat, m > 0
  PROVE  a \div m \in Nat /\ (a \div m) * m <= a /\ a < (a \div m) * m + m
OBVIOUS

\* The microseconds until the earliest of the time events q, when l gives each its own.
Earliest(q, l) == Min({l[t] : t \in Range(q)})

\* There is an earliest time event when there is any.
LEMMA EarliestIsLeast ==
  ASSUME NEW q \in Seq(Timer), q # << >>, NEW l \in [Timer -> Nat]
  PROVE  /\ Earliest(q, l) \in Nat
         /\ \E t \in Range(q) : t \in Timer /\ l[t] = Earliest(q, l)
         /\ \A t \in Range(q) : t \in Timer /\ Earliest(q, l) <= l[t]
<1> DEFINE T == {l[t] : t \in Range(q)}
<1>1. Range(q) \subseteq Timer /\ Range(q) # {}
  <2>1. 1 \in DOMAIN q /\ \A i \in DOMAIN q : q[i] \in Timer
    OBVIOUS
  <2>2. QED
    BY <2>1, Zenon DEF Range
<1>2. T \subseteq Nat /\ T # {}
  BY <1>1
<1>3. Min(T) \in T /\ \A y \in T : Min(T) <= y
  <2> HIDE DEF T
  <2>1. QED
    BY <1>2, MinIsLeast, Zenon
<1>4. Earliest(q, l) = Min(T)
  BY DEF Earliest
<1>5. Earliest(q, l) \in Nat /\ \E t \in Range(q) : l[t] = Earliest(q, l)
  BY <1>2, <1>3, <1>4, Zenon
<1>6. \A t \in Range(q) : Earliest(q, l) <= l[t]
  BY <1>3, <1>4, Zenon
<1>7. QED
  BY <1>1, <1>5, <1>6, Zenon

\* The timeout covers the time until the earliest event and less than a millisecond more.
LEMMA TimeoutRoundsUp ==
  ASSUME NEW us \in Nat
  PROVE  /\ PollTimeout(us) \in Nat
         /\ us <= PollTimeout(us) * Ms
         /\ PollTimeout(us) * Ms < us + Ms
<1>1. Ms \in Nat /\ Ms > 0
  BY EventLoopAssumption
<1>2. us + Ms - 1 \in Nat /\ us # -1
  BY <1>1
<1> DEFINE q == (us + Ms - 1) \div Ms
<1>3. q \in Nat /\ q * Ms <= us + Ms - 1 /\ us + Ms - 1 < q * Ms + Ms
  BY <1>1, <1>2, Division
<1>4. PollTimeout(us) = q
  BY <1>2 DEF PollTimeout
<1> HIDE DEF q
<1>5. q * Ms \in Nat
  BY <1>1, <1>3
<1>6. QED
  BY <1>1, <1>3, <1>4, <1>5

\* Time passing leaves every time event a time until it is due, which d has shortened by at
\* most d.
LEMMA ElapsedShortens ==
  ASSUME left \in [Timer -> Nat], NEW d \in Nat
  PROVE  /\ Elapsed(d) \in [Timer -> Nat]
         /\ \A t \in Timer : Elapsed(d)[t] <= left[t] /\ left[t] <= Elapsed(d)[t] + d
BY DEF Elapsed

\* Where the loop computes its timeout, and what it knows of it when it sleeps.
TimesInv ==
  /\ timers \in Seq(Timer) /\ visit \in Seq(Timer) /\ left \in [Timer -> Nat]
  /\ wait \in Nat \cup {-1}
  /\ pc = "timer" => visit # << >>
  /\ pc = "before" => wait = PollTimeout(usUntilEarliestTimer)
  /\ SleepsUntilTimer

\* Before the loop starts nothing has been waited for.
LEMMA InitTimes == Init => TimesInv
<1> SUFFICES ASSUME Init PROVE TimesInv
  OBVIOUS
<1>1. Cardinality(Timer) \in Nat
  BY EventLoopAssumption, FS_CardinalityType
<1>2. timers \in [1 .. Cardinality(Timer) -> Timer]
  BY DEF Init
<1>3. timers \in Seq(Timer)
  BY <1>1, <1>2
<1>4. QED
  BY <1>3, EventLoopAssumption DEF Init, TimesInv, SleepsUntilTimer

\* Unlinking a time event leaves a list of time events.
LEMMA UnlinkedType ==
  ASSUME NEW S, NEW s \in Seq(S), NEW e
  PROVE  Unlinked(s, e) \in Seq(S)
<1>1. CASE e \notin Range(s)
  BY <1>1 DEF Unlinked
<1>2. CASE e \in Range(s)
  <2> DEFINE i == CHOOSE i \in DOMAIN s : s[i] = e
  <2>1. Unlinked(s, e) = SubSeq(s, 1, i - 1) \o SubSeq(s, i + 1, Len(s))
    BY <1>2, Zenon DEF Unlinked
  <2>2. i \in DOMAIN s
    BY <1>2, Zenon DEF Range
  <2> HIDE DEF i
  <2>3. SubSeq(s, 1, i - 1) \in Seq(S) /\ SubSeq(s, i + 1, Len(s)) \in Seq(S)
    BY <2>2
  <2>4. QED
    BY <2>1, <2>3
<1>3. QED
  BY <1>1, <1>2

\* A step that is neither at the loop's top nor in beforeSleep leads to no sleep.
LEMMA ElsewhereTimes ==
  ASSUME timers' \in Seq(Timer), visit' \in Seq(Timer), left' \in [Timer -> Nat],
         wait' \in Nat \cup {-1}, pc' = "timer" => visit' # << >>, pc' \notin {"before", "poll"}
  PROVE  TimesInv'
BY DEF TimesInv, SleepsUntilTimer

\* The timeout is the one of the earliest event when beforeSleep begins, and beforeSleep
\* takes at most MaxStep of it.
LEMMA BeforeSleepTimes ==
  ASSUME TimesInv, BeforeSleepReturns
  PROVE  TimesInv'
<1>1. PICK d \in 0 .. MaxStep : left' = Elapsed(d)
  BY DEF BeforeSleepReturns
<1>2. d \in Nat /\ d <= MaxStep /\ MaxStep \in Nat /\ Ms \in Nat \ {0}
  BY EventLoopAssumption
<1>3. /\ timers' = timers /\ visit' = visit /\ wait' = wait /\ pc = "before" /\ pc' = "poll"
      /\ timers \in Seq(Timer) /\ visit \in Seq(Timer) /\ left \in [Timer -> Nat]
      /\ wait \in Nat \cup {-1}
  BY DEF BeforeSleepReturns, TimesInv
<1>4. left' \in [Timer -> Nat] /\ \A t \in Timer : left'[t] <= left[t] /\ left[t] <= left'[t] + d
  BY <1>1, <1>2, <1>3, ElapsedShortens
<1>5. SleepsUntilTimer'
  <2> SUFFICES ASSUME timers # << >>
               PROVE  /\ Earliest(timers, left') <= wait * Ms
                      /\ wait * Ms < Earliest(timers, left') + MaxStep + Ms
    BY <1>3 DEF SleepsUntilTimer, Earliest
  <2> DEFINE e == Earliest(timers, left)
             f == Earliest(timers, left')
             w == wait * Ms
  <2>1. /\ e \in Nat
        /\ \E t \in Range(timers) : t \in Timer /\ left[t] = e
        /\ \A t \in Range(timers) : t \in Timer /\ e <= left[t]
    BY <1>3, EarliestIsLeast, Zenon
  <2>2. /\ f \in Nat
        /\ \E t \in Range(timers) : t \in Timer /\ left'[t] = f
        /\ \A t \in Range(timers) : t \in Timer /\ f <= left'[t]
    BY <1>3, <1>4, EarliestIsLeast, Zenon
  <2>3. wait = PollTimeout(e)
    BY <1>3 DEF TimesInv, usUntilEarliestTimer, Earliest
  <2> HIDE DEF e, f
  <2>4. e <= w /\ w < e + Ms /\ wait \in Nat
    BY <2>1, <2>3, TimeoutRoundsUp
  <2>5. w \in Nat
    BY <1>2, <2>4
  <2> HIDE DEF w
  <2>6. e \in Nat /\ f \in Nat
    BY <2>1, <2>2, Zenon
  <2>7. f <= e
    <3>1. PICK t \in Range(timers) : t \in Timer /\ left[t] = e
      BY <2>1
    <3>2. f <= left'[t] /\ left'[t] <= left[t] /\ left'[t] \in Nat
      BY <1>4, <2>2, <3>1, Zenon
    <3>3. QED
      BY <2>6, <3>1, <3>2
  <2>8. e <= f + d
    <3>1. PICK t \in Range(timers) : t \in Timer /\ left'[t] = f
      BY <2>2
    <3>2. e <= left[t] /\ left[t] <= f + d /\ left[t] \in Nat
      BY <1>3, <1>4, <2>1, <3>1, Zenon
    <3>3. QED
      BY <1>2, <2>6, <3>2
  <2>9. f <= w /\ w < f + MaxStep + Ms
    BY <1>2, <2>4, <2>5, <2>6, <2>7, <2>8
  <2>10. QED
    BY <2>9, Zenon DEF f, w
<1>6. QED
  BY <1>3, <1>4, <1>5 DEF TimesInv

\* No step of the loop or of a callback makes the timeout it sleeps with wrong.
LEMMA NextTimes == TimesInv /\ [Next]_vars => TimesInv'
<1> SUFFICES ASSUME TimesInv, [Next]_vars PROVE TimesInv'
  OBVIOUS
<1>1. /\ timers \in Seq(Timer) /\ visit \in Seq(Timer) /\ left \in [Timer -> Nat]
      /\ wait \in Nat \cup {-1} /\ (pc = "timer" => visit # << >>)
      /\ MaxStep \in Nat /\ Ms \in Nat \ {0} /\ Period \subseteq Nat
  BY EventLoopAssumption DEF TimesInv
<1>2. /\ \A d \in Nat : Elapsed(d) \in [Timer -> Nat]
      /\ Elapsed(1) \in [Timer -> Nat] /\ \A d \in 0 .. MaxStep : Elapsed(d) \in [Timer -> Nat]
  <2>1. \A d \in Nat : Elapsed(d) \in [Timer -> Nat]
    BY <1>1, ElapsedShortens, Zenon
  <2>2. 1 \in Nat /\ 0 .. MaxStep \subseteq Nat
    BY <1>1
  <2>3. QED
    BY <2>1, <2>2, Zenon
<1>3. CASE ComputeWait
  <2>1. PollTimeout(usUntilEarliestTimer) \in Nat \cup {-1}
    <3>1. CASE timers = << >>
      BY <3>1 DEF usUntilEarliestTimer, PollTimeout
    <3>2. CASE timers # << >>
      BY <1>1, <3>2, EarliestIsLeast, TimeoutRoundsUp, Zenon DEF usUntilEarliestTimer, Earliest
    <3>3. QED
      BY <3>1, <3>2
  <2>2. usUntilEarliestTimer' = usUntilEarliestTimer
    BY <1>3 DEF ComputeWait, times, usUntilEarliestTimer
  <2>3. QED
    BY <1>1, <1>3, <2>1, <2>2, Zenon DEF ComputeWait, times, TimesInv, SleepsUntilTimer
<1>4. CASE BeforeSleep \/ UNCHANGED vars
  <2>1. timers' = timers /\ visit' = visit /\ left' = left /\ wait' = wait /\ pc' = pc
    BY <1>4, Zenon DEF BeforeSleep, times, vars
  <2>2. QED
    BY <2>1, Zenon DEF TimesInv, SleepsUntilTimer, usUntilEarliestTimer
<1>5. CASE BeforeSleepReturns
  BY <1>5, BeforeSleepTimes
<1>6. CASE PollEvents
  <2>1. PICK d \in 1 .. (IF wait = -1 THEN MaxStep ELSE wait * Ms) \cup {1} : left' = Elapsed(d)
    BY <1>6 DEF PollEvents
  <2>2. d \in Nat
    BY <1>1
  <2>3. QED
    BY <1>1, <1>2, <1>6, <2>1, <2>2, ElsewhereTimes, Zenon DEF PollEvents
<1>7. CASE PollTimesOut
  <2>1. wait * Ms \in Nat
    BY <1>1, <1>7 DEF PollTimesOut
  <2>2. Max({wait * Ms, 1}) \in Nat
    <3>1. CASE wait * Ms >= 1
      <4>1. Max({wait * Ms, 1}) = wait * Ms
        BY <2>1, <3>1, MaxIsBound
      <4>2. QED
        BY <2>1, <4>1
    <3>2. CASE ~ (wait * Ms >= 1)
      <4>1. Max({wait * Ms, 1}) = 1
        BY <2>1, <3>2, MaxIsBound
      <4>2. QED
        BY <4>1
    <3>3. QED
      BY <3>1, <3>2
  <2>3. QED
    BY <1>1, <1>2, <1>7, <2>2, ElsewhereTimes, Zenon DEF PollTimesOut
<1>8. CASE PollInterrupted
  BY <1>1, <1>2, <1>8, ElsewhereTimes, Zenon DEF PollInterrupted
<1>9. CASE \E fd \in Fd : HandleFired(fd)
  BY <1>1, <1>9, ElsewhereTimes, Zenon DEF HandleFired, times
<1>10. CASE FileHandler
  BY <1>1, <1>10, ElsewhereTimes, Zenon DEF FileHandler, times
<1>11. CASE FileHandlerReturns
  BY <1>1, <1>2, <1>11, ElsewhereTimes, Zenon DEF FileHandlerReturns
<1>12. CASE ProcessTimeEvents
  BY <1>1, <1>12, ElsewhereTimes, Zenon DEF ProcessTimeEvents, times
<1>13. CASE VisitTimer
  <2>1. Unlinked(timers, Head(visit)) \in Seq(Timer)
    BY <1>1, UnlinkedType
  <2>2. Tail(visit) \in Seq(Timer)
    BY <1>1, <1>13 DEF VisitTimer
  <2>3. QED
    BY <1>1, <1>13, <2>1, <2>2, ElsewhereTimes, Zenon DEF VisitTimer
<1>14. CASE TimerAgain
  <2>1. Tail(visit) \in Seq(Timer)
    BY <1>1, <1>14 DEF TimerAgain
  <2>2. PICK d \in 0 .. MaxStep, p \in Period : left' = [Elapsed(d) EXCEPT ![Head(visit)] = p * Ms]
    BY <1>14, Zenon DEF TimerAgain
  <2> DEFINE m == p * Ms
  <2>3. m \in Nat
    <3>1. p \in Nat /\ Ms \in Nat
      BY <1>1
    <3>2. QED
      BY <3>1
  <2>4. left' \in [Timer -> Nat]
    <3>1. d \in Nat
      BY <1>1
    <3>2. left' = [Elapsed(d) EXCEPT ![Head(visit)] = m]
      BY <2>2
    <3> HIDE DEF m
    <3>3. QED
      BY <1>2, <2>3, <3>1, <3>2, Zenon
  <2>5. QED
    BY <1>1, <1>14, <2>1, <2>4, ElsewhereTimes, Zenon DEF TimerAgain
<1>15. CASE TimerNoMore
  <2>1. Tail(visit) \in Seq(Timer)
    BY <1>1, <1>15 DEF TimerNoMore
  <2>2. QED
    BY <1>1, <1>2, <1>15, <2>1, ElsewhereTimes, Zenon DEF TimerNoMore
<1>16. CASE EndIteration
  BY <1>1, <1>16, ElsewhereTimes, Zenon DEF EndIteration, times
<1>17. QED
  BY <1>3, <1>4, <1>5, <1>6, <1>7, <1>8, <1>9, <1>10, <1>11, <1>12, <1>13, <1>14, <1>15, <1>16, Zenon
  DEF Next, Loop

\* aeProcessEvents sleeps until the earliest time event, however beforeSleep changes the
\* connections meanwhile and whatever time events there are: never shorter, which would make
\* the loop spin, and longer by less than a millisecond and what beforeSleep took.
THEOREM AlwaysSleepsUntilTimer == Spec => []SleepsUntilTimer
<1>1. TimesInv => SleepsUntilTimer
  BY DEF TimesInv
<1>2. QED
  BY <1>1, InitTimes, NextTimes, PTL DEF Spec

-----------------------------------------------------------------------------
(* The listeners: signals                                                  *)

Signal == {"SIGINT", "SIGTERM"}

\* shutdown_asap says that a signal was handled; while the process runs nothing has
\* stopped it, so no SIGINT was the second signal or a later one.
SignalInv ==
  /\ sigs \in Seq(Signal)
  /\ asap <=> sigs # << >>
  /\ phase = "loaded" => sigs = << >>
  /\ phase # "exited" => cause = "none"
  /\ StopsOnSecondSigint

\* What leaves the signals alone stops the process only for a reason of its own.
LEMMA OtherCause ==
  ASSUME SignalInv, UNCHANGED <<asap, sigs>>,
         \/ UNCHANGED <<phase, cause>>
         \/ phase # "exited" /\ phase' \in {"ready", "listening", "moving", "running"} /\ cause' = cause
         \/ phase # "exited" /\ phase' = "exited" /\ cause' \in {"startup", "panic"}
  PROVE  SignalInv'
  BY DEF SignalInv, StopsOnSecondSigint

\* Starting up, moving to another port, accepting and closing.
LEMMA StartCause ==
  ASSUME SignalInv,
         \/ initServer \/ initListeners \/ listenToPort \/ ListenersOpened \/ changeListener \/ AcceptHandler
         \/ \E port \in BOOLEAN : updatePort(port)
         \/ \E s \in accepted : CloseClient(s)
  PROVE  SignalInv'
PROOF
  <1>1. CASE initServer BY <1>1, OtherCause DEF initServer, Exit
  <1>2. CASE initListeners BY <1>2, OtherCause DEF initListeners, Exit
  <1>6. CASE listenToPort
    <2>1. phase \in {"listening", "moving"} /\ UNCHANGED <<asap, sigs>> BY <1>6, Zenon DEF listenToPort
    <2>2. \/ Exit("startup") \/ UNCHANGED <<phase, cause>> \/ (phase' = "running" /\ cause' = cause)
      BY <1>6 DEF listenToPort
    <2> QED BY <2>1, <2>2, OtherCause, Zenon DEF Exit
  <1>7. CASE ListenersOpened
    <2>1. phase = "listening" /\ UNCHANGED <<asap, sigs>> BY <1>7, Zenon DEF ListenersOpened
    <2>2. \/ Exit("startup") \/ Exit("panic") \/ (phase' = "running" /\ cause' = cause)
      BY <1>7 DEF ListenersOpened
    <2> QED BY <2>1, <2>2, OtherCause, Zenon DEF Exit
  <1>8. CASE changeListener
    <2>1. phase = "moving" /\ UNCHANGED <<asap, sigs>> BY <1>8 DEF changeListener
    <2>2. Exit("panic") \/ (phase' = "running" /\ cause' = cause) BY <1>8, Zenon DEF changeListener
    <2> QED BY <2>1, <2>2, OtherCause DEF Exit
  <1>3. CASE AcceptHandler BY <1>3, OtherCause DEF AcceptHandler, Accepting
  <1>4. ASSUME NEW port \in BOOLEAN, updatePort(port) PROVE SignalInv'
    BY <1>4, OtherCause DEF updatePort
  <1>5. ASSUME NEW s \in accepted, CloseClient(s) PROVE SignalInv'
    BY <1>5, OtherCause DEF CloseClient
  <1> QED BY <1>1, <1>2, <1>3, <1>4, <1>5, <1>6, <1>7, <1>8, Zenon

\* A signal: deadly before there is a handler; handled, the first of all, a SIGINT after
\* another one, or a further SIGTERM.
LEMMA SignalledCause ==
  ASSUME SignalInv, NEW sig \in Signal, Killed(sig) \/ sigShutdownHandler(sig)
  PROVE  SignalInv'
PROOF
  <1>1. CASE Killed(sig)
    BY <1>1 DEF Killed, Exit, SignalInv, StopsOnSecondSigint
  <1>2. CASE sigShutdownHandler(sig)
    <2>1. /\ sigs \in Seq(Signal) /\ Len(sigs) \in Nat /\ sigs' = Append(sigs, sig)
          /\ phase \notin {"loaded", "exited"} /\ cause = "none"
      BY <1>2 DEF SignalInv, sigShutdownHandler
    <2>2. /\ sigs' \in Seq(Signal) /\ sigs' # << >> /\ Len(sigs') = Len(sigs) + 1
          /\ sigs'[Len(sigs) + 1] = sig /\ \A i \in 1 .. Len(sigs) : sigs'[i] = sigs[i]
      BY <2>1
    <2>3. \A i \in 2 .. Len(sigs) : sigs[i] # "SIGINT"
      BY <2>1 DEF SignalInv, StopsOnSecondSigint
    <2>4. CASE asap /\ sig = "SIGINT"
      <3>1. Len(sigs) # 0 BY <2>1, <2>4 DEF SignalInv
      <3>2. Len(sigs) + 1 \in 2 .. Len(sigs') BY <2>1, <2>2, <3>1
      <3>3. phase' = "exited" /\ cause' = "signal" /\ asap' BY <1>2, <2>4, Zenon DEF sigShutdownHandler, Exit
      <3> QED BY <2>2, <2>4, <3>2, <3>3 DEF SignalInv, StopsOnSecondSigint
    <2>5. CASE ~ (asap /\ sig = "SIGINT")
      <3>1. asap' /\ phase' = phase /\ cause' = cause BY <1>2, <2>5 DEF sigShutdownHandler
      <3>2. \A i \in 2 .. Len(sigs') : sigs'[i] # "SIGINT"
        <4> SUFFICES ASSUME NEW i \in 2 .. Len(sigs') PROVE sigs'[i] # "SIGINT" OBVIOUS
        <4>1. CASE i = Len(sigs) + 1
          <5>1. Len(sigs) # 0 BY <2>1, <4>1
          <5>2. asap BY <2>1, <5>1 DEF SignalInv
          <5> QED BY <2>2, <2>5, <4>1, <5>2
        <4>2. CASE i # Len(sigs) + 1
          <5>1. i \in 2 .. Len(sigs) BY <2>1, <2>2, <4>2
          <5> QED BY <2>1, <2>2, <2>3, <5>1
        <4> QED BY <4>1, <4>2
      <3> QED BY <2>1, <2>2, <3>1, <3>2 DEF SignalInv, StopsOnSecondSigint
    <2> QED BY <2>4, <2>5
  <1> QED BY <1>1, <1>2

\* Whatever fails while the server starts, listens, accepts or moves to another port: once
\* the handlers are set up a signal stops the process exactly when it is a SIGINT and not
\* the first signal.
THEOREM AlwaysStopsOnSecondSigint == LsnSpec => []StopsOnSecondSigint
PROOF
  <1>1. LsnInit => SignalInv BY DEF LsnInit, SignalInv, StopsOnSecondSigint
  <1>2. SignalInv /\ [LsnNext]_lsnvars => SignalInv'
    <2> SUFFICES ASSUME SignalInv, [LsnNext]_lsnvars PROVE SignalInv' OBVIOUS
    <2>1. CASE Signalled BY <2>1, SignalledCause DEF Signalled, Signal
    <2>2. CASE UNCHANGED lsnvars BY <2>2, OtherCause DEF lsnvars
    <2> QED BY <2>1, <2>2, StartCause DEF LsnNext
  <1>3. SignalInv => StopsOnSecondSigint BY DEF SignalInv
  <1> QED BY <1>1, <1>2, <1>3, PTL DEF LsnSpec
-----------------------------------------------------------------------------
(* The listeners: sequences of descriptors                                 *)

LEMMA RangeOf ==
  ASSUME NEW S, NEW s \in Seq(S), NEW x
  PROVE  Range(<< >>) = {} /\ Range(<<x>>) = {x} /\ (Range(s) = {} <=> s = << >>)
PROOF
  <1>1. Range(<< >>) = {} BY DEF Range
  <1>2. Range(<<x>>) = {x}
    <2>1. DOMAIN <<x>> = {1} /\ <<x>>[1] = x OBVIOUS
    <2> QED BY <2>1, Zenon DEF Range
  <1>3. Range(s) = {} <=> s = << >>
    <2>1. ASSUME s # << >> PROVE Range(s) # {}
      <3>1. 1 \in DOMAIN s BY <2>1
      <3> QED BY <3>1, Zenon DEF Range
    <2> QED BY <1>1, <2>1
  <1> QED BY <1>1, <1>2, <1>3

\* A sequence without repetitions has as many elements as places.
LEMMA CountOf ==
  ASSUME NEW S, NEW s \in Seq(S), IsInjective(s)
  PROVE  IsFiniteSet(Range(s)) /\ Cardinality(Range(s)) = Len(s)
PROOF
  <1>1. s \in [1 .. Len(s) -> Range(s)] BY DEF Range
  <1>2. \A t \in Range(s) : \E i \in 1 .. Len(s) : s[i] = t BY DEF Range
  <1>3. \A i, j \in 1 .. Len(s) : s[i] = s[j] => i = j BY DEF IsInjective
  <1>4. s \in Bijection(1 .. Len(s), Range(s))
    BY <1>1, <1>2, <1>3 DEF Bijection, Injection, Surjection, IsInjective
  <1>5. Len(s) \in Nat OBVIOUS
  <1>6. IsFiniteSet(1 .. Len(s)) /\ Cardinality(1 .. Len(s)) = Len(s) BY <1>5, FS_Interval, SMTT(30)
  <1>7. ExistsBijection(1 .. Len(s), Range(s)) BY <1>4 DEF ExistsBijection
  <1> QED BY <1>6, <1>7, FS_Bijection

\* Sequence q is s with x after it.
Grows(q, s, x) ==
  /\ DOMAIN q = DOMAIN s \cup {Len(s) + 1} /\ Len(s) + 1 \notin DOMAIN s
  /\ \A i \in DOMAIN s : q[i] = s[i]
  /\ q[Len(s) + 1] = x

LEMMA Grown ==
  ASSUME NEW q, NEW s, NEW x, Grows(q, s, x)
  PROVE  /\ Range(q) = Range(s) \cup {x}
         /\ IsInjective(s) /\ x \notin Range(s) => IsInjective(q)
PROOF
  <1>1. Range(q) = Range(s) \cup {x} BY DEF Grows, Range
  <1>2. ASSUME IsInjective(s), x \notin Range(s) PROVE IsInjective(q)
    <2>1. \A i \in DOMAIN s : q[i] # x BY <1>2, Zenon DEF Grows, Range
    <2> QED BY <1>2, <2>1, Zenon DEF Grows, IsInjective
  <1> QED BY <1>1, <1>2

-----------------------------------------------------------------------------
(* The listeners: anet.c                                                   *)

\* A call gives the process a new descriptor or leaves it those it had.
Outcome(o, r) ==
  \/ r.fd = Err /\ r.held = o
  \/ r.fd \in Fds /\ r.fd \notin o /\ r.fd # Err /\ r.held = o \cup {r.fd}

LEMMA Outcomes ==
  ASSUME NEW o, NEW s \in Fds, s \notin o
  PROVE  /\ \A r \in anetListen(o \cup {s}, s) : Outcome(o, r) /\ (r.fd = Err => r.errno \in {"notavail", "other"})
         /\ \A r \in WithSocket(o, s) : Outcome(o, r) /\ (r.fd = Err => r.errno \in {"notavail", "other"})
PROOF
  <1>1. (o \cup {s}) \ {s} = o OBVIOUS
  <1>2. s # Err BY DEF Fds, Err
  <1>3. ASSUME NEW errnos, NEW r \in Failed(o, errnos) PROVE r.fd = Err /\ r.held = o /\ r.errno \in errnos
    BY <1>3 DEF Failed
  <1>4. ASSUME NEW r \in Opened(o \cup {s}, s) PROVE r.fd = s /\ r.held = o \cup {s}
    BY <1>4 DEF Opened
  <1>5. ASSUME NEW r \in anetListen(o \cup {s}, s)
        PROVE  Outcome(o, r) /\ (r.fd = Err => r.errno \in {"notavail", "other"})
    <2>1. r \in Opened(o \cup {s}, s) \/ r \in Failed(o, {"notavail", "other"}) BY <1>1 DEF anetListen
    <2> QED BY <1>2, <1>3, <1>4, <2>1, Zenon DEF Outcome
  <1>6. ASSUME NEW r \in WithSocket(o, s)
        PROVE  Outcome(o, r) /\ (r.fd = Err => r.errno \in {"notavail", "other"})
    <2>1. r \in Failed(o, {"other"}) \/ r \in anetListen(o \cup {s}, s) BY <1>1 DEF WithSocket
    <2> QED BY <1>3, <1>5, <2>1 DEF Outcome
  <1> QED BY <1>5, <1>6

\* listenToPort does not go past an address that must be bound.
LEMMA TcpOutcome ==
  ASSUME NEW o, NEW a, NEW r \in _anetTcpServer(o, a)
  PROVE  Outcome(o, r) /\ (Mandatory(a) /\ r.fd = Err => ~ Skips(a, r.errno))
PROOF
  <1>1. ASSUME NEW errnos, NEW q \in Failed(o, errnos) PROVE q.fd = Err /\ q.held = o /\ q.errno \in errnos
    BY <1>1, Zenon DEF Failed
  <1>2. CASE ~ a.resolves
    <2>1. r \in Failed(o, Errnos) BY <1>2, Zenon DEF _anetTcpServer
    <2> QED BY <1>1, <1>2, <2>1 DEF Outcome, Mandatory
  <1>3. CASE a.resolves /\ a.v6 /\ ~ conf.ipv6
    <2>1. r \in Failed(o, {"unsupported"}) BY <1>3 DEF _anetTcpServer
    <2> QED BY <1>1, <1>3, <2>1 DEF Outcome, Mandatory
  <1>4. CASE a.resolves /\ ~ (a.v6 /\ ~ conf.ipv6)
    <2>1. r \in Failed(o, {"other"}) \/ \E s \in FreeFds(o) : r \in WithSocket(o, s)
      BY <1>4 DEF _anetTcpServer
    <2>2. \A s \in FreeFds(o) : s \in Fds /\ s \notin o BY DEF FreeFds
    <2>3. Outcome(o, r) /\ (r.fd = Err => r.errno \in {"notavail", "other"})
      BY <1>1, <2>1, <2>2, Outcomes, Zenon DEF Outcome
    <2> QED BY <2>3 DEF Skips, Mandatory
  <1> QED BY <1>2, <1>3, <1>4

LEMMA UnixOutcome ==
  ASSUME NEW o, NEW r \in anetUnixServer(o)
  PROVE  Outcome(o, r)
PROOF
  <1>1. r \in Failed(o, {"other"}) \/ \E s \in FreeFds(o) : r \in anetListen(o \cup {s}, s) BY DEF anetUnixServer
  <1>2. \A s \in FreeFds(o) : s \in Fds /\ s \notin o BY DEF FreeFds
  <1>3. r \in Failed(o, {"other"}) => r.fd = Err /\ r.held = o BY DEF Failed
  <1>4. r \in Failed(o, {"other"}) => Outcome(o, r) BY <1>3, Zenon DEF Outcome
  <1> QED BY <1>1, <1>2, <1>4, Outcomes, Zenon

-----------------------------------------------------------------------------
(* The listeners: the inductive invariant                                  *)

\* Whose each descriptor is: no two owners share one.
Disjoint(t, l, acc) ==
  /\ IsInjective(t) /\ IsInjective(l)
  /\ Range(t) \cap Range(l) = {} /\ acc \cap (Range(t) \cup Range(l)) = {}
  /\ Std \cap (Range(t) \cup Range(l) \cup acc) = {}
Owned ==
  phase # "exited" => held = Std \cup Range(tcp) \cup Range(local) \cup accepted /\ Disjoint(tcp, local, accepted)

\* Before the event loop runs there are no clients, and the listeners are opened in turn.
Phases ==
  /\ phase \in {"loaded", "ready", "listening"} => local = << >> /\ accepted = {} /\ portMoves = 0
  /\ phase \in {"loaded", "ready"} => tcp = << >>
  /\ phase = "moving" => portMoves # 0

\* The addresses before the one listenToPort is at are bound, if they must be.
Binding == phase \in {"listening", "moving"}
Bound ==
  /\ Len(boundTo) = Len(tcp)
  /\ Binding /\ ~ conf.port => tcp = << >> /\ turn = Len(conf.bindaddr) + 1
  /\ Binding /\ conf.port =>
       \A i \in DOMAIN conf.bindaddr : i < turn /\ Mandatory(conf.bindaddr[i]) => conf.bindaddr[i] \in Range(boundTo)

LsnInv == LsnTypeOK /\ Owned /\ Phases /\ Bound /\ ListenersArmed /\ MandatoryBound

Confs == [bindaddr : BindLists, port : BOOLEAN, tls : BOOLEAN, unix : BOOLEAN, ipv6 : BOOLEAN]

\* What the type invariant says of the parts.
LEMMA LsnTypes ==
  ASSUME LsnTypeOK
  PROVE  /\ conf \in Confs /\ conf.bindaddr \in Seq(Address) /\ turn \in 1 .. Len(conf.bindaddr) + 1
         /\ tcp \in Seq(Fds) /\ local \in Seq(Fds) /\ boundTo \in Seq(Address)
         /\ held \subseteq Fds /\ events \subseteq Fds /\ accepted \subseteq Fds
PROOF
  <1>1. BindLists \subseteq Seq(Address) BY ListenersAssumption, Zenon
  <1>2. conf \in Confs BY Zenon DEF LsnTypeOK, Confs
  <1>3. conf.bindaddr \in Seq(Address) BY <1>1, <1>2 DEF Confs
  <1> QED BY <1>2, <1>3, Zenon DEF LsnTypeOK

\* A step that changes only what the signals and the causes are, or nothing.
LEMMA NothingMoved ==
  ASSUME LsnInv, UNCHANGED <<conf, phase, turn, held, events, tcp, local, boundTo, accepted, portMoves>>,
         asap' \in BOOLEAN, sigs' \in Seq({"SIGINT", "SIGTERM"}), cause' \in Stops
  PROVE  LsnInv'
PROOF
  <1>1. LsnTypeOK' BY Zenon DEF LsnInv, LsnTypeOK
  <1>2. Owned' /\ Phases' BY Zenon DEF LsnInv, Owned, Phases
  <1>3. Bound' BY Zenon DEF LsnInv, Bound, Binding, Mandatory
  <1>4. ListenersArmed' BY Zenon DEF LsnInv, ListenersArmed
  <1>5. MandatoryBound' BY Zenon DEF LsnInv, MandatoryBound, Mandatory, Listening
  <1> QED BY <1>1, <1>2, <1>3, <1>4, <1>5, Zenon DEF LsnInv

LEMMA Exits ==
  ASSUME LsnInv, NEW why \in Stops, Exit(why), UNCHANGED <<conf, turn, portMoves>>,
         asap' \in BOOLEAN, sigs' \in Seq({"SIGINT", "SIGTERM"})
  PROVE  LsnInv'
PROOF
  <1>1. /\ phase' = "exited" /\ cause' = why /\ held' = {} /\ events' = {} /\ tcp' = << >> /\ local' = << >>
        /\ accepted' = {} /\ boundTo' = << >>
    BY Zenon DEF Exit
  <1>2. /\ phase' \in {"loaded", "ready", "listening", "running", "moving", "exited"} /\ phase' # "running"
        /\ phase' \notin {"loaded", "ready", "listening"} /\ phase' \notin {"loaded", "ready"} /\ ~ Binding'
        /\ phase' # "moving"
    BY <1>1 DEF Binding
  <1>3. LsnTypeOK'
    <2>1. tcp' \in Seq(Fds) /\ local' \in Seq(Fds) /\ boundTo' \in Seq(Address) BY <1>1
    <2>2. held' \subseteq Fds /\ events' \subseteq Fds /\ accepted' \subseteq Fds BY <1>1
    <2> QED BY <1>1, <1>2, <2>1, <2>2, Zenon DEF LsnInv, LsnTypeOK
  <1>4. Owned' /\ Phases' BY <1>1, <1>2, Zenon DEF Owned, Phases
  <1>5. Bound' BY <1>1, <1>2, Zenon DEF Bound
  <1>6. ListenersArmed' BY <1>1, Zenon DEF ListenersArmed
  <1>7. MandatoryBound' BY <1>2, Zenon DEF MandatoryBound
  <1> QED BY <1>3, <1>4, <1>5, <1>6, <1>7, Zenon DEF LsnInv

LEMMA StartLsn == LsnInit => LsnInv
PROOF
  <1> SUFFICES ASSUME LsnInit PROVE LsnInv OBVIOUS
  <1>1. /\ conf \in [bindaddr : BindLists, port : BOOLEAN, tls : BOOLEAN, unix : BOOLEAN, ipv6 : BOOLEAN]
        /\ phase = "loaded" /\ turn = 1 /\ held = Std /\ events = {} /\ tcp = << >> /\ local = << >>
        /\ boundTo = << >> /\ accepted = {} /\ asap = FALSE /\ sigs = << >> /\ cause = "none" /\ portMoves = 0
    BY Zenon DEF LsnInit
  <1>2. FdLimit \in Nat /\ PortChanges \in Nat /\ BindLists \subseteq Seq(Address) BY ListenersAssumption
  <1>3. conf.bindaddr \in Seq(Address) BY <1>1, <1>2
  <1>4. Std \subseteq Fds BY <1>2 DEF Std, Fds
  <1>5. 1 \in 1 .. Len(conf.bindaddr) + 1 /\ 0 \in 0 .. PortChanges BY <1>2, <1>3
  <1>6. phase # "running" /\ ~ Binding /\ phase # "exited" /\ phase # "moving" BY <1>1 DEF Binding
  <1>7. LsnTypeOK
    <2>1. tcp \in Seq(Fds) /\ local \in Seq(Fds) /\ boundTo \in Seq(Address) /\ sigs \in Seq({"SIGINT", "SIGTERM"}) BY <1>1
    <2>2. held \subseteq Fds /\ events \subseteq Fds /\ accepted \subseteq Fds BY <1>1, <1>4
    <2>3. cause \in Stops /\ phase \in {"loaded", "ready", "listening", "running", "moving", "exited"} /\ asap \in BOOLEAN
      BY <1>1, Zenon DEF Stops
    <2> QED BY <1>1, <1>5, <2>1, <2>2, <2>3, Zenon DEF LsnTypeOK
  <1>8. Range(<< >>) = {} /\ IsInjective(<< >>) BY DEF Range, IsInjective
  <1>9. Owned BY <1>1, <1>8 DEF Owned, Disjoint
  <1>10. Phases BY <1>1, <1>6, Zenon DEF Phases
  <1>11. Bound BY <1>1, <1>6, Zenon DEF Bound
  <1>12. ListenersArmed BY <1>1, <1>6, <1>8 DEF ListenersArmed
  <1>13. MandatoryBound BY <1>6, Zenon DEF MandatoryBound
  <1> QED BY <1>7, <1>9, <1>10, <1>11, <1>12, <1>13, Zenon DEF LsnInv

LEMMA SignalLsn ==
  ASSUME LsnInv, NEW sig \in {"SIGINT", "SIGTERM"}, Killed(sig) \/ sigShutdownHandler(sig)
  PROVE  LsnInv'
PROOF
  <1>1. asap \in BOOLEAN /\ sigs \in Seq({"SIGINT", "SIGTERM"}) /\ cause \in Stops BY Zenon DEF LsnInv, LsnTypeOK
  <1>2. "signal" \in Stops BY DEF Stops
  <1>3. CASE Killed(sig) BY <1>1, <1>2, <1>3, Exits, Zenon DEF Killed
  <1>4. CASE sigShutdownHandler(sig)
    <2>1. sigs' \in Seq({"SIGINT", "SIGTERM"}) BY <1>1, <1>4 DEF sigShutdownHandler
    <2>2. UNCHANGED <<conf, turn, portMoves>> BY <1>4, Zenon DEF sigShutdownHandler
    <2>3. CASE Exit("signal") /\ UNCHANGED asap BY <1>1, <1>2, <2>1, <2>2, <2>3, Exits, Zenon
    <2>4. CASE asap' = TRUE /\ UNCHANGED <<phase, held, events, tcp, local, boundTo, accepted, cause>>
      <3>1. asap' \in BOOLEAN BY <2>4, Zenon
      <3> QED BY <1>1, <2>1, <2>2, <2>4, <3>1, NothingMoved, Zenon
    <2> QED BY <1>4, <2>3, <2>4, Zenon DEF sigShutdownHandler
  <1> QED BY <1>3, <1>4

LEMMA InitServerLsn ==
  ASSUME LsnInv, initServer \/ initListeners
  PROVE  LsnInv'
PROOF
  <1>1. asap \in BOOLEAN /\ sigs \in Seq({"SIGINT", "SIGTERM"}) /\ "startup" \in Stops
    BY DEF LsnInv, LsnTypeOK, Stops
  <1>2. UNCHANGED <<conf, asap, sigs, portMoves>> BY Zenon DEF initServer, initListeners
  <1>3. CASE Exit("startup") /\ UNCHANGED turn BY <1>1, <1>2, <1>3, Exits, Zenon
  <1>4. CASE /\ phase \in {"loaded", "ready"} /\ phase' \in {"ready", "listening"}
             /\ turn' \in {turn} \cup (IF phase' = "listening" THEN {FirstTurn(conf.port)} ELSE {})
             /\ phase' = "listening" => turn' = FirstTurn(conf.port)
             /\ UNCHANGED <<held, events, tcp, local, boundTo, accepted, cause>>
    <2>1. conf.bindaddr \in Seq(Address) /\ turn \in 1 .. Len(conf.bindaddr) + 1 BY LsnTypes DEF LsnInv
    <2>2. conf.port \in BOOLEAN BY LsnTypes DEF LsnInv, Confs
    <2>3. FirstTurn(conf.port) \in 1 .. Len(conf.bindaddr) + 1 BY <2>1, <2>2 DEF FirstTurn
    <2>4. turn' \in 1 .. Len(conf.bindaddr) + 1 BY <1>4, <2>1, <2>3
    <2>5. phase' \in {"loaded", "ready", "listening", "running", "moving", "exited"} BY <1>4
    <2>6. LsnTypeOK' BY <1>2, <1>4, <2>4, <2>5, Zenon DEF LsnInv, LsnTypeOK
    <2>7. phase # "exited" /\ phase' # "running" /\ phase # "running" /\ phase' # "exited" BY <1>4
    <2>8. Owned' BY <1>4, <2>7, Zenon DEF LsnInv, Owned
    <2>9. Phases' BY <1>2, <1>4 DEF LsnInv, Phases
    <2>10. Bound'
      <3>1. tcp = << >> BY <1>4, Zenon DEF LsnInv, Phases
      <3>2. phase' = "listening" => (conf.port => turn' = 1) /\ (~ conf.port => turn' = Len(conf.bindaddr) + 1)
        BY <1>4 DEF FirstTurn
      <3>3. Binding' => phase' = "listening" BY <1>4 DEF Binding
      <3>4. \A i \in DOMAIN conf.bindaddr : ~ (i < 1) BY <2>1
      <3>5. Len(boundTo) = Len(tcp) BY Zenon DEF LsnInv, Bound
      <3> QED BY <1>2, <1>4, <3>1, <3>2, <3>3, <3>4, <3>5, Zenon DEF Bound
    <2>11. ListenersArmed' BY <1>4, <2>7, Zenon DEF LsnInv, ListenersArmed
    <2>12. MandatoryBound' BY <2>7, Zenon DEF MandatoryBound
    <2> QED BY <2>6, <2>8, <2>9, <2>10, <2>11, <2>12, Zenon DEF LsnInv
  <1> QED BY <1>3, <1>4 DEF initServer, initListeners

\* The unix listener owns the descriptor it has just been given.
LEMMA NewOwner ==
  ASSUME NEW t, NEW acc, NEW fd, Disjoint(t, << >>, acc), fd \notin Std \cup Range(t) \cup acc
  PROVE  Disjoint(t, <<fd>>, acc) /\ Range(<<fd>>) = {fd} /\ Range(<< >>) = {}
PROOF
  <1>1. Range(<<fd>>) = {fd} /\ Range(<< >>) = {}
    <2>1. DOMAIN <<fd>> = {1} /\ <<fd>>[1] = fd OBVIOUS
    <2>2. Range(<<fd>>) = {fd} BY <2>1, Zenon DEF Range
    <2> QED BY <2>2 DEF Range
  <1>2. IsInjective(<<fd>>) BY DEF IsInjective
  <1> QED BY <1>1, <1>2 DEF Disjoint

\* Nobody owns what closeListener closes.
LEMMA NoListener ==
  ASSUME NEW t, NEW l, NEW acc, Disjoint(t, l, acc)
  PROVE  /\ Disjoint(<< >>, l, acc)
         /\ (Std \cup Range(t) \cup Range(l) \cup acc) \ Range(t) = Std \cup Range(l) \cup acc
         /\ Range(<< >>) = {}
PROOF
  <1>1. Range(<< >>) = {} /\ IsInjective(<< >>) BY DEF Range, IsInjective
  <1> QED BY <1>1 DEF Disjoint

LEMMA ListenToPortLsn ==
  ASSUME LsnInv, listenToPort
  PROVE  LsnInv'
PROOF
  <1> DEFINE a == conf.bindaddr[turn]
  <1>1. PICK r \in _anetTcpServer(held, a) :
           \/ /\ r.fd # Err
              /\ held' = r.held /\ tcp' = Append(tcp, r.fd) /\ boundTo' = Append(boundTo, a)
              /\ turn' = turn + 1 /\ UNCHANGED <<phase, events, local, accepted, cause>>
           \/ /\ r.fd = Err /\ Skips(a, r.errno)
              /\ held' = r.held /\ turn' = turn + 1
              /\ UNCHANGED <<phase, events, tcp, local, boundTo, accepted, cause>>
           \/ /\ r.fd = Err /\ ~ Skips(a, r.errno) /\ phase = "listening"
              /\ Exit("startup") /\ UNCHANGED turn
           \/ /\ r.fd = Err /\ ~ Skips(a, r.errno) /\ phase = "moving"
              /\ closeListener(r.held) /\ phase' = "running"
              /\ UNCHANGED <<turn, local, accepted, cause>>
    BY Zenon DEF listenToPort
  <1>2. /\ phase \in {"listening", "moving"} /\ turn <= Len(conf.bindaddr)
        /\ UNCHANGED <<conf, asap, sigs, portMoves>>
    BY Zenon DEF listenToPort
  <1>3. Outcome(held, r) /\ (Mandatory(a) /\ r.fd = Err => ~ Skips(a, r.errno)) BY <1>1, TcpOutcome, Zenon
  <1>4. phase # "exited" /\ phase # "running" /\ Binding BY <1>2 DEF Binding
  <1>5. /\ conf \in Confs /\ conf.bindaddr \in Seq(Address) /\ turn \in 1 .. Len(conf.bindaddr) + 1
        /\ tcp \in Seq(Fds) /\ local \in Seq(Fds) /\ boundTo \in Seq(Address)
        /\ held \subseteq Fds /\ events \subseteq Fds /\ accepted \subseteq Fds
    BY LsnTypes, Zenon DEF LsnInv
  <1>6. held = Std \cup Range(tcp) \cup Range(local) \cup accepted /\ Disjoint(tcp, local, accepted)
    BY <1>4, Zenon DEF LsnInv, Owned
  <1>7. turn + 1 \in 1 .. Len(conf.bindaddr) + 1 /\ turn \in DOMAIN conf.bindaddr /\ a \in Address
        /\ \A i \in DOMAIN conf.bindaddr : i < turn + 1 => i < turn \/ i = turn
    BY <1>2, <1>5
  <1>8. asap \in BOOLEAN /\ sigs \in Seq({"SIGINT", "SIGTERM"}) /\ "startup" \in Stops
    BY DEF LsnInv, LsnTypeOK, Stops
  <1>9. /\ Len(boundTo) = Len(tcp) /\ conf.port
        /\ \A i \in DOMAIN conf.bindaddr : i < turn /\ Mandatory(conf.bindaddr[i]) => conf.bindaddr[i] \in Range(boundTo)
    <2>1. turn # Len(conf.bindaddr) + 1 BY <1>2, <1>5
    <2> QED BY <1>4, <2>1, Zenon DEF LsnInv, Bound
  <1>10. events = Range(local) \cup {s \in accepted : s < ElSetSize}
    BY <1>4 DEF LsnInv, ListenersArmed
  <1> HIDE DEF a
  <1>11. CASE /\ r.fd # Err
              /\ held' = r.held /\ tcp' = Append(tcp, r.fd) /\ boundTo' = Append(boundTo, a)
              /\ turn' = turn + 1 /\ UNCHANGED <<phase, events, local, accepted, cause>>
    <2>1. r.fd \in Fds /\ r.fd \notin held /\ r.held = held \cup {r.fd} BY <1>3, <1>11, Zenon DEF Outcome
    <2>2. tcp' \in Seq(Fds) /\ boundTo' \in Seq(Address) /\ Len(boundTo') = Len(tcp') BY <1>5, <1>7, <1>9, <1>11, <2>1, SMTT(30)
    <2>3. held' \subseteq Fds BY <1>5, <1>11, <2>1
    <2>4. LsnTypeOK' BY <1>2, <1>7, <1>11, <2>2, <2>3, Zenon DEF LsnInv, LsnTypeOK
    <2>5. Disjoint(tcp', local, accepted) /\ Range(tcp') = Range(tcp) \cup {r.fd} /\ Range(boundTo') = Range(boundTo) \cup {a}
      <3>1. Grows(tcp', tcp, r.fd) BY <1>5, <1>11, SMTT(30) DEF Grows
      <3>2. Grows(boundTo', boundTo, a) BY <1>5, <1>11, SMTT(30) DEF Grows
      <3>3. Range(tcp') = Range(tcp) \cup {r.fd} /\ Range(boundTo') = Range(boundTo) \cup {a} BY <3>1, <3>2, Grown, SMTT(30)
      <3>4. r.fd \notin Std \cup Range(tcp) \cup Range(local) \cup accepted BY <1>6, <2>1, Zenon
      <3>5. r.fd \notin Range(tcp) /\ IsInjective(tcp) BY <1>6, <3>4 DEF Disjoint
      <3>6. IsInjective(tcp') BY <3>1, <3>5, Grown, Zenon
      <3> QED BY <1>6, <3>3, <3>4, <3>6, Zenon DEF Disjoint
    <2>6. Phases' BY <1>2, <1>11, Zenon DEF LsnInv, Phases
    <2>7. Owned' BY <1>6, <1>11, <2>1, <2>5, Zenon DEF Owned
    <2>8. ASSUME NEW i \in DOMAIN conf.bindaddr, i < turn + 1, Mandatory(conf.bindaddr[i])
          PROVE  conf.bindaddr[i] \in Range(boundTo')
      BY <1>7, <1>9, <2>5, <2>8, Zenon DEF a
    <2>9. Bound' BY <1>2, <1>9, <1>11, <2>2, <2>8, Zenon DEF Bound, Mandatory
    <2>10. ListenersArmed' BY <1>4, <1>10, <1>11 DEF ListenersArmed
    <2>11. MandatoryBound' BY <1>4, <1>11, Zenon DEF MandatoryBound
    <2> QED BY <2>4, <2>6, <2>7, <2>9, <2>10, <2>11, Zenon DEF LsnInv
  <1>12. CASE /\ r.fd = Err /\ Skips(a, r.errno)
              /\ held' = r.held /\ turn' = turn + 1
              /\ UNCHANGED <<phase, events, tcp, local, boundTo, accepted, cause>>
    <2>1. held' = held BY <1>3, <1>12, Zenon DEF Outcome
    <2>2. ~ Mandatory(a) BY <1>3, <1>12, Zenon
    <2>3. LsnTypeOK' BY <1>2, <1>7, <1>12, <2>1, Zenon DEF LsnInv, LsnTypeOK
    <2>4. Owned' /\ Phases' BY <1>2, <1>12, <2>1, Zenon DEF LsnInv, Owned, Phases
    <2>5. ASSUME NEW i \in DOMAIN conf.bindaddr, i < turn + 1, Mandatory(conf.bindaddr[i])
          PROVE  conf.bindaddr[i] \in Range(boundTo)
      BY <1>7, <1>9, <2>2, <2>5, Zenon DEF a
    <2>6. Bound' BY <1>2, <1>9, <1>12, <2>5, Zenon DEF Bound, Mandatory
    <2>7. ListenersArmed' /\ MandatoryBound' BY <1>4, <1>10, <1>12 DEF ListenersArmed, MandatoryBound
    <2> QED BY <2>3, <2>4, <2>6, <2>7, Zenon DEF LsnInv
  <1>13. CASE Exit("startup") /\ UNCHANGED turn BY <1>2, <1>8, <1>13, Exits, Zenon
  <1>14. CASE /\ r.fd = Err /\ phase = "moving"
              /\ closeListener(r.held) /\ phase' = "running"
              /\ UNCHANGED <<turn, local, accepted, cause>>
    <2>1. /\ held' = held \ Range(tcp) /\ events' = events \ Range(tcp) /\ tcp' = << >> /\ boundTo' = << >>
      BY <1>3, <1>14, Zenon DEF Outcome, closeListener
    <2>2. tcp' \in Seq(Fds) /\ boundTo' \in Seq(Address) /\ Len(boundTo') = Len(tcp') BY <2>1
    <2>3. held' \subseteq Fds /\ events' \subseteq Fds BY <1>5, <2>1, Zenon
    <2>4. phase' \in {"loaded", "ready", "listening", "running", "moving", "exited"} /\ ~ Binding'
          /\ phase' \notin {"loaded", "ready", "listening"} /\ phase' \notin {"loaded", "ready"} /\ phase' # "moving"
      BY <1>14 DEF Binding
    <2>5. LsnTypeOK' BY <1>2, <1>14, <2>2, <2>3, <2>4, Zenon DEF LsnInv, LsnTypeOK
    <2>6. Owned'
      <3>1. Disjoint(tcp, local, accepted) BY <1>6
      <3>2. /\ Disjoint(<< >>, local, accepted) /\ Range(<< >>) = {}
            /\ (Std \cup Range(tcp) \cup Range(local) \cup accepted) \ Range(tcp) = Std \cup Range(local) \cup accepted
        BY <3>1, NoListener
      <3> QED BY <1>6, <1>14, <2>1, <3>2, Zenon DEF Owned
    <2>7. Phases' BY <2>4, Zenon DEF Phases
    <2>8. Bound' BY <2>2, <2>4, Zenon DEF Bound
    <2>9. Range(tcp') = {} BY <2>1, SMTT(30) DEF Range
    <2>10. events' = events BY <1>6, <1>10, <2>1, Zenon DEF Disjoint
    <2>11. ListenersArmed' BY <1>10, <1>14, <2>9, <2>10, Zenon DEF ListenersArmed
    <2>12. portMoves # 0 BY <1>14, Zenon DEF LsnInv, Phases
    <2>13. MandatoryBound' BY <1>2, <2>1, <2>12, Zenon DEF MandatoryBound
    <2> QED BY <2>5, <2>6, <2>7, <2>8, <2>11, <2>13, Zenon DEF LsnInv
  <1> QED BY <1>1, <1>11, <1>12, <1>13, <1>14, Zenon

LEMMA UpdatePortLsn ==
  ASSUME LsnInv, NEW port \in BOOLEAN, updatePort(port)
  PROVE  LsnInv'
PROOF
  <1>1. /\ phase = "running" /\ portMoves < PortChanges /\ portMoves' = portMoves + 1
        /\ conf' = [conf EXCEPT !.port = port] /\ phase' = "moving" /\ turn' = FirstTurn(port)
        /\ held' = held \ Range(tcp) /\ events' = events \ Range(tcp) /\ tcp' = << >> /\ boundTo' = << >>
        /\ UNCHANGED <<local, accepted, asap, sigs, cause>>
    BY Zenon DEF updatePort, closeListener
  <1>2. /\ conf \in Confs /\ conf.bindaddr \in Seq(Address) /\ held \subseteq Fds /\ events \subseteq Fds
    BY LsnTypes, Zenon DEF LsnInv
  <1>3. phase # "exited" /\ phase' # "exited" /\ phase' # "running" /\ phase' \notin {"loaded", "ready", "listening"}
        /\ phase' \notin {"loaded", "ready"} /\ phase' \in {"loaded", "ready", "listening", "running", "moving", "exited"}
    BY <1>1
  <1>4. conf' \in Confs /\ conf'.bindaddr = conf.bindaddr /\ conf'.port = port BY <1>1, <1>2 DEF Confs
  <1>5. turn' \in 1 .. Len(conf.bindaddr) + 1 /\ (port => turn' = 1) /\ (~ port => turn' = Len(conf.bindaddr) + 1)
    BY <1>1, <1>2 DEF FirstTurn
  <1>6. portMoves' \in 0 .. PortChanges /\ portMoves' # 0
    <2>1. portMoves \in 0 .. PortChanges BY Zenon DEF LsnInv, LsnTypeOK
    <2>2. PortChanges \in Nat BY ListenersAssumption
    <2> QED BY <1>1, <2>1, <2>2
  <1>7. tcp' \in Seq(Fds) /\ boundTo' \in Seq(Address) /\ Len(boundTo') = Len(tcp') BY <1>1
  <1>8. held' \subseteq Fds /\ events' \subseteq Fds BY <1>1, <1>2
  <1>9. LsnTypeOK' BY <1>1, <1>3, <1>4, <1>5, <1>6, <1>7, <1>8, Zenon DEF LsnInv, LsnTypeOK, Confs
  <1>10. held = Std \cup Range(tcp) \cup Range(local) \cup accepted /\ Disjoint(tcp, local, accepted)
    BY <1>3, Zenon DEF LsnInv, Owned
  <1>11. Owned'
    <2>1. Disjoint(tcp, local, accepted) BY <1>10
    <2>2. /\ Disjoint(<< >>, local, accepted) /\ Range(<< >>) = {}
          /\ (Std \cup Range(tcp) \cup Range(local) \cup accepted) \ Range(tcp) = Std \cup Range(local) \cup accepted
      BY <2>1, NoListener
    <2> QED BY <1>1, <1>10, <2>2, Zenon DEF Owned
  <1>12. Phases' BY <1>3, <1>6, Zenon DEF Phases
  <1>13. Bound'
    <2>1. \A i \in DOMAIN conf.bindaddr : ~ (i < 1) BY <1>2
    <2> QED BY <1>1, <1>4, <1>5, <1>7, <2>1, Zenon DEF Bound
  <1>14. ListenersArmed'
    <2>1. events = Range(local) \cup Range(tcp) \cup {s \in accepted : s < ElSetSize}
      BY <1>1 DEF LsnInv, ListenersArmed
    <2>2. events' = Range(local) \cup {s \in accepted : s < ElSetSize} BY <1>1, <1>10, <2>1 DEF Disjoint
    <2> QED BY <1>1, <1>3, <2>2 DEF ListenersArmed
  <1>15. MandatoryBound' BY <1>3, Zenon DEF MandatoryBound
  <1> QED BY <1>9, <1>11, <1>12, <1>13, <1>14, <1>15, Zenon DEF LsnInv

\* All addresses have had their turn: what the next state says of them.
LEMMA AllTurns ==
  ASSUME LsnInv, phase \in {"listening", "moving"}, turn = Len(conf.bindaddr) + 1, tcp # << >>
  PROVE  /\ Len(boundTo) = Len(tcp)
         /\ \A i \in DOMAIN conf.bindaddr : Mandatory(conf.bindaddr[i]) => conf.bindaddr[i] \in Range(boundTo)
PROOF
  <1>1. conf.bindaddr \in Seq(Address) BY LsnTypes, Zenon DEF LsnInv
  <1>2. \A i \in DOMAIN conf.bindaddr : i < turn BY <1>1
  <1>3. Binding BY DEF Binding
  <1> QED BY <1>2, <1>3, Zenon DEF LsnInv, Bound

LEMMA ChangeListenerLsn ==
  ASSUME LsnInv, changeListener
  PROVE  LsnInv'
PROOF
  <1>1. /\ phase = "moving" /\ turn = Len(conf.bindaddr) + 1 /\ UNCHANGED <<conf, turn, asap, sigs, portMoves>>
    BY Zenon DEF changeListener
  <1>2. asap \in BOOLEAN /\ sigs \in Seq({"SIGINT", "SIGTERM"}) /\ "panic" \in Stops
    BY DEF LsnInv, LsnTypeOK, Stops
  <1>3. CASE Exit("panic") BY <1>1, <1>2, <1>3, Exits, Zenon
  <1>4. CASE /\ phase' = "running" /\ events' = events \cup Range(tcp)
             /\ UNCHANGED <<held, tcp, local, boundTo, accepted, cause>>
    <2>1. phase # "exited" /\ phase # "running" /\ phase \in {"listening", "moving"} BY <1>1
    <2>2. phase' \notin {"loaded", "ready", "listening"} /\ phase' \notin {"loaded", "ready"} /\ phase' # "moving"
          /\ ~ Binding' /\ phase' \in {"loaded", "ready", "listening", "running", "moving", "exited"}
      BY <1>4 DEF Binding
    <2>3. tcp \in Seq(Fds) /\ events \subseteq Fds BY LsnTypes, Zenon DEF LsnInv
    <2>4. Range(tcp) \subseteq Fds BY <2>3 DEF Range
    <2>5. events' \subseteq Fds BY <1>4, <2>3, <2>4, Zenon
    <2>6. LsnTypeOK' BY <1>1, <1>4, <2>2, <2>5, Zenon DEF LsnInv, LsnTypeOK
    <2>7. Owned' BY <1>4, <2>1, Zenon DEF LsnInv, Owned
    <2>8. Phases' BY <2>2, Zenon DEF Phases
    <2>9. Bound' BY <1>4, <2>2, Zenon DEF LsnInv, Bound
    <2>10. events = Range(local) \cup {s \in accepted : s < ElSetSize} BY <2>1 DEF LsnInv, ListenersArmed
    <2>11. ListenersArmed' BY <1>4, <2>10 DEF ListenersArmed
    <2>12. portMoves # 0 BY <1>1, Zenon DEF LsnInv, Phases
    <2>13. MandatoryBound' BY <1>1, <1>4, <2>1, <2>12, AllTurns, Zenon DEF MandatoryBound, Mandatory
    <2> QED BY <2>6, <2>7, <2>8, <2>9, <2>11, <2>13, Zenon DEF LsnInv
  <1> QED BY <1>3, <1>4, Zenon DEF changeListener

LEMMA AcceptLsn ==
  ASSUME LsnInv, AcceptHandler
  PROVE  LsnInv'
PROOF
  <1>1. PICK fd \in events, n \in 1 .. AcceptsPerCall : Accepting(fd, n) BY Zenon DEF AcceptHandler
  <1>2. PICK given \in SUBSET (Fds \ held) :
       /\ held' = held \cup given /\ accepted' = accepted \cup given
       /\ events' = events \cup {s \in given : s < ElSetSize}
    BY <1>1, Zenon DEF Accepting
  <1>3. phase = "running" /\ UNCHANGED <<conf, phase, turn, tcp, local, boundTo, asap, sigs, cause, portMoves>>
    BY <1>1, Zenon DEF Accepting
  <1>4. held \subseteq Fds /\ events \subseteq Fds /\ accepted \subseteq Fds BY LsnTypes, Zenon DEF LsnInv
  <1>5. phase # "exited" /\ phase \notin {"loaded", "ready", "listening"} /\ phase \notin {"loaded", "ready"}
        /\ phase # "moving"
    BY <1>3
  <1>6. held' \subseteq Fds /\ events' \subseteq Fds /\ accepted' \subseteq Fds BY <1>2, <1>4
  <1>7. LsnTypeOK' BY <1>3, <1>6, Zenon DEF LsnInv, LsnTypeOK
  <1>8. held = Std \cup Range(tcp) \cup Range(local) \cup accepted /\ Disjoint(tcp, local, accepted)
    BY <1>5, Zenon DEF LsnInv, Owned
  <1>9. Owned'
    <2>1. Disjoint(tcp, local, accepted \cup given) BY <1>8 DEF Disjoint
    <2> QED BY <1>2, <1>3, <1>8, <2>1, Zenon DEF Owned
  <1>10. Phases' BY <1>3, <1>5, Zenon DEF Phases
  <1>11. Bound' BY <1>3, Zenon DEF LsnInv, Bound, Binding, Mandatory
  <1>12. ListenersArmed'
    <2>1. events = Range(local) \cup Range(tcp) \cup {s \in accepted : s < ElSetSize}
      BY <1>3 DEF LsnInv, ListenersArmed
    <2> QED BY <1>2, <1>3, <2>1, Zenon DEF ListenersArmed
  <1>13. MandatoryBound' BY <1>3, Zenon DEF LsnInv, MandatoryBound, Mandatory, Listening
  <1> QED BY <1>7, <1>9, <1>10, <1>11, <1>12, <1>13, Zenon DEF LsnInv

LEMMA CloseClientLsn ==
  ASSUME LsnInv, NEW c \in accepted, CloseClient(c)
  PROVE  LsnInv'
PROOF
  <1>1. /\ phase = "running" /\ held' = held \ {c} /\ events' = events \ {c} /\ accepted' = accepted \ {c}
        /\ UNCHANGED <<conf, phase, turn, tcp, local, boundTo, asap, sigs, cause, portMoves>>
    BY Zenon DEF CloseClient
  <1>2. held \subseteq Fds /\ events \subseteq Fds /\ accepted \subseteq Fds BY LsnTypes, Zenon DEF LsnInv
  <1>3. phase # "exited" /\ phase \notin {"loaded", "ready", "listening"} /\ phase \notin {"loaded", "ready"}
        /\ phase # "moving"
    BY <1>1
  <1>4. held' \subseteq Fds /\ events' \subseteq Fds /\ accepted' \subseteq Fds BY <1>1, <1>2
  <1>5. LsnTypeOK' BY <1>1, <1>4, Zenon DEF LsnInv, LsnTypeOK
  <1>6. held = Std \cup Range(tcp) \cup Range(local) \cup accepted /\ Disjoint(tcp, local, accepted)
    BY <1>3, Zenon DEF LsnInv, Owned
  <1>7. c \notin Std /\ c \notin Range(tcp) /\ c \notin Range(local) BY <1>6, Zenon DEF Disjoint
  <1>8. Owned'
    <2>1. Disjoint(tcp, local, accepted \ {c}) BY <1>6 DEF Disjoint
    <2> QED BY <1>1, <1>6, <1>7, <2>1, Zenon DEF Owned
  <1>9. Phases' BY <1>1, <1>3, Zenon DEF Phases
  <1>10. Bound' BY <1>1, Zenon DEF LsnInv, Bound, Binding, Mandatory
  <1>11. ListenersArmed'
    <2>1. events = Range(local) \cup Range(tcp) \cup {s \in accepted : s < ElSetSize}
      BY <1>1 DEF LsnInv, ListenersArmed
    <2> QED BY <1>1, <1>7, <2>1, Zenon DEF ListenersArmed
  <1>12. MandatoryBound' BY <1>1, Zenon DEF LsnInv, MandatoryBound, Mandatory, Listening
  <1> QED BY <1>5, <1>8, <1>9, <1>10, <1>11, <1>12, Zenon DEF LsnInv

\* The rest of initListeners: the unix listener's descriptor, when there is one, is new.
LEMMA ListenersOpenedLsn ==
  ASSUME LsnInv, ListenersOpened
  PROVE  LsnInv'
PROOF
  <1>1. phase = "listening" /\ turn = Len(conf.bindaddr) + 1 /\ UNCHANGED <<conf, turn, asap, sigs, portMoves>>
    BY Zenon DEF ListenersOpened
  <1>2. asap \in BOOLEAN /\ sigs \in Seq({"SIGINT", "SIGTERM"}) /\ "panic" \in Stops /\ "startup" \in Stops
    BY DEF LsnInv, LsnTypeOK, Stops
  <1>3. CASE Exit("panic") \/ Exit("startup") BY <1>1, <1>2, <1>3, Exits, Zenon
  <1>4. ASSUME NEW u \in IF conf.unix THEN connUnixListen ELSE {[ret |-> "C_OK", fds |-> << >>, held |-> held]},
               u.ret # "C_ERR", ~ (tcp = << >> /\ u.fds = << >>),
               phase' = "running", held' = u.held, local' = u.fds, events' = events \cup Range(tcp) \cup Range(u.fds),
               UNCHANGED <<tcp, boundTo, accepted, cause>>
        PROVE  LsnInv'
    <2>1. \/ u.fds = << >> /\ u.held = held
          \/ \E fd \in Fds : fd \notin held /\ u.fds = <<fd>> /\ u.held = held \cup {fd}
      <3>1. CASE ~ conf.unix BY <1>4, <3>1, SMTT(30)
      <3>2. CASE conf.unix
        <4>1. PICK r \in anetUnixServer(held) :
                 u = [ret |-> IF r.fd = Err THEN "C_ERR" ELSE "C_OK", fds |-> IF r.fd = Err THEN << >> ELSE <<r.fd>>,
                      held |-> r.held]
          BY <1>4, <3>2 DEF connUnixListen
        <4>2. Outcome(held, r) BY UnixOutcome, Zenon
        <4>3. r.fd # Err /\ u.fds = <<r.fd>> /\ u.held = r.held BY <1>4, <4>1
        <4>4. r.fd \in Fds /\ r.fd \notin held /\ r.held = held \cup {r.fd} BY <4>2, <4>3, Zenon DEF Outcome
        <4> QED BY <4>3, <4>4, Zenon
      <3> QED BY <3>1, <3>2, Zenon
    <2>2. phase # "exited" /\ phase # "running" /\ phase \in {"listening", "moving"}
          /\ phase \in {"loaded", "ready", "listening"}
      BY <1>1, Zenon
    <2>3. phase' \notin {"loaded", "ready", "listening"} /\ phase' \notin {"loaded", "ready"} /\ phase' # "moving"
          /\ ~ Binding' /\ phase' \in {"loaded", "ready", "listening", "running", "moving", "exited"}
      BY <1>4 DEF Binding
    <2>4. /\ tcp \in Seq(Fds) /\ events \subseteq Fds /\ held \subseteq Fds BY LsnTypes, Zenon DEF LsnInv
    <2>5. held = Std \cup Range(tcp) \cup Range(local) \cup accepted /\ Disjoint(tcp, local, accepted)
      BY <2>2, Zenon DEF LsnInv, Owned
    <2>6. local = << >> /\ accepted = {} BY <2>2, Zenon DEF LsnInv, Phases
    <2>7. events = {}
      <3>1. Range(local) = {} BY <2>6 DEF Range
      <3> QED BY <2>2, <2>6, <3>1, Zenon DEF LsnInv, ListenersArmed
    <2>8. /\ u.fds \in Seq(Fds) /\ Range(u.fds) \subseteq Fds /\ Range(tcp) \subseteq Fds
          /\ Disjoint(tcp, u.fds, accepted) /\ u.held \subseteq Fds
          /\ u.held = Std \cup Range(tcp) \cup Range(u.fds) \cup accepted
      <3>1. Range(tcp) \subseteq Fds BY <2>4 DEF Range
      <3>2. CASE u.fds = << >> /\ u.held = held
        <4>1. u.fds \in Seq(Fds) /\ Range(u.fds) \subseteq Fds BY <3>2, SMTT(30) DEF Range
        <4> QED BY <2>4, <2>5, <2>6, <3>1, <3>2, <4>1, Zenon
      <3>3. CASE \E fd \in Fds : fd \notin held /\ u.fds = <<fd>> /\ u.held = held \cup {fd}
        <4>1. PICK fd \in Fds : fd \notin held /\ u.fds = <<fd>> /\ u.held = held \cup {fd} BY <3>3, Zenon
        <4>2. Disjoint(tcp, << >>, accepted) BY <2>5, <2>6, Zenon
        <4>3. fd \notin Std \cup Range(tcp) \cup accepted BY <2>5, <4>1, Zenon
        <4>4. Disjoint(tcp, <<fd>>, accepted) /\ Range(<<fd>>) = {fd} /\ Range(local) = {}
          BY <2>6, <4>2, <4>3, NewOwner, Zenon
        <4>5. u.fds \in Seq(Fds) BY <4>1, SMTT(30)
        <4>6. u.held \subseteq Fds /\ u.held = Std \cup Range(tcp) \cup Range(u.fds) \cup accepted
          BY <2>4, <2>5, <4>1, <4>4, Zenon
        <4> QED BY <3>1, <4>1, <4>4, <4>5, <4>6, Zenon
      <3> QED BY <2>1, <3>2, <3>3, Zenon
    <2>9. events' \subseteq Fds BY <1>4, <2>4, <2>8, Zenon
    <2>10. LsnTypeOK' BY <1>1, <1>4, <2>3, <2>8, <2>9, Zenon DEF LsnInv, LsnTypeOK
    <2>11. Owned' BY <1>4, <2>8 DEF Owned
    <2>12. Phases' BY <2>3, Zenon DEF Phases
    <2>13. Bound' BY <1>4, <2>3, Zenon DEF LsnInv, Bound
    <2>14. ListenersArmed' BY <1>4, <2>6, <2>7, Zenon DEF ListenersArmed
    <2>15. Listening' # {}
      <3>1. Range(tcp) # {} \/ Range(u.fds) # {}
        <4>1. tcp # << >> => Range(tcp) # {} BY <2>4, RangeOf, Zenon
        <4>2. u.fds # << >> => Range(u.fds) # {} BY <2>8, RangeOf, Zenon
        <4> QED BY <1>4, <4>1, <4>2
      <3> QED BY <1>4, <3>1, Zenon DEF Listening
    <2>16. MandatoryBound' BY <1>1, <1>4, <2>2, <2>15, AllTurns, Zenon DEF MandatoryBound, Mandatory
    <2> QED BY <2>10, <2>11, <2>12, <2>13, <2>14, <2>16, Zenon DEF LsnInv
  <1> QED BY <1>3, <1>4 DEF ListenersOpened

LEMMA LsnStep == LsnInv /\ [LsnNext]_lsnvars => LsnInv'
PROOF
  <1> SUFFICES ASSUME LsnInv, [LsnNext]_lsnvars PROVE LsnInv' OBVIOUS
  <1>1. CASE UNCHANGED lsnvars
    <2>1. asap \in BOOLEAN /\ sigs \in Seq({"SIGINT", "SIGTERM"}) /\ cause \in Stops BY Zenon DEF LsnInv, LsnTypeOK
    <2> QED BY <1>1, <2>1, NothingMoved, Zenon DEF lsnvars
  <1>2. CASE initServer \/ initListeners BY <1>2, InitServerLsn, Zenon
  <1>3. CASE listenToPort BY <1>3, ListenToPortLsn, Zenon
  <1>4. CASE ListenersOpened BY <1>4, ListenersOpenedLsn, Zenon
  <1>5. CASE changeListener BY <1>5, ChangeListenerLsn, Zenon
  <1>6. CASE \E port \in BOOLEAN : updatePort(port) BY <1>6, UpdatePortLsn, Zenon
  <1>7. CASE AcceptHandler BY <1>7, AcceptLsn, Zenon
  <1>8. CASE \E s \in accepted : CloseClient(s) BY <1>8, CloseClientLsn, Zenon
  <1>9. CASE Signalled BY <1>9, SignalLsn, Zenon DEF Signalled
  <1> QED BY <1>1, <1>2, <1>3, <1>4, <1>5, <1>6, <1>7, <1>8, <1>9, Zenon DEF LsnNext

\* Counting the owners' descriptors.
LEMMA Accounted == LsnInv => DescriptorsAccounted
PROOF
  <1> SUFFICES ASSUME LsnInv, phase # "exited"
      PROVE  /\ held = Std \cup Listening \cup accepted
             /\ Cardinality(held) = Cardinality(Std) + Len(tcp) + Len(local) + Cardinality(accepted)
    BY Zenon DEF DescriptorsAccounted
  <1> DEFINE T == Range(tcp)
             L == Range(local)
  <1>1. held = Std \cup T \cup L \cup accepted /\ Disjoint(tcp, local, accepted) BY Zenon DEF LsnInv, Owned
  <1>2. tcp \in Seq(Fds) /\ local \in Seq(Fds) /\ accepted \subseteq Fds BY LsnTypes, Zenon DEF LsnInv
  <1>3. IsInjective(tcp) /\ IsInjective(local) BY <1>1, Zenon DEF Disjoint
  <1>4. T \cap L = {} /\ accepted \cap (T \cup L) = {} /\ Std \cap (T \cup L \cup accepted) = {}
    BY <1>1, Zenon DEF Disjoint
  <1>5. IsFiniteSet(T) /\ Cardinality(T) = Len(tcp) BY <1>2, <1>3, CountOf, Zenon
  <1>6. IsFiniteSet(L) /\ Cardinality(L) = Len(local) BY <1>2, <1>3, CountOf, Zenon
  <1>7. IsFiniteSet(accepted)
    <2>1. FdLimit \in Nat BY ListenersAssumption
    <2>2. IsFiniteSet(Fds) BY <2>1, FS_Interval DEF Fds
    <2> QED BY <1>2, <2>2, FS_Subset, Zenon
  <1>8. IsFiniteSet(Std) BY FS_Singleton, Zenon DEF Std
  <1> HIDE DEF T, L
  <1>9. IsFiniteSet(T \cup L) /\ Cardinality(T \cup L) = Cardinality(T) + Cardinality(L) - Cardinality(T \cap L)
    BY <1>5, <1>6, FS_Union, Zenon
  <1>10. /\ IsFiniteSet((T \cup L) \cup accepted)
         /\ Cardinality((T \cup L) \cup accepted) = Cardinality(T \cup L) + Cardinality(accepted) - Cardinality((T \cup L) \cap accepted)
    BY <1>7, <1>9, FS_Union, Zenon
  <1>11. Cardinality(Std \cup ((T \cup L) \cup accepted)) =
           Cardinality(Std) + Cardinality((T \cup L) \cup accepted) - Cardinality(Std \cap ((T \cup L) \cup accepted))
    BY <1>8, <1>10, FS_Union, Zenon
  <1>12. Cardinality({}) = 0 BY FS_EmptySet, Zenon
  <1>13. (T \cup L) \cap accepted = {} BY <1>4, Zenon
  <1>14. held = Std \cup ((T \cup L) \cup accepted) BY <1>1
  <1>15. Cardinality(T) \in Nat /\ Cardinality(L) \in Nat /\ Cardinality(accepted) \in Nat /\ Cardinality(Std) \in Nat
    BY <1>5, <1>6, <1>7, <1>8, FS_CardinalityType, Zenon
  <1>16. Cardinality(held) = Cardinality(Std) + Len(tcp) + Len(local) + Cardinality(accepted)
    <2>1. Cardinality(T \cap L) = 0 /\ Cardinality((T \cup L) \cap accepted) = 0
          /\ Cardinality(Std \cap ((T \cup L) \cup accepted)) = 0
      <3>1. T \cap L = {} /\ Std \cap ((T \cup L) \cup accepted) = {} BY <1>4
      <3> QED BY <1>12, <1>13, <3>1, Zenon
    <2> DEFINE cT == Cardinality(T)
               cL == Cardinality(L)
               cA == Cardinality(accepted)
               cS == Cardinality(Std)
               cTL == Cardinality(T \cup L)
               cTLA == Cardinality((T \cup L) \cup accepted)
               cO == Cardinality(Std \cup ((T \cup L) \cup accepted))
    <2>2. cT \in Nat /\ cL \in Nat /\ cA \in Nat /\ cS \in Nat BY <1>15
    <2>3. cTL = cT + cL - 0 BY <1>9, <2>1, Zenon
    <2>4. cTLA = cTL + cA - 0 BY <1>10, <2>1, Zenon
    <2>5. cO = cS + cTLA - 0 BY <1>11, <2>1, Zenon
    <2>6. Len(tcp) = cT /\ Len(local) = cL /\ Cardinality(held) = cO BY <1>5, <1>6, <1>14, Zenon
    <2> HIDE DEF cT, cL, cA, cS, cTL, cTLA, cO
    <2>7. cO = cS + cT + cL + cA BY <2>2, <2>3, <2>4, <2>5, SMTT(30)
    <2> QED BY <2>6, <2>7, Zenon DEF cT, cL, cA, cS
  <1> QED BY <1>14, <1>16 DEF Listening, T, L

\* What listens, what is armed and what is open agree after every failure of a system call,
\* for any list of addresses, any number of descriptors and any set size.
THEOREM AlwaysListenersSound == LsnSpec => []ListenersSound
PROOF
  <1>1. LsnInv => ListenersSound BY Accounted, Zenon DEF LsnInv, ListenersSound
  <1> QED BY StartLsn, LsnStep, <1>1, PTL DEF LsnSpec

=============================================================================
