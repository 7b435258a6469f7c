--------------------------- MODULE ChatRoomProofs ---------------------------
(***************************************************************************)
(* What a page of the chat shows, for any users and any number of          *)
(* messages.                                                               *)
(*                                                                         *)
(* ChatInv follows the messages of one sender on their way: through the    *)
(* sender's connection, the server and the reader's connection to the page *)
(* they keep their order, and a page never gets its own ones back.         *)
(***************************************************************************)
EXTENDS ChatRoom, FiniteSetTheorems, TLAPS

Below(S, T) == \A x \in S, y \in T : x.from = y.from => x.n < y.n

\* The messages on their way, those of one sender in order, each numbered by its sender.
Senders ==
  \A u \in User :
    /\ \A m \in Range(up[u]) : m.from = u
    /\ \A m \in Range(down[u]) \cup Range(pending[u]) : m.from # u
Numbers == \A u \in User : \A m \in Range(up[u]) \cup Range(down[u]) \cup Range(Page(u)) : m.n <= sent[m.from]
Orders == \A u \in User : InOrder(up[u]) /\ InOrder(down[u]) /\ InOrder(Page(u))
Follows ==
  \A u \in User :
    /\ Below(Range(Page(u)), Range(down[u]))
    /\ \A v \in User \ {u} : Below(Range(Page(u)) \cup Range(down[u]), Range(up[v]))

\* What was clicked is rendered.
Own == \A u \in User : \A n \in 1 .. sent[u] : [from |-> u, n |-> n] \in Range(shown[u])

\* The messages of a sequence that are not u's are those of another.
Others(s, u) == {i \in DOMAIN s : s[i].from # u}
Matches(s, a, u) ==
  /\ Len(a) = Cardinality(Others(s, u))
  /\ \A i \in Others(s, u) : s[i] = a[Cardinality(Others(s, u) \cap 1 .. i)]
Lost == \A u \in User \ raced : Matches(Page(u), arrived[u], u)

Types ==
  /\ sock \in [User -> {"CONNECTING", "OPEN", "CLOSED"}]
  /\ up \in [User -> Seq(Message)] /\ down \in [User -> Seq(Message)] /\ shown \in [User -> Seq(Message)]
  /\ pending \in [User -> Seq(Message)] /\ arrived \in [User -> Seq(Message)]
  /\ sent \in [User -> 0 .. MaxSent] /\ raced \subseteq User

ChatInv == Types /\ Senders /\ Numbers /\ Orders /\ Follows /\ Own /\ Lost

-----------------------------------------------------------------------------
(* Sequences of messages                                                   *)

LEMMA Joined ==
  ASSUME NEW s \in Seq(Message), NEW t \in Seq(Message)
  PROVE  /\ s \o << >> = s /\ s \o t \in Seq(Message)
         /\ Range(s \o t) = Range(s) \cup Range(t)
         /\ InOrder(s \o t) => InOrder(s)
PROOF
  <1>1. s \o << >> = s /\ s \o t \in Seq(Message) OBVIOUS
  <1>2. /\ \A i \in DOMAIN s : i \in DOMAIN (s \o t) /\ (s \o t)[i] = s[i]
        /\ \A i \in DOMAIN t : i + Len(s) \in DOMAIN (s \o t) /\ (s \o t)[i + Len(s)] = t[i]
        /\ \A i \in DOMAIN (s \o t) : i \in DOMAIN s \/ (i - Len(s) \in DOMAIN t /\ (s \o t)[i] = t[i - Len(s)])
    <2>1. DOMAIN (s \o t) = 1 .. Len(s) + Len(t) /\ DOMAIN s = 1 .. Len(s) /\ DOMAIN t = 1 .. Len(t) OBVIOUS
    <2>2. \A i \in 1 .. Len(s) : (s \o t)[i] = s[i] OBVIOUS
    <2>3. \A i \in 1 .. Len(t) : (s \o t)[i + Len(s)] = t[i] OBVIOUS
    <2>4. \A i \in 1 .. Len(s) + Len(t) : i \notin 1 .. Len(s) => (s \o t)[i] = t[i - Len(s)] OBVIOUS
    <2>5. Len(s) \in Nat /\ Len(t) \in Nat OBVIOUS
    <2>6. /\ 1 .. Len(s) \subseteq 1 .. Len(s) + Len(t)
          /\ \A i \in 1 .. Len(t) : i + Len(s) \in 1 .. Len(s) + Len(t)
          /\ \A i \in 1 .. Len(s) + Len(t) : i \notin 1 .. Len(s) => i - Len(s) \in 1 .. Len(t)
      BY <2>5
    <2> QED BY <2>1, <2>2, <2>3, <2>4, <2>6, Zenon
  <1>3. Range(s \o t) = Range(s) \cup Range(t)
    <2>1. Range(s) \subseteq Range(s \o t) BY <1>2, Zenon DEF Range
    <2>2. ASSUME NEW x \in Range(t) PROVE x \in Range(s \o t)
      <3>1. PICK i \in DOMAIN t : x = t[i] BY <2>2, Zenon DEF Range
      <3>2. i + Len(s) \in DOMAIN (s \o t) /\ (s \o t)[i + Len(s)] = x BY <1>2, <3>1, Zenon
      <3> QED BY <3>2, Zenon DEF Range
    <2>3. Range(s \o t) \subseteq Range(s) \cup Range(t) BY <1>2 DEF Range
    <2> QED BY <2>1, <2>2, <2>3, Zenon
  <1>4. InOrder(s \o t) => InOrder(s) BY <1>2 DEF InOrder
  <1> QED BY <1>1, <1>3, <1>4

LEMMA Appended ==
  ASSUME NEW s \in Seq(Message), NEW m \in Message
  PROVE  /\ Append(s, m) \in Seq(Message) /\ Range(Append(s, m)) = Range(s) \cup {m}
         /\ InOrder(s) /\ Below(Range(s), {m}) => InOrder(Append(s, m))
PROOF
  <1>1. /\ DOMAIN Append(s, m) = DOMAIN s \cup {Len(s) + 1} /\ \A i \in DOMAIN s : Append(s, m)[i] = s[i]
        /\ Append(s, m)[Len(s) + 1] = m /\ \A i \in DOMAIN s : i < Len(s) + 1 /\ ~ (Len(s) + 1 < i)
        /\ ~ (Len(s) + 1 < Len(s) + 1)
    OBVIOUS
  <1>2. Range(Append(s, m)) = Range(s) \cup {m} BY <1>1, Zenon DEF Range
  <1>3. ASSUME InOrder(s), Below(Range(s), {m}) PROVE InOrder(Append(s, m))
    <2>1. \A i \in DOMAIN s : s[i].from = m.from => s[i].n < m.n BY <1>3, Zenon DEF Below, Range
    <2> QED BY <1>1, <1>3, <2>1 DEF InOrder
  <1> QED BY <1>2, <1>3

LEMMA Taken ==
  ASSUME NEW s \in Seq(Message), s # << >>
  PROVE  /\ Tail(s) \in Seq(Message) /\ Head(s) \in Message /\ Range(s) = {Head(s)} \cup Range(Tail(s))
         /\ InOrder(s) => InOrder(Tail(s)) /\ Below({Head(s)}, Range(Tail(s)))
PROOF
  <1>1. /\ Tail(s) \in Seq(Message) /\ Head(s) \in Message /\ 1 \in DOMAIN s /\ s[1] = Head(s)
        /\ \A i \in DOMAIN Tail(s) : i + 1 \in DOMAIN s /\ Tail(s)[i] = s[i + 1] /\ 1 < i + 1
        /\ \A i \in DOMAIN s : i # 1 => i - 1 \in DOMAIN Tail(s) /\ Tail(s)[i - 1] = s[i]
    OBVIOUS
  <1>2. Range(s) = {Head(s)} \cup Range(Tail(s))
    <2>1. Range(s) \subseteq {Head(s)} \cup Range(Tail(s)) BY <1>1 DEF Range
    <2>2. {Head(s)} \cup Range(Tail(s)) \subseteq Range(s) BY <1>1 DEF Range
    <2> QED BY <2>1, <2>2, Zenon
  <1>3. ASSUME InOrder(s) PROVE Below({Head(s)}, Range(Tail(s)))
    <2>1. \A i \in DOMAIN Tail(s) : Head(s).from = Tail(s)[i].from => Head(s).n < Tail(s)[i].n
      BY <1>1, <1>3 DEF InOrder
    <2> QED BY <2>1, Zenon DEF Below, Range
  <1>4. ASSUME InOrder(s) PROVE InOrder(Tail(s))
    BY <1>1, <1>4 DEF InOrder
  <1> QED BY <1>1, <1>2, <1>3, <1>4

LEMMA CountedBelow ==
  ASSUME NEW s \in Seq(Message), NEW a \in Seq(Message), NEW u, Matches(s, a, u)
  PROVE  /\ IsFiniteSet(Others(s, u)) /\ Others(s, u) \subseteq 1 .. Len(s)
         /\ \A i \in Others(s, u) : Cardinality(Others(s, u) \cap 1 .. i) \in 1 .. Len(a)
PROOF
  <1>1. Others(s, u) \subseteq 1 .. Len(s) BY DEF Others
  <1>2. Len(s) \in Nat OBVIOUS
  <1>3. IsFiniteSet(1 .. Len(s)) BY <1>2, FS_Interval
  <1>4. IsFiniteSet(Others(s, u)) BY <1>1, <1>3, FS_Subset, Zenon
  <1>5. ASSUME NEW i \in Others(s, u) PROVE Cardinality(Others(s, u) \cap 1 .. i) \in 1 .. Len(a)
    <2> DEFINE B == Others(s, u) \cap 1 .. i
    <2>1. IsFiniteSet(B) /\ Cardinality(B) <= Cardinality(Others(s, u)) BY <1>4, FS_Subset
    <2>2. i \in B BY <1>1, <1>5
    <2>3. Cardinality(B) # 0 /\ Cardinality(B) \in Nat BY <2>1, <2>2, FS_EmptySet, FS_CardinalityType, Zenon
    <2>4. Len(a) = Cardinality(Others(s, u)) /\ Len(a) \in Nat BY DEF Matches
    <2> QED BY <2>1, <2>3, <2>4
  <1> QED BY <1>1, <1>4, <1>5

\* A message of another goes to both, one of u's own to the first.
LEMMA MatchesOther ==
  ASSUME NEW s \in Seq(Message), NEW a \in Seq(Message), NEW u, NEW m \in Message, Matches(s, a, u), m.from # u
  PROVE  Matches(Append(s, m), Append(a, m), u)
PROOF
  <1> DEFINE O == Others(s, u)
             P == Others(Append(s, m), u)
             k == Len(s) + 1
  <1>1. IsFiniteSet(O) /\ O \subseteq 1 .. Len(s) /\ \A i \in O : Cardinality(O \cap 1 .. i) \in 1 .. Len(a)
    BY CountedBelow, Zenon
  <1>2. Len(a) = Cardinality(O) /\ \A i \in O : s[i] = a[Cardinality(O \cap 1 .. i)] BY Zenon DEF Matches
  <1>3. P = O \cup {k} /\ k \notin O /\ Append(s, m)[k] = m /\ \A i \in O : Append(s, m)[i] = s[i]
    <2>1. DOMAIN Append(s, m) = DOMAIN s \cup {k} /\ k \notin DOMAIN s /\ Append(s, m)[k] = m
          /\ \A i \in DOMAIN s : Append(s, m)[i] = s[i]
      OBVIOUS
    <2> QED BY <2>1, Zenon DEF Others
  <1>4. Cardinality(O) \in Nat /\ Len(a) \in Nat /\ Len(s) \in Nat BY <1>1, FS_CardinalityType
  <1> HIDE DEF O, P
  <1>5. Cardinality(P) = Cardinality(O) + 1 BY <1>1, <1>3, FS_AddElement, Zenon
  <1>6. Len(Append(a, m)) = Cardinality(P) BY <1>2, <1>4, <1>5
  <1>7. ASSUME NEW i \in O PROVE Append(s, m)[i] = Append(a, m)[Cardinality(P \cap 1 .. i)]
    <2>1. P \cap 1 .. i = O \cap 1 .. i BY <1>1, <1>3
    <2>2. \A j \in 1 .. Len(a) : Append(a, m)[j] = a[j] OBVIOUS
    <2> QED BY <1>1, <1>2, <1>3, <1>7, <2>1, <2>2, Zenon
  <1>8. Append(s, m)[k] = Append(a, m)[Cardinality(P \cap 1 .. k)]
    <2>1. k \in 1 .. k /\ 1 .. Len(s) \subseteq 1 .. k BY <1>4
    <2>2. P \cap 1 .. k = P BY <1>1, <1>3, <2>1, Zenon
    <2>3. Append(a, m)[Len(a) + 1] = m OBVIOUS
    <2> QED BY <1>2, <1>3, <1>5, <2>2, <2>3, Zenon
  <1> QED BY <1>3, <1>6, <1>7, <1>8, Zenon DEF Matches, P

LEMMA MatchesOwn ==
  ASSUME NEW s \in Seq(Message), NEW a \in Seq(Message), NEW u, NEW m \in Message, Matches(s, a, u), m.from = u
  PROVE  Matches(Append(s, m), a, u)
PROOF
  <1>1. DOMAIN Append(s, m) = DOMAIN s \cup {Len(s) + 1} /\ Append(s, m)[Len(s) + 1] = m
        /\ \A i \in DOMAIN s : Append(s, m)[i] = s[i]
    OBVIOUS
  <1>2. Others(Append(s, m), u) = Others(s, u) /\ \A i \in Others(s, u) : Append(s, m)[i] = s[i]
    BY <1>1, Zenon DEF Others
  <1> QED BY <1>2, Zenon DEF Matches

-----------------------------------------------------------------------------
(* The steps                                                               *)

LEMMA PageType ==
  ASSUME Types, NEW u \in User
  PROVE  /\ up[u] \in Seq(Message) /\ down[u] \in Seq(Message) /\ shown[u] \in Seq(Message)
         /\ pending[u] \in Seq(Message) /\ arrived[u] \in Seq(Message) /\ Page(u) \in Seq(Message)
         /\ Range(Page(u)) = Range(shown[u]) \cup Range(pending[u])
PROOF
  <1>1. /\ up[u] \in Seq(Message) /\ down[u] \in Seq(Message) /\ shown[u] \in Seq(Message)
        /\ pending[u] \in Seq(Message) /\ arrived[u] \in Seq(Message)
    BY Zenon DEF Types
  <1>2. Page(u) \in Seq(Message) BY <1>1 DEF Page
  <1>3. Range(shown[u] \o pending[u]) = Range(shown[u]) \cup Range(pending[u]) BY <1>1, Joined
  <1> QED BY <1>1, <1>2, <1>3, Zenon DEF Page

LEMMA StartChat == ChatInit => ChatInv
PROOF
  <1> SUFFICES ASSUME ChatInit PROVE ChatInv OBVIOUS
  <1>1. Types
    <2>1. 0 \in 0 .. MaxSent BY ChatAssumption
    <2>2. << >> \in Seq(Message) OBVIOUS
    <2> QED BY <2>1, <2>2 DEF ChatInit, Types
  <1>2. /\ \A u \in User : up[u] = << >> /\ down[u] = << >> /\ shown[u] = << >> /\ pending[u] = << >>
        /\ \A u \in User : arrived[u] = << >> /\ sent[u] = 0
    BY Zenon DEF ChatInit
  <1>3. << >> \o << >> = << >> /\ Range(<< >>) = {} /\ InOrder(<< >>) BY DEF Range, InOrder
  <1>4. \A u \in User : Page(u) = << >> BY <1>2, <1>3, Zenon DEF Page
  <1>5. Senders /\ Numbers BY <1>2, <1>3, <1>4, Zenon DEF Senders, Numbers
  <1>6. Orders BY <1>2, <1>3, <1>4, Zenon DEF Orders
  <1>7. Follows BY <1>2, <1>3, <1>4, Zenon DEF Follows, Below
  <1>8. Own
    <2>1. 1 .. 0 = {} OBVIOUS
    <2> QED BY <1>2, <2>1, Zenon DEF Own
  <1>9. Lost
    <2>1. \A u : Others(<< >>, u) = {} BY DEF Others
    <2>2. Len(<< >>) = 0 /\ Cardinality({}) = 0 BY FS_EmptySet
    <2>3. \A u : Matches(<< >>, << >>, u) BY <2>1, <2>2, Zenon DEF Matches
    <2> QED BY <1>2, <1>4, <2>3, Zenon DEF Lost
  <1> QED BY <1>1, <1>5, <1>6, <1>7, <1>8, <1>9, Zenon DEF ChatInv

\* A step that leaves the pages and the messages alone, or empties connections.
LEMMA LessUnderWay ==
  ASSUME ChatInv, Types', UNCHANGED <<shown, pending, sent, arrived, raced>>,
         \A u \in User : (up'[u] = up[u] /\ down'[u] = down[u]) \/ (up'[u] = << >> /\ down'[u] = << >>)
  PROVE  ChatInv'
PROOF
  <1>1. Range(<< >>) = {} /\ InOrder(<< >>) BY DEF Range, InOrder
  <1>2. \A u \in User : Range(up'[u]) \subseteq Range(up[u]) /\ Range(down'[u]) \subseteq Range(down[u])
    BY <1>1, Zenon
  <1>3. \A u : Page(u)' = Page(u) BY Zenon DEF Page
  <1>4. Senders' BY <1>2, Zenon DEF ChatInv, Senders
  <1>5. Numbers' BY <1>2, <1>3, Zenon DEF ChatInv, Numbers
  <1>6. Orders' BY <1>1, <1>3, Zenon DEF ChatInv, Orders
  <1>7. Follows' BY <1>2, <1>3, Zenon DEF ChatInv, Follows, Below
  <1>8. Own' BY Zenon DEF ChatInv, Own
  <1>9. Lost' BY <1>3, Zenon DEF ChatInv, Lost
  <1> QED BY <1>4, <1>5, <1>6, <1>7, <1>8, <1>9, Zenon DEF ChatInv

LEMMA SocketStep ==
  ASSUME ChatInv, NEW u \in User, onopen(u) \/ onclose(u)
  PROVE  ChatInv'
PROOF
  <1>1. Types BY DEF ChatInv
  <1>2. "OPEN" \in {"CONNECTING", "OPEN", "CLOSED"} /\ "CLOSED" \in {"CONNECTING", "OPEN", "CLOSED"}
        /\ << >> \in Seq(Message)
    OBVIOUS
  <1>3. CASE onopen(u)
    <2>1. Types' BY <1>1, <1>2, <1>3, Zenon DEF Types, onopen
    <2> QED BY <1>3, <2>1, LessUnderWay, Zenon DEF onopen
  <1>4. CASE onclose(u)
    <2>1. Types' BY <1>1, <1>2, <1>4, Zenon DEF Types, onclose
    <2>2. \A v \in User : (up'[v] = up[v] /\ down'[v] = down[v]) \/ (up'[v] = << >> /\ down'[v] = << >>)
      BY <1>1, <1>4 DEF Types, onclose
    <2> QED BY <1>4, <2>1, <2>2, LessUnderWay, Zenon DEF onclose
  <1> QED BY <1>3, <1>4

LEMMA RenderStep ==
  ASSUME ChatInv, NEW u \in User, render(u)
  PROVE  ChatInv'
PROOF
  <1>1. Types BY DEF ChatInv
  <1>2. /\ shown' = [shown EXCEPT ![u] = shown[u] \o pending[u]] /\ pending' = [pending EXCEPT ![u] = << >>]
        /\ UNCHANGED <<sock, up, down, sent, arrived, raced>>
    BY Zenon DEF render
  <1>3. /\ shown[u] \in Seq(Message) /\ pending[u] \in Seq(Message) /\ Page(u) \in Seq(Message)
        /\ Range(Page(u)) = Range(shown[u]) \cup Range(pending[u])
    BY <1>1, PageType
  <1>4. shown'[u] = Page(u) /\ pending'[u] = << >> /\ \A c \in User : c # u => shown'[c] = shown[c] /\ pending'[c] = pending[c]
    BY <1>1, <1>2 DEF Types, Page
  <1>5. \A c \in User : Page(c)' = Page(c)
    <2>1. Page(u) \o << >> = Page(u) BY <1>3
    <2> QED BY <1>4, <2>1, Zenon DEF Page
  <1>6. Types'
    <2>1. << >> \in Seq(Message) OBVIOUS
    <2> QED BY <1>1, <1>2, <1>3, <2>1, Zenon DEF Types, Page
  <1>7. Range(<< >>) = {} BY DEF Range
  <1>8. Senders' BY <1>2, <1>4, <1>7, Zenon DEF ChatInv, Senders
  <1>9. Numbers' BY <1>2, <1>5, Zenon DEF ChatInv, Numbers
  <1>10. Orders' BY <1>2, <1>5, Zenon DEF ChatInv, Orders
  <1>11. Follows' BY <1>2, <1>5, Zenon DEF ChatInv, Follows
  <1>12. Own' BY <1>2, <1>3, <1>4, Zenon DEF ChatInv, Own
  <1>13. Lost' BY <1>2, <1>5, Zenon DEF ChatInv, Lost
  <1> QED BY <1>6, <1>8, <1>9, <1>10, <1>11, <1>12, <1>13, Zenon DEF ChatInv

LEMMA ArriveStep ==
  ASSUME ChatInv, NEW u \in User, onmessage(u)
  PROVE  ChatInv'
PROOF
  <1> DEFINE m == Head(down[u])
  <1>1. Types BY DEF ChatInv
  <1>2. /\ down[u] # << >> /\ pending' = [pending EXCEPT ![u] = Append(pending[u], m)]
        /\ arrived' = [arrived EXCEPT ![u] = Append(arrived[u], m)] /\ down' = [down EXCEPT ![u] = Tail(down[u])]
        /\ UNCHANGED <<sock, up, shown, sent, raced>>
    BY Zenon DEF onmessage
  <1>3. /\ down[u] \in Seq(Message) /\ shown[u] \in Seq(Message) /\ pending[u] \in Seq(Message)
        /\ arrived[u] \in Seq(Message) /\ Page(u) \in Seq(Message)
    BY <1>1, PageType
  <1>4. /\ Tail(down[u]) \in Seq(Message) /\ m \in Message /\ Range(down[u]) = {m} \cup Range(Tail(down[u]))
        /\ InOrder(down[u]) => InOrder(Tail(down[u])) /\ Below({m}, Range(Tail(down[u])))
    BY <1>2, <1>3, Taken, Zenon
  <1> HIDE DEF m
  <1>5. /\ \A c \in User : c # u => Page(c)' = Page(c) /\ down'[c] = down[c] /\ pending'[c] = pending[c] /\ arrived'[c] = arrived[c]
        /\ down'[u] = Tail(down[u]) /\ pending'[u] = Append(pending[u], m) /\ arrived'[u] = Append(arrived[u], m)
    BY <1>1, <1>2, Zenon DEF Types, Page
  <1>6. Page(u)' = Append(Page(u), m)
    <2>1. \A s \in Seq(Message), t \in Seq(Message), x \in Message : s \o Append(t, x) = Append(s \o t, x)
      OBVIOUS
    <2>2. shown[u] \o Append(pending[u], m) = Append(shown[u] \o pending[u], m) BY <1>3, <1>4, <2>1, Zenon
    <2> QED BY <1>2, <1>5, <2>2, Zenon DEF Page
  <1>7. /\ Range(Page(u)') = Range(Page(u)) \cup {m}
        /\ InOrder(Page(u)) /\ Below(Range(Page(u)), {m}) => InOrder(Page(u)')
    BY <1>3, <1>4, <1>6, Appended, Zenon
  <1>8. Range(pending'[u]) = Range(pending[u]) \cup {m} BY <1>3, <1>4, <1>5, Appended, Zenon
  <1>9. m \in Range(down[u]) /\ Range(down'[u]) \subseteq Range(down[u]) BY <1>4, <1>5
  <1>10. InOrder(Page(u)) /\ InOrder(down[u]) BY Zenon DEF ChatInv, Orders
  <1>11. Types'
    <2>1. Append(pending[u], m) \in Seq(Message) /\ Append(arrived[u], m) \in Seq(Message) BY <1>3, <1>4
    <2> QED BY <1>1, <1>2, <1>4, <2>1, Zenon DEF Types
  <1>12. Senders'
    <2>1. \A c \in User : \A x \in Range(down'[c]) \cup Range(pending'[c]) : x \in Range(down[c]) \cup Range(pending[c])
      BY <1>5, <1>8, <1>9, Zenon
    <2> QED BY <1>2, <2>1, Zenon DEF ChatInv, Senders
  <1>13. Numbers'
    <2>1. \A c \in User : \A x \in Range(down'[c]) \cup Range(Page(c)') : x \in Range(down[c]) \cup Range(Page(c))
      BY <1>5, <1>7, <1>9, Zenon
    <2> QED BY <1>2, <2>1, Zenon DEF ChatInv, Numbers
  <1>14. Orders'
    <2>1. Below(Range(Page(u)), {m}) BY <1>9, Zenon DEF ChatInv, Follows, Below
    <2>2. InOrder(Page(u)') /\ InOrder(down'[u]) BY <1>4, <1>5, <1>7, <1>10, <2>1, Zenon
    <2> QED BY <1>2, <1>5, <2>2, Zenon DEF ChatInv, Orders
  <1>15. Follows'
    <2>1. \A c \in User : Range(Page(c)') \cup Range(down'[c]) \subseteq Range(Page(c)) \cup Range(down[c])
      BY <1>5, <1>7, <1>9, Zenon
    <2>2. Below(Range(Page(u)'), Range(down'[u]))
      <3>1. Below(Range(Page(u)), Range(down[u])) BY Zenon DEF ChatInv, Follows
      <3>2. Below({m}, Range(down'[u])) BY <1>4, <1>5, <1>10
      <3> QED BY <1>7, <1>9, <3>1, <3>2, Zenon DEF Below
    <2>3. \A c \in User : Below(Range(Page(c)'), Range(down'[c])) BY <1>5, <2>2, Zenon DEF ChatInv, Follows
    <2>4. \A c \in User : \A v \in User \ {c} : Below(Range(Page(c)') \cup Range(down'[c]), Range(up[v]))
      BY <2>1, Zenon DEF ChatInv, Follows, Below
    <2> QED BY <1>2, <2>3, <2>4, Zenon DEF Follows
  <1>16. Own' BY <1>2, Zenon DEF ChatInv, Own
  <1>17. Lost'
    <2>1. m.from # u BY <1>9, Zenon DEF ChatInv, Senders
    <2>2. Matches(Page(u), arrived[u], u) => Matches(Page(u)', arrived'[u], u)
      BY <1>3, <1>4, <1>5, <1>6, <2>1, MatchesOther
    <2> QED BY <1>2, <1>5, <2>2, Zenon DEF ChatInv, Lost
  <1> QED BY <1>11, <1>12, <1>13, <1>14, <1>15, <1>16, <1>17, Zenon DEF ChatInv

LEMMA RelayStep ==
  ASSUME ChatInv, NEW u \in User, incoming(u)
  PROVE  ChatInv'
PROOF
  <1> DEFINE m == Head(up[u])
             To(c) == c # u /\ sock[c] = "OPEN"
  <1>1. Types BY DEF ChatInv
  <1>2. /\ up[u] # << >> /\ down' = [c \in User |-> IF To(c) THEN Append(down[c], m) ELSE down[c]]
        /\ up' = [up EXCEPT ![u] = Tail(up[u])] /\ UNCHANGED <<sock, shown, pending, sent, arrived, raced>>
    BY Zenon DEF incoming
  <1>3. up[u] \in Seq(Message) /\ \A c \in User : down[c] \in Seq(Message) /\ Page(c)' = Page(c)
    BY <1>1, <1>2, Zenon DEF Types, Page
  <1>4. /\ Tail(up[u]) \in Seq(Message) /\ m \in Message /\ Range(up[u]) = {m} \cup Range(Tail(up[u]))
        /\ InOrder(up[u]) => InOrder(Tail(up[u])) /\ Below({m}, Range(Tail(up[u])))
    BY <1>2, <1>3, Taken, Zenon
  <1> HIDE DEF m
  <1>5. /\ \A c \in User : c # u => up'[c] = up[c]
        /\ up'[u] = Tail(up[u])
        /\ \A c \in User : (To(c) /\ down'[c] = Append(down[c], m)) \/ down'[c] = down[c]
    BY <1>1, <1>2 DEF Types
  <1>6. m \in Range(up[u]) /\ m.from = u /\ \A c \in User : Range(up'[c]) \subseteq Range(up[c])
    <2>1. m \in Range(up[u]) /\ \A c \in User : Range(up'[c]) \subseteq Range(up[c]) BY <1>4, <1>5
    <2> QED BY <2>1, Zenon DEF ChatInv, Senders
  <1>7. \A c \in User : c # u => Below(Range(Page(c)) \cup Range(down[c]), {m})
    <2>1. \A c \in User : c # u => Below(Range(Page(c)) \cup Range(down[c]), Range(up[u]))
      BY Zenon DEF ChatInv, Follows
    <2> QED BY <1>6, <2>1, Zenon DEF Below
  <1>8. ASSUME NEW c \in User
        PROVE  /\ down'[c] \in Seq(Message) /\ InOrder(down'[c])
               /\ \A x \in Range(down'[c]) : x \in Range(down[c]) \/ (x = m /\ c # u)
    <2>1. InOrder(down[c]) BY Zenon DEF ChatInv, Orders
    <2>2. CASE To(c) /\ down'[c] = Append(down[c], m)
      <3>1. Below(Range(down[c]), {m}) BY <1>7, <2>2, Zenon DEF Below
      <3>2. /\ Append(down[c], m) \in Seq(Message) /\ Range(Append(down[c], m)) = Range(down[c]) \cup {m}
            /\ InOrder(Append(down[c], m))
        BY <1>3, <1>4, <2>1, <3>1, Appended
      <3> QED BY <2>2, <3>2, Zenon
    <2>3. CASE down'[c] = down[c] BY <1>3, <2>1, <2>3, Zenon
    <2> QED BY <1>5, <2>2, <2>3, Zenon
  <1> HIDE DEF To
  <1>9. Types'
    <2>1. down' \in [User -> Seq(Message)] BY <1>2, <1>8, Zenon
    <2>2. up' \in [User -> Seq(Message)] BY <1>1, <1>2, <1>4, Zenon DEF Types
    <2> QED BY <1>1, <1>2, <2>1, <2>2, Zenon DEF Types
  <1>10. Senders' BY <1>2, <1>6, <1>8, Zenon DEF ChatInv, Senders
  <1>11. Numbers'
    <2>1. m.n <= sent[m.from] BY <1>6, Zenon DEF ChatInv, Numbers
    <2> QED BY <1>2, <1>3, <1>6, <1>8, <2>1, Zenon DEF ChatInv, Numbers
  <1>12. Orders'
    <2>1. InOrder(up[u]) BY Zenon DEF ChatInv, Orders
    <2> QED BY <1>3, <1>4, <1>5, <1>8, <2>1, Zenon DEF ChatInv, Orders
  <1>13. Follows'
    <2>1. Below({m}, Range(up'[u]))
      <3>1. InOrder(up[u]) BY Zenon DEF ChatInv, Orders
      <3> QED BY <1>4, <1>5, <3>1, Zenon
    <2>2. ASSUME NEW c \in User PROVE Below(Range(Page(c)), Range(down'[c]))
      BY <1>7, <1>8, Zenon DEF ChatInv, Follows, Below
    <2>3. ASSUME NEW c \in User, NEW v \in User \ {c}, NEW x \in Range(Page(c)) \cup Range(down'[c]),
                 NEW y \in Range(up'[v]), x.from = y.from
          PROVE  x.n < y.n
      <3>1. y \in Range(up[v]) /\ y.from = v BY <1>6, Zenon DEF ChatInv, Senders
      <3>2. CASE x \in Range(Page(c)) \cup Range(down[c]) BY <2>3, <3>1, <3>2, Zenon DEF ChatInv, Follows, Below
      <3>3. CASE x = m
        <4>1. v = u BY <1>6, <2>3, <3>1, <3>3, Zenon
        <4> QED BY <2>1, <2>3, <3>3, <4>1, Zenon DEF Below
      <3> QED BY <1>8, <3>2, <3>3, Zenon
    <2> QED BY <1>3, <2>2, <2>3, Zenon DEF Follows, Below
  <1>14. Own' BY <1>2, Zenon DEF ChatInv, Own
  <1>15. Lost' BY <1>2, <1>3, Zenon DEF ChatInv, Lost
  <1> QED BY <1>9, <1>10, <1>11, <1>12, <1>13, <1>14, <1>15, Zenon DEF ChatInv

LEMMA SendStep ==
  ASSUME ChatInv, NEW u \in User, sendMessage(u)
  PROVE  ChatInv'
PROOF
  <1> DEFINE m == [from |-> u, n |-> sent[u] + 1]
  <1>1. Types BY DEF ChatInv
  <1>2. /\ sent[u] < MaxSent /\ up' \in {up, [up EXCEPT ![u] = Append(up[u], m)]}
        /\ shown' = [shown EXCEPT ![u] = Append(shown[u], m)] /\ pending' = [pending EXCEPT ![u] = << >>]
        /\ raced' = (IF pending[u] # << >> THEN raced \cup {u} ELSE raced) /\ sent' = [sent EXCEPT ![u] = sent[u] + 1]
        /\ UNCHANGED <<sock, down, arrived>>
    <2>1. up' = up \/ up' = [up EXCEPT ![u] = Append(up[u], m)] BY Zenon DEF sendMessage
    <2> QED BY <2>1, Zenon DEF sendMessage
  <1>3. /\ shown[u] \in Seq(Message) /\ pending[u] \in Seq(Message) /\ up[u] \in Seq(Message)
        /\ arrived[u] \in Seq(Message) /\ Page(u) \in Seq(Message)
        /\ Range(Page(u)) = Range(shown[u]) \cup Range(pending[u])
    BY <1>1, PageType
  <1>4. /\ m \in Message /\ sent[u] + 1 \in 0 .. MaxSent /\ m.from = u /\ m.n = sent[u] + 1 /\ sent[u] \in Nat
    <2>1. sent[u] \in 0 .. MaxSent BY <1>1, Zenon DEF Types
    <2>2. sent[u] + 1 \in 1 .. MaxSent /\ sent[u] + 1 \in 0 .. MaxSent /\ sent[u] \in Nat BY <1>2, <2>1, ChatAssumption
    <2> QED BY <2>2 DEF Message
  <1>5. /\ sent'[u] = sent[u] + 1 /\ \A c \in User : c # u => sent'[c] = sent[c]
        /\ shown'[u] = Append(shown[u], m) /\ pending'[u] = << >>
        /\ \A c \in User : c # u => Page(c)' = Page(c) /\ pending'[c] = pending[c] /\ shown'[c] = shown[c] /\ up'[c] = up[c]
        /\ up'[u] = up[u] \/ up'[u] = Append(up[u], m)
    <2>1. \A c \in User : c # u => pending'[c] = pending[c] /\ shown'[c] = shown[c] /\ sent'[c] = sent[c]
      BY <1>1, <1>2, Zenon DEF Types
    <2>2. sent'[u] = sent[u] + 1 /\ shown'[u] = Append(shown[u], m) /\ pending'[u] = << >>
      BY <1>1, <1>2, Zenon DEF Types
    <2>3. (up'[u] = up[u] \/ up'[u] = Append(up[u], m)) /\ \A c \in User : c # u => up'[c] = up[c]
      BY <1>1, <1>2 DEF Types
    <2> QED BY <2>1, <2>2, <2>3, Zenon DEF Page
  <1> HIDE DEF m
  <1>6. Page(u)' = Append(shown[u], m)
    <2>1. Append(shown[u], m) \o << >> = Append(shown[u], m) BY <1>3, <1>4
    <2> QED BY <1>5, <2>1, Zenon DEF Page
  <1>7. /\ Append(shown[u], m) \in Seq(Message) /\ Range(Append(shown[u], m)) = Range(shown[u]) \cup {m}
        /\ InOrder(shown[u]) /\ Below(Range(shown[u]), {m}) => InOrder(Append(shown[u], m))
    BY <1>3, <1>4, Appended, Zenon
  <1>8. /\ Append(up[u], m) \in Seq(Message) /\ Range(Append(up[u], m)) = Range(up[u]) \cup {m}
        /\ InOrder(up[u]) /\ Below(Range(up[u]), {m}) => InOrder(Append(up[u], m))
    BY <1>3, <1>4, Appended, Zenon
  <1>9. /\ \A x \in Range(Page(u)') : x \in Range(Page(u)) \/ x = m
        /\ \A x \in Range(up'[u]) : x \in Range(up[u]) \/ x = m
    BY <1>3, <1>5, <1>6, <1>7, <1>8, Zenon
  <1>10. \A x \in Message : x.n <= sent[x.from] /\ x.from = m.from => x.n < m.n
    BY <1>4 DEF Message
  <1>11. ASSUME NEW c \in User
         PROVE  /\ up[c] \in Seq(Message) /\ down[c] \in Seq(Message)
                /\ Range(up[c]) \cup Range(down[c]) \cup Range(Page(c)) \subseteq Message
                /\ Below(Range(up[c]) \cup Range(down[c]) \cup Range(Page(c)), {m})
    <2>1. up[c] \in Seq(Message) /\ down[c] \in Seq(Message) /\ Page(c) \in Seq(Message) BY <1>1, PageType, Zenon
    <2>2. Range(up[c]) \subseteq Message /\ Range(down[c]) \subseteq Message /\ Range(Page(c)) \subseteq Message
      BY <2>1 DEF Range
    <2>3. \A x \in Range(up[c]) \cup Range(down[c]) \cup Range(Page(c)) : x.n <= sent[x.from] BY Zenon DEF ChatInv, Numbers
    <2> QED BY <1>10, <2>1, <2>2, <2>3, Zenon DEF Below
  <1>12. Types'
    <2>1. up' \in [User -> Seq(Message)]
      <3>1. up \in [User -> Seq(Message)] BY <1>1, Zenon DEF Types
      <3>2. CASE up' = up BY <3>1, <3>2
      <3>3. CASE up' = [up EXCEPT ![u] = Append(up[u], m)] BY <1>8, <3>1, <3>3, Zenon
      <3> QED BY <1>2, <3>2, <3>3, Zenon DEF m
    <2>2. shown' \in [User -> Seq(Message)] BY <1>1, <1>2, <1>7, Zenon DEF Types, m
    <2>3. << >> \in Seq(Message) OBVIOUS
    <2>4. raced' \subseteq User BY <1>1, <1>2 DEF Types
    <2> QED BY <1>1, <1>2, <1>4, <2>1, <2>2, <2>3, <2>4, Zenon DEF Types
  <1>13. Senders'
    <2>1. Range(<< >>) = {} BY DEF Range
    <2>2. Senders BY Zenon DEF ChatInv
    <2>3. ASSUME NEW c \in User PROVE \A x \in Range(up'[c]) : x.from = c
      <3>1. \A x \in Range(up[c]) : x.from = c BY <2>2, Zenon DEF Senders
      <3>2. CASE c = u BY <1>4, <1>9, <3>1, <3>2, Zenon
      <3>3. CASE c # u BY <1>5, <3>1, <3>3, Zenon
      <3> QED BY <3>2, <3>3, Zenon
    <2>4. ASSUME NEW c \in User PROVE \A x \in Range(down'[c]) \cup Range(pending'[c]) : x.from # c
      <3>1. \A x \in Range(down[c]) \cup Range(pending[c]) : x.from # c BY <2>2, Zenon DEF Senders
      <3>2. down'[c] = down[c] BY <1>2, Zenon
      <3>3. CASE c = u BY <1>5, <2>1, <3>1, <3>2, <3>3, Zenon
      <3>4. CASE c # u BY <1>5, <3>1, <3>2, <3>4, Zenon
      <3> QED BY <3>3, <3>4, Zenon
    <2> QED BY <2>3, <2>4, Zenon DEF Senders
  <1>14. Numbers'
    <2>1. \A c \in User : sent[c] <= sent'[c]
      <3>1. sent[u] <= sent'[u] BY <1>4, <1>5
      <3>2. \A c \in User : sent[c] <= sent[c] BY <1>1 DEF Types
      <3> QED BY <1>5, <3>1, <3>2, Zenon
    <2>2. \A x \in Message : x.n <= sent[x.from] => x.n <= sent'[x.from]
      <3>1. \A c \in User : sent[c] \in Int /\ sent'[c] \in Int BY <1>1, <1>12 DEF Types
      <3> QED BY <2>1, <3>1 DEF Message
    <2>3. m.n <= sent'[m.from] BY <1>4, <1>5
    <2>4. ASSUME NEW c \in User, NEW x \in Range(up'[c]) \cup Range(down[c]) \cup Range(Page(c)') PROVE x.n <= sent'[x.from]
      <3>1. x \in Range(up[c]) \cup Range(down[c]) \cup Range(Page(c)) \/ x = m BY <1>5, <1>9, <2>4, Zenon
      <3>2. CASE x \in Range(up[c]) \cup Range(down[c]) \cup Range(Page(c))
        <4>1. x \in Message BY <1>11, <3>2, Zenon
        <4> QED BY <2>2, <3>2, <4>1, Zenon DEF ChatInv, Numbers
      <3> QED BY <2>3, <3>1, <3>2, Zenon
    <2> QED BY <1>2, <2>4, Zenon DEF Numbers
  <1>15. Orders'
    <2>1. InOrder(up[u]) /\ InOrder(Page(u)) BY Zenon DEF ChatInv, Orders
    <2>2. InOrder(shown[u]) BY <1>3, <2>1, Joined, Zenon DEF Page
    <2>3. Below(Range(shown[u]), {m}) /\ Below(Range(up[u]), {m}) BY <1>3, <1>11, Zenon DEF Below
    <2>4. InOrder(Page(u)') /\ InOrder(up'[u]) BY <1>5, <1>6, <1>7, <1>8, <2>1, <2>2, <2>3, Zenon
    <2> QED BY <1>2, <1>5, <2>4, Zenon DEF ChatInv, Orders
  <1>16. Follows'
    <2>1. ASSUME NEW c \in User, NEW x \in Range(Page(c)'), NEW y \in Range(down[c]), x.from = y.from PROVE x.n < y.n
      <3>1. CASE x \in Range(Page(c)) BY <2>1, <3>1, Zenon DEF ChatInv, Follows, Below
      <3>2. CASE c = u /\ x = m
        <4>1. y.from # u BY <2>1, <3>2, Zenon DEF ChatInv, Senders
        <4> QED BY <1>4, <2>1, <3>2, <4>1, Zenon
      <3> QED BY <1>5, <1>9, <3>1, <3>2, Zenon
    <2>2. ASSUME NEW c \in User, NEW v \in User \ {c}, NEW x \in Range(Page(c)') \cup Range(down[c]),
                 NEW y \in Range(up'[v]), x.from = y.from
          PROVE  x.n < y.n
      <3>1. CASE x \in Range(Page(c)) \cup Range(down[c]) /\ y \in Range(up[v])
        BY <2>2, <3>1, Zenon DEF ChatInv, Follows, Below
      <3>2. CASE x \in Range(Page(c)) \cup Range(down[c]) /\ y = m
        BY <1>11, <2>2, <3>2, Zenon DEF Below
      <3>3. CASE c = u /\ x = m /\ y \in Range(up[v])
        <4>1. y.from = v BY <3>3, Zenon DEF ChatInv, Senders
        <4> QED BY <1>4, <2>2, <3>3, <4>1, Zenon
      <3>4. y \in Range(up[v]) \/ (v = u /\ y = m) BY <1>5, <1>9, <2>2, Zenon
      <3>5. x \in Range(Page(c)) \cup Range(down[c]) \/ (c = u /\ x = m) BY <1>5, <1>9, <2>2, Zenon
      <3> QED BY <2>2, <3>1, <3>2, <3>3, <3>4, <3>5, Zenon
    <2> QED BY <1>2, <2>1, <2>2, Zenon DEF Follows, Below
  <1>17. Own'
    <2>1. ASSUME NEW n \in 1 .. sent'[u] PROVE [from |-> u, n |-> n] \in Range(shown'[u])
      <3>1. n \in 1 .. sent[u] \/ n = sent[u] + 1 BY <1>4, <1>5, <2>1
      <3>2. n = sent[u] + 1 => [from |-> u, n |-> n] = m BY DEF m
      <3>3. n \in 1 .. sent[u] => [from |-> u, n |-> n] \in Range(shown[u]) BY Zenon DEF ChatInv, Own
      <3> QED BY <1>5, <1>7, <3>1, <3>2, <3>3, Zenon
    <2> QED BY <1>5, <2>1, Zenon DEF ChatInv, Own
  <1>18. Lost'
    <2>1. ASSUME u \notin raced' PROVE Matches(Page(u)', arrived[u], u)
      <3>1. pending[u] = << >> /\ u \notin raced BY <1>2, <2>1
      <3>2. Page(u) = shown[u] BY <1>3, <3>1 DEF Page
      <3>3. Matches(Page(u), arrived[u], u) BY <3>1, Zenon DEF ChatInv, Lost
      <3> QED BY <1>3, <1>4, <1>6, <3>2, <3>3, MatchesOwn, Zenon
    <2>2. \A c \in User : c # u /\ c \notin raced' => c \notin raced BY <1>2
    <2> QED BY <1>2, <1>5, <2>1, <2>2, Zenon DEF ChatInv, Lost
  <1> QED BY <1>12, <1>13, <1>14, <1>15, <1>16, <1>17, <1>18, Zenon DEF ChatInv

LEMMA ChatStep == ChatInv /\ [ChatNext]_chatvars => ChatInv'
PROOF
  <1> SUFFICES ASSUME ChatInv, [ChatNext]_chatvars PROVE ChatInv' OBVIOUS
  <1>1. CASE UNCHANGED chatvars
    <2>1. Types' BY <1>1, Zenon DEF ChatInv, Types, chatvars
    <2> QED BY <1>1, <2>1, LessUnderWay, Zenon DEF chatvars
  <1>2. ASSUME NEW u \in User, Deliver(u) \/ onopen(u) \/ sendMessage(u) \/ onclose(u) PROVE ChatInv'
    BY <1>2, ArriveStep, RenderStep, RelayStep, SocketStep, SendStep, Zenon DEF Deliver
  <1> QED BY <1>1, <1>2, Zenon DEF ChatNext

\* A page shows its own messages, all and once, those of each other user in order, and
\* everything that arrived unless Send was clicked over it, whoever is in the room.
THEOREM AlwaysPageSound == ChatSpec => []PageSound
PROOF
  <1>1. ChatInv => PageSound
    <2> SUFFICES ASSUME ChatInv PROVE PageSound OBVIOUS
    <2>1. Types BY DEF ChatInv
    <2>2. ChatTypeOK BY <2>1, Zenon DEF Types, ChatTypeOK
    <2>3. OwnShown
      <3>1. \A u \in User : Range(Page(u)) = Range(shown[u]) \cup Range(pending[u]) BY <2>1, PageType
      <3>2. \A u \in User : \A n \in 1 .. sent[u] : [from |-> u, n |-> n] \in Range(Page(u))
        BY <3>1, Zenon DEF ChatInv, Own
      <3>3. \A u \in User : \A m \in Range(Page(u)) : m.from = u => m.n <= sent[u] BY Zenon DEF ChatInv, Numbers
      <3> QED BY <3>2, <3>3, Zenon DEF OwnShown
    <2>4. ShownInOrder BY Zenon DEF ChatInv, Orders, ShownInOrder
    <2>5. LostOnlyByRace BY Zenon DEF ChatInv, Lost, Matches, Others, LostOnlyByRace
    <2> QED BY <2>2, <2>3, <2>4, <2>5, Zenon DEF PageSound
  <1> QED BY StartChat, ChatStep, <1>1, PTL DEF ChatSpec
=============================================================================
