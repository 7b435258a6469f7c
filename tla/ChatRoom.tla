------------------------------ MODULE ChatRoom ------------------------------
(***************************************************************************)
(* The chat page (ChatRoom.tsx) and the server that relays its messages    *)
(* (webrtc-signaling-server/server.js) over WebSockets.                    *)
(*                                                                         *)
(* A page keeps its list in React state.  setMessages only queues an       *)
(* update: the list a handler sees is the one last rendered.  A message    *)
(* that arrives queues a function of the newest list; the click on Send    *)
(* queues a list computed from the rendered one.  A click is rendered      *)
(* before the next event, an arriving message at some later time (React    *)
(* 18's batching); when a list is queued behind updates that are not       *)
(* rendered yet, it replaces what they made.  The text itself is not       *)
(* looked at by anyone: a message is its sender and a number.              *)
(***************************************************************************)
EXTENDS Integers, Sequences, FiniteSets, Functions

CONSTANTS
    User,
    MaxSent,        \* bound: messages each user sends
    MaxDrops        \* bound: connections that break

ASSUME ChatAssumption == MaxSent \in Nat

VARIABLES
    sock,           \* readyState of each page's WebSocket
    up, down,       \* messages between page and server, in order
    shown,          \* messages as last rendered
    pending,        \* updates queued by arriving messages
    sent,           \* history: how many messages each user has sent
    arrived,        \* history: messages whose handler ran, per page
    raced,          \* history: pages on which Send was clicked over pending updates
    drops

chatvars == <<sock, up, down, shown, pending, sent, arrived, raced, drops>>

ChatInit ==
    /\ sock = [u \in User |-> "CONNECTING"]
    /\ up = [u \in User |-> <<>>] /\ down = [u \in User |-> <<>>]
    /\ shown = [u \in User |-> <<>>] /\ pending = [u \in User |-> <<>>]
    /\ sent = [u \in User |-> 0] /\ arrived = [u \in User |-> <<>>]
    /\ raced = {} /\ drops = 0

\* useEffect has opened the socket; the server adds it to wss.clients.
onopen(u) ==
    /\ sock[u] = "CONNECTING"
    /\ sock' = [sock EXCEPT ![u] = "OPEN"]
    /\ UNCHANGED <<up, down, shown, pending, sent, arrived, raced, drops>>

\* The click: send throws while the socket is connecting, and is ignored by a
\* closed one; otherwise the list becomes the rendered one with the message.
sendMessage(u) ==
    /\ sent[u] < MaxSent /\ sock[u] # "CONNECTING"
    /\ LET m == [from |-> u, n |-> sent[u] + 1] IN
         /\ up' = IF sock[u] = "OPEN" THEN [up EXCEPT ![u] = Append(@, m)] ELSE up
         /\ shown' = [shown EXCEPT ![u] = Append(@, m)]
    /\ pending' = [pending EXCEPT ![u] = <<>>]
    /\ raced' = IF pending[u] # <<>> THEN raced \cup {u} ELSE raced
    /\ sent' = [sent EXCEPT ![u] = @ + 1]
    /\ UNCHANGED <<sock, down, arrived, drops>>

\* As receiveMessage does it: the list of the last rendering with the message.
onmessageStale(u) ==
    /\ sock[u] = "OPEN" /\ down[u] # <<>>
    /\ pending' = [pending EXCEPT ![u] = <<Head(down[u])>>]
    /\ arrived' = [arrived EXCEPT ![u] = Append(@, Head(down[u]))]
    /\ down' = [down EXCEPT ![u] = Tail(@)]
    /\ UNCHANGED <<sock, up, shown, sent, raced, drops>>

\* ws.onmessage: setMessages(prev => [...prev, message]).
onmessage(u) ==
    /\ sock[u] = "OPEN" /\ down[u] # <<>>
    /\ pending' = [pending EXCEPT ![u] = Append(@, Head(down[u]))]
    /\ arrived' = [arrived EXCEPT ![u] = Append(@, Head(down[u]))]
    /\ down' = [down EXCEPT ![u] = Tail(@)]
    /\ UNCHANGED <<sock, up, shown, sent, raced, drops>>

render(u) ==
    /\ pending[u] # <<>>
    /\ shown' = [shown EXCEPT ![u] = @ \o pending[u]]
    /\ pending' = [pending EXCEPT ![u] = <<>>]
    /\ UNCHANGED <<sock, up, down, sent, arrived, raced, drops>>

\* Only to the sender.
incomingBack(u) ==
    /\ sock[u] = "OPEN" /\ up[u] # <<>>
    /\ down' = [c \in User |-> IF c = u
                               THEN Append(down[c], Head(up[u])) ELSE down[c]]
    /\ up' = [up EXCEPT ![u] = Tail(@)]
    /\ UNCHANGED <<sock, shown, pending, sent, arrived, raced, drops>>

\* The server: to every client but the sender that is open.
incoming(u) ==
    /\ sock[u] = "OPEN" /\ up[u] # <<>>
    /\ down' = [c \in User |-> IF c # u /\ sock[c] = "OPEN"
                               THEN Append(down[c], Head(up[u])) ELSE down[c]]
    /\ up' = [up EXCEPT ![u] = Tail(@)]
    /\ UNCHANGED <<sock, shown, pending, sent, arrived, raced, drops>>

\* The connection breaks: what is under way is lost, the page does not reconnect.
onclose(u) ==
    /\ sock[u] = "OPEN" /\ drops < MaxDrops
    /\ sock' = [sock EXCEPT ![u] = "CLOSED"] /\ drops' = drops + 1
    /\ up' = [up EXCEPT ![u] = <<>>] /\ down' = [down EXCEPT ![u] = <<>>]
    /\ UNCHANGED <<shown, pending, sent, arrived, raced>>

Deliver(u) == onmessage(u) \/ render(u) \/ incoming(u)
ChatNext == \E u \in User : Deliver(u) \/ onopen(u) \/ sendMessage(u) \/ onclose(u)
ChatSpec == ChatInit /\ [][ChatNext]_chatvars
-----------------------------------------------------------------------------
(* Properties.                                                             *)

Message == [from : User, n : 1..MaxSent]

ChatTypeOK ==
    /\ sock \in [User -> {"CONNECTING", "OPEN", "CLOSED"}]
    /\ \A u \in User : {up[u], down[u], shown[u], pending[u], arrived[u]} \subseteq Seq(Message)
    /\ sent \in [User -> 0..MaxSent] /\ raced \subseteq User

\* What the page shows when the updates queued so far are rendered.
Page(u) == shown[u] \o pending[u]

\* A page shows its own messages, all and no others: the list a click starts from holds
\* every earlier click, and nothing comes back.
OwnShown ==
    \A u \in User :
      /\ \A n \in 1..sent[u] : [from |-> u, n |-> n] \in Range(Page(u))
      /\ \A m \in Range(Page(u)) : m.from = u => m.n <= sent[u]

\* The messages of one sender, the user of the page among them, are in the order they were
\* sent, and none is doubled.
InOrder(s) == \A i, j \in DOMAIN s : i < j /\ s[i].from = s[j].from => s[i].n < s[j].n
ShownInOrder == \A u \in User : InOrder(Page(u))

\* A message that arrived is lost only when Send was clicked before it was rendered: the
\* list the click queued was computed without it.  On any other page the messages of the
\* others are those that arrived, in that order.
LostOnlyByRace ==
    \A u \in User \ raced :
      LET others == {i \in DOMAIN Page(u) : Page(u)[i].from # u}
      IN  /\ Len(arrived[u]) = Cardinality(others)
          /\ \A i \in others : Page(u)[i] = arrived[u][Cardinality(others \cap 1..i)]

\* What a page shows of its own messages and of the others', through every order of
\* clicks, arrivals and renderings.
PageSound == ChatTypeOK /\ OwnShown /\ ShownInOrder /\ LostOnlyByRace

\* A message sent between two open pages is shown, unless a connection breaks or
\* its reader races with it.  Messages stay in order, so the last one stands for all.
Final(v) == [from |-> v, n |-> MaxSent]
SentIsShown ==
    \A u \in User : \A v \in User \ {u} :
      (sock[u] = "OPEN" /\ Final(v) \in Range(up[v]))
        ~> (Final(v) \in Range(shown[u]) \/ u \in raced \/ "CLOSED" \in {sock[u], sock[v]})
=============================================================================
