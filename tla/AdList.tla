------------------------------- MODULE AdList -------------------------------
(***************************************************************************)
(* The doubly linked lists every queue of the server is made of (adlist.c):*)
(* nodes with their two links, the head, tail and length of each list, and *)
(* an iterator in use while the list changes.                              *)
(***************************************************************************)
EXTENDS Integers, SequencesExt

CONSTANTS
  ListNodes,   \* bound: the nodes the allocator hands out
  ListNames    \* the two lists, l and o of listJoin

NULL == 0

ASSUME AdListAssumption == NULL \notin ListNodes

VARIABLES
  heap,    \* prev and next of the nodes in use; head, tail and len of the lists
  iter     \* an iterator over some list, and history: what it returned and is still
           \* there, what was added since

advars == <<heap, iter>>

NoIter == [list |-> "none", next |-> NULL, forward |-> TRUE, current |-> NULL, returned |-> << >>, added |-> {}]
InUse(h) == DOMAIN h.prev

\* The nodes from n on, along one of the two links: no more than there are.
RECURSIVE Along(_, _, _)
Along(link, n, most) == IF n = NULL \/ most = 0 THEN << >> ELSE <<n>> \o Along(link, link[n], most - 1)
Forward(h, l) == Along(h.next, h.head[l], Cardinality(InUse(h)) + 1)
Backward(h, l) == Along(h.prev, h.tail[l], Cardinality(InUse(h)) + 1)

\* The type invariant.
AdTypeOK ==
  /\ InUse(heap) \subseteq ListNodes /\ DOMAIN heap.next = InUse(heap)
  /\ \A n \in InUse(heap) : {heap.prev[n], heap.next[n]} \subseteq InUse(heap) \cup {NULL}
  /\ \A l \in ListNames : {heap.head[l], heap.tail[l]} \subseteq InUse(heap) \cup {NULL} /\ heap.len[l] \in Nat
  /\ iter.list \in ListNames \cup {"none"}

AdInit ==
  /\ heap = [prev |-> << >>, next |-> << >>, head |-> [l \in ListNames |-> NULL],
             tail |-> [l \in ListNames |-> NULL], len |-> [l \in ListNames |-> 0]]
  /\ iter = NoIter

-----------------------------------------------------------------------------
(* adlist.c                                                                *)

\* A node just allocated, with its links; and one freed.
With(h, n, prev, next) ==
  [h EXCEPT !.prev = [m \in DOMAIN @ \cup {n} |-> IF m = n THEN prev ELSE @[m]],
            !.next = [m \in DOMAIN @ \cup {n} |-> IF m = n THEN next ELSE @[m]]]
Without(h, S) ==
  [h EXCEPT !.prev = [m \in DOMAIN @ \ S |-> @[m]], !.next = [m \in DOMAIN @ \ S |-> @[m]]]

listLinkNodeHead(h, l, n) ==
  IF h.len[l] = 0
  THEN [With(h, n, NULL, NULL) EXCEPT !.head[l] = n, !.tail[l] = n, !.len[l] = @ + 1]
  ELSE [With(h, n, NULL, h.head[l]) EXCEPT !.prev[h.head[l]] = n, !.head[l] = n, !.len[l] = @ + 1]

listAddNodeTail(h, l, n) ==
  IF h.len[l] = 0
  THEN [With(h, n, NULL, NULL) EXCEPT !.head[l] = n, !.tail[l] = n, !.len[l] = @ + 1]
  ELSE [With(h, n, h.tail[l], NULL) EXCEPT !.next[h.tail[l]] = n, !.tail[l] = n, !.len[l] = @ + 1]

\* The neighbours of a node told about it.
Tell(h, n) ==
  LET a == IF h.prev[n] = NULL THEN h ELSE [h EXCEPT !.next[h.prev[n]] = n]
  IN  IF h.next[n] = NULL THEN a ELSE [a EXCEPT !.prev[h.next[n]] = n]

listInsertNode_keeps_tail(h, l, old, n, after) ==
  LET linked == IF after THEN With(h, n, old, h.next[old])
                ELSE [With(h, n, h.prev[old], old) EXCEPT !.head[l] = IF @ = old THEN n ELSE @]
  IN  [Tell(linked, n) EXCEPT !.len[l] = @ + 1]

listInsertNode(h, l, old, n, after) ==
  LET linked == IF after
                THEN [With(h, n, old, h.next[old]) EXCEPT !.tail[l] = IF @ = old THEN n ELSE @]
                ELSE [With(h, n, h.prev[old], old) EXCEPT !.head[l] = IF @ = old THEN n ELSE @]
  IN  [Tell(linked, n) EXCEPT !.len[l] = @ + 1]

listUnlinkNode(h, l, n) ==
  LET a == IF h.prev[n] # NULL THEN [h EXCEPT !.next[h.prev[n]] = h.next[n]]
           ELSE [h EXCEPT !.head[l] = h.next[n]]
      b == IF h.next[n] # NULL THEN [a EXCEPT !.prev[h.next[n]] = h.prev[n]]
           ELSE [a EXCEPT !.tail[l] = h.prev[n]]
  IN  [b EXCEPT !.len[l] = @ - 1]

listDelNode(h, l, n) == Without(listUnlinkNode(h, l, n), {n})

listEmpty(h, l) ==
  [Without(h, ToSet(SubSeq(Forward(h, l), 1, h.len[l]))) EXCEPT
     !.head[l] = NULL, !.tail[l] = NULL, !.len[l] = 0]

listRotateTailToHead(h, l) ==
  LET tail == h.tail[l]
      cut == [h EXCEPT !.tail[l] = h.prev[tail], !.next[h.prev[tail]] = NULL]
  IN  IF h.len[l] <= 1 THEN h
      ELSE [cut EXCEPT !.prev[h.head[l]] = tail, !.prev[tail] = NULL, !.next[tail] = h.head[l], !.head[l] = tail]

listRotateHeadToTail(h, l) ==
  LET head == h.head[l]
      cut == [h EXCEPT !.head[l] = h.next[head], !.prev[h.next[head]] = NULL]
  IN  IF h.len[l] <= 1 THEN h
      ELSE [cut EXCEPT !.next[h.tail[l]] = head, !.next[head] = NULL, !.prev[head] = h.tail[l], !.tail[l] = head]

listJoin(h, l, o) ==
  LET a == [h EXCEPT !.prev[h.head[o]] = h.tail[l]]
      b == IF h.tail[l] # NULL THEN [a EXCEPT !.next[h.tail[l]] = h.head[o]]
           ELSE [a EXCEPT !.head[l] = h.head[o]]
  IN  IF h.len[o] = 0 THEN h
      ELSE [b EXCEPT !.tail[l] = h.tail[o], !.len[l] = @ + h.len[o],
                     !.head[o] = NULL, !.tail[o] = NULL, !.len[o] = 0]

\* index steps from the head, or from the tail for a negative one.
listIndex(h, l, index) ==
  LET s == IF index < 0 THEN Backward(h, l) ELSE Forward(h, l)
      k == IF index < 0 THEN -index - 1 ELSE index
  IN  IF k < Len(s) THEN s[k + 1] ELSE NULL

-----------------------------------------------------------------------------
(* A user of the lists, one iteration at a time.  While it iterates it     *)
(* deletes no other node of the list than the one listNext just returned,  *)
(* and moves none: the rule the comment of listNext states.                *)

Iterating(l) == iter.list = l
FreeNodes == ListNodes \ InUse(heap)
Changed(l, h, n) ==
  /\ heap' = h
  /\ iter' = IF Iterating(l) THEN [iter EXCEPT !.added = @ \cup {n}] ELSE iter

listAddHead(l) == \E n \in FreeNodes : Changed(l, listLinkNodeHead(heap, l, n), n)
listAddTail(l) == \E n \in FreeNodes : Changed(l, listAddNodeTail(heap, l, n), n)
listInsert(l, after) ==
  \E n \in FreeNodes, old \in ToSet(Forward(heap, l)) : Changed(l, listInsertNode(heap, l, old, n, after), n)

listDel(l, n) ==
  /\ n \in ToSet(Forward(heap, l))
  /\ Iterating(l) => n = iter.current
  /\ heap' = listDelNode(heap, l, n)
  /\ iter' = IF Iterating(l) THEN [iter EXCEPT !.current = NULL, !.added = @ \ {n},
                                                 !.returned = Remove(@, n)] ELSE iter

listClear(l) ==
  /\ ~ Iterating(l)
  /\ heap' = listEmpty(heap, l) /\ UNCHANGED iter

listRotate(l) ==
  /\ ~ Iterating(l)
  /\ heap' \in {listRotateTailToHead(heap, l), listRotateHeadToTail(heap, l)} /\ UNCHANGED iter

listJoinAll(l, o) ==
  /\ l # o /\ ~ Iterating(l) /\ ~ Iterating(o)
  /\ heap' = listJoin(heap, l, o) /\ UNCHANGED iter

\* listRewind, listRewindTail.
listStart(l, forward) ==
  /\ iter = NoIter
  /\ iter' = [NoIter EXCEPT !.list = l, !.forward = forward,
                            !.next = IF forward THEN heap.head[l] ELSE heap.tail[l]]
  /\ UNCHANGED heap

listNext_reads_late ==
  /\ iter.list # "none"
  /\ iter' = LET n == IF iter.current = NULL THEN iter.next ELSE heap.next[iter.current]
             IN  IF n = NULL THEN NoIter
                 ELSE [iter EXCEPT !.current = n, !.returned = Append(@, n), !.next = n]
  /\ UNCHANGED heap

\* The next node is read before the current one is handed out; the end ends the iteration.
listNext ==
  /\ iter.list # "none"
  /\ iter' = LET n == iter.next
             IN  IF n = NULL THEN NoIter
                 ELSE [iter EXCEPT !.current = n, !.returned = Append(@, n),
                                   !.next = IF iter.forward THEN heap.next[n] ELSE heap.prev[n]]
  /\ UNCHANGED heap

AdNext ==
  \/ \E l \in ListNames :
       \/ listAddHead(l) \/ listAddTail(l) \/ listClear(l) \/ listRotate(l)
       \/ \E after \in BOOLEAN : listInsert(l, after) \/ listStart(l, after)
       \/ \E n \in ListNodes : listDel(l, n)
       \/ \E o \in ListNames : listJoinAll(l, o)
  \/ listNext

-----------------------------------------------------------------------------
(* Properties                                                              *)

\* The links in one direction mirror those in the other, len counts them, and every node in
\* use is in exactly one list: none is lost by an unlinking, a rotation or a join.
LinksMirror ==
  /\ \A l \in ListNames :
       /\ Backward(heap, l) = Reverse(Forward(heap, l))
       /\ heap.len[l] = Len(Forward(heap, l))
       /\ \A i \in 1 .. heap.len[l] :
            listIndex(heap, l, i - 1) = Forward(heap, l)[i] /\ listIndex(heap, l, -i) = Backward(heap, l)[i]
  /\ InUse(heap) = UNION {ToSet(Forward(heap, l)) : l \in ListNames}
  /\ \A l, o \in ListNames : l # o => ToSet(Forward(heap, l)) \cap ToSet(Forward(heap, o)) = {}

\* The lists are the sequences adlist.h promises, operation for operation.
AsSequences == INSTANCE Lists
               WITH Nodes <- ListNodes, Names <- ListNames,
                    seqs <- [l \in ListNames |-> Forward(heap, l)]
ImplementsLists == AsSequences!ListsSpec

\* An iteration goes on with a node of the list whatever was deleted or added around it, and
\* what was in the list from the start is returned once, if it is not deleted before its turn.
IterationSafe ==
  iter.list # "none" =>
    LET l == iter.list
        rest == IF iter.next = NULL THEN << >>
                ELSE Along(IF iter.forward THEN heap.next ELSE heap.prev, iter.next, heap.len[l] + 1)
    IN  /\ iter.next \in ToSet(Forward(heap, l)) \cup {NULL}
        /\ IsInjective(iter.returned)
        /\ \A n \in ToSet(Forward(heap, l)) \ iter.added :
             (n \in ToSet(iter.returned)) # (n \in ToSet(rest))

\* The links are right in both directions and an iteration survives what is done around it.
LinksSound == AdTypeOK /\ LinksMirror /\ IterationSafe
=============================================================================
