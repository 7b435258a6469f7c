------------------------------- MODULE Lists -------------------------------
(***************************************************************************)
(* What adlist.h promises: two lists, each a sequence of nodes, and the    *)
(* operations on them.  A node is in one list at most.                     *)
(***************************************************************************)
EXTENDS Integers, SequencesExt

CONSTANTS Nodes, Names    \* the nodes there can be, the two lists

VARIABLE seqs    \* seqs[l]: the nodes of list l, head first

Put(l, s) == seqs' = [seqs EXCEPT ![l] = s]

AddHead(l, n) == Put(l, <<n>> \o seqs[l])
AddTail(l, n) == Put(l, Append(seqs[l], n))
Insert(l, i, n) == Put(l, InsertAt(seqs[l], i, n))
Delete(l, n) == Put(l, Remove(seqs[l], n))
Empty(l) == Put(l, << >>)
RotateTailToHead(l) == seqs[l] # << >> /\ Put(l, <<Last(seqs[l])>> \o Front(seqs[l]))
RotateHeadToTail(l) == seqs[l] # << >> /\ Put(l, Append(Tail(seqs[l]), Head(seqs[l])))
Join(l, o) == l # o /\ seqs' = [seqs EXCEPT ![l] = @ \o seqs[o], ![o] = << >>]

ListsInit == seqs = [l \in Names |-> << >>]

ListsNext ==
  LET used == UNION {ToSet(seqs[l]) : l \in Names}
  IN  \E l \in Names :
        \/ \E n \in Nodes \ used :
             \/ AddHead(l, n) \/ AddTail(l, n)
             \/ \E i \in 1 .. Len(seqs[l]) + 1 : Insert(l, i, n)
        \/ \E n \in ToSet(seqs[l]) : Delete(l, n)
        \/ Empty(l) \/ RotateTailToHead(l) \/ RotateHeadToTail(l)
        \/ \E o \in Names : Join(l, o)

ListsSpec == ListsInit /\ [][ListsNext]_seqs
=============================================================================
