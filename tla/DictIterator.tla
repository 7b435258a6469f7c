---------------------------- MODULE DictIterator ----------------------------
(***************************************************************************)
(* A safe iterator of dict.c over a dict that its user goes on changing:   *)
(* the first dictNext pauses rehashing, dictReleaseIterator resumes it.    *)
(*                                                                         *)
(* The iterator carries what is left of the chain it is in; that order is  *)
(* any, and an insertion, at the head of a chain, never shows up in it.    *)
(***************************************************************************)
EXTENDS Dict

VARIABLES
  iter,      \* struct dictIterator, see IteratorOK
  advanced,  \* history: some iterator has been advanced, and paused rehashing
  owed,      \* history: keys in the dict since the first dictNext and not returned yet
  seen       \* history: entries dictNext has returned that are still in the dict

ivars == <<iter, advanced, owed, seen>>
allvars == <<dict, ret, iter, advanced, owed, seen>>

\* rest is the chain from iter->nextEntry on.
NoIterator ==
  [state |-> "none", table |-> 0, index |-> -1, entry |-> None, rest |-> {}]

\* The type invariant.
IteratorOK ==
  /\ TypeOK
  /\ iter.state \in {"none", "ready", "iterating", "finished"}
  /\ iter.table \in {0, 1}
  /\ iter.index \in Nat \cup {-1}
  /\ iter.entry \in Key \cup {None}
  /\ iter.rest \subseteq Key
  /\ advanced \in BOOLEAN
  /\ owed \cup seen \subseteq Key

-----------------------------------------------------------------------------
\* The buckets dictNext still has to visit: those after the current one, then
\* those of the second table when there is one.
BucketsAhead_first_table(d, it) == {it.table} \X (it.index + 1 .. d.size[it.table] - 1)

BucketsAhead(d, it) ==
  ({it.table} \X (it.index + 1 .. d.size[it.table] - 1))
  \cup IF it.table = 0 /\ dictIsRehashing(d) THEN {1} \X (0 .. d.size[1] - 1) ELSE {}

Occupied(d, it) == {b \in BucketsAhead(d, it) : d.table[b[1]][b[2]] # {}}

NotAfter(b, c) == b[1] < c[1] \/ (b[1] = c[1] /\ b[2] <= c[2])

\* The first call of dictNext pauses rehashing.
Paused(d, it) == IF it.state = "ready" THEN [d EXCEPT !.pauserehash = @ + 1] ELSE d

GetSafeIterator ==
  /\ iter.state = "none"
  /\ iter' = [NoIterator EXCEPT !.state = "ready"]
  /\ owed' = {} /\ seen' = {}
  /\ UNCHANGED <<dict, ret, advanced>>

\* dictNext returns the entry e, rest being the chain after it.
Return(e, rest, bucket) ==
  /\ iter' = [state |-> "iterating", table |-> bucket[1], index |-> bucket[2],
              entry |-> e, rest |-> rest]
  /\ seen' = seen \cup {e}
  /\ owed' = (IF iter.state = "ready" THEN Keys(dict) ELSE owed) \ {e}
  /\ dict' = Paused(dict, iter)
  /\ advanced' = TRUE
  /\ UNCHANGED ret

NextInChain ==
  /\ iter.state = "iterating"
  /\ \E e \in iter.rest : Return(e, iter.rest \ {e}, <<iter.table, iter.index>>)

NextBucketOf ==
  /\ iter.state \in {"ready", "iterating"} /\ iter.rest = {}
  /\ \E b \in Occupied(dict, iter) :
       /\ \A c \in Occupied(dict, iter) : NotAfter(b, c)
       /\ \E e \in dict.table[b[1]][b[2]] : Return(e, dict.table[b[1]][b[2]] \ {e}, b)

NextNull ==
  /\ iter.state \in {"ready", "iterating"} /\ iter.rest = {}
  /\ Occupied(dict, iter) = {}
  /\ iter' = [iter EXCEPT !.state = "finished", !.entry = None]
  /\ owed' = IF iter.state = "ready" THEN Keys(dict) ELSE owed
  /\ dict' = Paused(dict, iter)
  /\ advanced' = TRUE
  /\ UNCHANGED <<ret, seen>>

\* dictReleaseIterator; an iterator that was never advanced paused nothing.
ReleaseIterator ==
  /\ iter.state # "none"
  /\ dict' = IF iter.state = "ready" THEN dict ELSE [dict EXCEPT !.pauserehash = @ - 1]
  /\ iter' = NoIterator /\ owed' = {} /\ seen' = {}
  /\ UNCHANGED <<ret, advanced>>

-----------------------------------------------------------------------------
(* What the user does between two calls                                    *)

\* Every caller asks for the first entry as soon as it has the iterator, and
\* releases it when there is no other.
UsersTurn == iter.state \in {"none", "iterating"}

UserAdds(k, v) == (Add(k, v) \/ Replace(k, v)) /\ UNCHANGED ivars

UserFinds == Find /\ UNCHANGED ivars

UserExpands(n) == Expand(n) /\ UNCHANGED ivars

\* The rule the callers follow, and the reason dictNext saves nextEntry: nothing
\* but the entry just returned is deleted.
UserDeletes(k) ==
  /\ iter.state = "iterating" => iter.entry = k
  /\ Delete(k)
  /\ iter' = [iter EXCEPT !.entry = None]
  /\ owed' = owed \ {k} /\ seen' = seen \ {k}
  /\ UNCHANGED advanced

Iterate == GetSafeIterator \/ NextInChain \/ NextBucketOf \/ NextNull \/ ReleaseIterator

IterInit ==
  Init /\ iter = NoIterator /\ advanced = FALSE /\ owed = {} /\ seen = {}

SafeNext ==
  \/ Iterate
  \/ /\ UsersTurn
     /\ \/ \E k \in Key : UserDeletes(k) \/ \E v \in Stored[k] : UserAdds(k, v)
        \/ UserFinds
        \/ \E n \in Size : UserExpands(n)

SafeSpec == IterInit /\ [][SafeNext]_allvars

-----------------------------------------------------------------------------
(* Properties                                                              *)

\* A resize keeps pace with the insertions: as long as nobody paused it, it is
\* over before the table it fills has more entries than buckets, although each
\* operation moves only one bucket of the old one.
LoadBounded ==
  ~ advanced /\ dictIsRehashing(dict) => dictSize(dict) <= dict.size[1]

\* An iteration is complete: an entry that is in the dict all the time has
\* been returned when dictNext returns NULL, whatever was added and whether
\* or not a resize began meanwhile.
IterationComplete == iter.state = "finished" => owed = {}

\* ... and exact: dictNext returns no entry twice.
ReturnedOnce == [][NextInChain \/ NextBucketOf => iter'.entry \notin seen]_allvars

\* Rehashing is paused exactly while an iterator that has been advanced exists:
\* a pause that outlived its iterator would stop every later resize half way.
PausedWhileIterating ==
  dict.pauserehash = IF iter.state \in {"iterating", "finished"} THEN 1 ELSE 0

\* A safe iterator misses no entry that stays and holds its pause exactly while it is in
\* use, whatever its user does to the dict between two calls of dictNext.
IteratorSound == IteratorOK /\ IterationComplete /\ PausedWhileIterating
=============================================================================
