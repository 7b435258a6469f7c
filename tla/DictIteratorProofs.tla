------------------------- MODULE DictIteratorProofs -------------------------
(***************************************************************************)
(* A safe iterator, for every table, hash function and number of keys.     *)
(*                                                                         *)
(* The argument is about keys and not about buckets: Ahead is the set of   *)
(* keys the iterator will still come to.  While rehashing is paused no key *)
(* moves, so what the user adds can only be put in or behind the current   *)
(* bucket or join Ahead, and nothing leaves Ahead but what dictNext        *)
(* returns.                                                                *)
(*                                                                         *)
(* At the end, that a resize keeps pace with the insertions: Pace bounds   *)
(* the entries by the size of the old table and the buckets of it that     *)
(* have been moved, one by each operation that can add an entry.           *)
(***************************************************************************)
EXTENDS DictIterator, DictProofs

Ahead(d, it) ==
  {x \in Key : \/ x \in it.rest
               \/ x \in KeysOf(d, it.table) /\ Index(d, it.table, x) > it.index
               \/ it.table = 0 /\ dictIsRehashing(d) /\ x \in KeysOf(d, 1)}

\* The iterator is at a bucket of d, and rest is part of that bucket.
AtBucket(d, it) ==
  /\ it.table = 1 => dictIsRehashing(d)
  /\ it.index \in 0 .. d.size[it.table] - 1
  /\ it.rest \subseteq {x \in KeysOf(d, it.table) : Index(d, it.table, x) = it.index}

\* Before the first dictNext the iterator is ahead of every bucket.
AtStart(it) == it.table = 0 /\ it.index = -1 /\ it.rest = {}

\* What has been returned is behind, what is owed is ahead.
Split(d, it, o, s) ==
  /\ o \subseteq Ahead(d, it)
  /\ s \cap Ahead(d, it) = {}
  /\ s \subseteq Keys(d)
  /\ it.entry \in s \cup {None}

IsIterator(it) ==
  it = [state |-> it.state, table |-> it.table, index |-> it.index,
        entry |-> it.entry, rest |-> it.rest]

IterInv ==
  /\ Sound(dict)
  /\ IsIterator(iter)
  /\ IteratorOK
  /\ PausedWhileIterating
  /\ iter.state \in {"none", "ready"} => AtStart(iter) /\ owed = {} /\ seen = {}
  /\ iter.state = "iterating" => AtBucket(dict, iter) /\ Split(dict, iter, owed, seen)
  /\ iter.state = "finished" => owed = {}

-----------------------------------------------------------------------------
(* Keys and buckets                                                        *)

\* A bucket holds the keys of its table whose index it is.
LEMMA BucketKeys ==
  ASSUME NEW d, Sound(d), NEW t \in {0, 1}, NEW i \in 0 .. d.size[t] - 1
  PROVE  d.table[t][i] = {x \in KeysOf(d, t) : Index(d, t, x) = i}
PROOF
  <1>1. \A x \in d.table[t][i] : x \in KeysOf(d, t) BY Zenon DEF KeysOf
  <1>2. \A x \in d.table[t][i] : Index(d, t, x) = i BY Zenon DEF Sound, InPlace
  <1>3. \A x \in KeysOf(d, t) : \E j \in 0 .. d.size[t] - 1 : x \in d.table[t][j] /\ Index(d, t, x) = j
    BY DEF KeysOf, Sound, InPlace
  <1> QED BY <1>1, <1>2, <1>3, Zenon

\* The index of a key of a table is one of its buckets.
LEMMA KeyBucket ==
  ASSUME NEW d, Sound(d), NEW t \in {0, 1}, NEW x \in KeysOf(d, t)
  PROVE  x \in Key /\ Index(d, t, x) \in 0 .. d.size[t] - 1 /\ x \in d.table[t][Index(d, t, x)]
PROOF
  <1>1. PICK j \in 0 .. d.size[t] - 1 : x \in d.table[t][j] BY DEF KeysOf
  <1>2. Index(d, t, x) = j BY <1>1, Zenon DEF Sound, InPlace
  <1>3. x \in Key BY KeysAreKeys DEF Sound
  <1> QED BY <1>1, <1>2, <1>3, Zenon

\* A table that has a key has buckets, and the second one only during a resize.
LEMMA KeyTable ==
  ASSUME NEW d, Sound(d), NEW t \in {0, 1}, NEW x \in KeysOf(d, t)
  PROVE  d.size[t] # 0 /\ (t = 1 => dictIsRehashing(d))
PROOF
  <1>1. d.size[t] # 0 BY DEF KeysOf
  <1> QED BY <1>1, Zenon DEF Sound, Resizing

\* A key has one place.
LEMMA OneTable ==
  ASSUME NEW d, Sound(d), NEW x, NEW t \in {0, 1}, NEW u \in {0, 1},
         x \in KeysOf(d, t), x \in KeysOf(d, u)
  PROVE  t = u
  BY DEF Sound, OneEntry

\* At the start every key of the dict is ahead.
LEMMA AllAhead ==
  ASSUME NEW d, Sound(d), NEW it, AtStart(it)
  PROVE  Keys(d) \subseteq Ahead(d, it)
PROOF
  <1>1. ASSUME NEW x \in KeysOf(d, 0) PROVE x \in Ahead(d, it)
    <2>1. x \in Key /\ Index(d, 0, x) \in 0 .. d.size[0] - 1 BY KeyBucket, Zenon
    <2>2. d.size[0] \in Int BY DictAssumption DEF Sound, DictState
    <2>3. Index(d, 0, x) > -1 BY <2>1, <2>2
    <2> QED BY <2>1, <2>3, Zenon DEF AtStart, Ahead
  <1>2. ASSUME NEW x \in KeysOf(d, 1) PROVE x \in Ahead(d, it)
    BY KeyBucket, KeyTable, Zenon DEF AtStart, Ahead
  <1> QED BY <1>1, <1>2 DEF Keys

\* Pausing or resuming a dict leaves it as sound, and every key where it is.
LEMMA PauseSound ==
  ASSUME NEW d, Sound(d), NEW n \in Nat
  PROVE  LET e == [d EXCEPT !.pauserehash = n]
         IN  /\ Sound(e) /\ e.pauserehash = n /\ e.val = d.val
             /\ Keys(e) = Keys(d)
             /\ \A it : Ahead(e, it) = Ahead(d, it)
             /\ \A it : AtBucket(e, it) <=> AtBucket(d, it)
PROOF
  <1> DEFINE e == [d EXCEPT !.pauserehash = n]
  <1>1. DictState(d) BY DEF Sound
  <1>2. /\ e.table = d.table /\ e.size = d.size /\ e.used = d.used
        /\ e.rehashidx = d.rehashidx /\ e.val = d.val /\ e.pauserehash = n
    BY <1>1, Zenon DEF DictState
  <1>3. DictState(e)
    <2>1. e = [table |-> e.table, size |-> e.size, used |-> e.used,
               rehashidx |-> e.rehashidx, pauserehash |-> e.pauserehash, val |-> e.val]
      BY <1>1 DEF DictState
    <2> HIDE DEF e
    <2> QED BY <1>1, <1>2, <2>1, Zenon DEF DictState
  <1> HIDE DEF e
  <1>4. \A t \in {0, 1} : KeysOf(e, t) = KeysOf(d, t) BY <1>2 DEF KeysOf
  <1>5. \A t, x : Index(e, t, x) = Index(d, t, x) BY <1>2 DEF Index
  <1>6. dictIsRehashing(e) <=> dictIsRehashing(d) BY <1>2 DEF dictIsRehashing
  <1>7. InPlace(e) BY <1>2, <1>5 DEF Sound, InPlace
  <1>8. OneEntry(e) BY <1>2, <1>4, Zenon DEF Sound, OneEntry
  <1>9. Counted(e) BY <1>2, <1>4, Zenon DEF Sound, Counted
  <1>10. Resizing(e) BY <1>2, <1>6, Zenon DEF Sound, Resizing
  <1>11. Sound(e) BY <1>3, <1>7, <1>8, <1>9, <1>10 DEF Sound
  <1>12. KeysOf(e, 0) = KeysOf(d, 0) /\ KeysOf(e, 1) = KeysOf(d, 1) BY <1>4
  <1>13. \A it : KeysOf(e, it.table) = KeysOf(d, it.table) BY <1>2 DEF KeysOf
  <1>14. \A it : Ahead(e, it) = Ahead(d, it) BY <1>5, <1>6, <1>12, <1>13, Zenon DEF Ahead
  <1>15. \A it : AtBucket(e, it) <=> AtBucket(d, it) BY <1>2, <1>5, <1>6, <1>13, Zenon DEF AtBucket
  <1> QED BY <1>2, <1>11, <1>12, <1>14, <1>15 DEF Keys, e

-----------------------------------------------------------------------------
(* The user's operations                                                   *)

\* What adds a key while rehashing is paused disturbs no iteration: a key that
\* was there is where it was, so it is neither skipped nor met again.
LEMMA KeepsIteration ==
  ASSUME NEW d, NEW e, NEW it, NEW o, NEW s, Sound(d), Sound(e), Keeps(d, e),
         it.table \in {0, 1}, AtBucket(d, it), Split(d, it, o, s)
  PROVE  AtBucket(e, it) /\ Split(e, it, o, s)
PROOF
  <1>1. d.size[it.table] # 0 /\ e.size[it.table] = d.size[it.table]
    <2>1. d.size[it.table] # 0 BY DEF AtBucket
    <2> QED BY <2>1, Zenon DEF Keeps
  <1>2. \A x : Index(e, it.table, x) = Index(d, it.table, x) BY <1>1, Zenon DEF Index
  <1>3. AtBucket(e, it) BY <1>1, <1>2, Zenon DEF AtBucket, Keeps
  <1>4. Ahead(d, it) \subseteq Ahead(e, it) BY <1>2, Zenon DEF Ahead, Keeps
  <1>5. ASSUME NEW x \in s, x \in Ahead(e, it) PROVE x \in Ahead(d, it)
    <2>1. x \in Keys(d) BY DEF Split
    <2>2. PICK t \in {0, 1} : x \in KeysOf(d, t) BY <2>1 DEF Keys
    <2>3. x \in KeysOf(e, t) BY <2>2, Zenon DEF Keeps
    <2>4. x \in KeysOf(e, it.table) => t = it.table BY <2>3, OneTable
    <2>5. x \in KeysOf(e, 1) => t = 1 BY <2>3, OneTable
    <2>6. t = 1 => dictIsRehashing(d) BY <2>2, KeyTable
    <2>7. x \in Key BY <2>2, KeyBucket, Zenon
    <2> QED BY <1>2, <1>5, <2>2, <2>4, <2>5, <2>6, <2>7, Zenon DEF Ahead
  <1>6. Keys(d) \subseteq Keys(e) BY Zenon DEF Keeps, Keys
  <1> QED BY <1>3, <1>4, <1>5, <1>6, Zenon DEF Split

\* Deleting the entry that was returned last takes nothing from what is ahead.
LEMMA ShrinksIteration ==
  ASSUME NEW d, NEW e, NEW it, NEW jt, NEW o, NEW s, NEW k \in Key,
         Sound(d), Sound(e), Shrinks(d, e, k),
         it.table \in {0, 1}, AtBucket(d, it), Split(d, it, o, s), it.entry = k,
         jt.table = it.table, jt.index = it.index, jt.rest = it.rest, jt.entry = None
  PROVE  AtBucket(e, jt) /\ Split(e, jt, o \ {k}, s \ {k})
PROOF
  <1>1. k \in s BY DictAssumption, Zenon DEF Split
  <1>2. k \notin Ahead(d, it) BY <1>1, Zenon DEF Split
  <1>3. \A t, x : Index(e, t, x) = Index(d, t, x) BY Zenon DEF Shrinks, Index
  <1>4. dictIsRehashing(e) <=> dictIsRehashing(d) BY Zenon DEF Shrinks, dictIsRehashing
  <1>5. KeysOf(e, it.table) = KeysOf(d, it.table) \ {k} /\ KeysOf(e, 1) = KeysOf(d, 1) \ {k}
    BY Zenon DEF Shrinks
  <1>6. k \notin it.rest BY <1>2, Zenon DEF Ahead
  <1>7. Ahead(e, jt) = Ahead(d, it) \ {k} BY <1>3, <1>4, <1>5, <1>6 DEF Ahead
  <1>8. AtBucket(e, jt)
    <2>1. jt.rest \subseteq {x \in KeysOf(e, jt.table) : Index(e, jt.table, x) = jt.index}
      BY <1>3, <1>5, <1>6, Zenon DEF AtBucket
    <2> QED BY <1>4, <2>1, Zenon DEF AtBucket, Shrinks
  <1>9. Keys(e) = Keys(d) \ {k} BY Zenon DEF Keys, Shrinks
  <1> QED BY <1>7, <1>8, <1>9, Zenon DEF Split

-----------------------------------------------------------------------------
(* dictNext                                                                *)

\* The rest of a chain: one entry less is ahead.
LEMMA ChainAhead ==
  ASSUME NEW d, NEW it, NEW jt, NEW e \in it.rest, Sound(d),
         it.table \in {0, 1}, AtBucket(d, it),
         jt.table = it.table, jt.index = it.index, jt.rest = it.rest \ {e}
  PROVE  /\ AtBucket(d, jt)
         /\ e \in Ahead(d, it) /\ Ahead(d, jt) = Ahead(d, it) \ {e}
PROOF
  <1>1. e \in KeysOf(d, it.table) /\ Index(d, it.table, e) = it.index BY Zenon DEF AtBucket
  <1>2. e \in Key BY <1>1, KeyBucket, Zenon
  <1>3. it.index \in Int BY DEF AtBucket
  <1>4. it.table = 0 => e \notin KeysOf(d, 1) BY <1>1, OneTable
  <1>5. ~ (Index(d, it.table, e) > it.index) BY <1>1, <1>3
  <1>6. Ahead(d, jt) = Ahead(d, it) \ {e} BY <1>4, <1>5, Zenon DEF Ahead
  <1> QED BY <1>2, <1>6, Zenon DEF AtBucket, Ahead

\* When the chain is finished, what is ahead is in the occupied buckets ahead.
LEMMA AheadInBuckets ==
  ASSUME NEW d, NEW it, Sound(d), it.table \in {0, 1}, it.index \in Nat \cup {-1}, it.rest = {},
         NEW x \in Ahead(d, it)
  PROVE  \E t \in {0, 1} :
           /\ x \in KeysOf(d, t) /\ <<t, Index(d, t, x)>> \in Occupied(d, it)
           /\ t = it.table => Index(d, t, x) > it.index
PROOF
  <1>1. PICK t \in {0, 1} : /\ x \in KeysOf(d, t)
                            /\ \/ t = it.table /\ Index(d, t, x) > it.index
                               \/ t = 1 /\ it.table = 0 /\ dictIsRehashing(d)
    BY Zenon DEF Ahead
  <1> DEFINE i == Index(d, t, x)
  <1>2. i \in 0 .. d.size[t] - 1 /\ x \in d.table[t][i] BY <1>1, KeyBucket, Zenon
  <1>3. d.size[t] \in Int BY DictAssumption DEF Sound, DictState
  <1> HIDE DEF i
  <1>4. <<t, i>> \in BucketsAhead(d, it)
    <2>1. CASE t = it.table /\ i > it.index
      <3>1. i \in it.index + 1 .. d.size[t] - 1 BY <1>2, <1>3, <2>1
      <3> QED BY <2>1, <3>1, Zenon DEF BucketsAhead
    <2>2. CASE t = 1 /\ it.table = 0 /\ dictIsRehashing(d) BY <1>2, <2>2, Zenon DEF BucketsAhead
    <2> QED BY <1>1, <2>1, <2>2, Zenon DEF i
  <1>5. <<t, i>> \in Occupied(d, it) BY <1>2, <1>4, Zenon DEF Occupied
  <1> QED BY <1>1, <1>5 DEF i

\* A bucket ahead, by table and index.
LEMMA BucketAhead ==
  ASSUME NEW d, NEW it, Sound(d), it.table \in {0, 1}, it.index \in Nat \cup {-1},
         NEW b \in BucketsAhead(d, it)
  PROVE  /\ b = <<b[1], b[2]>> /\ b[1] \in {0, 1} /\ b[2] \in 0 .. d.size[b[1]] - 1
         /\ \/ b[1] = it.table /\ b[2] > it.index
            \/ b[1] = 1 /\ it.table = 0 /\ dictIsRehashing(d)
PROOF
  <1>1. d.size[0] \in Int /\ d.size[1] \in Int BY DictAssumption DEF Sound, DictState
  <1>2. d.size[it.table] \in Int BY <1>1
  <1>3. CASE b \in {it.table} \X (it.index + 1 .. d.size[it.table] - 1) BY <1>2, <1>3
  <1>4. CASE it.table = 0 /\ dictIsRehashing(d) /\ b \in {1} \X (0 .. d.size[1] - 1)
    BY <1>1, <1>4
  <1> QED BY <1>3, <1>4, Zenon DEF BucketsAhead

\* The next bucket: the first occupied one ahead, so that nothing between is
\* skipped; one of its entries is returned and the others become the rest.
LEMMA BucketEntered ==
  ASSUME NEW d, NEW it, NEW jt, Sound(d),
         it.table \in {0, 1}, it.index \in Nat \cup {-1}, it.rest = {},
         it.table = 1 => dictIsRehashing(d),
         NEW b \in Occupied(d, it), \A c \in Occupied(d, it) : NotAfter(b, c),
         NEW e \in d.table[b[1]][b[2]],
         jt.table = b[1], jt.index = b[2], jt.rest = d.table[b[1]][b[2]] \ {e}
  PROVE  /\ AtBucket(d, jt) /\ e \in Key
         /\ e \in Ahead(d, it) /\ Ahead(d, jt) = Ahead(d, it) \ {e}
PROOF
  <1> DEFINE t == b[1]
             i == b[2]
  <1>1. b \in BucketsAhead(d, it) BY Zenon DEF Occupied
  <1>2. /\ t \in {0, 1} /\ i \in 0 .. d.size[t] - 1
        /\ \/ t = it.table /\ i > it.index
           \/ t = 1 /\ it.table = 0 /\ dictIsRehashing(d)
    BY <1>1, BucketAhead, Zenon
  <1>3. d.table[t][i] = {x \in KeysOf(d, t) : Index(d, t, x) = i} BY <1>2, BucketKeys
  <1>4. ASSUME NEW c, c \in Occupied(d, it) PROVE t < c[1] \/ (t = c[1] /\ i <= c[2])
    BY <1>4, Zenon DEF NotAfter
  <1>5. jt.table = t /\ jt.index = i /\ jt.rest = d.table[t][i] \ {e} /\ e \in d.table[t][i]
    BY Zenon
  <1> HIDE DEF t, i
  <1>6. AtBucket(d, jt) BY <1>2, <1>3, <1>5, Zenon DEF AtBucket
  <1>7. e \in KeysOf(d, t) /\ Index(d, t, e) = i BY <1>3, <1>5, Zenon
  <1>8. e \in Key BY <1>2, <1>7, KeyBucket, Zenon
  <1>9. e \in Ahead(d, it) BY <1>2, <1>7, <1>8, Zenon DEF Ahead
  <1>10. e \notin Ahead(d, jt)
    <2>1. ~ (Index(d, t, e) > i) BY <1>2, <1>7
    <2>2. t = 0 => e \notin KeysOf(d, 1) BY <1>7, OneTable
    <2> QED BY <1>5, <2>1, <2>2, Zenon DEF Ahead
  <1>11. ASSUME NEW x \in Ahead(d, it), x # e PROVE x \in Ahead(d, jt)
    <2>1. PICK u \in {0, 1} : x \in KeysOf(d, u) /\ <<u, Index(d, u, x)>> \in Occupied(d, it)
      BY AheadInBuckets, Zenon
    <2>2. t < u \/ (t = u /\ i <= Index(d, u, x)) BY <1>4, <2>1
    <2>3. x \in Key /\ Index(d, u, x) \in Int BY <2>1, KeyBucket
    <2>4. CASE t < u
      <3>1. t = 0 /\ u = 1 BY <1>2, <2>4
      <3>2. dictIsRehashing(d) BY <2>1, <3>1, KeyTable, Zenon
      <3> QED BY <1>5, <2>1, <2>3, <3>1, <3>2, Zenon DEF Ahead
    <2>5. CASE t = u /\ i = Index(d, u, x) BY <1>3, <1>5, <1>11, <2>1, <2>3, <2>5, Zenon DEF Ahead
    <2>6. CASE t = u /\ i < Index(d, u, x)
      <3>1. Index(d, t, x) > i BY <1>2, <2>3, <2>6, Zenon
      <3> QED BY <1>5, <2>1, <2>3, <2>6, <3>1, Zenon DEF Ahead
    <2> QED BY <1>2, <2>2, <2>3, <2>4, <2>5, <2>6
  <1>12. ASSUME NEW x \in Ahead(d, jt) PROVE x \in Ahead(d, it)
    <2>0. x \in Key BY Zenon DEF Ahead
    <2>1. CASE x \in KeysOf(d, t) /\ Index(d, t, x) >= i
      <3>1. Index(d, t, x) \in Int BY <1>2, <2>1, KeyBucket
      <3>2. CASE t = it.table /\ i > it.index
        <4>1. Index(d, t, x) > it.index BY <1>2, <2>1, <3>1, <3>2, SMTT(30)
        <4> QED BY <2>0, <2>1, <3>2, <4>1, Zenon DEF Ahead
      <3>3. CASE t = 1 /\ it.table = 0 /\ dictIsRehashing(d) BY <2>0, <2>1, <3>3, Zenon DEF Ahead
      <3> QED BY <1>2, <3>2, <3>3, Zenon
    <2>2. CASE t = 0 /\ dictIsRehashing(d) /\ x \in KeysOf(d, 1)
      <3>1. it.table = 0 BY <1>2, <2>2, Zenon
      <3> QED BY <2>0, <2>2, <3>1, Zenon DEF Ahead
    <2>3. \/ x \in d.table[t][i]
          \/ x \in KeysOf(d, t) /\ Index(d, t, x) > i
          \/ t = 0 /\ dictIsRehashing(d) /\ x \in KeysOf(d, 1)
      BY <1>5, Zenon DEF Ahead
    <2>4. \A y \in KeysOf(d, t) : Index(d, t, y) \in Int BY <1>2, KeyBucket
    <2>5. x \in d.table[t][i] => x \in KeysOf(d, t) /\ Index(d, t, x) >= i
      BY <1>2, <1>3
    <2>6. x \in KeysOf(d, t) /\ Index(d, t, x) > i => Index(d, t, x) >= i BY <1>2, <2>4
    <2> QED BY <2>1, <2>2, <2>3, <2>5, <2>6, Zenon
  <1> QED BY <1>6, <1>8, <1>9, <1>10, <1>11, <1>12, Zenon

-----------------------------------------------------------------------------
(* The steps                                                               *)

\* An entry is returned: what Return leaves is an iteration again, and the entry
\* had not been returned before.
LEMMA ReturnSound ==
  ASSUME IterInv, iter.state \in {"ready", "iterating"},
         NEW e, NEW rest, NEW b, Return(e, rest, b),
         b[1] \in {0, 1}, e \in Ahead(dict, iter),
         AtBucket(dict, iter'), Ahead(dict, iter') = Ahead(dict, iter) \ {e}
  PROVE  IterInv' /\ iter'.entry \notin seen
PROOF
  <1>1. /\ iter'.state = "iterating" /\ iter'.table = b[1] /\ iter'.index = b[2]
        /\ iter'.entry = e /\ iter'.rest = rest /\ IsIterator(iter')
    BY SMTT(30) DEF Return, IsIterator
  <1>2. e \in Key /\ iter'.rest \subseteq Key
    BY <1>1, KeysAreKeys, Zenon DEF IterInv, Sound, Ahead, AtBucket
  <1>3. iter'.index \in Nat BY DEF AtBucket
  <1>4. Ahead(dict, iter) \subseteq Keys(dict)
    <2>1. iter.rest \subseteq Keys(dict) /\ iter.table \in {0, 1}
      BY Zenon DEF IterInv, AtStart, AtBucket, IteratorOK, Keys
    <2> QED BY <2>1, Zenon DEF Ahead, Keys
  <1> DEFINE o == IF iter.state = "ready" THEN Keys(dict) ELSE owed
  <1>5. o \subseteq Ahead(dict, iter) /\ seen \cap Ahead(dict, iter) = {} /\ seen \subseteq Keys(dict)
    <2>1. CASE iter.state = "ready" BY <2>1, AllAhead, Zenon DEF IterInv
    <2>2. CASE iter.state = "iterating" BY <2>2, Zenon DEF IterInv, Split
    <2> QED BY <2>1, <2>2, Zenon
  <1>6. owed' = o \ {e} /\ seen' = seen \cup {e} BY Zenon DEF Return
  <1>7. Split(dict, iter', owed', seen')
    <2> HIDE DEF o
    <2> QED BY <1>1, <1>4, <1>5, <1>6, Zenon DEF Split
  <1>8. /\ Sound(dict') /\ dict'.pauserehash = 1 /\ Keys(dict') = Keys(dict)
        /\ Ahead(dict', iter') = Ahead(dict, iter') /\ AtBucket(dict', iter')
    <2>1. CASE iter.state = "ready"
      <3>1. dict' = [dict EXCEPT !.pauserehash = dict.pauserehash + 1] /\ dict.pauserehash = 0
        BY <2>1, Zenon DEF Return, Paused, IterInv, PausedWhileIterating
      <3>2. dict' = [dict EXCEPT !.pauserehash = 1] BY <3>1
      <3> QED BY <3>2, PauseSound DEF IterInv
    <2>2. CASE iter.state = "iterating"
      BY <2>2, Zenon DEF Return, Paused, IterInv, PausedWhileIterating
    <2> QED BY <2>1, <2>2, Zenon
  <1>9. AtBucket(dict', iter') /\ Split(dict', iter', owed', seen')
    BY <1>7, <1>8, Zenon DEF Split
  <1>10. IteratorOK'
    <2>1. TypeOK' BY <1>8, Zenon DEF IterInv, IteratorOK, TypeOK, Sound, Return
    <2>2. Keys(dict) \subseteq Key BY KeysAreKeys, Zenon DEF IterInv, Sound, Keys
    <2>3. owed' \cup seen' \subseteq Key BY <1>2, <1>5, <1>6, <2>2, Zenon DEF IterInv, IteratorOK
    <2> QED BY <1>1, <1>2, <1>3, <2>1, <2>3, Zenon DEF IteratorOK, Return
  <1>11. PausedWhileIterating' BY <1>1, <1>8, Zenon DEF PausedWhileIterating
  <1> QED BY <1>1, <1>5, <1>8, <1>9, <1>10, <1>11, Zenon DEF IterInv

\* The first or a later entry of a chain.
LEMMA NextSound ==
  ASSUME IterInv, NextInChain \/ NextBucketOf
  PROVE  IterInv' /\ iter'.entry \notin seen
PROOF
  <1>0. iter.table \in {0, 1} /\ iter.index \in Nat \cup {-1} /\ Sound(dict)
    BY Zenon DEF IterInv, IteratorOK
  <1>1. CASE NextInChain
    <2>1. PICK e \in iter.rest : Return(e, iter.rest \ {e}, <<iter.table, iter.index>>)
      BY <1>1, Zenon DEF NextInChain
    <2>2. iter'.table = iter.table /\ iter'.index = iter.index /\ iter'.rest = iter.rest \ {e}
      BY <2>1, Zenon DEF Return
    <2>3. AtBucket(dict, iter) BY <1>1, Zenon DEF NextInChain, IterInv
    <2>4. AtBucket(dict, iter') /\ e \in Ahead(dict, iter) /\ Ahead(dict, iter') = Ahead(dict, iter) \ {e}
      BY <1>0, <2>2, <2>3, ChainAhead, Zenon
    <2>5. iter.state \in {"ready", "iterating"} BY <1>1 DEF NextInChain
    <2> QED BY <1>0, <2>1, <2>4, <2>5, ReturnSound, Zenon
  <1>2. CASE NextBucketOf
    <2>1. PICK b \in Occupied(dict, iter) :
            /\ \A c \in Occupied(dict, iter) : NotAfter(b, c)
            /\ \E e \in dict.table[b[1]][b[2]] : Return(e, dict.table[b[1]][b[2]] \ {e}, b)
      BY <1>2, Zenon DEF NextBucketOf
    <2>2. PICK e \in dict.table[b[1]][b[2]] : Return(e, dict.table[b[1]][b[2]] \ {e}, b)
      BY <2>1, ZenonT(40)
    <2>3. iter'.table = b[1] /\ iter'.index = b[2] /\ iter'.rest = dict.table[b[1]][b[2]] \ {e}
      BY <2>2, Zenon DEF Return
    <2>4. /\ iter.state \in {"ready", "iterating"} /\ iter.rest = {}
          /\ iter.table = 1 => dictIsRehashing(dict)
      BY <1>2 DEF NextBucketOf, IterInv, AtStart, AtBucket
    <2>5. b[1] \in {0, 1}
      <3>1. b \in BucketsAhead(dict, iter) BY SMTT(30) DEF Occupied
      <3> QED BY <1>0, <3>1, BucketAhead, Zenon
    <2>6. AtBucket(dict, iter') /\ e \in Ahead(dict, iter) /\ Ahead(dict, iter') = Ahead(dict, iter) \ {e}
      BY <1>0, <2>1, <2>3, <2>4, BucketEntered
    <2> QED BY <2>2, <2>4, <2>5, <2>6, ReturnSound, Zenon
  <1> QED BY <1>1, <1>2

\* NULL: nothing was ahead any more, so nothing is owed.
LEMMA NullSound ==
  ASSUME IterInv, NextNull
  PROVE  IterInv'
PROOF
  <1>0. /\ iter.table \in {0, 1} /\ iter.index \in Nat \cup {-1} /\ Sound(dict) /\ iter.rest = {}
        /\ iter.state \in {"ready", "iterating"}
    BY Zenon DEF IterInv, IteratorOK, NextNull
  <1>1. Ahead(dict, iter) = {} BY <1>0, AheadInBuckets, Zenon DEF NextNull
  <1>2. owed' = {}
    <2>1. CASE iter.state = "ready" BY <1>0, <1>1, <2>1, AllAhead DEF IterInv, NextNull
    <2>2. CASE iter.state = "iterating" BY <1>1, <2>2 DEF IterInv, Split, NextNull
    <2> QED BY <1>0, <2>1, <2>2
  <1>3. Sound(dict') /\ dict'.pauserehash = 1
    <2>1. CASE iter.state = "ready"
      <3>1. dict' = [dict EXCEPT !.pauserehash = dict.pauserehash + 1] /\ dict.pauserehash = 0
        BY <2>1 DEF NextNull, Paused, IterInv, PausedWhileIterating
      <3>2. dict' = [dict EXCEPT !.pauserehash = 1] BY <3>1
      <3> QED BY <1>0, <3>2, PauseSound
    <2>2. CASE iter.state = "iterating"
      BY <2>2 DEF NextNull, Paused, IterInv, PausedWhileIterating
    <2> QED BY <1>0, <2>1, <2>2
  <1>4. /\ iter'.state = "finished" /\ iter'.table = iter.table /\ iter'.index = iter.index
        /\ iter'.entry = None /\ iter'.rest = iter.rest /\ IsIterator(iter')
    BY Zenon DEF NextNull, IterInv, IsIterator
  <1>5. IteratorOK'
    <2>1. TypeOK' BY <1>3, Zenon DEF IterInv, IteratorOK, TypeOK, Sound, NextNull
    <2> QED BY <1>0, <1>2, <1>4, <2>1, Zenon DEF IterInv, IteratorOK, NextNull
  <1>6. PausedWhileIterating' BY <1>3, <1>4 DEF PausedWhileIterating
  <1> QED BY <1>2, <1>3, <1>4, <1>5, <1>6, Zenon DEF IterInv

\* The user adds, finds or expands.
LEMMA UserSound ==
  ASSUME IterInv, UsersTurn, UNCHANGED ivars, Sound(dict'),
         ret' \in {"create", "add", "replace", "delete"} \X {0, 1},
         dict'.pauserehash = dict.pauserehash, dict.pauserehash # 0 => Keeps(dict, dict')
  PROVE  IterInv'
PROOF
  <1>1. iter' = iter /\ advanced' = advanced /\ owed' = owed /\ seen' = seen BY DEF ivars
  <1>2. ASSUME iter.state = "iterating"
        PROVE  AtBucket(dict', iter) /\ Split(dict', iter, owed, seen)
    <2>1. Keeps(dict, dict') BY <1>2 DEF IterInv, PausedWhileIterating
    <2>2. /\ Sound(dict) /\ iter.table \in {0, 1}
          /\ AtBucket(dict, iter) /\ Split(dict, iter, owed, seen)
      BY <1>2, Zenon DEF IterInv, IteratorOK
    <2> QED BY <2>1, <2>2, KeepsIteration, Zenon
  <1>3. TypeOK' BY DEF TypeOK, Sound
  <1>4. IteratorOK' BY <1>1, <1>3, Zenon DEF IterInv, IteratorOK
  <1>5. PausedWhileIterating' BY <1>1, Zenon DEF IterInv, PausedWhileIterating
  <1> QED BY <1>1, <1>2, <1>4, <1>5, Zenon DEF IterInv

\* The user deletes the entry that was returned last, or any when nobody iterates.
LEMMA DeletesSound ==
  ASSUME IterInv, UsersTurn, NEW k \in Key, UserDeletes(k)
  PROVE  IterInv'
PROOF
  <1>1. /\ Sound(dict') /\ dict'.pauserehash = dict.pauserehash
        /\ dict.pauserehash # 0 => Shrinks(dict, dict', k)
    BY DeleteEffect, ZenonT(40) DEF IterInv, UserDeletes, Delete
  <1>2. /\ iter'.state = iter.state /\ iter'.table = iter.table /\ iter'.index = iter.index
        /\ iter'.entry = None /\ iter'.rest = iter.rest /\ IsIterator(iter')
    BY Zenon DEF UserDeletes, IterInv, IsIterator
  <1>3. owed' = owed \ {k} /\ seen' = seen \ {k} /\ advanced' = advanced BY DEF UserDeletes
  <1>4. ASSUME iter.state = "iterating"
        PROVE  AtBucket(dict', iter') /\ Split(dict', iter', owed', seen')
    <2>1. Shrinks(dict, dict', k) BY <1>1, <1>4 DEF IterInv, PausedWhileIterating
    <2>2. /\ Sound(dict) /\ iter.table \in {0, 1} /\ iter.entry = k
          /\ AtBucket(dict, iter) /\ Split(dict, iter, owed, seen)
      BY <1>4 DEF IterInv, IteratorOK, UserDeletes
    <2>3. AtBucket(dict', iter') /\ Split(dict', iter', owed \ {k}, seen \ {k})
      BY <1>1, <1>2, <2>1, <2>2, ShrinksIteration, Zenon
    <2> QED BY <1>3, <2>3
  <1>5. TypeOK'
    <2>1. ret' \in {"create", "add", "replace", "delete"} \X {0, 1}
      BY DEF UserDeletes, Delete, DICT_OK, DICT_ERR
    <2> QED BY <1>1, <2>1 DEF TypeOK, Sound
  <1>6. IteratorOK' BY <1>2, <1>3, <1>5, Zenon DEF IterInv, IteratorOK
  <1>7. PausedWhileIterating' BY <1>1, <1>2, Zenon DEF IterInv, PausedWhileIterating
  <1>8. iter'.state \in {"none", "ready"} => AtStart(iter') /\ owed' = {} /\ seen' = {}
    BY <1>2, <1>3, Zenon DEF IterInv, AtStart
  <1>9. iter'.state # "finished" BY <1>2 DEF UsersTurn
  <1> QED BY <1>1, <1>2, <1>4, <1>6, <1>7, <1>8, <1>9, Zenon DEF IterInv

\* The iterator is taken, or given back with the pause it took.
LEMMA LifeSound ==
  ASSUME IterInv, GetSafeIterator \/ ReleaseIterator
  PROVE  IterInv'
PROOF
  <1>1. /\ iter'.state \in {"none", "ready"} /\ AtStart(iter') /\ iter'.entry = None
        /\ IsIterator(iter') /\ owed' = {} /\ seen' = {} /\ advanced' = advanced /\ ret' = ret
    BY DEF GetSafeIterator, ReleaseIterator, NoIterator, AtStart, IsIterator
  <1>2. Sound(dict') /\ dict'.pauserehash = 0
    <2>1. CASE dict' = dict /\ iter.state \in {"none", "ready"}
      BY <2>1 DEF IterInv, PausedWhileIterating
    <2>2. CASE /\ dict' = [dict EXCEPT !.pauserehash = dict.pauserehash - 1]
               /\ iter.state \in {"iterating", "finished"}
      <3>1. dict.pauserehash = 1 BY <2>2 DEF IterInv, PausedWhileIterating
      <3>2. dict' = [dict EXCEPT !.pauserehash = 0] BY <2>2, <3>1
      <3> QED BY <3>2, PauseSound DEF IterInv
    <2>3. iter.state \in {"none", "ready", "iterating", "finished"} BY Zenon DEF IterInv, IteratorOK
    <2> QED BY <2>1, <2>2, <2>3 DEF GetSafeIterator, ReleaseIterator
  <1>3. TypeOK' BY <1>1, <1>2, Zenon DEF IterInv, IteratorOK, TypeOK, Sound
  <1>4. IteratorOK' BY <1>1, <1>3, Zenon DEF IterInv, IteratorOK, AtStart
  <1>5. PausedWhileIterating' BY <1>1, <1>2 DEF PausedWhileIterating
  <1> QED BY <1>1, <1>2, <1>4, <1>5, Zenon DEF IterInv

\* A step of the user on the dict, apart from a deletion.
LEMMA UserSteps ==
  ASSUME IterInv, UsersTurn,
         \/ \E k \in Key : \E v \in Stored[k] : UserAdds(k, v)
         \/ UserFinds
         \/ \E n \in Size : UserExpands(n)
  PROVE  IterInv'
PROOF
  <1> DEFINE R == {"create", "add", "replace", "delete"} \X {0, 1}
  <1>0. Sound(dict) /\ ret \in R /\ \A k \in Key : Stored[k] \subseteq Val
    BY DictAssumption, Zenon DEF IterInv, IteratorOK, TypeOK
  <1>1. ASSUME NEW k \in Key, NEW v \in Stored[k], UserAdds(k, v) PROVE IterInv'
    <2>0. v \in Val BY <1>0
    <2>1. CASE Add(k, v)
      <3>1. /\ Sound(dict') /\ dict'.pauserehash = dict.pauserehash
            /\ dict.pauserehash # 0 => Keeps(dict, dict')
        BY <1>0, <2>0, <2>1, AddEffect, Zenon DEF Add
      <3>2. ret' \in R BY <2>1, Zenon DEF Add, DICT_OK, DICT_ERR
      <3> QED BY <1>1, <3>1, <3>2, UserSound, Zenon DEF UserAdds
    <2>2. CASE Replace(k, v)
      <3>1. /\ Sound(dict') /\ dict'.pauserehash = dict.pauserehash
            /\ dict.pauserehash # 0 => Keeps(dict, dict')
        BY <1>0, <2>0, <2>2, ReplaceEffect, Zenon DEF Replace
      <3>2. ret' \in R BY <2>2 DEF Replace
      <3> QED BY <1>1, <3>1, <3>2, UserSound, Zenon DEF UserAdds
    <2> QED BY <1>1, <2>1, <2>2 DEF UserAdds
  <1>2. ASSUME UserFinds PROVE IterInv'
    <2>1. /\ Sound(dict') /\ dict'.pauserehash = dict.pauserehash
          /\ dict.pauserehash # 0 => dict' = dict
      BY <1>0, <1>2, RehashSound, Zenon DEF UserFinds, Find
    <2>2. Keeps(dict, dict) BY DEF Keeps
    <2>3. ret' \in R BY <1>0, <1>2 DEF UserFinds, Find
    <2> QED BY <1>2, <2>1, <2>2, <2>3, UserSound DEF UserFinds
  <1>3. ASSUME NEW n \in Size, UserExpands(n) PROVE IterInv'
    <2>1. n \in Nat /\ \E s \in Size : s >= n BY DictAssumption
    <2>2. Sound(dict') /\ dict'.pauserehash = dict.pauserehash /\ Keeps(dict, dict')
      BY <1>0, <1>3, <2>1, ExpandSound, Zenon DEF UserExpands, Expand
    <2>3. ret' \in R BY <1>0, <1>3 DEF UserExpands, Expand
    <2> QED BY <1>3, <2>2, <2>3, UserSound DEF UserExpands
  <1> QED BY <1>1, <1>2, <1>3, Zenon

\* A step of the iterator is no step of the map, a step of the user is one.
LEMMA SafeStepOfMap ==
  ASSUME IterInv, [SafeNext]_allvars
  PROVE  Abstract!Next \/ UNCHANGED Abstract!vars
PROOF
  <1>1. Sound(dict) BY DEF IterInv
  <1>2. DictState(dict) BY <1>1 DEF Sound
  <1>3. CASE Iterate
    <2>1. ret' = ret
      BY <1>3, Zenon DEF Iterate, GetSafeIterator, NextInChain, NextBucketOf, NextNull, ReleaseIterator, Return
    <2>2. dict' = dict \/ \E n : dict' = [dict EXCEPT !.pauserehash = n]
      BY <1>3, Zenon DEF Iterate, GetSafeIterator, NextInChain, NextBucketOf, NextNull, ReleaseIterator,
                  Return, Paused
    <2>3. dict'.val = dict.val BY <1>2, <2>2, Zenon DEF DictState
    <2> QED BY <2>1, <2>3 DEF Abstract!vars
  <1>4. CASE \E k \in Key : UserDeletes(k)
    <2>1. Next BY <1>4 DEF Next, UserDeletes
    <2> QED BY <1>1, <2>1, StepOfMap
  <1>5. CASE \E k \in Key : \E v \in Stored[k] : UserAdds(k, v)
    <2>1. Next BY <1>5 DEF Next, UserAdds
    <2> QED BY <1>1, <2>1, StepOfMap
  <1>6. CASE UserFinds \/ \E n \in Size : UserExpands(n)
    <2>1. Next BY <1>6 DEF Next, UserFinds, UserExpands
    <2> QED BY <1>1, <2>1, StepOfMap
  <1>7. CASE UNCHANGED allvars BY <1>7 DEF allvars, Abstract!vars
  <1> QED BY <1>3, <1>4, <1>5, <1>6, <1>7 DEF SafeNext

-----------------------------------------------------------------------------
(* The theorems                                                            *)

\* Whatever the user adds, finds, expands or deletes between two calls of
\* dictNext, what has been returned is behind the iterator and what is owed is
\* ahead of it.
THEOREM IterInvHolds == SafeSpec => []IterInv
PROOF
  <1>1. IterInit => IterInv
    <2> SUFFICES ASSUME IterInit PROVE IterInv OBVIOUS
    <2>1. Sound(dict) /\ dict.pauserehash = 0 BY EmptySound, Zenon DEF IterInit, Init, EmptyDict
    <2>2. TypeOK BY <2>1 DEF IterInit, Init, TypeOK, Sound, DICT_OK
    <2> QED BY <2>1, <2>2, Zenon DEF IterInit, IterInv, IsIterator, NoIterator, IteratorOK,
                              PausedWhileIterating, AtStart
  <1>2. IterInv /\ [SafeNext]_allvars => IterInv'
    <2> SUFFICES ASSUME IterInv, [SafeNext]_allvars PROVE IterInv' OBVIOUS
    <2>1. CASE NextInChain \/ NextBucketOf BY <2>1, NextSound
    <2>2. CASE NextNull BY <2>2, NullSound
    <2>3. CASE GetSafeIterator \/ ReleaseIterator BY <2>3, LifeSound
    <2>4. CASE UsersTurn /\ \E k \in Key : UserDeletes(k) BY <2>4, DeletesSound
    <2>5. CASE /\ UsersTurn
               /\ \/ \E k \in Key : \E v \in Stored[k] : UserAdds(k, v)
                  \/ UserFinds
                  \/ \E n \in Size : UserExpands(n)
      BY <2>5, UserSteps, Zenon
    <2>6. CASE UNCHANGED allvars
      <3>1. dict' = dict /\ ret' = ret /\ iter' = iter /\ advanced' = advanced
            /\ owed' = owed /\ seen' = seen
        BY <2>6 DEF allvars
      <3> QED BY <3>1, Zenon DEF IterInv, IteratorOK, TypeOK, PausedWhileIterating
    <2> QED BY <2>1, <2>2, <2>3, <2>4, <2>5, <2>6, Zenon DEF SafeNext, Iterate
  <1> QED BY <1>1, <1>2, PTL DEF SafeSpec

\* A safe iteration misses no entry that is in the dict from the first dictNext
\* on, although the user may add entries and start a resize meanwhile, and
\* dictReleaseIterator gives back exactly the pause dictNext took.
THEOREM SafeIteratorSound == SafeSpec => []IteratorSound
PROOF
  <1>1. IterInv => IteratorSound BY DEF IterInv, IterationComplete, IteratorSound
  <1> QED BY <1>1, IterInvHolds, PTL

\* dictNext returns no entry twice.
THEOREM SafeReturnedOnce == SafeSpec => ReturnedOnce
PROOF
  <1>1. IterInv /\ [SafeNext]_allvars => [NextInChain \/ NextBucketOf => iter'.entry \notin seen]_allvars
    BY NextSound
  <1> QED BY <1>1, IterInvHolds, PTL DEF SafeSpec, ReturnedOnce

\* Iterating disturbs none of the invariants of the tables.
THEOREM SafeDictSound == SafeSpec => []TablesSound
PROOF
  <1>1. IterInv => DictInv BY Zenon DEF IterInv, DictInv, IteratorOK, TypeOK
  <1>2. IterInv => TablesSound BY <1>1, DictInvMeans
  <1> QED BY <1>2, IterInvHolds, PTL

\* A dict with an iterator over it is still the map of dict.h.
THEOREM SafeImplementsMap == SafeSpec => ImplementsMap
PROOF
  <1>1. IterInit => Abstract!Init
    BY DEF IterInit, Init, EmptyDict, Abstract!Init, DICT_OK, Abstract!DICT_OK
  <1>2. IterInv /\ [SafeNext]_allvars => [Abstract!Next]_(Abstract!vars) BY SafeStepOfMap
  <1> QED BY <1>1, <1>2, IterInvHolds, PTL DEF SafeSpec, ImplementsMap, Abstract!Spec

-----------------------------------------------------------------------------
(* A resize keeps pace with the insertions.  Every insertion during a      *)
(* resize comes with a step that advances rehashidx, so that rehashidx     *)
(* counts them; the second table has twice the buckets of the first.       *)

Pace(d) ==
  IF dictIsRehashing(d)
  THEN /\ d.rehashidx < d.size[0] /\ 2 * d.size[0] <= d.size[1]
       /\ dictSize(d) <= d.size[0] + 1 + d.rehashidx
  ELSE d.used[0] <= d.size[0]

\* Pace, with room for one more entry.
Roomy(d) ==
  IF dictIsRehashing(d)
  THEN /\ d.rehashidx < d.size[0] /\ 2 * d.size[0] <= d.size[1]
       /\ dictSize(d) <= d.size[0] + d.rehashidx
  ELSE d.used[0] < d.size[0]

\* The counters and sizes of a sound dict are numbers.
LEMMA Counters ==
  ASSUME NEW d, Sound(d)
  PROVE  /\ d.used[0] \in Nat /\ d.used[1] \in Nat /\ d.size[0] \in Nat /\ d.size[1] \in Nat
         /\ d.rehashidx \in Nat \cup {-1}
         /\ ~ dictIsRehashing(d) => d.used[1] = 0
PROOF
  <1>1. /\ d.used[0] \in Nat /\ d.used[1] \in Nat /\ d.size[0] \in Nat /\ d.size[1] \in Nat
        /\ d.rehashidx \in Nat \cup {-1}
    BY DictAssumption DEF Sound, DictState
  <1>2. ASSUME ~ dictIsRehashing(d) PROVE d.used[1] = 0
    <2>1. d.size[1] = 0 BY <1>2 DEF Sound, Resizing
    <2>2. KeysOf(d, 1) = {} BY <2>1 DEF KeysOf
    <2> QED BY <2>2, FS_EmptySet DEF Sound, Counted
  <1> QED BY <1>1, <1>2, Zenon

\* The end of a resize: what was counted against the second table is now in the first.
LEMMA SwapPace ==
  ASSUME NEW d, Sound(d), dictIsRehashing(d), dictSize(d) <= d.size[1], d.used[0] = 0
  PROVE  Pace(SwapTables(d)) /\ ~ dictIsRehashing(SwapTables(d))
PROOF
  <1>1. DictState(d) BY DEF Sound
  <1>2. SwapTables(d).rehashidx = -1 BY <1>1, Zenon DEF DictState, SwapTables
  <1>3. SwapTables(d).size[0] = d.size[1] BY <1>1 DEF DictState, SwapTables
  <1>4. SwapTables(d).used[0] = d.used[1] BY <1>1, Zenon DEF DictState, SwapTables
  <1>5. d.used[1] <= d.size[1] BY Counters DEF dictSize
  <1> QED BY <1>2, <1>3, <1>4, <1>5, Zenon DEF Pace, dictIsRehashing

\* What the step of an operation leaves has room for the operation's insertion.
LEMMA StepPace ==
  ASSUME NEW d, Sound(d), Pace(d), d.pauserehash = 0
  PROVE  LET r == dictRehashStep(d)
         IN  Pace(r) /\ (dictIsRehashing(r) => dictSize(r) <= r.size[0] + r.rehashidx)
PROOF
  <1>0. /\ d.used[0] \in Nat /\ d.used[1] \in Nat /\ d.size[0] \in Nat /\ d.size[1] \in Nat
        /\ d.rehashidx \in Nat \cup {-1} /\ DictState(d)
    BY Counters, Zenon DEF Sound
  <1>1. CASE ~ dictIsRehashing(d) BY <1>1 DEF dictRehashStep
  <1>2. CASE dictIsRehashing(d)
    <2>1. dictRehashStep(d) = dictRehash(d) BY <1>2 DEF dictRehashStep
    <2>2. /\ d.rehashidx \in Nat /\ d.rehashidx < d.size[0] /\ 2 * d.size[0] <= d.size[1]
          /\ dictSize(d) <= d.size[0] + 1 + d.rehashidx /\ dictSize(d) \in Nat
      BY <1>0, <1>2 DEF Pace, dictIsRehashing, dictSize
    <2>3. dictSize(d) <= d.size[1] BY <1>0, <2>2
    <2>4. CASE d.used[0] = 0
      <3>1. dictRehashStep(d) = SwapTables(d) BY <2>1, <2>4, Zenon DEF dictRehash
      <3> QED BY <1>2, <2>3, <2>4, <3>1, SwapPace, Zenon
    <2>5. CASE d.used[0] # 0 /\ NextBucket(d) - d.rehashidx >= EmptyVisits
      <3> DEFINE e == [d EXCEPT !.rehashidx = @ + EmptyVisits]
      <3>1. dictRehashStep(d) = e BY <2>1, <2>5 DEF dictRehash
      <3>2. e.size = d.size /\ e.used = d.used /\ e.rehashidx = d.rehashidx + EmptyVisits
        BY <1>0, Zenon DEF DictState
      <3> HIDE DEF e
      <3>3. EmptyVisits \in Nat /\ EmptyVisits >= 1 BY DictAssumption
      <3>4. NextBucket(d) \in d.rehashidx .. d.size[0] - 1 BY <1>2, <2>5, NextBucketExists, Zenon
      <3>5. NextBucket(d) \in Int /\ e.rehashidx < d.size[0] /\ e.rehashidx >= d.rehashidx + 1
        BY <1>0, <2>2, <2>5, <3>2, <3>3, <3>4, SMTT(30)
      <3>6. dictSize(e) = dictSize(d) BY <3>2 DEF dictSize
      <3>7. e.rehashidx \in Nat BY <2>2, <3>2, <3>3
      <3> QED BY <1>0, <2>2, <3>1, <3>2, <3>5, <3>6, <3>7, SMTT(30) DEF Pace, dictIsRehashing
    <2>6. CASE d.used[0] # 0 /\ ~ (NextBucket(d) - d.rehashidx >= EmptyVisits)
      <3> DEFINE i == NextBucket(d)
                 m == MoveBucket(d, i)
      <3>1. i \in d.rehashidx .. d.size[0] - 1 /\ \A j \in d.rehashidx .. i - 1 : d.table[0][j] = {}
        BY <1>2, <2>6, NextBucketExists, Zenon
      <3> HIDE DEF i
      <3>2. i \in 0 .. d.size[0] - 1 /\ \A j \in 0 .. d.size[0] - 1 : j < i => d.table[0][j] = {}
        <4>1. \A j \in 0 .. d.size[0] - 1 : j < d.rehashidx => d.table[0][j] = {}
          BY <1>2, Zenon DEF Sound, Resizing
        <4> QED BY <1>0, <2>2, <3>1, <4>1, SMTT(30)
      <3>3. Sound(m) /\ dictIsRehashing(m) BY <1>2, <3>2, MoveSound, Zenon
      <3>4. m.size = d.size /\ m.rehashidx = i + 1 BY <1>0, Zenon DEF DictState, MoveBucket
      <3>5. dictSize(m) = dictSize(d)
        <4> DEFINE n == Cardinality(d.table[0][i])
        <4>1. n \in Nat
          <5>1. d.table[0][i] \subseteq Key BY <1>0, <3>2, Zenon DEF DictState
          <5> QED BY <5>1, FS_Subset, FS_CardinalityType, DictAssumption, Zenon
        <4>2. m.used = [t \in {0, 1} |-> IF t = 0 THEN d.used[0] - n ELSE d.used[1] + n]
          BY <1>0, MoveCounts
        <4> HIDE DEF n, m
        <4> QED BY <1>0, <4>1, <4>2 DEF dictSize
      <3>6. dictRehashStep(d) = IF m.used[0] = 0 THEN SwapTables(m) ELSE m
        BY <2>1, <2>6, Zenon DEF dictRehash, RehashEnd, i
      <3> HIDE DEF m
      <3>7. CASE m.used[0] = 0
        BY <2>3, <3>3, <3>4, <3>5, <3>6, <3>7, SwapPace, Zenon
      <3>8. CASE m.used[0] # 0
        <4>1. NextBucket(m) \in m.rehashidx .. m.size[0] - 1 BY <3>3, <3>8, NextBucketExists, Zenon
        <4>2. m.rehashidx < m.size[0] BY <1>0, <3>2, <3>4, <4>1, SMTT(30)
        <4>3. dictSize(m) <= m.size[0] + m.rehashidx BY <1>0, <2>2, <3>1, <3>4, <3>5, SMTT(30)
        <4>4. dictSize(m) <= m.size[0] + 1 + m.rehashidx BY <1>0, <2>2, <3>1, <3>4, <3>5, SMTT(30)
        <4> QED BY <2>2, <3>3, <3>4, <3>6, <3>8, <4>2, <4>3, <4>4, Zenon DEF Pace
      <3> QED BY <3>7, <3>8, Zenon
    <2> QED BY <2>4, <2>5, <2>6, Zenon
  <1> QED BY <1>1, <1>2, Zenon

\* The first table has room from the start.
LEMMA FirstTablePace ==
  ASSUME NEW d, Sound(d), d.size[0] = 0, NEW n \in Nat, \E s \in Size : s >= n
  PROVE  Roomy(dictExpand(d, n))
PROOF
  <1> DEFINE e == dictExpand(d, n)
             m == dictNextSize(n)
  <1>0. DictState(d) /\ ~ dictIsRehashing(d) BY DEF Sound, Resizing
  <1>1. m \in Size BY NextSizeExists
  <1> HIDE DEF m
  <1>a. m \in Nat /\ m > 0 BY <1>1, DictAssumption, SMTT(30)
  <1>2. d.used[0] = 0
    <2>1. KeysOf(d, 0) = {} BY DEF KeysOf
    <2> QED BY <2>1, FS_EmptySet DEF Sound, Counted
  <1>3. ~ dictExpandRefused(d, n) BY <1>0, <1>1, <1>a, <1>2, SMTT(30) DEF dictExpandRefused, m
  <1>4. e.size = [d.size EXCEPT ![0] = m] /\ e.used = [d.used EXCEPT ![0] = 0] /\ e.rehashidx = d.rehashidx
    BY <1>0, <1>3, Zenon DEF DictState, dictExpand, m
  <1> HIDE DEF e
  <1>5. e.size[0] = m /\ e.used[0] = 0 BY <1>0, <1>4, Zenon DEF DictState
  <1> QED BY <1>0, <1>a, <1>4, <1>5, Zenon DEF Roomy, dictIsRehashing, e

\* A resize begins when the first table is full, and doubles it at least.
LEMMA SecondTablePace ==
  ASSUME NEW d, Sound(d), Pace(d), d.size[0] # 0, NeedsExpand(d),
         \E s \in Size : s >= d.used[0] + 1
  PROVE  Roomy(dictExpand(d, d.used[0] + 1))
PROOF
  <1> DEFINE n == d.used[0] + 1
             e == dictExpand(d, n)
             m == dictNextSize(n)
  <1>0. DictState(d) /\ ~ dictIsRehashing(d) BY DEF Sound, NeedsExpand
  <1>1. d.used[0] \in Nat /\ d.size[0] \in Nat /\ d.size[0] \in Size /\ n \in Nat
    BY <1>0, Counters, SMTT(30) DEF DictState
  <1>2. d.used[0] = d.size[0] BY <1>0, <1>1 DEF Pace, NeedsExpand
  <1>3. m \in Size /\ m \in Nat /\ m >= n BY <1>1, NextSizeExists, DictAssumption, Zenon
  <1> HIDE DEF m
  <1>4. m > d.size[0] BY <1>1, <1>2, <1>3
  <1>5. 2 * d.size[0] <= m BY <1>1, <1>3, <1>4, DictAssumption, Zenon
  <1>6. ~ dictExpandRefused(d, n) BY <1>0, <1>1, <1>4, SMTT(30) DEF dictExpandRefused, m
  <1>7. e.size = [d.size EXCEPT ![1] = m] /\ e.used = [d.used EXCEPT ![1] = 0] /\ e.rehashidx = 0
    BY <1>0, <1>6, SMTT(30) DEF DictState, dictExpand, m
  <1> HIDE DEF e
  <1>8. /\ e.size[0] = d.size[0] /\ e.size[1] = m /\ e.used[0] = d.used[0] /\ e.used[1] = 0
    BY <1>0, <1>7, SMTT(30) DEF DictState
  <1>9. dictSize(e) = d.size[0] BY <1>1, <1>2, <1>8, SMTT(30) DEF dictSize
  <1>10. dictIsRehashing(e) BY <1>7 DEF dictIsRehashing
  <1> QED BY <1>1, <1>5, <1>7, <1>8, <1>9, <1>10, SMTT(30) DEF Roomy, e

\* When dictAddRaw looks for the key there is room for it.
LEMMA PreparedPace ==
  ASSUME NEW d, Sound(d), Pace(d), d.pauserehash = 0
  PROVE  Roomy(Prepared(d))
PROOF
  <1> DEFINE r == dictRehashStep(d)
  <1>1. Sound(r) BY RehashSound
  <1>2. Pace(r) /\ (dictIsRehashing(r) => dictSize(r) <= r.size[0] + r.rehashidx) BY StepPace
  <1>3. Prepared(d) = IF NeedsExpand(r) THEN dictExpand(r, ExpandTo(r)) ELSE r
    BY DEF Prepared, dictExpandIfNeeded
  <1> HIDE DEF r
  <1>4. CASE NeedsExpand(r) /\ r.size[0] = 0
    <2>1. ExpandTo(r) = dictInitialSize BY <1>4 DEF ExpandTo
    <2>2. dictInitialSize \in Size /\ dictInitialSize \in Nat /\ \E s \in Size : s >= dictInitialSize
      BY InitialSize, DictAssumption
    <2> QED BY <1>1, <1>3, <1>4, <2>1, <2>2, FirstTablePace, Zenon
  <1>5. CASE NeedsExpand(r) /\ r.size[0] # 0
    <2>1. ExpandTo(r) = r.used[0] + 1 BY <1>5 DEF ExpandTo
    <2>2. r.used[0] \in Nat /\ r.used[0] <= Cardinality(Key) /\ Cardinality(Key) \in Nat
      <3>1. r.used[0] = Cardinality(KeysOf(r, 0)) /\ KeysOf(r, 0) \in SUBSET Key
        BY <1>1, KeysAreKeys, Zenon DEF Sound, Counted
      <3> QED BY <3>1, FS_Subset, FS_CardinalityType, DictAssumption, SMTT(30)
    <2>3. \E s \in Size : s >= r.used[0] + 1
      <3>1. PICK s \in Size : s > Cardinality(Key) BY DictAssumption
      <3>2. s \in Nat BY DictAssumption, Zenon
      <3> QED BY <2>2, <3>1, <3>2, SMTT(30)
    <2> QED BY <1>1, <1>2, <1>3, <1>5, <2>1, <2>3, SecondTablePace, Zenon
  <1>6. CASE ~ NeedsExpand(r)
    <2>1. r.used[0] \in Nat /\ r.size[0] \in Nat BY <1>1, Counters
    <2> QED BY <1>2, <1>3, <1>6, <2>1, SMTT(30) DEF NeedsExpand, Pace, Roomy
  <1> QED BY <1>4, <1>5, <1>6, Zenon

\* Room for an entry is what an insertion uses up.
LEMMA InsertPace ==
  ASSUME NEW d, Sound(d), Roomy(d), NEW k \in Key, NEW v \in Val
  PROVE  Pace(d) /\ Pace(Insert(d, k, v))
PROOF
  <1> DEFINE e == Insert(d, k, v)
             t == IF dictIsRehashing(d) THEN 1 ELSE 0
  <1>0. /\ DictState(d) /\ d.used[0] \in Nat /\ d.used[1] \in Nat /\ d.size[0] \in Nat
        /\ d.size[1] \in Nat /\ d.rehashidx \in Nat \cup {-1}
    BY Counters, Zenon DEF Sound
  <1>1. e.used = [d.used EXCEPT ![t] = d.used[t] + 1] BY <1>0, Zenon DEF DictState, Insert
  <1>2. e.size = d.size /\ e.rehashidx = d.rehashidx BY <1>0, Zenon DEF DictState, Insert
  <1> HIDE DEF e
  <1>3. CASE dictIsRehashing(d)
    <2>1. t = 1 BY <1>3, Zenon
    <2>2. e.used[0] = d.used[0] /\ e.used[1] = d.used[1] + 1 BY <1>0, <1>1, <2>1, SMTT(30) DEF DictState
    <2>3. dictSize(e) = dictSize(d) + 1 /\ dictSize(d) \in Nat BY <1>0, <2>2 DEF dictSize
    <2>4. d.rehashidx \in Nat BY <1>0, <1>3, Zenon DEF dictIsRehashing
    <2> QED BY <1>0, <1>2, <1>3, <2>3, <2>4, SMTT(30) DEF Roomy, Pace, dictIsRehashing, e
  <1>4. CASE ~ dictIsRehashing(d)
    <2>1. e.used[0] = d.used[0] + 1 BY <1>0, <1>1, <1>4, Zenon DEF DictState
    <2> QED BY <1>0, <1>2, <1>4, <2>1, SMTT(30) DEF Roomy, Pace, dictIsRehashing, e
  <1> QED BY <1>3, <1>4

\* A deletion makes room.
LEMMA UnlinkPace ==
  ASSUME NEW d, Sound(d), Pace(d), d.size[0] # 0, NEW k \in Key
  PROVE  Pace(Unlink(d, k))
PROOF
  <1> DEFINE e == Unlink(d, k)
  <1>1. Sound(e) /\ Shrinks(d, e, k) BY UnlinkSound, Zenon
  <1> HIDE DEF e
  <1>2. \A t \in {0, 1} : e.used[t] <= d.used[t]
    <2> SUFFICES ASSUME NEW t \in {0, 1} PROVE e.used[t] <= d.used[t] OBVIOUS
    <2>1. KeysOf(e, t) \subseteq KeysOf(d, t) BY <1>1 DEF Shrinks
    <2>2. IsFiniteSet(KeysOf(d, t)) BY KeysAreKeys DEF Sound
    <2>3. Cardinality(KeysOf(e, t)) <= Cardinality(KeysOf(d, t)) BY <2>1, <2>2, FS_Subset
    <2> QED BY <1>1, <2>3, Zenon DEF Sound, Counted
  <1>3. /\ d.used[0] \in Nat /\ d.used[1] \in Nat /\ e.used[0] \in Nat /\ e.used[1] \in Nat
        /\ d.size[0] \in Nat /\ d.rehashidx \in Nat \cup {-1}
    BY <1>1, Counters, Zenon
  <1>4. dictSize(e) <= dictSize(d) /\ dictSize(e) \in Nat /\ dictSize(d) \in Nat
    BY <1>2, <1>3 DEF dictSize
  <1>5. e.size = d.size /\ e.rehashidx = d.rehashidx BY <1>1 DEF Shrinks
  <1>6. e.used[0] <= d.used[0] BY <1>2
  <1> QED BY <1>3, <1>4, <1>5, <1>6, SMTT(30) DEF Pace, dictIsRehashing, e

\* The operations that a dict which is not paused is used with.
LEMMA OperationsPace ==
  ASSUME NEW d, Sound(d), Pace(d), d.pauserehash = 0, NEW k \in Key, NEW v \in Val
  PROVE  Pace(dictAdd(d, k, v)) /\ Pace(dictReplace(d, k, v))
PROOF
  <1> DEFINE p == Prepared(d)
             q == [p EXCEPT !.val[k] = v]
  <1>1. Sound(p) /\ Roomy(p) BY PreparedSound, PreparedPace
  <1>2. dictAdd(d, k, v) = IF Present(p, k) THEN p ELSE Insert(p, k, v) BY DEF dictAdd
  <1>3. dictReplace(d, k, v) = IF Present(p, k) THEN q ELSE Insert(p, k, v) BY DEF dictReplace
  <1>4. q.size = p.size /\ q.used = p.used /\ q.rehashidx = p.rehashidx
    <2> HIDE DEF p
    <2> QED BY <1>1, Zenon DEF Sound, DictState
  <1> HIDE DEF p, q
  <1>5. Pace(p) /\ Pace(Insert(p, k, v)) BY <1>1, InsertPace
  <1>6. Pace(q) BY <1>4, <1>5, Zenon DEF Pace, dictIsRehashing, dictSize
  <1> QED BY <1>2, <1>3, <1>5, <1>6, Zenon

\* dictDelete does one step of the rehash and takes an entry out.
LEMMA DeletePace ==
  ASSUME NEW d, Sound(d), Pace(d), d.pauserehash = 0, NEW k \in Key
  PROVE  Pace(dictDelete(d, k))
PROOF
  <1> DEFINE r == dictRehashStep(d)
  <1>1. Sound(r) /\ Pace(r) /\ (d.size[0] # 0 => r.size[0] # 0) BY RehashSound, StepPace, Zenon
  <1>2. dictDelete(d, k) = IF dictSize(d) = 0 THEN d ELSE Unlink(r, k) BY DEF dictDelete
  <1> HIDE DEF r
  <1>3. dictSize(d) # 0 => d.size[0] # 0
    <2>1. SUFFICES ASSUME d.size[0] = 0 PROVE dictSize(d) = 0 OBVIOUS
    <2>2. d.size[1] = 0 BY <2>1 DEF Sound, Resizing
    <2>3. KeysOf(d, 0) = {} /\ KeysOf(d, 1) = {} BY <2>1, <2>2 DEF KeysOf
    <2>4. d.used[0] = 0 /\ d.used[1] = 0 BY <2>3, FS_EmptySet, Zenon DEF Sound, Counted
    <2> QED BY <2>4 DEF dictSize
  <1>4. dictSize(d) # 0 => Pace(Unlink(r, k)) BY <1>1, <1>3, UnlinkPace, Zenon
  <1> QED BY <1>2, <1>4

\* What the user does before any iterator pauses the dict keeps the pace.
LEMMA UserPace ==
  ASSUME IterInv, Pace(dict), dict.pauserehash = 0,
         \/ \E k \in Key : UserDeletes(k) \/ \E v \in Stored[k] : UserAdds(k, v)
         \/ UserFinds
         \/ \E n \in Size : UserExpands(n)
  PROVE  Pace(dict')
PROOF
  <1>0. Sound(dict) BY DEF IterInv
  <1>1. ASSUME NEW k \in Key, NEW v \in Stored[k], UserAdds(k, v) PROVE Pace(dict')
    <2>1. v \in Val BY DictAssumption
    <2>2. Pace(dictAdd(dict, k, v)) /\ Pace(dictReplace(dict, k, v)) BY <1>0, <2>1, OperationsPace, Zenon
    <2> QED BY <1>1, <2>2, Zenon DEF UserAdds, Add, Replace
  <1>2. ASSUME NEW k \in Key, UserDeletes(k) PROVE Pace(dict')
    <2>1. Pace(dictDelete(dict, k)) BY <1>0, DeletePace
    <2> QED BY <1>2, <2>1, Zenon DEF UserDeletes, Delete
  <1>3. ASSUME UserFinds PROVE Pace(dict')
    BY <1>0, <1>3, StepPace, Zenon DEF UserFinds, Find
  <1>4. ASSUME NEW n \in Size, UserExpands(n) PROVE Pace(dict')
    <2>1. n \in Nat /\ \E s \in Size : s >= n BY DictAssumption
    <2>2. dict = EmptyDict /\ dict' = dictExpand(dict, n) BY <1>4 DEF UserExpands, Expand
    <2>3. dict.size[0] = 0 BY <2>2, EmptyFields, Zenon
    <2>4. Sound(dict') BY <1>0, <2>1, <2>2, ExpandSound, Zenon
    <2>5. Roomy(dict') BY <1>0, <2>1, <2>2, <2>3, FirstTablePace, Zenon
    <2>6. /\ dict'.used[0] \in Nat /\ dict'.size[0] \in Nat /\ dict'.used[1] \in Nat
          /\ dict'.rehashidx \in Nat \cup {-1}
      BY <2>4, Counters, Zenon
    <2>7. dictSize(dict') \in Nat BY <2>6 DEF dictSize
    <2> QED BY <2>5, <2>6, <2>7 DEF Roomy, Pace, dictIsRehashing
  <1> QED BY <1>1, <1>2, <1>3, <1>4, Zenon

\* As long as no iterator has been advanced the resize is not paused and keeps
\* the pace.
PaceInv ==
  /\ ~ advanced => Pace(dict)
  /\ iter.state \in {"iterating", "finished"} => advanced

\* No step of the iterator or of its user loses the pace.
LEMMA NextPace ==
  ASSUME IterInv, PaceInv, [SafeNext]_allvars
  PROVE  PaceInv'
PROOF
  <1>1. CASE NextInChain \/ NextBucketOf \/ NextNull
    <2>1. advanced' = TRUE BY <1>1, Zenon DEF NextInChain, NextBucketOf, NextNull, Return
    <2> QED BY <2>1 DEF PaceInv
  <1>2. CASE GetSafeIterator \/ ReleaseIterator
    <2>1. iter'.state \in {"none", "ready"} /\ advanced' = advanced
      BY <1>2 DEF GetSafeIterator, ReleaseIterator, NoIterator
    <2>2. ~ advanced => dict' = dict
      <3>1. iter.state \in {"none", "ready", "iterating", "finished"} BY Zenon DEF IterInv, IteratorOK
      <3> QED BY <1>2, <3>1 DEF PaceInv, GetSafeIterator, ReleaseIterator
    <2> QED BY <2>1, <2>2 DEF PaceInv
  <1>3. CASE /\ UsersTurn
             /\ \/ \E k \in Key : UserDeletes(k) \/ \E v \in Stored[k] : UserAdds(k, v)
                \/ UserFinds
                \/ \E n \in Size : UserExpands(n)
    <2>1. advanced' = advanced /\ iter'.state = iter.state
      BY <1>3, Zenon DEF UserDeletes, UserAdds, UserFinds, UserExpands, ivars, IterInv, IsIterator
    <2>2. ~ advanced => dict.pauserehash = 0 BY DEF PaceInv, IterInv, PausedWhileIterating
    <2>3. ~ advanced => Pace(dict') BY <1>3, <2>2, UserPace, Zenon DEF PaceInv
    <2> QED BY <2>1, <2>3 DEF PaceInv
  <1>4. CASE UNCHANGED allvars BY <1>4 DEF allvars, PaceInv
  <1> QED BY <1>1, <1>2, <1>3, <1>4, Zenon DEF SafeNext, Iterate

\* Although each operation moves one bucket only, a resize that nobody pauses
\* never has more entries than the table it fills has buckets: it is over
\* before the next one could be due, whatever the order of the operations.
THEOREM SafeLoadBounded == SafeSpec => []LoadBounded
PROOF
  <1>1. IterInit => PaceInv
    BY DEF IterInit, Init, EmptyDict, NoIterator, PaceInv, Pace, dictIsRehashing
  <1>2. IterInv /\ PaceInv /\ [SafeNext]_allvars => PaceInv' BY NextPace
  <1>3. IterInv /\ PaceInv => LoadBounded
    <2> SUFFICES ASSUME IterInv, PaceInv, ~ advanced, dictIsRehashing(dict)
                 PROVE  dictSize(dict) <= dict.size[1]
      BY DEF LoadBounded
    <2>1. Sound(dict) /\ Pace(dict) BY DEF IterInv, PaceInv
    <2>2. /\ dict.size[0] \in Nat /\ dict.size[1] \in Nat /\ dict.used[0] \in Nat
          /\ dict.used[1] \in Nat /\ dict.rehashidx \in Nat \cup {-1}
      BY <2>1, Counters, Zenon
    <2>3. dictSize(dict) \in Nat BY <2>2 DEF dictSize
    <2> QED BY <2>1, <2>2, <2>3, SMTT(30) DEF Pace
  <1> QED BY <1>1, <1>2, <1>3, IterInvHolds, PTL DEF SafeSpec
=============================================================================
