---------------------------- MODULE DictProofs ----------------------------
(***************************************************************************)
(* Proofs about Dict, for every finite set of keys, every hash function,   *)
(* every set of table sizes that is large enough and every number of empty *)
(* buckets a step may skip: the invariants of the two tables, and that     *)
(* dict.c implements the map of dict.h.                                    *)
(***************************************************************************)
EXTENDS Dict, FiniteSetTheorems, WellFoundedInduction, TLAPS

\* Every entry is in the bucket its hash selects.
InPlace(d) ==
  \A t \in {0, 1} : \A i \in 0 .. d.size[t] - 1 : \A k \in d.table[t][i] : Index(d, t, k) = i

\* A key has an entry in one table at most, and exactly when it has a value.
OneEntry(d) ==
  /\ KeysOf(d, 0) \cap KeysOf(d, 1) = {}
  /\ KeysOf(d, 0) \cup KeysOf(d, 1) = {k \in Key : d.val[k] # None}

Counted(d) == \A t \in {0, 1} : d.used[t] = Cardinality(KeysOf(d, t))

\* There is a second table during a resize only, and the buckets of the first
\* one up to rehashidx are empty by then.
Resizing(d) ==
  IF dictIsRehashing(d)
  THEN /\ d.size[0] # 0 /\ d.size[1] # 0
       /\ \A i \in 0 .. d.size[0] - 1 : i < d.rehashidx => d.table[0][i] = {}
  ELSE d.size[1] = 0

\* The inductive invariant, of any dict an operation starts from or leaves.
Sound(d) ==
  DictState(d) /\ InPlace(d) /\ OneEntry(d) /\ Counted(d) /\ Resizing(d)

\* What an operation that moves nothing leaves alone: one that may add a key, and
\* one that may remove k.
Keeps(d, e) ==
  /\ \A t \in {0, 1} : d.size[t] # 0 => e.size[t] = d.size[t]
  /\ \A t \in {0, 1} : KeysOf(d, t) \subseteq KeysOf(e, t)
  /\ dictIsRehashing(d) => dictIsRehashing(e)

Shrinks(d, e, k) ==
  /\ e.size = d.size /\ e.rehashidx = d.rehashidx
  /\ \A t \in {0, 1} : KeysOf(e, t) = KeysOf(d, t) \ {k}

DictInv == Sound(dict) /\ ret \in {"create", "add", "replace", "delete"} \X {0, 1}

-----------------------------------------------------------------------------
(* Arithmetic and sets                                                     *)

\* The least-number principle, from the strict subset order on finite sets.
LEMMA Least ==
  ASSUME NEW S \in SUBSET Nat, S # {}
  PROVE  \E m \in S : \A l \in S : m <= l
PROOF
  <1> DEFINE Below(x) == {z \in Nat : z < x}
             T == {Below(x) : x \in S}
  <1>1. T \subseteq FiniteSubsetsOf(Nat)
    <2>1. ASSUME NEW x \in S PROVE IsFiniteSet(Below(x))
      <3>1. Below(x) \in SUBSET Nat /\ x \in Nat /\ \A s \in Below(x) : s <= x
        OBVIOUS
      <3> HIDE DEF Below
      <3> QED BY <3>1, FS_BoundedSetOfNaturals, Zenon
    <2> QED BY <2>1 DEF FiniteSubsetsOf
  <1>2. T # {} BY Zenon
  <1>3. PICK D \in T : \A E \in T : ~ (<<E, D>> \in StrictSubsetOrdering(Nat))
    <2> HIDE DEF T
    <2> QED BY <1>1, <1>2, WFMin, FS_StrictSubsetOrderingWellFounded, Zenon
  <1>4. PICK m \in S : D = Below(m) OBVIOUS
  <1>5. ASSUME NEW l \in S, l < m PROVE FALSE
    <2>1. Below(l) \subseteq Below(m) /\ l \in Below(m) /\ l \notin Below(l)
      BY <1>5
    <2>2. <<Below(l), Below(m)>> \in StrictSubsetOrdering(Nat)
      <3>1. Below(l) \in SUBSET Nat /\ Below(m) \in SUBSET Nat OBVIOUS
      <3> HIDE DEF Below
      <3> QED BY <2>1, <3>1, Zenon DEF StrictSubsetOrdering
    <2> QED BY <1>3, <1>4, <2>2, Zenon
  <1> QED
    <2>1. \A l \in S : m <= l BY <1>5
    <2> QED BY <2>1

\* _dictNextExp finds a size when there is one.
LEMMA NextSizeExists ==
  ASSUME NEW n \in Nat, \E s \in Size : s >= n
  PROVE  dictNextSize(n) \in Size /\ dictNextSize(n) >= n
PROOF
  <1> DEFINE Enough == {m \in Size : m >= n}
  <1>1. Enough \in SUBSET Nat /\ Enough # {} BY DictAssumption, Zenon
  <1>2. PICK m \in Enough : \A l \in Enough : m <= l
    <2> HIDE DEF Enough
    <2> QED BY <1>1, Least
  <1>3. m \in Size /\ m >= n /\ \A l \in Size : l >= n => m <= l BY <1>2
  <1> QED BY <1>3 DEF dictNextSize

\* The initial size is one of the sizes.
LEMMA InitialSize == dictInitialSize \in Size
PROOF
  <1>1. Size \in SUBSET Nat /\ Size # {} BY DictAssumption
  <1>2. PICK m \in Size : \A l \in Size : m <= l BY <1>1, Least
  <1> QED BY <1>2 DEF dictInitialSize

\* The bucket of a key is in the table.
LEMMA IndexInTable ==
  ASSUME NEW n \in Size, NEW k \in Key
  PROVE  Hash[k] % n \in 0 .. n - 1
PROOF
  <1>1. Hash[k] \in Nat /\ n \in Nat /\ n > 0 BY DictAssumption
  <1> QED BY <1>1

-----------------------------------------------------------------------------
(* Tables                                                                  *)

IsDict(d) ==
  /\ DOMAIN d = {"table", "size", "used", "rehashidx", "pauserehash", "val"}
  /\ d = [x \in DOMAIN d |-> d[x]]

\* A dict is the record of its fields.
LEMMA DictFields ==
  ASSUME NEW d, IsDict(d)
  PROVE  d = [table |-> d.table, size |-> d.size, used |-> d.used,
              rehashidx |-> d.rehashidx, pauserehash |-> d.pauserehash, val |-> d.val]
  BY DEF IsDict

\* The keys of a table are those in the bucket their hash selects.
LEMMA KeyInTable ==
  ASSUME NEW d, DictState(d), InPlace(d), NEW t \in {0, 1}, NEW k \in Key
  PROVE  k \in KeysOf(d, t) <=> d.size[t] # 0 /\ Holds(d, t, k)
PROOF
  <1>1. d.size[t] \in Size \cup {0} BY Zenon DEF DictState
  <1>2. d.size[t] # 0 => Index(d, t, k) \in 0 .. d.size[t] - 1
    BY <1>1, IndexInTable, Zenon DEF Index
  <1>3. ASSUME k \in KeysOf(d, t) PROVE d.size[t] # 0 /\ Holds(d, t, k)
    <2>1. PICK i \in 0 .. d.size[t] - 1 : k \in d.table[t][i] BY <1>3, Zenon DEF KeysOf
    <2>2. Index(d, t, k) = i BY <2>1, Zenon DEF InPlace
    <2>3. d.size[t] # 0 BY <1>1, <2>1, DictAssumption
    <2> QED BY <2>1, <2>2, <2>3, Zenon DEF Holds
  <1>4. ASSUME d.size[t] # 0, Holds(d, t, k) PROVE k \in KeysOf(d, t)
    BY <1>2, <1>4, Zenon DEF Holds, KeysOf
  <1> QED BY <1>3, <1>4, Zenon

\* What the tables hold are keys, finitely many.
LEMMA KeysAreKeys ==
  ASSUME NEW d, DictState(d), NEW t \in {0, 1}
  PROVE  KeysOf(d, t) \subseteq Key /\ IsFiniteSet(KeysOf(d, t))
PROOF
  <1>1. ASSUME NEW i \in 0 .. d.size[t] - 1 PROVE d.table[t][i] \subseteq Key
    BY Zenon DEF DictState
  <1>2. KeysOf(d, t) \subseteq Key BY <1>1, Zenon DEF KeysOf
  <1> QED BY <1>2, FS_Subset, DictAssumption, Zenon

\* What a lookup finds.
LEMMA PresentIffValue ==
  ASSUME NEW d, Sound(d), d.size[0] # 0, NEW k \in Key
  PROVE  Present(d, k) <=> d.val[k] # None
PROOF
  <1>1. d.val[k] # None <=> k \in KeysOf(d, 0) \/ k \in KeysOf(d, 1)
    BY Zenon DEF Sound, OneEntry
  <1>2. k \in KeysOf(d, 0) <=> Holds(d, 0, k) BY KeyInTable, Zenon DEF Sound
  <1>3. k \in KeysOf(d, 1) <=> d.size[1] # 0 /\ Holds(d, 1, k) BY KeyInTable, Zenon DEF Sound
  <1>4. CASE dictIsRehashing(d)
    <2>1. d.size[1] # 0 /\ Searched(d) = {0, 1} BY <1>4, Zenon DEF Sound, Resizing, Searched
    <2> QED BY <1>1, <1>2, <1>3, <2>1, Zenon DEF Present
  <1>5. CASE ~ dictIsRehashing(d)
    <2>1. d.size[1] = 0 /\ Searched(d) = {0} BY <1>5, Zenon DEF Sound, Resizing, Searched
    <2> QED BY <1>1, <1>2, <1>3, <2>1, Zenon DEF Present
  <1> QED BY <1>4, <1>5, Zenon

-----------------------------------------------------------------------------
(* Rehashing                                                               *)

\* The end of a resize: the second table becomes the first.
LEMMA SwapSound ==
  ASSUME NEW d, Sound(d), dictIsRehashing(d), d.used[0] = 0
  PROVE  LET e == SwapTables(d)
         IN  Sound(e) /\ e.val = d.val /\ e.pauserehash = d.pauserehash /\ e.size[0] # 0
PROOF
  <1> DEFINE e == SwapTables(d)
  <1>1. e = [table |-> [t \in {0, 1} |-> IF t = 0 THEN d.table[1] ELSE NoTable],
                size |-> [t \in {0, 1} |-> IF t = 0 THEN d.size[1] ELSE 0],
                used |-> [t \in {0, 1} |-> IF t = 0 THEN d.used[1] ELSE 0],
                rehashidx |-> -1, pauserehash |-> d.pauserehash, val |-> d.val]
    <2>1. DictState(d) BY DEF Sound
    <2>2. e.table = [t \in {0, 1} |-> IF t = 0 THEN d.table[1] ELSE NoTable] BY <2>1 DEF DictState, SwapTables
    <2>3. e.size = [t \in {0, 1} |-> IF t = 0 THEN d.size[1] ELSE 0] BY <2>1 DEF DictState, SwapTables
    <2>4. e.used = [t \in {0, 1} |-> IF t = 0 THEN d.used[1] ELSE 0] BY <2>1, Zenon DEF DictState, SwapTables
    <2>5. e.rehashidx = -1 /\ e.pauserehash = d.pauserehash /\ e.val = d.val BY <2>1, Zenon DEF DictState, SwapTables
    <2>6. IsDict(e) BY <2>1, ZenonT(40) DEF DictState, IsDict, SwapTables
    <2> QED BY <2>2, <2>3, <2>4, <2>5, <2>6, DictFields, Zenon
  <1> HIDE DEF e
  <1>2. DictState(e) BY <1>1 DEF Sound, DictState, NoTable
  <1>3. KeysOf(e, 0) = KeysOf(d, 1) BY <1>1 DEF KeysOf
  <1>4. KeysOf(e, 1) = {} BY <1>1 DEF KeysOf
  <1>5. KeysOf(d, 0) = {} BY FS_EmptySet, KeysAreKeys, Zenon DEF Sound, Counted
  <1>6. InPlace(e) BY <1>1 DEF Sound, InPlace, Index
  <1>7. OneEntry(e) BY <1>1, <1>3, <1>4, <1>5, Zenon DEF Sound, OneEntry
  <1>8. Counted(e) BY <1>1, <1>3, <1>4, FS_EmptySet, SMTT(30) DEF Sound, Counted
  <1>9. Resizing(e) /\ e.size[0] # 0 BY <1>1 DEF Sound, Resizing, dictIsRehashing
  <1> QED BY <1>1, <1>2, <1>6, <1>7, <1>8, <1>9 DEF Sound, e

\* What a bucket that moves takes from one count it adds to the other.
LEMMA MoveCounts ==
  ASSUME NEW d, DictState(d), NEW i
  PROVE  LET n == Cardinality(d.table[0][i])
         IN  MoveBucket(d, i).used = [t \in {0, 1} |-> IF t = 0 THEN d.used[0] - n ELSE d.used[1] + n]
PROOF BY DEF DictState, MoveBucket

\* The bucket i of the first table, the first that is not empty, moves to the second.
LEMMA MoveSound ==
  ASSUME NEW d, Sound(d), dictIsRehashing(d), NEW i \in 0 .. d.size[0] - 1,
         \A j \in 0 .. d.size[0] - 1 : j < i => d.table[0][j] = {}
  PROVE  LET e == MoveBucket(d, i)
         IN  /\ Sound(e) /\ e.val = d.val /\ e.pauserehash = d.pauserehash
             /\ e.size[0] # 0 /\ dictIsRehashing(e)
PROOF
  <1> DEFINE e == MoveBucket(d, i)
             moved == d.table[0][i]
             n == Cardinality(moved)
  <1>0. DictState(d) BY DEF Sound
  <1> DEFINE first == [d.table[0] EXCEPT ![i] = {}]
             second == [j \in DOMAIN d.table[1] |->
                          d.table[1][j] \cup {k \in moved : Index(d, 1, k) = j}]
  <1>a. e.table = [d.table EXCEPT ![0] = first, ![1] = second]
    BY <1>0, Zenon DEF DictState, MoveBucket
  <1>b. /\ e.table = [t \in {0, 1} |-> e.table[t]]
        /\ e.table[0] = first /\ e.table[1] = second
    <2> HIDE DEF first, second, e
    <2>1. DOMAIN d.table = {0, 1} BY <1>0, Zenon DEF DictState
    <2> QED BY <1>a, <2>1
  <1>9. /\ DOMAIN d.table[1] = 0 .. d.size[1] - 1 /\ DOMAIN d.table[0] = 0 .. d.size[0] - 1
        /\ d.table[0] = [j \in 0 .. d.size[0] - 1 |-> d.table[0][j]]
    BY <1>0, Zenon DEF DictState
  <1>1. /\ e.table[0] = [j \in 0 .. d.size[0] - 1 |-> e.table[0][j]]
        /\ e.table[1] = [j \in 0 .. d.size[1] - 1 |-> e.table[1][j]]
        /\ \A j \in 0 .. d.size[0] - 1 :
             e.table[0][j] = IF j = i THEN {} ELSE d.table[0][j]
        /\ \A j \in 0 .. d.size[1] - 1 :
             e.table[1][j] = d.table[1][j] \cup {k \in moved : Index(d, 1, k) = j}
    <2> HIDE DEF e
    <2> QED BY <1>b, <1>9, Zenon
  <1>2. /\ e.size = d.size /\ e.rehashidx = i + 1
        /\ e.pauserehash = d.pauserehash /\ e.val = d.val
    BY <1>0, Zenon DEF DictState, MoveBucket
  <1>3. e.used = [t \in {0, 1} |-> IF t = 0 THEN d.used[0] - n ELSE d.used[1] + n]
    BY <1>0, MoveCounts
  <1>4. IsDict(e) BY <1>0, ZenonT(40) DEF DictState, IsDict, MoveBucket
  <1> HIDE DEF e, first, second
  <1>5. moved \subseteq KeysOf(d, 0) /\ moved \subseteq Key
    BY <1>0, KeysAreKeys, Zenon DEF KeysOf
  <1>6. d.size[0] \in Nat \ {0} /\ d.size[1] \in Size
    BY <1>0, DictAssumption, Zenon DEF DictState, Sound, Resizing
  <1>7. \A k \in moved : Index(d, 0, k) = i BY Zenon DEF Sound, InPlace
  <1>8. \A k \in moved : Index(d, 1, k) \in 0 .. d.size[1] - 1
    BY <1>5, <1>6, IndexInTable, Zenon DEF Index
  <1>10. KeysOf(e, 0) = KeysOf(d, 0) \ moved
    <2>1. ASSUME NEW k, k \in KeysOf(e, 0) PROVE k \in KeysOf(d, 0) \ moved
      <3>1. PICK j \in 0 .. d.size[0] - 1 : k \in e.table[0][j] BY <2>1, <1>2, Zenon DEF KeysOf
      <3>2. j # i /\ k \in d.table[0][j] BY <3>1, <1>1, <1>9, Zenon
      <3>3. k \notin moved BY <3>2, <1>7, Zenon DEF Sound, InPlace
      <3> QED BY <3>2, <3>3, Zenon DEF KeysOf
    <2>2. ASSUME NEW k, k \in KeysOf(d, 0) \ moved PROVE k \in KeysOf(e, 0)
      <3>1. PICK j \in 0 .. d.size[0] - 1 : k \in d.table[0][j] BY <2>2, Zenon DEF KeysOf
      <3>2. j # i BY <3>1, <2>2, Zenon
      <3>3. k \in e.table[0][j] BY <3>1, <3>2, <1>1, <1>9, Zenon
      <3> QED BY <3>3, <1>2, Zenon DEF KeysOf
    <2> QED BY <2>1, <2>2, Zenon
  <1>11. KeysOf(e, 1) = KeysOf(d, 1) \cup moved
    <2>1. ASSUME NEW k, k \in KeysOf(e, 1) PROVE k \in KeysOf(d, 1) \cup moved
      <3>1. PICK j \in 0 .. d.size[1] - 1 : k \in e.table[1][j] BY <2>1, <1>2, Zenon DEF KeysOf
      <3>2. k \in d.table[1][j] \/ k \in moved BY <3>1, <1>1, <1>9, Zenon
      <3> QED BY <3>2, Zenon DEF KeysOf
    <2>2. ASSUME NEW k, k \in KeysOf(d, 1) PROVE k \in KeysOf(e, 1)
      <3>1. PICK j \in 0 .. d.size[1] - 1 : k \in d.table[1][j] BY <2>2, Zenon DEF KeysOf
      <3>2. k \in e.table[1][j] BY <3>1, <1>1, <1>9, Zenon
      <3> QED BY <3>2, <1>2, Zenon DEF KeysOf
    <2>3. ASSUME NEW k \in moved PROVE k \in KeysOf(e, 1)
      <3>1. k \in e.table[1][Index(d, 1, k)] BY <1>1, <1>8, <1>9, Zenon
      <3> QED BY <3>1, <1>2, <1>8, Zenon DEF KeysOf
    <2> QED BY <2>1, <2>2, <2>3, Zenon
  <1>12. InPlace(e)
    <2>1. \A k : \A t \in {0, 1} : Index(e, t, k) = Index(d, t, k) BY <1>2, Zenon DEF Index
    <2>2. ASSUME NEW j \in 0 .. d.size[0] - 1, NEW k \in e.table[0][j] PROVE Index(d, 0, k) = j
      <3>1. k \in d.table[0][j] BY <1>1, <1>9, Zenon
      <3> QED BY <3>1, Zenon DEF Sound, InPlace
    <2>3. ASSUME NEW j \in 0 .. d.size[1] - 1, NEW k \in e.table[1][j] PROVE Index(d, 1, k) = j
      <3>1. k \in d.table[1][j] \/ Index(d, 1, k) = j BY <1>1, <1>9, Zenon
      <3> QED BY <3>1, Zenon DEF Sound, InPlace
    <2> QED BY <2>1, <2>2, <2>3, <1>2 DEF InPlace
  <1>13. OneEntry(e) BY <1>2, <1>5, <1>10, <1>11, Zenon DEF Sound, OneEntry
  <1>14. Counted(e) /\ n \in Nat /\ n <= d.used[0]
    <2>1. IsFiniteSet(KeysOf(d, 0)) /\ IsFiniteSet(KeysOf(d, 1)) BY <1>0, KeysAreKeys, Zenon
    <2>2. IsFiniteSet(moved) /\ n \in Nat /\ n <= Cardinality(KeysOf(d, 0))
      BY <1>5, <2>1, FS_Subset, FS_CardinalityType, Zenon
    <2>3. KeysOf(d, 0) \cap moved = moved /\ KeysOf(d, 1) \cap moved = {}
      BY <1>5, Zenon DEF Sound, OneEntry
    <2>4. Cardinality(KeysOf(e, 0)) = Cardinality(KeysOf(d, 0)) - n
      BY <1>10, <2>1, <2>3, FS_Difference, ZenonT(40)
    <2>5. Cardinality(KeysOf(e, 1)) = Cardinality(KeysOf(d, 1)) + n - Cardinality({})
      BY <1>11, <2>1, <2>2, <2>3, FS_Union
    <2>6. Cardinality(KeysOf(d, 1)) \in Nat BY <2>1, FS_CardinalityType, Zenon
    <2>7. Cardinality(KeysOf(e, 1)) = Cardinality(KeysOf(d, 1)) + n
      BY <2>2, <2>5, <2>6, FS_EmptySet
    <2> QED BY <1>3, <2>2, <2>4, <2>7, Zenon DEF Sound, Counted
  <1>15. DictState(e)
    <2>1. e.table[0] \in [0 .. d.size[0] - 1 -> SUBSET Key]
      <3>1. ASSUME NEW j \in 0 .. d.size[0] - 1 PROVE e.table[0][j] \in SUBSET Key
        BY <1>0, <1>1, <1>9, Zenon DEF DictState
      <3> QED BY <1>1, <3>1, Zenon
    <2>2. e.table[1] \in [0 .. d.size[1] - 1 -> SUBSET Key]
      <3>1. ASSUME NEW j \in 0 .. d.size[1] - 1 PROVE e.table[1][j] \in SUBSET Key
        BY <1>0, <1>1, <1>5, <1>9, ZenonT(40) DEF DictState
      <3> QED BY <1>1, <3>1, Zenon
    <2>3. e.used \in [{0, 1} -> Nat] BY <1>0, <1>3, <1>14 DEF DictState
    <2>4. e.table = [t \in {0, 1} |-> e.table[t]] BY <1>b, Zenon
    <2> QED BY <1>0, <1>2, <1>4, <2>1, <2>2, <2>3, <2>4, DictFields DEF DictState
  <1>16. Resizing(e) /\ dictIsRehashing(e)
    <2>1. i + 1 # -1 BY <1>6
    <2>2. ASSUME NEW j \in 0 .. e.size[0] - 1, j < e.rehashidx PROVE e.table[0][j] = {}
      <3>1. j \in 0 .. d.size[0] - 1 /\ (j = i \/ j < i) BY <1>2, <1>6, <2>2
      <3> QED BY <1>1, <3>1, Zenon
    <2> QED BY <1>2, <2>1, <2>2, Zenon DEF Sound, Resizing, dictIsRehashing
  <1> QED BY <1>2, <1>6, <1>12, <1>13, <1>14, <1>15, <1>16, Zenon DEF Sound, e

\* The assertion of dictRehash and the end of its search for a bucket.
LEMMA NextBucketExists ==
  ASSUME NEW d, Sound(d), dictIsRehashing(d), d.used[0] # 0
  PROVE  /\ NextBucket(d) \in d.rehashidx .. d.size[0] - 1
         /\ d.table[0][NextBucket(d)] # {}
         /\ \A j \in d.rehashidx .. NextBucket(d) - 1 : d.table[0][j] = {}
PROOF
  <1> DEFINE Full == {i \in d.rehashidx .. d.size[0] - 1 : d.table[0][i] # {}}
  <1>1. d.rehashidx \in Nat /\ d.size[0] \in Nat
    BY DictAssumption DEF Sound, DictState, dictIsRehashing
  <1>2. KeysOf(d, 0) # {} BY FS_EmptySet, Zenon DEF Sound, Counted
  <1>3. PICK i \in 0 .. d.size[0] - 1 : d.table[0][i] # {} BY <1>2, Zenon DEF KeysOf
  <1>4. i >= d.rehashidx BY <1>1, <1>3 DEF Sound, Resizing
  <1>5. Full \in SUBSET Nat /\ Full # {} BY <1>1, <1>3, <1>4
  <1>6. PICK m \in Full : \A l \in Full : m <= l
    <2> HIDE DEF Full
    <2> QED BY <1>5, Least
  <1>7. /\ m \in d.rehashidx .. d.size[0] - 1 /\ d.table[0][m] # {}
        /\ \A j \in d.rehashidx .. m - 1 : d.table[0][j] = {}
    BY <1>1, <1>6
  <1> QED BY <1>7, Zenon DEF NextBucket

\* A step that finds only empty buckets passes over them.
LEMMA SkipSound ==
  ASSUME NEW d, Sound(d), dictIsRehashing(d), d.used[0] # 0,
         NextBucket(d) - d.rehashidx >= EmptyVisits
  PROVE  LET e == [d EXCEPT !.rehashidx = @ + EmptyVisits]
         IN  Sound(e) /\ e.val = d.val /\ e.pauserehash = d.pauserehash /\ e.size[0] # 0
PROOF
  <1> DEFINE e == [d EXCEPT !.rehashidx = @ + EmptyVisits]
             b == NextBucket(d)
  <1>0. DictState(d) BY DEF Sound
  <1>1. /\ e.table = d.table /\ e.size = d.size /\ e.used = d.used /\ e.val = d.val
        /\ e.pauserehash = d.pauserehash /\ e.rehashidx = d.rehashidx + EmptyVisits
    BY <1>0, Zenon DEF DictState
  <1>2. IsDict(e) BY <1>0, Zenon DEF DictState, IsDict
  <1> HIDE DEF e, b
  <1>3. d.rehashidx \in Nat /\ EmptyVisits \in Nat /\ b \in Nat /\ b - d.rehashidx >= EmptyVisits
    <2>1. d.rehashidx \in Nat BY <1>0, Zenon DEF DictState, dictIsRehashing
    <2>2. b \in d.rehashidx .. d.size[0] - 1 BY NextBucketExists, Zenon DEF b
    <2>3. b \in Nat BY <2>1, <2>2
    <2> QED BY <2>1, <2>3, DictAssumption, Zenon DEF b
  <1>4. DictState(e) BY <1>0, <1>1, <1>2, <1>3, DictFields DEF DictState
  <1>5. \A t \in {0, 1} : KeysOf(e, t) = KeysOf(d, t) BY <1>1 DEF KeysOf
  <1>6. InPlace(e) BY <1>1 DEF Sound, InPlace, Index
  <1>7. OneEntry(e) /\ Counted(e) BY <1>1, <1>5, Zenon DEF Sound, OneEntry, Counted
  <1>8. ASSUME NEW i \in 0 .. d.size[0] - 1, i < e.rehashidx PROVE d.table[0][i] = {}
    <2>1. CASE i < d.rehashidx BY <2>1, Zenon DEF Sound, Resizing
    <2>2. CASE i >= d.rehashidx
      <3>1. i \in d.rehashidx .. b - 1 BY <1>1, <1>3, <1>8, <2>2
      <3> QED BY <3>1, NextBucketExists, Zenon DEF b
    <2> QED BY <1>3, <2>1, <2>2
  <1>9. Resizing(e) BY <1>1, <1>3, <1>8 DEF Sound, Resizing, dictIsRehashing
  <1> QED BY <1>1, <1>4, <1>6, <1>7, <1>9, Zenon DEF Sound, Resizing, e

\* _dictRehashStep.
LEMMA RehashSound ==
  ASSUME NEW d, Sound(d)
  PROVE  LET e == dictRehashStep(d)
         IN  /\ Sound(e) /\ e.val = d.val /\ e.pauserehash = d.pauserehash
             /\ d.size[0] # 0 => e.size[0] # 0
             /\ d.pauserehash # 0 => e = d
PROOF
  <1>1. CASE ~ (dictIsRehashing(d) /\ d.pauserehash = 0) BY <1>1, Zenon DEF dictRehashStep
  <1>2. CASE dictIsRehashing(d) /\ d.pauserehash = 0
    <2>1. dictRehashStep(d) = dictRehash(d) BY <1>2 DEF dictRehashStep
    <2>2. CASE d.used[0] = 0 BY <1>2, <2>1, <2>2, SwapSound, Zenon DEF dictRehash
    <2>3. CASE d.used[0] # 0 /\ NextBucket(d) - d.rehashidx >= EmptyVisits
      BY <1>2, <2>1, <2>3, SkipSound, Zenon DEF dictRehash
    <2>4. CASE d.used[0] # 0 /\ ~ (NextBucket(d) - d.rehashidx >= EmptyVisits)
      <3> DEFINE i == NextBucket(d)
                 m == MoveBucket(d, i)
      <3>1. i \in 0 .. d.size[0] - 1 /\ \A j \in 0 .. d.size[0] - 1 : j < i => d.table[0][j] = {}
        <4>1. d.rehashidx \in Nat /\ d.size[0] \in Nat
          BY <1>2, DictAssumption, Zenon DEF Sound, DictState, dictIsRehashing
        <4>2. i \in d.rehashidx .. d.size[0] - 1 /\ \A j \in d.rehashidx .. i - 1 : d.table[0][j] = {}
          BY <1>2, <2>4, NextBucketExists, Zenon
        <4>3. \A j \in 0 .. d.size[0] - 1 : j < d.rehashidx => d.table[0][j] = {}
          BY <1>2, Zenon DEF Sound, Resizing
        <4> HIDE DEF i
        <4> QED BY <4>1, <4>2, <4>3
      <3>2. /\ Sound(m) /\ m.val = d.val /\ m.pauserehash = d.pauserehash
            /\ m.size[0] # 0 /\ dictIsRehashing(m)
        <4> HIDE DEF i
        <4> QED BY <1>2, <3>1, MoveSound, Zenon
      <3>3. dictRehashStep(d) = IF m.used[0] = 0 THEN SwapTables(m) ELSE m
        BY <2>1, <2>4, Zenon DEF dictRehash, RehashEnd
      <3> HIDE DEF m
      <3>4. CASE m.used[0] = 0 BY <1>2, <3>2, <3>3, <3>4, SwapSound, Zenon
      <3>5. CASE m.used[0] # 0 BY <1>2, <3>2, <3>3, <3>5, Zenon
      <3> QED BY <3>4, <3>5, Zenon
    <2> QED BY <2>2, <2>3, <2>4, Zenon
  <1> QED BY <1>1, <1>2, Zenon

-----------------------------------------------------------------------------
(* Growth                                                                  *)

\* _dictExpand, whether it refuses, creates the first table or starts a resize.
LEMMA ExpandSound ==
  ASSUME NEW d, Sound(d), NEW n \in Nat, \E s \in Size : s >= n
  PROVE  LET e == dictExpand(d, n)
         IN  /\ Sound(e) /\ e.val = d.val /\ e.pauserehash = d.pauserehash /\ e.size[0] # 0
             /\ Keeps(d, e)
PROOF
  <1> DEFINE e == dictExpand(d, n)
             m == dictNextSize(n)
  <1>0. DictState(d) BY DEF Sound
  <1>1. m \in Size /\ m \in Nat /\ m # 0 BY NextSizeExists, DictAssumption, Zenon
  <1> HIDE DEF m
  <1>2. \A t \in {0, 1} : d.size[t] = 0 => KeysOf(d, t) = {} BY DEF KeysOf
  <1>3. CASE dictExpandRefused(d, n)
    <2>1. e = d BY <1>3 DEF dictExpand
    <2>2. d.size[0] # 0
      <3>1. SUFFICES ASSUME d.size[0] = 0 PROVE FALSE OBVIOUS
      <3>2. ~ dictIsRehashing(d) BY <3>1, Zenon DEF Sound, Resizing
      <3>3. d.used[0] = 0 BY <1>2, <3>1, FS_EmptySet, Zenon DEF Sound, Counted
      <3> QED BY <1>1, <1>3, <3>1, <3>2, <3>3 DEF dictExpandRefused, m
    <2> QED BY <2>1, <2>2, Zenon DEF Keeps
  <1>4. CASE ~ dictExpandRefused(d, n) /\ d.size[0] = 0
    <2>0. ~ dictIsRehashing(d) /\ d.size[1] = 0 BY <1>4, Zenon DEF Sound, Resizing
    <2>1. /\ e.table = [d.table EXCEPT ![0] = EmptyTable(m)]
          /\ e.size = [d.size EXCEPT ![0] = m]
          /\ e.used = [d.used EXCEPT ![0] = 0]
          /\ e.rehashidx = d.rehashidx /\ e.pauserehash = d.pauserehash /\ e.val = d.val
      BY <1>0, <1>4, Zenon DEF DictState, dictExpand, m
    <2>2. IsDict(e) BY <1>0, <1>4, Zenon DEF DictState, IsDict, dictExpand
    <2> HIDE DEF e
    <2>3. /\ e.table = [t \in {0, 1} |-> e.table[t]]
          /\ e.table[0] = EmptyTable(m) /\ e.table[1] = d.table[1]
      <3>1. DOMAIN d.table = {0, 1} BY <1>0, Zenon DEF DictState
      <3> QED BY <2>1, <3>1
    <2>4. /\ e.size \in [{0, 1} -> Size \cup {0}] /\ e.size[0] = m /\ e.size[1] = 0
          /\ e.used \in [{0, 1} -> Nat] /\ e.used[0] = 0 /\ e.used[1] = d.used[1]
      BY <1>0, <1>1, <2>0, <2>1 DEF DictState
    <2>5. e.table[0] \in [0 .. m - 1 -> SUBSET Key] /\ \A i \in 0 .. m - 1 : e.table[0][i] = {}
      BY <2>3, Zenon DEF EmptyTable
    <2>6. e.table[1] \in [0 .. -1 -> SUBSET Key] BY <1>0, <2>0, <2>3 DEF DictState
    <2>7. DictState(e) BY <1>0, <2>1, <2>2, <2>3, <2>4, <2>5, <2>6, DictFields, Zenon DEF DictState
    <2>8. KeysOf(e, 0) = {} /\ KeysOf(e, 1) = {} BY <2>4, <2>5 DEF KeysOf
    <2>9. KeysOf(d, 0) = {} /\ KeysOf(d, 1) = {} BY <1>2, <1>4, <2>0, Zenon
    <2>10. InPlace(e) BY <2>4, <2>5 DEF InPlace
    <2>11. OneEntry(e) /\ Counted(e)
      BY <2>1, <2>4, <2>8, <2>9, FS_EmptySet, SMTT(30) DEF Sound, OneEntry, Counted
    <2>12. Resizing(e) BY <2>0, <2>1, <2>4, Zenon DEF Resizing, dictIsRehashing
    <2>13. Keeps(d, e) BY <1>4, <2>0, <2>9, Zenon DEF Keeps
    <2> QED BY <1>1, <2>1, <2>4, <2>7, <2>10, <2>11, <2>12, <2>13, Zenon DEF Sound, e
  <1>5. CASE ~ dictExpandRefused(d, n) /\ d.size[0] # 0
    <2>0. ~ dictIsRehashing(d) /\ d.size[1] = 0 BY <1>5, Zenon DEF Sound, Resizing, dictExpandRefused
    <2>1. /\ e.table = [d.table EXCEPT ![1] = EmptyTable(m)]
          /\ e.size = [d.size EXCEPT ![1] = m]
          /\ e.used = [d.used EXCEPT ![1] = 0]
          /\ e.rehashidx = 0 /\ e.pauserehash = d.pauserehash /\ e.val = d.val
      BY <1>0, <1>5 DEF DictState, dictExpand, m
    <2>2. IsDict(e) BY <1>0, <1>5, Zenon DEF DictState, IsDict, dictExpand
    <2> HIDE DEF e
    <2>3. /\ e.table = [t \in {0, 1} |-> e.table[t]]
          /\ e.table[1] = EmptyTable(m) /\ e.table[0] = d.table[0]
      <3>1. DOMAIN d.table = {0, 1} BY <1>0, Zenon DEF DictState
      <3> QED BY <2>1, <3>1
    <2>4. /\ e.size \in [{0, 1} -> Size \cup {0}] /\ e.size[1] = m /\ e.size[0] = d.size[0]
          /\ e.used \in [{0, 1} -> Nat] /\ e.used[1] = 0 /\ e.used[0] = d.used[0]
      BY <1>0, <1>1, <2>1 DEF DictState
    <2>5. e.table[1] \in [0 .. m - 1 -> SUBSET Key] /\ \A i \in 0 .. m - 1 : e.table[1][i] = {}
      BY <2>3, Zenon DEF EmptyTable
    <2>6. e.table[0] \in [0 .. d.size[0] - 1 -> SUBSET Key] BY <1>0, <2>3, Zenon DEF DictState
    <2>7. DictState(e) BY <1>0, <2>1, <2>2, <2>3, <2>4, <2>5, <2>6, DictFields, Zenon DEF DictState
    <2>8. KeysOf(e, 0) = KeysOf(d, 0) BY <2>3, <2>4 DEF KeysOf
    <2>9. KeysOf(e, 1) = {} /\ KeysOf(d, 1) = {} BY <1>2, <2>0, <2>4, <2>5 DEF KeysOf
    <2>10. InPlace(e) BY <2>3, <2>4, <2>5 DEF Sound, InPlace, Index
    <2>11. OneEntry(e) /\ Counted(e)
      BY <2>1, <2>4, <2>8, <2>9, FS_EmptySet, SMTT(30) DEF Sound, OneEntry, Counted
    <2>12. Resizing(e)
      <3>1. \A i \in 0 .. e.size[0] - 1 : ~ (i < e.rehashidx) BY <2>1
      <3> QED BY <1>1, <1>5, <2>1, <2>4, <3>1 DEF Resizing, dictIsRehashing
    <2>13. Keeps(d, e) BY <2>0, <2>4, <2>8, <2>9, Zenon DEF Keeps
    <2> QED BY <1>5, <2>1, <2>4, <2>7, <2>10, <2>11, <2>12, <2>13, Zenon DEF Sound, e
  <1> QED BY <1>3, <1>4, <1>5, Zenon

\* _dictExpandIfNeeded finds a size large enough, and leaves a table.
LEMMA PreparedSound ==
  ASSUME NEW d, Sound(d)
  PROVE  LET e == Prepared(d)
         IN  /\ Sound(e) /\ e.val = d.val /\ e.pauserehash = d.pauserehash /\ e.size[0] # 0
             /\ d.pauserehash # 0 => Keeps(d, e)
PROOF
  <1> DEFINE r == dictRehashStep(d)
  <1>1. /\ Sound(r) /\ r.val = d.val /\ r.pauserehash = d.pauserehash
        /\ d.pauserehash # 0 => r = d
    BY RehashSound, Zenon
  <1>2. Prepared(d) = IF NeedsExpand(r) THEN dictExpand(r, ExpandTo(r)) ELSE r
    BY DEF Prepared, dictExpandIfNeeded
  <1> HIDE DEF r
  <1>3. r.used[0] \in Nat /\ r.used[0] <= Cardinality(Key) /\ Cardinality(Key) \in Nat
    <2>1. r.used[0] = Cardinality(KeysOf(r, 0)) /\ KeysOf(r, 0) \in SUBSET Key
      BY <1>1, KeysAreKeys, Zenon DEF Sound, Counted
    <2> QED BY <2>1, FS_Subset, FS_CardinalityType, DictAssumption
  <1>4. ExpandTo(r) \in Nat /\ \E s \in Size : s >= ExpandTo(r)
    <2>1. CASE r.size[0] = 0
      <3>1. ExpandTo(r) = dictInitialSize BY <2>1 DEF ExpandTo
      <3> QED BY <3>1, InitialSize, DictAssumption
    <2>2. CASE r.size[0] # 0
      <3>1. ExpandTo(r) = r.used[0] + 1 BY <2>2 DEF ExpandTo
      <3>2. PICK s \in Size : s > Cardinality(Key) BY DictAssumption
      <3>3. s \in Nat BY DictAssumption
      <3> QED BY <1>3, <3>1, <3>2, <3>3
    <2> QED BY <2>1, <2>2
  <1>5. CASE NeedsExpand(r) BY <1>1, <1>2, <1>4, <1>5, ExpandSound
  <1>6. CASE ~ NeedsExpand(r)
    <2>1. r.size[0] # 0
      <3>1. SUFFICES ASSUME r.size[0] = 0 PROVE FALSE OBVIOUS
      <3>2. ~ dictIsRehashing(r) BY <1>1, <3>1, Zenon DEF Sound, Resizing
      <3> QED BY <1>3, <1>6, <3>1, <3>2 DEF NeedsExpand
    <2> QED BY <1>1, <1>2, <1>6, <2>1, Zenon DEF Keeps
  <1> QED BY <1>5, <1>6, Zenon

-----------------------------------------------------------------------------
(* Entries                                                                 *)

\* A bucket of table t, that of k, has other keys than before; k alone differs.
BucketChange(d, e, t, k, bucket, n, v) ==
  /\ Sound(d) /\ t \in {0, 1} /\ d.size[t] # 0 /\ k \in Key
  /\ bucket \in SUBSET Key /\ n \in Nat /\ v \in Val \cup {None}
  /\ IsDict(e)
  /\ \A x \in Key \ {k} : x \in bucket <=> x \in d.table[t][Index(d, t, k)]
  /\ e.table = [d.table EXCEPT ![t] = [d.table[t] EXCEPT ![Index(d, t, k)] = bucket]]
  /\ e.size = d.size /\ e.rehashidx = d.rehashidx /\ e.pauserehash = d.pauserehash
  /\ e.used = [d.used EXCEPT ![t] = n]
  /\ e.val = [d.val EXCEPT ![k] = v]

Rebucketed(d, e, t, k, bucket) ==
  /\ DictState(e) /\ InPlace(e)
  /\ KeysOf(e, 1 - t) = KeysOf(d, 1 - t)
  /\ KeysOf(e, t) = (KeysOf(d, t) \ {k}) \cup (bucket \cap {k})

\* The keys of a table after one of its buckets changes.
LEMMA BucketChanged ==
  ASSUME NEW d, NEW e, NEW t, NEW k, NEW bucket, NEW n, NEW v,
         BucketChange(d, e, t, k, bucket, n, v)
  PROVE  Rebucketed(d, e, t, k, bucket)
PROOF
  <1> DEFINE i == Index(d, t, k)
             last == d.size[t] - 1
  <1>a. /\ Sound(d) /\ t \in {0, 1} /\ d.size[t] # 0 /\ k \in Key
        /\ bucket \in SUBSET Key /\ n \in Nat /\ v \in Val \cup {None}
    BY Zenon DEF BucketChange
  <1> USE <1>a
  <1>0. DictState(d) /\ InPlace(d) BY Zenon DEF Sound
  <1>1. i \in 0 .. last BY <1>0, IndexInTable, Zenon DEF DictState, Index
  <1>2. /\ e.table = [u \in {0, 1} |-> e.table[u]]
        /\ e.table[1 - t] = d.table[1 - t]
        /\ e.table[t] = [d.table[t] EXCEPT ![i] = bucket]
    <2>1. DOMAIN d.table = {0, 1} BY <1>0, Zenon DEF DictState
    <2> HIDE DEF i
    <2> QED BY <2>1 DEF i, BucketChange
  <1>3. \A x : \A u \in {0, 1} : Index(e, u, x) = Index(d, u, x) BY Zenon DEF Index, BucketChange
  <1> HIDE DEF i
  <1>4. DOMAIN d.table[t] = 0 .. last BY <1>0, Zenon DEF DictState
  <1>5. /\ e.table[t] = [j \in 0 .. last |-> e.table[t][j]]
        /\ e.table[t][i] = bucket
        /\ \A j \in 0 .. last : j # i => e.table[t][j] = d.table[t][j]
    BY <1>1, <1>2, <1>4, Zenon
  <1>6. DictState(e)
    <2>1. ASSUME NEW j \in 0 .. last PROVE e.table[t][j] \in SUBSET Key
      <3>1. d.table[t][j] \in SUBSET Key BY <1>0, Zenon DEF DictState
      <3> QED BY <1>5, <3>1, Zenon
    <2>2. e.table[t] \in [0 .. last -> SUBSET Key] BY <1>5, <2>1, Zenon
    <2>3. e.table[1 - t] \in [0 .. d.size[1 - t] - 1 -> SUBSET Key] BY <1>0, <1>2 DEF DictState
    <2>4. \A u \in {0, 1} : e.table[u] \in [0 .. e.size[u] - 1 -> SUBSET Key]
      BY <2>2, <2>3 DEF BucketChange
    <2>5. e.used \in [{0, 1} -> Nat] /\ e.val \in [Key -> Val \cup {None}]
      BY <1>0 DEF DictState, BucketChange
    <2> QED BY <1>0, <1>2, <2>4, <2>5, DictFields, Zenon DEF DictState, BucketChange
  <1>7. InPlace(e)
    <2>1. ASSUME NEW j \in 0 .. last, NEW x \in e.table[t][j] PROVE Index(d, t, x) = j
      <3>1. CASE j # i BY <1>0, <1>5, <3>1, Zenon DEF InPlace
      <3>2. CASE j = i /\ x = k BY <3>2, Zenon DEF i
      <3>3. CASE j = i /\ x # k
        <4>1. x \in d.table[t][i] BY <1>5, <3>3, Zenon DEF i, BucketChange
        <4> QED BY <1>0, <3>3, <4>1, Zenon DEF InPlace
      <3> QED BY <3>1, <3>2, <3>3, Zenon
    <2>2. ASSUME NEW j \in 0 .. d.size[1 - t] - 1, NEW x \in e.table[1 - t][j]
          PROVE  Index(d, 1 - t, x) = j
      BY <1>0, <1>2 DEF InPlace
    <2> QED BY <1>3, <2>1, <2>2 DEF InPlace, BucketChange
  <1>8. KeysOf(e, 1 - t) = KeysOf(d, 1 - t) BY <1>2 DEF KeysOf, BucketChange
  <1>9. ASSUME NEW x, x \in KeysOf(e, t) PROVE x \in (KeysOf(d, t) \ {k}) \cup (bucket \cap {k})
    <2>1. PICK j \in 0 .. last : x \in e.table[t][j] BY <1>9 DEF KeysOf, BucketChange
    <2>2. CASE j = i /\ x = k BY <1>5, <2>1, <2>2, Zenon
    <2>3. CASE j = i /\ x # k
      <3>1. x \in d.table[t][i] BY <1>5, <2>1, <2>3, Zenon DEF i, BucketChange
      <3> QED BY <1>1, <2>3, <3>1, Zenon DEF KeysOf
    <2>4. CASE j # i
      <3>1. x \in d.table[t][j] BY <1>5, <2>1, <2>4, Zenon
      <3>2. x # k BY <1>0, <2>4, <3>1, Zenon DEF InPlace, i
      <3> QED BY <3>1, <3>2, Zenon DEF KeysOf
    <2> QED BY <2>2, <2>3, <2>4, Zenon
  <1>10. ASSUME NEW x, x \in KeysOf(d, t), x # k PROVE x \in KeysOf(e, t)
    <2>1. PICK j \in 0 .. last : x \in d.table[t][j] BY <1>10, Zenon DEF KeysOf
    <2>2. x \in Key BY <1>0, <1>10, KeysAreKeys, Zenon
    <2>3. x \in e.table[t][j] BY <1>5, <1>10, <2>1, <2>2, Zenon DEF i, BucketChange
    <2> QED BY <2>3, Zenon DEF KeysOf, BucketChange
  <1>11. k \in bucket => k \in KeysOf(e, t) BY <1>1, <1>5, Zenon DEF KeysOf, BucketChange
  <1> QED BY <1>6, <1>7, <1>8, <1>9, <1>10, <1>11, Zenon DEF Rebucketed

\* The entry dictAddRaw links.
LEMMA InsertSound ==
  ASSUME NEW d, Sound(d), d.size[0] # 0, NEW k \in Key, d.val[k] = None, NEW v \in Val
  PROVE  LET e == Insert(d, k, v)
         IN  /\ Sound(e) /\ e.val = [d.val EXCEPT ![k] = v]
             /\ e.pauserehash = d.pauserehash /\ Keeps(d, e)
PROOF
  <1> DEFINE e == Insert(d, k, v)
             t == IF dictIsRehashing(d) THEN 1 ELSE 0
             bucket == d.table[t][Index(d, t, k)] \cup {k}
  <1>0. DictState(d) BY DEF Sound
  <1>1. t \in {0, 1} /\ d.size[t] # 0 BY Zenon DEF Sound, Resizing
  <1>2. /\ e.table = [d.table EXCEPT ![t] = [d.table[t] EXCEPT ![Index(d, t, k)] = bucket]]
        /\ e.used = [d.used EXCEPT ![t] = d.used[t] + 1]
    BY <1>0, Zenon DEF DictState, Insert
  <1>3. /\ e.size = d.size /\ e.rehashidx = d.rehashidx /\ e.pauserehash = d.pauserehash
        /\ e.val = [d.val EXCEPT ![k] = v]
    BY <1>0, Zenon DEF DictState, Insert
  <1>4. IsDict(e) BY <1>0, ZenonT(40) DEF DictState, IsDict, Insert
  <1> HIDE DEF e, t
  <1>5. bucket \in SUBSET Key
    <2>1. Index(d, t, k) \in 0 .. d.size[t] - 1
      BY <1>0, <1>1, IndexInTable, Zenon DEF DictState, Index
    <2> QED BY <1>0, <1>1, <2>1, Zenon DEF DictState
  <1>6. d.used[t] + 1 \in Nat BY <1>0, <1>1 DEF DictState
  <1>7. /\ DictState(e) /\ InPlace(e)
        /\ KeysOf(e, 1 - t) = KeysOf(d, 1 - t)
        /\ KeysOf(e, t) = (KeysOf(d, t) \ {k}) \cup (bucket \cap {k})
    <2>1. \A x \in Key \ {k} : x \in bucket <=> x \in d.table[t][Index(d, t, k)] BY Zenon
    <2>2. v \in Val \cup {None} OBVIOUS
    <2> HIDE DEF bucket
    <2>3. BucketChange(d, e, t, k, bucket, d.used[t] + 1, v)
      BY <1>1, <1>2, <1>3, <1>4, <1>5, <1>6, <2>1, <2>2, ZenonT(40) DEF BucketChange
    <2> QED BY <2>3, BucketChanged DEF Rebucketed
  <1>8. k \notin KeysOf(d, 0) /\ k \notin KeysOf(d, 1) BY Zenon DEF Sound, OneEntry
  <1>9. KeysOf(e, t) = KeysOf(d, t) \cup {k} BY <1>1, <1>7, <1>8, Zenon
  <1>10. e.val[k] # None /\ \A x \in Key \ {k} : e.val[x] = d.val[x]
    BY <1>0, <1>3, DictAssumption DEF DictState
  <1>11. OneEntry(e)
    <2>1. CASE t = 0 BY <1>7, <1>8, <1>9, <1>10, <2>1, SMTT(30) DEF Sound, OneEntry
    <2>2. CASE t = 1 BY <1>7, <1>8, <1>9, <1>10, <2>2, SMTT(30) DEF Sound, OneEntry
    <2> QED BY <1>1, <2>1, <2>2, Zenon
  <1>12. Counted(e)
    <2>1. Cardinality(KeysOf(d, t) \cup {k}) = Cardinality(KeysOf(d, t)) + 1
      BY <1>0, <1>1, <1>8, KeysAreKeys, FS_AddElement, Zenon
    <2>2. e.used[t] = d.used[t] + 1 /\ e.used[1 - t] = d.used[1 - t]
      BY <1>0, <1>1, <1>2 DEF DictState
    <2>3. \A u \in {0, 1} : u = t \/ u = 1 - t BY <1>1
    <2> QED BY <1>1, <1>7, <1>9, <2>1, <2>2, <2>3, Zenon DEF Sound, Counted
  <1>13. Resizing(e)
    <2>1. CASE dictIsRehashing(d)
      <3>1. t = 1 BY <2>1 DEF t
      <3>2. e.table[0] = d.table[0] BY <1>0, <1>2, <3>1 DEF DictState
      <3> QED BY <1>3, <2>1, <3>2, Zenon DEF Sound, Resizing, dictIsRehashing
    <2>2. CASE ~ dictIsRehashing(d) BY <1>3, <2>2, Zenon DEF Sound, Resizing, dictIsRehashing
    <2> QED BY <2>1, <2>2
  <1>14. Keeps(d, e)
    <2>1. \A u \in {0, 1} : u = t \/ u = 1 - t BY <1>1
    <2>2. \A u \in {0, 1} : KeysOf(d, u) \subseteq KeysOf(e, u)
      BY <1>7, <1>9, <2>1, Zenon
    <2> QED BY <1>3, <2>2, Zenon DEF Keeps, dictIsRehashing
  <1> QED BY <1>3, <1>7, <1>11, <1>12, <1>13, <1>14, Zenon DEF Sound, e

\* The entry dictGenericDelete unlinks.
LEMMA UnlinkSound ==
  ASSUME NEW d, Sound(d), d.size[0] # 0, NEW k \in Key
  PROVE  LET e == Unlink(d, k)
         IN  /\ Sound(e) /\ e.val = [d.val EXCEPT ![k] = None]
             /\ e.pauserehash = d.pauserehash /\ Shrinks(d, e, k)
PROOF
  <1> DEFINE e == Unlink(d, k)
             t == IF Holds(d, 0, k) THEN 0 ELSE 1
             bucket == d.table[t][Index(d, t, k)] \ {k}
  <1>0. DictState(d) BY DEF Sound
  <1>p. Present(d, k) <=> d.val[k] # None BY PresentIffValue, Zenon
  <1>n. CASE ~ Present(d, k)
    <2>1. e = d BY <1>n DEF Unlink
    <2>2. d.val = [d.val EXCEPT ![k] = None] BY <1>0, <1>n, <1>p, Zenon DEF DictState
    <2>3. \A u \in {0, 1} : KeysOf(d, u) = KeysOf(d, u) \ {k}
      BY <1>n, <1>p, Zenon DEF Sound, OneEntry
    <2> QED BY <2>1, <2>2, <2>3, Zenon DEF Shrinks
  <1>y. CASE Present(d, k)
    <2>1. t \in {0, 1} /\ d.size[t] # 0 /\ k \in KeysOf(d, t)
      <3>1. k \in KeysOf(d, 0) \/ k \in KeysOf(d, 1) BY <1>y, <1>p, Zenon DEF Sound, OneEntry
      <3>2. k \in KeysOf(d, 0) <=> Holds(d, 0, k) BY KeyInTable, Zenon DEF Sound
      <3>3. k \in KeysOf(d, 1) => d.size[1] # 0 BY KeyInTable, Zenon DEF Sound
      <3> QED BY <3>1, <3>2, <3>3, Zenon
    <2>2. /\ e.table = [d.table EXCEPT ![t] = [d.table[t] EXCEPT ![Index(d, t, k)] = bucket]]
          /\ e.used = [d.used EXCEPT ![t] = d.used[t] - 1]
      BY <1>0, <1>y, Zenon DEF DictState, Unlink
    <2>3. /\ e.size = d.size /\ e.rehashidx = d.rehashidx /\ e.pauserehash = d.pauserehash
          /\ e.val = [d.val EXCEPT ![k] = None]
      BY <1>0, <1>y, Zenon DEF DictState, Unlink
    <2>4. IsDict(e) BY <1>0, <1>y, ZenonT(40) DEF DictState, IsDict, Unlink
    <2> HIDE DEF e, t
    <2>5. Index(d, t, k) \in 0 .. d.size[t] - 1
      BY <1>0, <2>1, IndexInTable, Zenon DEF DictState, Index
    <2>6. bucket \in SUBSET Key BY <1>0, <2>1, <2>5, Zenon DEF DictState
    <2>7. IsFiniteSet(KeysOf(d, t)) /\ Cardinality(KeysOf(d, t)) \in Nat
      BY <1>0, <2>1, KeysAreKeys, FS_CardinalityType, Zenon
    <2>8. d.used[t] = Cardinality(KeysOf(d, t)) BY <2>1, Zenon DEF Sound, Counted
    <2>9. Cardinality(KeysOf(d, t) \ {k}) = d.used[t] - 1
      BY <2>1, <2>7, <2>8, FS_RemoveElement, ZenonT(40)
    <2>10. d.used[t] - 1 \in Nat
      <3>1. IsFiniteSet(KeysOf(d, t) \ {k}) BY <2>7, FS_RemoveElement, Zenon
      <3> QED BY <2>9, <3>1, FS_CardinalityType, Zenon
    <2>11. Rebucketed(d, e, t, k, bucket)
      <3>1. \A x \in Key \ {k} : x \in bucket <=> x \in d.table[t][Index(d, t, k)] BY Zenon
      <3>2. None \in Val \cup {None} OBVIOUS
      <3> HIDE DEF bucket
      <3>3. BucketChange(d, e, t, k, bucket, d.used[t] - 1, None)
        BY <2>1, <2>2, <2>3, <2>4, <2>6, <2>10, <3>1, <3>2, Zenon DEF BucketChange
      <3> QED BY <3>3, BucketChanged, Zenon
    <2>12. KeysOf(e, t) = KeysOf(d, t) \ {k} BY <2>11, Zenon DEF Rebucketed
    <2>13. KeysOf(e, 1 - t) = KeysOf(d, 1 - t) /\ k \notin KeysOf(d, 1 - t)
      BY <2>1, <2>11 DEF Rebucketed, Sound, OneEntry
    <2>14. e.val[k] = None /\ \A x \in Key \ {k} : e.val[x] = d.val[x]
      BY <1>0, <2>3, Zenon DEF DictState
    <2>15. OneEntry(e)
      <3>1. CASE t = 0 BY <2>12, <2>13, <2>14, <3>1, SMTT(30) DEF Sound, OneEntry
      <3>2. CASE t = 1 BY <2>12, <2>13, <2>14, <3>2, SMTT(30) DEF Sound, OneEntry
      <3> QED BY <2>1, <3>1, <3>2
    <2>16. Counted(e)
      <3>1. e.used[t] = d.used[t] - 1 /\ e.used[1 - t] = d.used[1 - t]
        BY <1>0, <2>1, <2>2 DEF DictState
      <3>2. \A u \in {0, 1} : u = t \/ u = 1 - t BY <2>1
      <3> QED BY <2>1, <2>9, <2>12, <2>13, <3>1, <3>2, Zenon DEF Sound, Counted
    <2>17. Resizing(e)
      <3>1. ASSUME NEW i \in 0 .. d.size[0] - 1, d.table[0][i] = {} PROVE e.table[0][i] = {}
        <4>1. SUFFICES ASSUME NEW x \in e.table[0][i] PROVE FALSE BY Zenon
        <4>2. CASE t = 1 BY <1>0, <2>2, <3>1, <4>1, <4>2 DEF DictState
        <4>3. CASE t = 0
          <5>1. e.table[0] = [d.table[0] EXCEPT ![Index(d, 0, k)] = bucket]
            BY <1>0, <2>2, <4>3, Zenon DEF DictState
          <5>2. e.table[0][i] = d.table[0][i] \/ (i = Index(d, 0, k) /\ e.table[0][i] = bucket)
            BY <1>0, <5>1, Zenon DEF DictState
          <5> QED BY <3>1, <4>1, <4>3, <5>2, Zenon
        <4> QED BY <2>1, <4>2, <4>3, Zenon
      <3> QED BY <2>3, <3>1, Zenon DEF Sound, Resizing, dictIsRehashing
    <2>18. Shrinks(d, e, k)
      <3>1. \A u \in {0, 1} : u = t \/ u = 1 - t BY <2>1
      <3>2. \A u \in {0, 1} : KeysOf(e, u) = KeysOf(d, u) \ {k} BY <2>12, <2>13, <3>1, Zenon
      <3> QED BY <2>3, <3>2, Zenon DEF Shrinks
    <2> QED BY <2>3, <2>11, <2>15, <2>16, <2>17, <2>18, Zenon DEF Sound, Rebucketed, e
  <1> QED BY <1>n, <1>y, Zenon

\* The value of an entry that dictReplace finds.
LEMMA SetValSound ==
  ASSUME NEW d, Sound(d), NEW k \in Key, d.val[k] # None, NEW v \in Val
  PROVE  LET e == [d EXCEPT !.val[k] = v]
         IN  /\ Sound(e) /\ e.val = [d.val EXCEPT ![k] = v]
             /\ e.pauserehash = d.pauserehash /\ Keeps(d, e)
PROOF
  <1> DEFINE e == [d EXCEPT !.val[k] = v]
  <1>0. DictState(d) BY DEF Sound
  <1>1. /\ e.table = d.table /\ e.size = d.size /\ e.used = d.used
        /\ e.rehashidx = d.rehashidx /\ e.pauserehash = d.pauserehash
        /\ e.val = [d.val EXCEPT ![k] = v]
    BY <1>0, Zenon DEF DictState
  <1>2. IsDict(e) BY <1>0, Zenon DEF DictState, IsDict
  <1> HIDE DEF e
  <1>3. e.val \in [Key -> Val \cup {None}] /\ {x \in Key : e.val[x] # None} = {x \in Key : d.val[x] # None}
    BY <1>0, <1>1, DictAssumption, SMTT(30) DEF DictState
  <1>4. DictState(e) BY <1>0, <1>1, <1>2, <1>3, DictFields, Zenon DEF DictState
  <1>5. \A t \in {0, 1} : KeysOf(e, t) = KeysOf(d, t) BY <1>1, SMTT(30) DEF KeysOf
  <1>6. InPlace(e) BY <1>1 DEF Sound, InPlace, Index
  <1>7. OneEntry(e) /\ Counted(e) BY <1>1, <1>3, <1>5, Zenon DEF Sound, OneEntry, Counted
  <1>8. Resizing(e) BY <1>1, Zenon DEF Sound, Resizing, dictIsRehashing
  <1>9. Keeps(d, e) BY <1>1, <1>5, Zenon DEF Keeps, dictIsRehashing
  <1> QED BY <1>1, <1>4, <1>6, <1>7, <1>8, <1>9, Zenon DEF Sound, e

-----------------------------------------------------------------------------
(* Operations                                                              *)

\* Keeping every entry in place twice in a row keeps it in place.
LEMMA KeepsTransitive ==
  ASSUME NEW a, NEW b, NEW c, Keeps(a, b), Keeps(b, c)
  PROVE  Keeps(a, c)
  BY Zenon DEF Keeps

\* dictAdd adds the key unless it is there, in both cases leaving a sound dict.
LEMMA AddEffect ==
  ASSUME NEW d, Sound(d), NEW k \in Key, NEW v \in Val
  PROVE  /\ Sound(dictAdd(d, k, v))
         /\ Present(Prepared(d), k) <=> d.val[k] # None
         /\ dictAdd(d, k, v).val = IF d.val[k] # None THEN d.val ELSE [d.val EXCEPT ![k] = v]
         /\ dictAdd(d, k, v).pauserehash = d.pauserehash
         /\ d.pauserehash # 0 => Keeps(d, dictAdd(d, k, v))
PROOF
  <1> DEFINE p == Prepared(d)
  <1>1. /\ Sound(p) /\ p.val = d.val /\ p.pauserehash = d.pauserehash /\ p.size[0] # 0
        /\ d.pauserehash # 0 => Keeps(d, p)
    BY PreparedSound, Zenon
  <1>2. dictAdd(d, k, v) = IF Present(p, k) THEN p ELSE Insert(p, k, v) BY DEF dictAdd
  <1> HIDE DEF p
  <1>3. Present(p, k) <=> d.val[k] # None BY <1>1, PresentIffValue, Zenon
  <1>4. CASE Present(p, k) BY <1>1, <1>2, <1>3, <1>4, Zenon DEF p
  <1>5. CASE ~ Present(p, k)
    <2>1. p.val[k] = None BY <1>1, <1>3, <1>5, Zenon
    <2>2. /\ Sound(Insert(p, k, v)) /\ Insert(p, k, v).val = [p.val EXCEPT ![k] = v]
          /\ Insert(p, k, v).pauserehash = p.pauserehash /\ Keeps(p, Insert(p, k, v))
      BY <1>1, <2>1, InsertSound, Zenon
    <2>3. Keeps(d, p) => Keeps(d, Insert(p, k, v)) BY <2>2, KeepsTransitive, Zenon
    <2> QED BY <1>1, <1>2, <1>3, <1>5, <2>2, <2>3, Zenon DEF p
  <1> QED BY <1>4, <1>5, Zenon

\* dictReplace sets the value of the key, whether or not it was there.
LEMMA ReplaceEffect ==
  ASSUME NEW d, Sound(d), NEW k \in Key, NEW v \in Val
  PROVE  /\ Sound(dictReplace(d, k, v))
         /\ dictReplace(d, k, v).val = [d.val EXCEPT ![k] = v]
         /\ dictReplace(d, k, v).pauserehash = d.pauserehash
         /\ d.pauserehash # 0 => Keeps(d, dictReplace(d, k, v))
PROOF
  <1> DEFINE p == Prepared(d)
             q == [p EXCEPT !.val[k] = v]
  <1>1. /\ Sound(p) /\ p.val = d.val /\ p.pauserehash = d.pauserehash /\ p.size[0] # 0
        /\ d.pauserehash # 0 => Keeps(d, p)
    BY PreparedSound, Zenon
  <1>2. dictReplace(d, k, v) = IF Present(p, k) THEN q ELSE Insert(p, k, v) BY DEF dictReplace
  <1>a. p.val[k] # None => /\ Sound(q) /\ q.val = [p.val EXCEPT ![k] = v]
                           /\ q.pauserehash = p.pauserehash /\ Keeps(p, q)
    <2> HIDE DEF p
    <2> QED BY <1>1, SetValSound, Zenon
  <1> HIDE DEF p, q
  <1>3. Present(p, k) <=> p.val[k] # None BY <1>1, PresentIffValue, Zenon
  <1>4. CASE Present(p, k)
    <2>1. Keeps(d, p) => Keeps(d, q) BY <1>a, <1>3, <1>4, KeepsTransitive, Zenon
    <2> QED BY <1>a, <1>1, <1>2, <1>3, <1>4, <2>1, Zenon
  <1>5. CASE ~ Present(p, k)
    <2>1. p.val[k] = None BY <1>3, <1>5, Zenon
    <2>2. /\ Sound(Insert(p, k, v)) /\ Insert(p, k, v).val = [p.val EXCEPT ![k] = v]
          /\ Insert(p, k, v).pauserehash = p.pauserehash /\ Keeps(p, Insert(p, k, v))
      BY <1>1, <2>1, InsertSound, Zenon
    <2>3. Keeps(d, p) => Keeps(d, Insert(p, k, v)) BY <2>2, KeepsTransitive, Zenon
    <2> QED BY <1>1, <1>2, <1>5, <2>2, <2>3, Zenon
  <1> QED BY <1>4, <1>5, Zenon

\* dictDelete takes out the key and nothing else.
LEMMA DeleteEffect ==
  ASSUME NEW d, Sound(d), NEW k \in Key
  PROVE  /\ Sound(dictDelete(d, k))
         /\ dictSize(d) # 0 /\ Present(dictRehashStep(d), k) <=> d.val[k] # None
         /\ dictDelete(d, k).val = [d.val EXCEPT ![k] = None]
         /\ dictDelete(d, k).pauserehash = d.pauserehash
         /\ d.pauserehash # 0 => Shrinks(d, dictDelete(d, k), k)
PROOF
  <1> DEFINE r == dictRehashStep(d)
  <1>0. DictState(d) BY DEF Sound
  <1>1. /\ Sound(r) /\ r.val = d.val /\ r.pauserehash = d.pauserehash
        /\ d.size[0] # 0 => r.size[0] # 0
        /\ d.pauserehash # 0 => r = d
    BY RehashSound, Zenon
  <1>2. dictDelete(d, k) = IF dictSize(d) = 0 THEN d ELSE Unlink(r, k) BY DEF dictDelete
  <1>3. d.used[0] \in Nat /\ d.used[1] \in Nat BY <1>0, Zenon DEF DictState
  <1> HIDE DEF r
  <1>4. CASE dictSize(d) = 0
    <2>1. d.used[0] = 0 /\ d.used[1] = 0 BY <1>3, <1>4, SMTT(30) DEF dictSize
    <2>2. KeysOf(d, 0) = {} /\ KeysOf(d, 1) = {}
      BY <1>0, <2>1, KeysAreKeys, FS_EmptySet, Zenon DEF Sound, Counted
    <2>3. d.val[k] = None BY <2>2, Zenon DEF Sound, OneEntry
    <2>4. d.val = [d.val EXCEPT ![k] = None] BY <1>0, <2>3, Zenon DEF DictState
    <2>5. Shrinks(d, d, k) BY <2>2 DEF Shrinks
    <2> QED BY <1>2, <1>4, <2>3, <2>4, <2>5, Zenon
  <1>5. CASE dictSize(d) # 0
    <2>1. d.size[0] # 0
      <3>1. SUFFICES ASSUME d.size[0] = 0 PROVE FALSE OBVIOUS
      <3>2. d.size[1] = 0 BY <3>1 DEF Sound, Resizing
      <3>3. KeysOf(d, 0) = {} /\ KeysOf(d, 1) = {} BY <3>1, <3>2 DEF KeysOf
      <3>4. d.used[0] = 0 /\ d.used[1] = 0 BY <3>3, FS_EmptySet, Zenon DEF Sound, Counted
      <3> QED BY <1>5, <3>4 DEF dictSize
    <2>2. /\ Sound(Unlink(r, k)) /\ Unlink(r, k).val = [r.val EXCEPT ![k] = None]
          /\ Unlink(r, k).pauserehash = r.pauserehash /\ Shrinks(r, Unlink(r, k), k)
      BY <1>1, <2>1, UnlinkSound, Zenon
    <2>3. Present(r, k) <=> d.val[k] # None BY <1>1, <2>1, PresentIffValue, Zenon
    <2> QED BY <1>1, <1>2, <1>5, <2>2, <2>3, Zenon DEF r
  <1> QED BY <1>4, <1>5, Zenon

-----------------------------------------------------------------------------
(* The specification                                                       *)

\* The fields that _dictCreate sets.
LEMMA EmptyFields ==
  /\ EmptyDict.table = [t \in {0, 1} |-> NoTable]
  /\ EmptyDict.size = [t \in {0, 1} |-> 0] /\ EmptyDict.used = [t \in {0, 1} |-> 0]
  /\ EmptyDict.rehashidx = -1 /\ EmptyDict.pauserehash = 0
  /\ EmptyDict.val = [k \in Key |-> None]
  BY SMTT(30) DEF EmptyDict

\* _dictCreate leaves a sound dict.
LEMMA EmptySound == Sound(EmptyDict)
PROOF
  <1>1. /\ EmptyDict.table = [t \in {0, 1} |-> NoTable]
        /\ EmptyDict.size = [t \in {0, 1} |-> 0] /\ EmptyDict.used = [t \in {0, 1} |-> 0]
        /\ EmptyDict.rehashidx = -1 /\ EmptyDict.pauserehash = 0
        /\ EmptyDict.val = [k \in Key |-> None]
    BY EmptyFields, Zenon
  <1>2. DictState(EmptyDict) BY DEF EmptyDict, DictState, NoTable
  <1>3. \A t \in {0, 1} : KeysOf(EmptyDict, t) = {} BY <1>1 DEF KeysOf
  <1>4. InPlace(EmptyDict) BY <1>1 DEF InPlace
  <1>5. OneEntry(EmptyDict) BY <1>1, <1>3, Zenon DEF OneEntry
  <1>6. Counted(EmptyDict) BY <1>1, <1>3, FS_EmptySet, Zenon DEF Counted
  <1>7. Resizing(EmptyDict) BY <1>1 DEF Resizing, dictIsRehashing
  <1> QED BY <1>2, <1>4, <1>5, <1>6, <1>7 DEF Sound

\* Every operation leaves a sound dict.
LEMMA StepSound ==
  ASSUME Sound(dict), [Next]_vars
  PROVE  Sound(dict')
PROOF
  <1>0. \A k \in Key : Stored[k] \subseteq Val BY DictAssumption
  <1>1. ASSUME NEW k \in Key, NEW v \in Stored[k], Add(k, v) PROVE Sound(dict')
    BY <1>0, <1>1, AddEffect, Zenon DEF Add
  <1>2. ASSUME NEW k \in Key, NEW v \in Stored[k], Replace(k, v) PROVE Sound(dict')
    BY <1>0, <1>2, ReplaceEffect, Zenon DEF Replace
  <1>3. ASSUME NEW k \in Key, Delete(k) PROVE Sound(dict')
    BY <1>3, DeleteEffect, Zenon DEF Delete
  <1>4. ASSUME Find PROVE Sound(dict') BY <1>4, RehashSound, Zenon DEF Find
  <1>5. ASSUME NEW n \in Size, Expand(n) PROVE Sound(dict')
    <2>1. n \in Nat /\ \E s \in Size : s >= n BY DictAssumption
    <2> QED BY <1>5, <2>1, ExpandSound, Zenon DEF Expand
  <1>6. CASE UNCHANGED vars BY <1>6 DEF vars
  <1> QED BY <1>1, <1>2, <1>3, <1>4, <1>5, <1>6, Zenon DEF Next

\* What an operation does to the values is a step of the map, and what it moves
\* besides is no step at all.
LEMMA StepOfMap ==
  ASSUME Sound(dict), [Next]_vars
  PROVE  Abstract!Next \/ UNCHANGED Abstract!vars
PROOF
  <1>0. Sound(dict) /\ \A k \in Key : Stored[k] \subseteq Val BY DictAssumption
  <1>1. ASSUME NEW k \in Key, NEW v \in Stored[k], Add(k, v) PROVE Abstract!Add(k, v)
    <2>1. /\ Present(Prepared(dict), k) <=> dict.val[k] # None
          /\ dict'.val = IF dict.val[k] # None THEN dict.val ELSE [dict.val EXCEPT ![k] = v]
      BY <1>0, <1>1, AddEffect DEF Add
    <2>2. ret' = <<"add", IF dict.val[k] # None THEN 1 ELSE 0>>
      BY <1>1, <2>1, Zenon DEF Add, DICT_OK, DICT_ERR
    <2> QED BY <2>1, <2>2, Zenon DEF Abstract!Add, Abstract!DICT_OK, Abstract!DICT_ERR
  <1>2. ASSUME NEW k \in Key, NEW v \in Stored[k], Replace(k, v) PROVE Abstract!Replace(k, v)
    <2>1. Present(Prepared(dict), k) <=> dict.val[k] # None BY <1>0, AddEffect, Zenon
    <2>2. dict'.val = [dict.val EXCEPT ![k] = v] BY <1>0, <1>2, ReplaceEffect DEF Replace
    <2>3. ret' = <<"replace", IF dict.val[k] # None THEN 0 ELSE 1>>
      BY <1>2, <2>1, Zenon DEF Replace
    <2> QED BY <2>2, <2>3, Zenon DEF Abstract!Replace
  <1>3. ASSUME NEW k \in Key, Delete(k) PROVE Abstract!Delete(k)
    <2>1. /\ dictSize(dict) # 0 /\ Present(dictRehashStep(dict), k) <=> dict.val[k] # None
          /\ dict'.val = [dict.val EXCEPT ![k] = None]
      BY <1>0, <1>3, DeleteEffect, Zenon DEF Delete
    <2>2. ret' = <<"delete", IF dict.val[k] # None THEN 0 ELSE 1>>
      BY <1>3, <2>1, Zenon DEF Delete, DICT_OK, DICT_ERR
    <2> QED BY <2>1, <2>2, Zenon DEF Abstract!Delete, Abstract!DICT_OK, Abstract!DICT_ERR
  <1>4. ASSUME Find PROVE UNCHANGED Abstract!vars
    BY <1>0, <1>4, RehashSound, Zenon DEF Find, Abstract!vars
  <1>5. ASSUME NEW n \in Size, Expand(n) PROVE UNCHANGED Abstract!vars
    <2>1. n \in Nat /\ \E s \in Size : s >= n BY DictAssumption
    <2>2. dict'.val = dict.val BY <1>0, <1>5, <2>1, ExpandSound, Zenon DEF Expand
    <2> QED BY <1>5, <2>2 DEF Expand, Abstract!vars
  <1>6. CASE UNCHANGED vars BY <1>6 DEF vars, Abstract!vars
  <1> QED BY <1>0, <1>1, <1>2, <1>3, <1>4, <1>5, <1>6, Zenon DEF Next, Abstract!Next

\* What the invariant says of the table, of the counters, of the next bucket to
\* move and of the growth an insertion may ask for.
LEMMA DictInvMeans ==
  ASSUME DictInv
  PROVE  TablesSound
PROOF
  <1>1. EntriesInPlace BY Zenon DEF DictInv, Sound, InPlace, OneEntry, EntriesInPlace, Keys
  <1>2. UsedCounts BY Zenon DEF DictInv, Sound, Counted, UsedCounts
  <1>3. RehashStaysInTable BY NextBucketExists, Zenon DEF DictInv, RehashStaysInTable
  <1>4. ExpandNeverRefused
    <2> DEFINE d == dictRehashStep(dict)
    <2> SUFFICES ASSUME NeedsExpand(d) PROVE ~ dictExpandRefused(d, ExpandTo(d))
      BY DEF ExpandNeverRefused
    <2>1. Sound(d) BY RehashSound, Zenon DEF DictInv
    <2> HIDE DEF d
    <2>2. ~ dictIsRehashing(d) /\ d.used[0] >= d.size[0] BY DEF NeedsExpand
    <2>3. d.used[0] \in Nat /\ d.size[0] \in Nat
      BY <2>1, DictAssumption DEF Sound, DictState
    <2>4. CASE d.size[0] = 0
      <3>1. ExpandTo(d) \in Size BY <2>4, InitialSize DEF ExpandTo
      <3>2. ExpandTo(d) \in Nat /\ 0 \notin Size BY <3>1, DictAssumption, ZenonT(40)
      <3>3. dictNextSize(ExpandTo(d)) \in Size BY <3>1, <3>2, NextSizeExists
      <3>4. KeysOf(d, 0) = {} BY <2>4 DEF KeysOf
      <3>5. d.used[0] = 0 BY <2>1, <3>4, FS_EmptySet, Zenon DEF Sound, Counted
      <3> QED BY <2>2, <2>4, <3>2, <3>3, <3>5 DEF dictExpandRefused
    <2>5. CASE d.size[0] # 0
      <3>1. ExpandTo(d) = d.used[0] + 1 BY <2>5 DEF ExpandTo
      <3>2. d.used[0] <= Cardinality(Key) /\ Cardinality(Key) \in Nat
        <4>1. d.used[0] = Cardinality(KeysOf(d, 0)) /\ KeysOf(d, 0) \in SUBSET Key
          BY <2>1, KeysAreKeys, Zenon DEF Sound, Counted
        <4> QED BY <4>1, FS_Subset, FS_CardinalityType, DictAssumption
      <3>3. \E n \in Size : n >= d.used[0] + 1
        <4>1. PICK n \in Size : n > Cardinality(Key) BY DictAssumption
        <4>2. n \in Nat BY DictAssumption
        <4> QED BY <2>3, <3>2, <4>1, <4>2
      <3>4. dictNextSize(d.used[0] + 1) \in Nat /\ dictNextSize(d.used[0] + 1) >= d.used[0] + 1
        <4> DEFINE n == d.used[0] + 1
        <4>1. n \in Nat /\ \E s \in Size : s >= n BY <2>3, <3>3
        <4> HIDE DEF n
        <4>2. dictNextSize(n) \in Size /\ dictNextSize(n) >= n BY <4>1, NextSizeExists
        <4> QED BY <4>2, DictAssumption, Zenon DEF n
      <3> QED BY <2>2, <2>3, <3>1, <3>4 DEF dictExpandRefused
    <2> QED BY <2>4, <2>5
  <1> QED BY <1>1, <1>2, <1>3, <1>4 DEF TablesSound

\* Every state dict.c can reach is sound.
THEOREM DictSound == Spec => []DictInv
PROOF
  <1>1. Init => DictInv BY EmptySound DEF Init, DictInv, DICT_OK
  <1>2. DictInv /\ [Next]_vars => DictInv'
    <2> SUFFICES ASSUME DictInv, [Next]_vars PROVE DictInv' OBVIOUS
    <2>1. Sound(dict') BY StepSound DEF DictInv
    <2>2. ret' \in {"create", "add", "replace", "delete"} \X {0, 1}
      BY DEF DictInv, Next, Add, Replace, Delete, Find, Expand, vars, DICT_OK, DICT_ERR
    <2> QED BY <2>1, <2>2 DEF DictInv
  <1> QED BY <1>1, <1>2, PTL DEF Spec

\* At every stage of a resize each key with a value has one entry, in the bucket its
\* hash selects; the counters are exact, so that the resize ends when its last entry
\* has moved; dictRehash finds a bucket to move before the end of the table it empties;
\* and the growth that dictAdd and dictReplace ask for is never refused.
THEOREM DictTablesSound == Spec => []TablesSound
  BY DictSound, DictInvMeans, PTL

\* dict.c implements the map of dict.h: every operation returns and leaves what
\* it would on a map, and what a resize moves in between is invisible.
THEOREM DictImplementsMap == Spec => ImplementsMap
PROOF
  <1>1. Init => Abstract!Init
    BY DEF Init, EmptyDict, Abstract!Init, DICT_OK, Abstract!DICT_OK
  <1>2. DictInv /\ [Next]_vars => [Abstract!Next]_(Abstract!vars)
    BY StepOfMap DEF DictInv
  <1> QED BY <1>1, <1>2, DictSound, PTL DEF Spec, ImplementsMap, Abstract!Spec
=============================================================================
