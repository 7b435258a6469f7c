-------------------------------- MODULE Dict --------------------------------
(***************************************************************************)
(* The hash table of dict.c: two tables of buckets, a resize that moves    *)
(* one bucket per operation from the first to the second, and the          *)
(* operations the server's command and configuration tables use.           *)
(*                                                                         *)
(* A bucket is the set of the keys in its chain: the order of a chain is   *)
(* that of insertion and nothing but an iterator sees it (DictIterator).   *)
(* The operations are operators from a dict to the dict they leave, in the *)
(* order of the code's calls.                                              *)
(***************************************************************************)
EXTENDS Integers, FiniteSets

CONSTANTS
  Key,
  Val,
  Stored,      \* the values the users of a key give it
  None,        \* the value of a key that has no entry
  Hash,        \* the type's hash function
  Size,        \* the sizes a table may have: the powers of two from DICT_HT_INITIAL_SIZE on
  EmptyVisits  \* empty buckets one rehash step may skip: 10 in dictRehash

ASSUME DictAssumption ==
  /\ IsFiniteSet(Key)
  /\ None \notin Key \cup Val
  /\ Stored \in [Key -> SUBSET Val]
  /\ Hash \in [Key -> Nat]
  /\ Size \subseteq Nat \ {0}
  /\ \A m, n \in Size : m < n => 2 * m <= n
  /\ \E n \in Size : n > Cardinality(Key)
  /\ EmptyVisits \in Nat \ {0}

VARIABLES
  dict,   \* struct dict, see DictState
  ret     \* the last of dictAdd, dictReplace and dictDelete, and what it returned

vars == <<dict, ret>>

DICT_OK == 0
DICT_ERR == 1

DictState(d) ==
  /\ d = [table |-> d.table, size |-> d.size, used |-> d.used,
          rehashidx |-> d.rehashidx, pauserehash |-> d.pauserehash, val |-> d.val]
  /\ d.size \in [{0, 1} -> Size \cup {0}]     \* DICTHT_SIZE(ht_size_exp[t]), 0 for no table
  /\ d.table = [t \in {0, 1} |-> d.table[t]]
  /\ \A t \in {0, 1} : d.table[t] \in [0 .. d.size[t] - 1 -> SUBSET Key]
  /\ d.used \in [{0, 1} -> Nat]
  /\ d.rehashidx \in Nat \cup {-1}
  /\ d.pauserehash \in Nat
  /\ d.val \in [Key -> Val \cup {None}]

\* The type invariant.
TypeOK == DictState(dict) /\ ret \in {"create", "add", "replace", "delete"} \X {0, 1}

NoTable == [i \in 0 .. -1 |-> {}]
EmptyTable(n) == [i \in 0 .. n - 1 |-> {}]

dictIsRehashing(d) == d.rehashidx # -1
dictSize(d) == d.used[0] + d.used[1]

\* The bucket of k in table t: hash & (size - 1), the size being a power of two.
Index(d, t, k) == Hash[k] % d.size[t]

\* The tables a lookup visits.
Searched(d) == IF dictIsRehashing(d) THEN {0, 1} ELSE {0}
Holds(d, t, k) == k \in d.table[t][Index(d, t, k)]
Present(d, k) == \E t \in Searched(d) : Holds(d, t, k)

KeysOf(d, t) == UNION {d.table[t][i] : i \in 0 .. d.size[t] - 1}
Keys(d) == KeysOf(d, 0) \cup KeysOf(d, 1)

-----------------------------------------------------------------------------
(* Resizing                                                                *)

\* The smallest size that is enough for n entries (_dictNextExp).
dictNextSize(n) ==
  CHOOSE m \in Size : m >= n /\ \A l \in Size : l >= n => m <= l

dictInitialSize == CHOOSE m \in Size : \A l \in Size : m <= l

\* DICT_ERR leaves the dict as it is.
dictExpandRefused(d, n) ==
  dictIsRehashing(d) \/ d.used[0] > n \/ dictNextSize(n) = d.size[0]

\* The first table of a dict is not a resize.
dictExpand(d, n) ==
  LET t == IF d.size[0] = 0 THEN 0 ELSE 1
  IN  IF dictExpandRefused(d, n) THEN d
      ELSE [d EXCEPT !.size[t] = dictNextSize(n), !.used[t] = 0,
                     !.table[t] = EmptyTable(dictNextSize(n)),
                     !.rehashidx = IF t = 0 THEN @ ELSE 0]

\* dict_can_resize is 1 throughout and no type of the server has an expandAllowed.
NeedsExpand(d) == ~ dictIsRehashing(d) /\ d.used[0] >= d.size[0]
ExpandTo(d) == IF d.size[0] = 0 THEN dictInitialSize ELSE d.used[0] + 1

dictExpandIfNeeded(d) ==
  IF NeedsExpand(d) THEN dictExpand(d, ExpandTo(d)) ELSE d

\* The first bucket dictRehash finds not empty, from rehashidx on.
NextBucket(d) ==
  CHOOSE i \in d.rehashidx .. d.size[0] - 1 :
    d.table[0][i] # {} /\ \A j \in d.rehashidx .. i - 1 : d.table[0][j] = {}

\* The entries of bucket i go to the buckets of the second table.
MoveBucket(d, i) ==
  LET moved == d.table[0][i]
      n == Cardinality(moved)
  IN  [d EXCEPT !.table[0][i] = {},
                !.table[1] = [j \in DOMAIN @ |->
                                @[j] \cup {k \in moved : Index(d, 1, k) = j}],
                !.used[0] = @ - n, !.used[1] = @ + n,
                !.rehashidx = i + 1]

\* An empty first table is freed and the second takes its place.
SwapTables(d) ==
  [d EXCEPT !.table[0] = d.table[1], !.table[1] = NoTable,
            !.size[0] = d.size[1], !.size[1] = 0,
            !.used[0] = d.used[1], !.used[1] = 0,
            !.rehashidx = -1]
RehashEnd(d) == IF d.used[0] = 0 THEN SwapTables(d) ELSE d

\* dictRehash(d, 1), for a dict that is being rehashed.
dictRehash(d) ==
  IF d.used[0] = 0 THEN SwapTables(d)
  ELSE IF NextBucket(d) - d.rehashidx >= EmptyVisits
       THEN [d EXCEPT !.rehashidx = @ + EmptyVisits]
       ELSE RehashEnd(MoveBucket(d, NextBucket(d)))

dictRehashStep_ignores_pause(d) == IF dictIsRehashing(d) THEN dictRehash(d) ELSE d

dictRehashStep(d) ==
  IF dictIsRehashing(d) /\ d.pauserehash = 0 THEN dictRehash(d) ELSE d

-----------------------------------------------------------------------------
(* Operations                                                              *)

\* What dictAddRaw has done by the time _dictKeyIndex looks for the key.
Prepared_without_step(d) == dictExpandIfNeeded(d)

Prepared(d) == dictExpandIfNeeded(dictRehashStep(d))

\* A new entry goes to the second table during a resize.
Insert_first_table(d, k, v) ==
  [d EXCEPT !.table[0][Index(d, 0, k)] = @ \cup {k}, !.used[0] = @ + 1, !.val[k] = v]

Insert(d, k, v) ==
  LET t == IF dictIsRehashing(d) THEN 1 ELSE 0
  IN  [d EXCEPT !.table[t][Index(d, t, k)] = @ \cup {k},
                !.used[t] = @ + 1, !.val[k] = v]

dictAdd(d, k, v) ==
  LET p == Prepared(d) IN IF Present(p, k) THEN p ELSE Insert(p, k, v)

dictReplace(d, k, v) ==
  LET p == Prepared(d)
  IN  IF Present(p, k) THEN [p EXCEPT !.val[k] = v] ELSE Insert(p, k, v)

\* The first table that holds k loses it.
Unlink_first_table_only(d, k) ==
  IF Holds(d, 0, k)
  THEN [d EXCEPT !.table[0][Index(d, 0, k)] = @ \ {k}, !.used[0] = @ - 1, !.val[k] = None]
  ELSE d

Unlink(d, k) ==
  LET t == IF Holds(d, 0, k) THEN 0 ELSE 1
  IN  IF Present(d, k)
      THEN [d EXCEPT !.table[t][Index(d, t, k)] = @ \ {k},
                     !.used[t] = @ - 1, !.val[k] = None]
      ELSE d

dictDelete(d, k) == IF dictSize(d) = 0 THEN d ELSE Unlink(dictRehashStep(d), k)

\* What dictFind may return.  It looks one bucket after the key's own, and for
\* the last bucket reads past the end of the table, whatever is there.
dictFind(d, k) ==
  LET r == dictRehashStep(d)
      next(t) == Index(r, t, k) + 1
      inside == {t \in Searched(r) : next(t) < r.size[t]}
  IN  IF dictSize(d) = 0 THEN {"null"}
      ELSE {IF \E t \in inside : k \in r.table[t][next(t)] THEN "entry" ELSE "null"}
           \cup IF inside = Searched(r) THEN {} ELSE {"undefined"}

-----------------------------------------------------------------------------
EmptyDict ==
  [table |-> [t \in {0, 1} |-> NoTable], size |-> [t \in {0, 1} |-> 0],
   used |-> [t \in {0, 1} |-> 0], rehashidx |-> -1, pauserehash |-> 0,
   val |-> [k \in Key |-> None]]

Init == dict = EmptyDict /\ ret = <<"create", DICT_OK>>

Add(k, v) ==
  /\ dict' = dictAdd(dict, k, v)
  /\ ret' = <<"add", IF Present(Prepared(dict), k) THEN DICT_ERR ELSE DICT_OK>>

Replace(k, v) ==
  /\ dict' = dictReplace(dict, k, v)
  /\ ret' = <<"replace", IF Present(Prepared(dict), k) THEN 0 ELSE 1>>

Delete(k) ==
  /\ dict' = dictDelete(dict, k)
  /\ ret' = <<"delete", IF dictSize(dict) # 0 /\ Present(dictRehashStep(dict), k)
                       THEN DICT_OK ELSE DICT_ERR>>

\* A lookup moves a bucket too; what it returns is dictFind's.
Find ==
  /\ dictSize(dict) # 0
  /\ dict' = dictRehashStep(dict)
  /\ UNCHANGED ret

\* initConfigValues sizes its table once, right after it is created.
Expand(n) ==
  /\ dict = EmptyDict
  /\ dict' = dictExpand(dict, n)
  /\ UNCHANGED ret

Next ==
  \/ \E k \in Key :
       \/ \E v \in Stored[k] : Add(k, v) \/ Replace(k, v)
       \/ Delete(k)
  \/ Find
  \/ \E n \in Size : Expand(n)

Spec == Init /\ [][Next]_vars

-----------------------------------------------------------------------------
(* Properties                                                              *)

\* dict.c implements the map dict.h promises: whatever resize is going on,
\* adding, replacing and deleting return and leave what they would on a map.
\* The entries are where a lookup reaches them by EntriesInPlace.
Abstract == INSTANCE Map WITH map <- dict.val, ret <- ret
ImplementsMap == Abstract!Spec

\* Every key with a value has its entry, in the bucket its hash selects in
\* exactly one of the tables, so that the lookup of dictAdd and dictDelete
\* finds it; no other key has one.
EntriesInPlace ==
  /\ \A t \in {0, 1} : \A i \in 0 .. dict.size[t] - 1 : \A k \in dict.table[t][i] :
       Index(dict, t, k) = i
  /\ KeysOf(dict, 0) \cap KeysOf(dict, 1) = {}
  /\ Keys(dict) = {k \in Key : dict.val[k] # None}

\* ht_used counts the entries: the end of a resize is decided by it, and
\* _dictClear stops freeing when it reaches 0.
UsedCounts ==
  \A t \in {0, 1} : dict.used[t] = Cardinality(KeysOf(dict, t))

\* assert(DICTHT_SIZE(d->ht_size_exp[0]) > (unsigned long)d->rehashidx), and
\* the loop after it finds a bucket to move before the end of the table.
RehashStaysInTable ==
  dictIsRehashing(dict) /\ dict.used[0] # 0
    => \E i \in dict.rehashidx .. dict.size[0] - 1 : dict.table[0][i] # {}

\* _dictExpandIfNeeded never refuses, so that dictReplace, when dictAddRaw
\* returns no entry, has an existing one to dereference.
ExpandNeverRefused ==
  LET d == dictRehashStep(dict)
  IN  NeedsExpand(d) => ~ dictExpandRefused(d, ExpandTo(d))

\* What every operation of dict.c relies on, at every stage of a resize.
TablesSound == EntriesInPlace /\ UsedCounts /\ RehashStaysInTable /\ ExpandNeverRefused

\* "de = dictFind(dict,key); assert(de != NULL)" of dictTest.
FindFindsPresent == \A k \in Keys(dict) : dictFind(dict, k) = {"entry"}
=============================================================================
