-------------------------------- MODULE Map --------------------------------
(***************************************************************************)
(* What dict.h promises its callers: a finite map from keys to values,     *)
(* with the results dictAdd, dictReplace and dictDelete return.            *)
(***************************************************************************)
EXTENDS Naturals

CONSTANTS Key, Val, None

VARIABLES
  map,    \* the value of each key, None when it has no entry
  ret     \* the last operation and what it returned

vars == <<map, ret>>

DICT_OK == 0
DICT_ERR == 1

Init == map = [k \in Key |-> None] /\ ret = <<"create", DICT_OK>>

\* A key that has an entry keeps it.
Add(k, v) ==
  \/ map[k] = None /\ ret' = <<"add", DICT_OK>> /\ map' = [map EXCEPT ![k] = v]
  \/ map[k] # None /\ ret' = <<"add", DICT_ERR>> /\ UNCHANGED map

\* 1 says that the key is new.
Replace(k, v) ==
  /\ ret' = <<"replace", IF map[k] = None THEN 1 ELSE 0>>
  /\ map' = [map EXCEPT ![k] = v]

Delete(k) ==
  /\ ret' = <<"delete", IF map[k] = None THEN DICT_ERR ELSE DICT_OK>>
  /\ map' = [map EXCEPT ![k] = None]

Next ==
  \E k \in Key :
    \/ \E v \in Val : Add(k, v) \/ Replace(k, v)
    \/ Delete(k)

Spec == Init /\ [][Next]_vars
=============================================================================
