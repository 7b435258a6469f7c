------------------------------- MODULE MCDict -------------------------------
EXTENDS DictIterator

CONSTANTS k1, k2, k3, k4, k5

\* Hash values: two keys collide in every table, two only in the smaller ones,
\* one is in the last bucket of each.
MCHash == [k \in Key |-> CASE k = k1 -> 0 [] k = k2 -> 0 [] k = k3 -> 3
                           [] k = k4 -> 2 [] k = k5 -> 7 [] OTHER -> 4]

\* One key has its value replaced by another.
MCStored == [k \in Key |-> IF k = k1 THEN Val ELSE {"a"}]
=============================================================================
