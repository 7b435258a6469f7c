CONSTANTS
  k1 = k1
  k2 = k2
  k3 = k3
  k4 = k4
  k5 = k5
  Key = {k1, k2, k3, k4, k5}
  Val = {"a", "b"}
  Stored <- MCStored
  None = "none"
  Hash <- MCHash
  Size = {2, 4, 8}
  EmptyVisits = 1
SPECIFICATION SafeSpec
INVARIANTS TablesSound LoadBounded IteratorSound
PROPERTIES ImplementsMap ReturnedOnce
