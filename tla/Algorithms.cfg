CONSTANTS
  W = 14
  Unit <- MCUnit
  ArgChar <- MCArgChar
  MaxArgs = 4
  TextChar <- MCTextChar
  MaxText = 5
  GlobChar <- MCGlobChar
  MaxPattern = 4
  MaxString = 3
SPECIFICATION Spec
INVARIANTS  NumbersExact GlobExact
CHECK_DEADLOCK FALSE
