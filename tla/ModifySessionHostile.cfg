SPECIFICATION Spec
CONSTANTS
  Sessions = {s1, s2}
  Outsiders = {w}
  Origin = o
  None = none
  User = user
  MaxReads = 1
  MaxOutages = 1
CHECK_DEADLOCK FALSE
INVARIANT StagedFromLocked
INVARIANT NoWidening
INVARIANT Recoverable
INVARIANT ErrorLeavesNothing
SYMMETRY Symmetry
