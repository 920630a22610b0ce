SPECIFICATION FairSpec
CONSTANTS
  Sessions = {s1, s2}
  Outsiders = {}
  Origin = o
  None = none
  User = user
  MaxReads = 1
  MaxOutages = 0
CHECK_DEADLOCK FALSE
PROPERTY NoLostUpdate
PROPERTY ImplementsAtomicArchive
PROPERTY LockReleased
