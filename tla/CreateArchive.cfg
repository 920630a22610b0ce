CONSTANTS
  Paths <- ThreePaths
  Above <- ProperPrefixes
  WalkOrder <- DeepWalk
  MaxEntries = 3
  MaxChanges = 1
SPECIFICATION FairSpec
INVARIANTS
  NamespaceConsistent
  ProgressHonest
  OkMeansSealed
PROPERTIES
  FailedAddUndone
  TreeAnswered
CHECK_DEADLOCK FALSE
