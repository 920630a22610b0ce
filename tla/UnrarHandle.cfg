SPECIFICATION FairSpec
CONSTANTS
  Files <- SomeFiles
  Calls <- SomeCalls
  MaxMeddles = 1
  MaxOthers = 1
INVARIANTS
    InstalledAsListed
    CompleteOnOk
    CleanVerdictHonest
    
PROPERTIES
    EveryCallReturns
CHECK_DEADLOCK FALSE
