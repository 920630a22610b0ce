CONSTANTS
    Worlds <- MCWorlds
    Calls <- MCCalls
    Buf = 2
    MaxFaults = 1
SPECIFICATION FairSpec
INVARIANTS
    HandleInv
    AnswersExact
    NameMeansOneRecord
PROPERTIES
    EveryCallReturns
