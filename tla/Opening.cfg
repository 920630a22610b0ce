CONSTANTS
    Contents <- MCContents
    Calls <- MCCalls
    MaxMeddles = 2
    Scan = 4
    Room = 2
    RarFirst = 2
    RarLast = 3
SPECIFICATION Spec
INVARIANTS
    DetectedIsRead
    HandleKeepsPayload
    StagingBounded
CHECK_DEADLOCK FALSE
