CONSTANTS
    Contents <- NestedContents
    Calls <- NestedCalls
    MaxMeddles = 0
    Scan = 4
    Room = 2
    RarFirst = 2
    RarLast = 3
SPECIFICATION Spec
INVARIANT BackedForLife
CHECK_DEADLOCK FALSE
