SPECIFICATION MCSpec
CONSTANTS
    Payloads <- MCPayloads
    Declarations <- MCDeclarations
    Limits <- MCLimits
    Bounds <- MCBounds
    Asks <- MCAsks
    Fallback = 4
    DefaultMaxFile = 4
    Readers <- MCReaders
    Buffer = 2
    Cap = 4
    SignedMax = 5
INVARIANTS
    VerdictsTrue
    WithinBudget
    EntryIsReader
PROPERTIES
    VerdictSticks
CHECK_DEADLOCK FALSE
