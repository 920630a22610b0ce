CONSTANTS
    Places = {"tools", "winrar"}
    SearchLists <- MCSearchLists
    Programs <- MCPrograms
    Sources = {"doc", "dir"}
    Passwords = {"none", "good", "empty", "control", "nul"}
    MaxEntries = 2
    MaxChanges = 2
SPECIFICATION RarSpec
INVARIANTS
    OkMeansWhole
    RunIsSound
CHECK_DEADLOCK FALSE
