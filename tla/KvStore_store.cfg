SPECIFICATION MCSpec
CONSTANTS
    Threads = {t1, t2}
    Keys = {a, b}
    Journalled = TRUE
    MaxVersion = 3
    MaxCrashes = 2
SYMMETRY Symmetry
INVARIANTS
    OneWritePerVersion
    LoneJournalHolds
PROPERTIES
    LoneImplements
