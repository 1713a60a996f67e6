SPECIFICATION FairSpec
CONSTANTS
    Calls = 2
    Size = 2
    Pipefail = TRUE
INVARIANTS ImportIsWhole OneImport
PROPERTIES CallEnds KeepsPromise
CHECK_DEADLOCK FALSE
