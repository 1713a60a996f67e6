SPECIFICATION FairSpec
CONSTANTS
    MaxLen = 4
    MiB = 2
    Pipefail = TRUE
    Localhost = FALSE
INVARIANTS
    BackupIsWhole
    RetryStartsClean
PROPERTIES CallEnds KeepsPromise
CHECK_DEADLOCK FALSE
