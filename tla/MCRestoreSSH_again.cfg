SPECIFICATION Spec
CONSTANTS
    Calls = 2
    Size = 2
    Pipefail = TRUE
INVARIANT CompleteMeansRestored
CHECK_DEADLOCK FALSE
