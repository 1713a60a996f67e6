SPECIFICATION Spec
CONSTANTS
    Jobs = {j1, j2}
    MaxProgress = 1
    MaxChanges = 1
    None = None
INVARIANTS OneTicker CacheIsCurrent
PROPERTIES FinishedIsDrawn ProgressAppears
CHECK_DEADLOCK FALSE
