SPECIFICATION FairSpec
CONSTANTS
    Tests = {t1, t2}
    Paths = {"direct", "jump", "wordpress"}
    MaxAttempts = 2
    KnownFiles <- MCKnownFiles
INVARIANTS TypeOK NothingLeftOpen RetriedHandshakeFails RunningIsAlive
PROPERTY CancelEndsCommand
CHECK_DEADLOCK FALSE
