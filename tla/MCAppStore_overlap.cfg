CONSTANTS
    o1 = o1
    o2 = o2
    old = old
    none = none
    NoOp = none
    Ops <- TwoOps
    Ids <- MCIds
    Jobs <- AllJobs
    Vaults <- MCVaults
    Bundles <- MCBundles
    Seed <- MCSeed
    MaxCrashes = 1
SPECIFICATION InTurnSpec
CHECK_DEADLOCK FALSE
INVARIANTS DiskMirrorsStore Agreement AloneCompleteIsRecorded
PROPERTIES AloneVaultOnlyGrows
