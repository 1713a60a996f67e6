SPECIFICATION FairSpec
CONSTANTS
    Calls = {1, 2}
    NumTables = 2
    NumBatches = 1
    Drivers = {"pdo", "wpdb"}
    Kinds = {"backup", "restore", "query"}
    ForeignDumps <- MCDumps
    Queries <- MCQueries
    MaxEdits = 1
    MaxFaults = 1
INVARIANTS RestoredIsWhole
PROPERTIES BackupKeepsPromise VerifyLeavesSiteAlone CancelEndsCall
CHECK_DEADLOCK FALSE
