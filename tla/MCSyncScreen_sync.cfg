SPECIFICATION FairScreenSpec
CONSTANTS
    Flows = {f1, f2}
    Key = "k1"
    Others <- MCOthers
    Exports <- MCExports
    Ids = {1, 2, 3}
    Names = {"A", "B"}
    Start <- MCStart
    MaxAsides = 1
INVARIANTS ScreenTypeOK
PROPERTIES OnlyOwnKey ReplacedWasListed PushKeepsWhatWasPulled LoadingEnds
CHECK_DEADLOCK FALSE
