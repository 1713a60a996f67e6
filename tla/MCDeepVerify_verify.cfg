SPECIFICATION FairSpec
CONSTANTS
    Verifs = {v1, v2}
    Plugin = {v2}
    Records = {r1}
    Tables = {t1}
    Cut = {}
    Dumps = {{"use"}, {"plain"}}
    MaxSecond = 1
INVARIANTS VerdictIsOfTheFile LeftoverIsExplained
PROPERTIES ProductionUntouched CancelEnds
CHECK_DEADLOCK FALSE
