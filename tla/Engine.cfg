SPECIFICATION FairSpec
CONSTANTS
    MaxBoots = 2
    MaxRuns = 2
INVARIANTS
    EngineTypeOK
    BootIsFailClosed
PROPERTIES
    EndingsEnd
CHECK_DEADLOCK FALSE
