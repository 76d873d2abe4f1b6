SPECIFICATION ArchiveSpec
CONSTANTS
    t1 = t1
    t2 = t2
    t3 = t3
    t4 = t4
    t5 = t5
    t6 = t6
    Traces <- MCTraces
    TooLarge <- MCTooLarge
    Cap = 2
    Refused <- MCNoRename
    MaxWriters = 3
SYMMETRY MCSymmetry
INVARIANTS ArchiveTypeOK RecentEvidenceKept FindMissesNothing
CHECK_DEADLOCK FALSE
