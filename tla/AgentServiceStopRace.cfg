SPECIFICATION ServiceSpec
CONSTANTS
    AgentIds = {a1}
    a1 = a1
    Kinds <- MCStops
    PersistMayFail = FALSE
    MaxRuns = 2
    MaxCommands = 2
    MaxRestarts = 0
INVARIANTS OneActiveRun
CHECK_DEADLOCK FALSE
