SPECIFICATION ServiceSpec
CONSTANTS
    AgentIds = {a1}
    a1 = a1
    Kinds <- MCWithoutStop
    PersistMayFail = TRUE
    MaxRuns = 3
    MaxCommands = 2
    MaxRestarts = 1
INVARIANTS ServiceTypeOK OneActiveRun AgentsAndRunsAgree ActiveRunIsCancellable
PROPERTIES FinalStatusStands
CHECK_DEADLOCK FALSE
