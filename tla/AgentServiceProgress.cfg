SPECIFICATION ServiceFairSpec
CONSTANTS
    AgentIds = {a1}
    a1 = a1
    Kinds <- CommandKinds
    PersistMayFail = FALSE
    MaxRuns = 2
    MaxCommands = 2
    MaxRestarts = 0
INVARIANTS ListedAgentsHaveWorkspaces
PROPERTIES RunsSettle CommandsReturn
CHECK_DEADLOCK FALSE
