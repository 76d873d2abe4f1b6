SPECIFICATION Spec
CONSTANTS
    Agents = {a, b}
    None = None
    MaxRuns = 2
    MaxOpen = 2
    MaxFailures = 1
INVARIANTS
    WebTypeOK
    ScreenFollowsSelection
    ShownRunIsWatched
SYMMETRY AgentSymmetry
CHECK_DEADLOCK FALSE
