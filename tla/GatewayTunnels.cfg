SPECIFICATION GatewayFairSpec
CONSTANTS
    Budgets <- MCBudgets
    TtlMs = 1
    MaxRetainedGrants = 1
    Charges = {2}
    MaxMints = 1
    MaxClock = 1
    MaxTokens = 6
    MaxNetworkCalls = 2
    Calls = {c1, c2}
    Kinds = {"connect"}
    NoCall = NoCall
INVARIANTS
    MapHoldsOpenCalls
PROPERTIES
    TunnelsEnd
