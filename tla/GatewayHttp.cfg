SPECIFICATION GatewaySpec
CONSTANTS
    Budgets <- MCBudgets
    TtlMs = 1
    MaxRetainedGrants = 1
    Charges = {2}
    MaxMints = 2
    MaxClock = 1
    MaxTokens = 6
    MaxNetworkCalls = 2
    Calls = {c1, c2}
    Kinds = {"model", "forward"}
    NoCall = NoCall
SYMMETRY CallSymmetry
INVARIANTS
    GatewayTypeOK
    RevocationReachesCalls
    ProviderCallsWithinBudget
    MeterMatchesResponses
    MapHoldsOpenCalls
