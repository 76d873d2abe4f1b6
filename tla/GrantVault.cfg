SPECIFICATION FairSpec
CONSTANTS
    Budgets <- MCBudgets
    TtlMs = 2
    MaxRetainedGrants = 2
    Charges = {1}
    MaxMints = 3
    MaxClock = 2
    MaxTokens = 1
    MaxNetworkCalls = 1
INVARIANTS
    TypeOK
    CallBudgetHolds
    UsableTokenIsRedacted
PROPERTIES
    OnlyLiveGrantsSpend
    ImplementsLifecycle
    EvictionKeepsEvidence
    AuthorityExpires
