SPECIFICATION Spec
CONSTANTS
    Upstream <- MCUpstream
    Allowlisted <- MCAllowlisted
    ConfiguredPaths <- MCConfiguredPaths
    FirstGroup <- MCFirstGroup
    WithPort <- MCWithPort
    Restricted <- MCRestricted
    Localhost <- MCLocalhost
    Public <- MCPublic
    Hosts <- MCHosts
    Runs = {r1, r2}
    MaxTraces = 1
    MaxChanges = 2
    MaxApplied = 2
    Offered = {"no-external-network"}
    MaxLate = 2
    MaxFailures = 2
INVARIANTS
    ChannelTypeOK
    DelegationBracketsExecution
    TraceTellsTheOutcome
    EvidenceIsKept
    DelegationIsAccountable
    
SYMMETRY RunSymmetry
CHECK_DEADLOCK FALSE
