CONSTANTS
    i1 = i1
    i2 = i2
    Instance = {i1, i2}
    Port <- MCPort
    Nobody = Nobody
    Requests <- MCRequests
    MaxFaults = 1
SPECIFICATION FairSpec
INVARIANTS
    LeaseMatchesRow
    NoFalseExhaustion
PROPERTIES
    VerifiedKept
    Ownership
    LostOperationFrees
