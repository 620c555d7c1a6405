CONSTANTS
    Calls <- AllCalls
    Users = {u1, u2}
    Addressed = {u1}
    Attester = attester
    Requests = {r1, r2}
    Revocations = {v1}
    Amounts = {1, 3}
    tier1Max = 1
    tier2Max = 2
    ProviderTiers = {"Standard", "Enhanced"}
    None = none
    TTL = 1
    MaxTime = 2
    MaxTimeouts = 1
    MaxFailures = 1
    MaxWebhooks = 1
SPECIFICATION Spec
SYMMETRY RequestSymmetry
CHECK_DEADLOCK FALSE
INVARIANTS
    AnchorsHaveRecords
    OnlyVerifiedVouchedFor
    RevocationLanded
