CONSTANTS
    Workers = {w1}
    CONTRACT_IDS <- EscrowAndPool
    EscrowId = escrow
    RegistryId = registry
    PoolId = pool
    Transfers = {t1}
    Agents = {a1}
    AgentRows = {a1}
    Kinds <- FewKinds
    None = none
    Latest = latest
    StartLedger = 1
    PageLimit = 10
    MaxEvents = 3
    MaxLedger = 3
    MaxCrashes = 0
    MaxRewinds = 0
SPECIFICATION Spec
INVARIANT NothingSkipped
