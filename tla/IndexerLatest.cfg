CONSTANTS
    Workers = {w1}
    CONTRACT_IDS <- EscrowAndPool
    EscrowId = escrow
    RegistryId = registry
    PoolId = pool
    Transfers = {t1}
    Agents = {a1}
    AgentRows = {a1}
    Kinds <- FewKinds
    None = none
    Latest = latest
    StartLedger = latest
    PageLimit = 2
    MaxEvents = 3
    MaxLedger = 3
    MaxCrashes = 1
    MaxRewinds = 0
SPECIFICATION Spec
INVARIANT SameWindowReRead
