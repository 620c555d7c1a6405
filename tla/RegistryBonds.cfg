CONSTANTS
    Agents = {a1, a2}
    Registry = registry
    Treasuries = {vault}
    Admins = {op}
    None = none
    Regions = {north, south}
    Corridors = {c1}
    Amounts = {0, 1, 2}
    MinBonds = {1, 2}
    AgentCaps = {1}
    InitialBalance = 2
    MaxSlashes = 1
SPECIFICATION Spec
SYMMETRY UserSymmetry
INVARIANTS
    RegistryBooksBalance
    RegionCapHolds
PROPERTIES
    AuthorizedBondNeverSinks
    OnlyFreshStartsStrand
