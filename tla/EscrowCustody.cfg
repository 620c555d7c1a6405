CONSTANTS
    Addresses = {a1, a2}
    Escrow = escrow
    Admins = {op}
    None = none
    Tokens = {usdc}
    Corridors = {c1}
    Registries = {reg1}
    Hooks = {hook1}
    Reveals = {code1}
    Amounts = {0, 20, 41}
    FeeLevels = {0, 500, 501, 1000}
    ExpiryLimits = {0, 1}
    Expiries = {1, 2}
    InitialBalance = 50
    U32Max = 1
    I128Max = 20499
    MaxTime = 3
    MaxTransfers = 2
SPECIFICATION FairSpec
INVARIANTS
    TypeOK
    CustodyCoversPending
    FeesWithinCap
    SettledInWindow
PROPERTIES
    SettledIsFinal
    KeepsPromise
    EveryTransferSettles
