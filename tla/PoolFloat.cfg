CONSTANTS
    Users = {u1, u2}
    Pool = pool
    Admins = {op}
    None = none
    Registries = {reg}
    Regions = {north, south}
    Amounts = {0, 1, 2, 3}
    Bonds = {0, 3}
    Ratios = {9999, 15000}
    Caps = {0, 5000, 9500, 9501}
    InitialBalance = 3
    U32Max = 1000
    I128Max = 100000
    MaxMoves = 2
SPECIFICATION Spec
SYMMETRY UserSymmetry
INVARIANTS
    BooksBalance
    NobodyLockedIn
