CONSTANTS
    Subjects = {alice}
    Callers = {escrow1, stranger}
    Attesters = {kyc}
    Admins = {op}
    None = none
    Corridors = {c1}
    Amounts = {0, 1, 2, 3}
    ThresholdInputs <- MCThresholds
    Expiries = {1, 3}
    SECONDS_PER_DAY = 2
    U32Max = 1000
    MaxTime = 3
    MaxCommits = 3
    MaxPublications = 3
SPECIFICATION Spec
SYMMETRY UserSymmetry
INVARIANTS
    VolumeMatchesCommits
PROPERTIES
    CeilingHoldsWhenItMatters
