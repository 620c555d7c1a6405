CONSTANTS
    Senders = {h1}
    Agents = {a1}
    Treasury = treasury
    Escrow = escrow
    Registry = registry
    Hook = hook
    Pool = pool
    Operator = operator
    AttesterKey = attester
    None = None
    Token = token_contract
    Regions = {ng_lag}
    Corridors = {ngn_lag}
    CorridorRegion <- MCCorridorRegion
    Codes = {code, other}
    Transferred = {50}
    Bonded = {40, 60}
    Floats = {20, 40, 100}
    FEE_BPS = 200
    MIN_BOND = 30
    BondLevels = {0, 20, 60}
    RATIO_BPS = 15000
    Ratios = {15000, 20000}
    CAP_BPS = 8000
    THRESHOLDS <- MCThresholds
    WINDOW = 2
    SECONDS_PER_DAY = 2
    MaxTime = 2
    MaxTransfers = 2
    MaxSlashes = 1
    MaxMoves = 2
    REGION = ng_lag
    CORRIDOR = ngn_lag
    CLAIM_CODE = code
    AMOUNT = 50
    BOND = 60
    AGENT_TOP_UP = 70
    TRANSFER_EXPIRY_SECS = 1
    FEE_CHECKED = 200
    INITIAL_SUPPLY = 300
    Drifts = {1}
    MaxIssues = 1
    MaxRuns = 1
    MaxOutside = 0
SPECIFICATION BringUpSpec
INVARIANT UndisturbedRunPasses
CHECK_DEADLOCK FALSE
