SPECIFICATION QuotingSpec
CONSTANTS
    Clients = {ann}
    SourceAmounts = {49, 353}
    Spreads = {75}
    FeeLevels = {200, 500}
    Secrets = {key1, key2}
    Books <- GoodOrNoMarket
    Absent = absent
    RATE_SCALE = 1000
    QUOTE_TTL = 2
    MAX_TICK_AGE = 2
    FETCH_TIMEOUT = 1
    WINDOW = 2
    MAX = 2
    MaxInstant = 4
    MaxRequests = 4
    MaxInFlight = 1
    MaxRestarts = 1
INVARIANTS
    LiveQuoteIsRecent
    QuotePredictsPayout
    OracleBudget
SYMMETRY SecretSymmetry
CHECK_DEADLOCK FALSE
