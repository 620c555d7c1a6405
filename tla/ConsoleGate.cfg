CONSTANTS
    Emails = {"ann", "bob"}
    Clients = {home}
    AccountLists <- Lists
    Secrets = {s1, s2}
    Absent = none
    Mutations = {"decide", "revoke", "other"}
    Claimed = {"bob"}
    MAX_FAILURES = 2
    WINDOW = 3
    TTL = 1
    Second = 2
    MaxTime = 5
    MaxAttempts = 3
    MaxRequests = 1
    MaxDeploys = 1
SYMMETRY SecretSymmetry
SPECIFICATION ConsoleSpec
CHECK_DEADLOCK FALSE
INVARIANTS
    ForwardedWithAuthority
    ThrottleKeepsItsWord
