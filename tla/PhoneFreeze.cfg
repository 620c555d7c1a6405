CONSTANTS
    ALPHABET = {"0", "1", "A"}
    CLAIM_CODE_LENGTH = 2
    GROUP_SIZE = 1
    CorridorList <- List
    Bandings <- Settings
    PhoneAmounts = {2}
    LedgerCodes <- Ledger
    TransferStatuses = {"PENDING", "CLAIMED"}
    Typed = {1, 2}
    NotNumeric = text
    Inputs <- Keyed
    Drawn <- Codes
    AgentIds = {"ann", "bob"}
    Null = none
    Failed = failed
    MaxScreens = 4
    MaxCounter = 3
    MaxCalls = 2
    MaxTopUps = 1
SPECIFICATION PhoneSpec
CHECK_DEADLOCK FALSE
INVARIANT NoFailureFreezes
