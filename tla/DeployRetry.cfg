CONSTANTS
    Operators = {o1, o2}
    Configs <- AllConfigs
    Attester = attester
    Absent = absent
    MaxDeploys = 2
    MaxFaults = 2
SYMMETRY OperatorSymmetry
SPECIFICATION DeploySpec
CHECK_DEADLOCK FALSE
INVARIANTS
    RecordedSetIsWired
    NothingLeftHalfBuilt
