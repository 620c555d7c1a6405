CONSTANTS
    Calls = {e1, e2}
    Agents = {a1}
    SelfSigned = {a1}
    Bond = 6
    TopUps = {q1}
    Amounts = {1, 3}
    Deciders = {d1, d2}
    Executors = {e1, e2}
    Sweeps = {s1}
    Desks = {o1, o2}
    FLOAT_ALERT_BPS = 1500
    None = none
    MaxTimeouts = 1
    MaxFaults = 1
SPECIFICATION Spec
SYMMETRY CallSymmetry
CHECK_DEADLOCK FALSE
INVARIANTS
    NothingMovesUnapproved
    OneRequestOneDraw
