SPECIFICATION FairSpec
CONSTANTS
    a = a
    b = b
    Tx = {a}
    Origin <- FromL1
    Hash = {1, 2}
    NoHash = 0
    Skew <- L2Ahead
    Timeout = 2
    MaxTime = 2
    MaxDup = 1
    ConfirmSeqs = {}
    Faults = {"drop"}
CHECK_DEADLOCK FALSE
PROPERTIES
    SettledFailureIsCleared
