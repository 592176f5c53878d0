SPECIFICATION FairSpec
CONSTANTS
    a = a
    b = b
    Tx = {a}
    Origin <- FromL2
    Hash = {1, 2}
    NoHash = 0
    Skew <- L1Ahead
    Timeout = 2
    MaxTime = 2
    MaxDup = 1
    ConfirmSeqs = {1}
    Faults = {"disconnectL1"}
CHECK_DEADLOCK FALSE
PROPERTIES
    EventuallySettled
    EventuallyDelivered
