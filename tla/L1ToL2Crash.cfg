SPECIFICATION Spec
CONSTANTS
    a = a
    b = b
    Tx = {a}
    Origin <- FromL1
    Hash = {1, 2}
    NoHash = 0
    Skew <- AgentFarAhead
    Timeout = 2
    MaxTime = 3
    MaxDup = 1
    ConfirmSeqs = {}
    Faults = {"submit", "crash"}
CHECK_DEADLOCK FALSE
INVARIANTS
    TypeOK
    NeverPaidAndRefunded
    AgentPaidForLockedAmount
    DestNeverRefundable
PROPERTIES
    ImplementsAtomicTransfer
    HandedOverBeforeCleared
