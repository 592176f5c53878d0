SPECIFICATION Spec
CONSTANTS
    a = a
    b = b
    Tx = {a}
    Origin <- FromL1
    Hash = {1, 2}
    NoHash = 0
    Skew <- AgentAhead
    Timeout = 2
    MaxTime = 3
    MaxDup = 2
    ConfirmSeqs = {}
    Faults = {"drop", "disconnectL2"}
CHECK_DEADLOCK FALSE
INVARIANTS
    LockedIsRemembered
    ContractsAgree
