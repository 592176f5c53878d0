SPECIFICATION Spec
CONSTANTS
    a = a
    b = b
    Tx = {a, b}
    Origin <- BothWays
    Hash = {1}
    NoHash = 0
    Skew <- AgentAhead
    Timeout = 2
    MaxTime = 3
    MaxDup = 1
    ConfirmSeqs = {1}
    Faults = {"drop", "query", "database"}
CHECK_DEADLOCK FALSE
INVARIANTS
    LockedIsRemembered
