SPECIFICATION MCSpec
CONSTANTS
    Thread = {t1, t2, t3}
    Key = {k1, k2}
    NoThread = NoThread
    Worker = {w1, w2}
    Task = {j1, j2}
    NoTask = NoTask
    MaxTerminate = 1
    Delays = {0, 1, 3}
    CheckInterval = 1
    Interval <- TwoModules
    MaxTimers = 2
    MaxTime = 4
    MaxFaults = 3
    L1 = L1
    L2 = L2
    Layer = {L1, L2}
    MaxLost = 2
INVARIANTS
    MutualExclusion
    TasksAccountedFor
    TimersOnceInOrder
    EventHasManager
PROPERTIES
    WriterEnters
    WaitSound
    PoolCallsReturn
    TimersFire
    AlarmOnlyIfSilent
    AgentRestarted
    ReconnectsUntilExit
CHECK_DEADLOCK FALSE
