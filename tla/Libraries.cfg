SPECIFICATION MCSpec
CONSTANTS
    Width = 8
    MaxDigits = 3
    BinHome <- BinHomeModel
    address_prefix_ <- PrefixModel
    chain_code_ <- ChainModel
    Pad = Pad
    Junk = Junk
    Key = {k1, k2}
    Single = k0
    Batch = {b1, b2, b3}
    NoBatch = NoBatch
    Slots = 2
    MAX_BATCH_COUNT = 4
    Overlap = FALSE
    MaxLive = 2
    MaxWrites = 1
    None = None
    Client = {c1, c2}
    Server = {s1, s2}
    Ssl = FALSE
    ThreadCount = 1
    MaxBytes = 2
    MaxChunk = 2
    size_capacity_ = 1
    time_capacity_ = 2
    Expire = 2
    CheckPeriod = 1
    Faults = {"move", "copy", "open"}
    MaxSilence = 1
    MaxRate = 2
    MaxLines = 4
    MaxTime = 4
    c2 = c2
    i2 = i2
    InHdl = {i1, i2}
    OutHdl = {o1}
    ServerDeleteDelay = 0
    ClientDeleteDelay = 2
    CloseTimeout = 1
    ConnectTimeOut = 3
    PeerLatency = 1
INVARIANTS
    TextsAgree
    NumbersExact
    BatchAllOrNothing
    LogKeptAsConfigured
    StreamsKeptApart
    PeerAddressIsPeer
    ConnectionReleasedOnce
    LivePeerKept
CHECK_DEADLOCK FALSE
