SPECIFICATION MCSpec
CONSTANTS
    c1 = c1
    s1 = s1
    s2 = s2
    o1 = o1
    None = None
    VxSock = {s1, s2}
    MAX_IO_COUNT = 2
    MaxSerial = 2
INVARIANTS
    HandlersOfASocket
PROPERTIES
    CloseIsNoticed
    SilentPeerRemoved
    ConnectAnswered
CHECK_DEADLOCK FALSE
