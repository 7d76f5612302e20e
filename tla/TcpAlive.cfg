SPECIFICATION Spec
CONSTANTS
    Active = a
    Passive = b
    RxCap = 2
    TxCap = 2
    Mss = 2
    SeqSpace = 32
    MaxSegments = 4
    DupAcks = 2
    InitialSeq <- MCSeq
    Scenarios <- MCKeepAlive
    MaxInFlight = 2
INVARIANT
    StreamInOrder
CHECK_DEADLOCK FALSE
