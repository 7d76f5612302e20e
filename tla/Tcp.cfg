SPECIFICATION Spec
CONSTANTS
    Active = a
    Passive = b
    RxCap = 2
    TxCap = 2
    Mss = 2
    SeqSpace = 32
    MaxSegments = 4
    DupAcks = 2
    InitialSeq <- MCSeq
    Scenarios <- MCScenarios
    MaxInFlight = 2
INVARIANTS
    TypeOK
    StreamInOrder
    FinishedIsComplete
    AckedIsHeld
    NoPanic
    NoStall
CHECK_DEADLOCK FALSE
