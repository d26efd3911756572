\* A packet of three bytes and one of one, two connections on one SOCKET value.
SPECIFICATION FairSpec
CONSTANTS
    Threads = {t1, t2}
    Lengths <- TwoPackets
    MaxConns = 2
    MaxWrites = 4
    UintSize = 8
INVARIANTS
    WritesOK
    QueueIsExact
PROPERTY
    EverySendEnds
CHECK_DEADLOCK FALSE
