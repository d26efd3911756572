\* Three connections on two handles, one of them reissued.
SPECIFICATION Spec
CONSTANTS
    Handles = {h1, h2}
    Buffers = {b1, b2, b3}
    Threads = {t1, t2}
    Acceptor = acceptor
    NoBuf = NoBuf
    NoHandle = NoHandle
    MaxClients = 0
    MaxConns = 3
    MaxPackets = 1
    MaxExpiries = 0
    FailSites <- LateSites
SYMMETRY Interchangeable
INVARIANTS
    TypeOK
    ExclusiveOwner
    NoStrandedClient
    RegisteredIsOpen
    ClientBound
    CrashNeedsReissue
PROPERTY
    ImplementsConnections
CHECK_DEADLOCK FALSE
