\* The read posted first and the packets at hand share one buffer.
SPECIFICATION Spec
CONSTANTS
    Handles = {h1}
    Buffers = {b1, b2}
    Threads = {t1}
    Acceptor = acceptor
    NoBuf = NoBuf
    NoHandle = NoHandle
    MaxClients = 1
    MaxConns = 1
    MaxPackets = 1
    MaxExpiries = 0
    FailSites <- LateSites
INVARIANT
    PostedReadIsNewBuffer
CHECK_DEADLOCK FALSE
