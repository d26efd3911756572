\* Two connections one after the other on one handle, an expiry, and every
\* post may fail.
SPECIFICATION FairSpec
CONSTANTS
    Handles = {h1}
    Buffers = {b1, b2}
    Threads = {t1, t2}
    Acceptor = acceptor
    NoBuf = NoBuf
    NoHandle = NoHandle
    MaxClients = 1
    MaxConns = 2
    MaxPackets = 1
    MaxExpiries = 1
    FailSites <- AllSites
INVARIANTS
    NoBufferLeak
    CountMatches
PROPERTIES
    BuffersComeBack
    ConnectionsProceed
CHECK_DEADLOCK FALSE
