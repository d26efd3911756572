\* Either kind of server, started once, perhaps in vain, and stopped twice;
\* accepting is switched off and on again.
SPECIFICATION FairSpec
CONSTANTS
    Threads = {t1, t2}
    IOWorkers = 1
    Addresses = {a1}
    SameBucket = TRUE
    MaxStarts = 1
    MaxStops = 2
    MaxToggles = 2
    MaxWorks = 1
    NoPeer = NoPeer
INVARIANTS
    WorkersOK
    QuietWhenStopped
    OneExitPerThread
PROPERTIES
    StopReturns
    PendingIsAccepted
CHECK_DEADLOCK FALSE
