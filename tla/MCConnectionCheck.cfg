\* Three clients, two of them with the same SOCKET value one after the other;
\* one tick in a second, one between the two reads of IsExpired.
SPECIFICATION FairCheckSpec
CONSTANTS
    c1 = c1
    c2 = c2
    c3 = c3
    Clients = {c1, c2, c3}
    HandleOf <- Reissued
    Second = 1
    Limit = 1
    Waits = 1
    TickSize = 16
    MaxPause = 1
PROPERTIES
    OnlyIdleIsCut
    IdleIsCut
