\* Two workers, two crashes, calls that fail or do not, one try more.
SPECIFICATION FairSpec
CONSTANTS
    Count = 2
    Tries = 1
    MaxMsg = 3
    MaxCrashes = 2
INVARIANTS
    MasterOK
    AnswersArePaired
PROPERTIES
    PingIsAnswered
    OrphansEnd
    EveryListedServes
CHECK_DEADLOCK FALSE
