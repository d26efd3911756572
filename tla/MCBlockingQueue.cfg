\* Two producers, three consumers, one of which wakes up by itself.
SPECIFICATION FairSpec
CONSTANTS
    Producers = {p1, p2}
    Consumers = {c1, c2, c3}
    MaxPuts = 3
    MaxSpurious = 1
INVARIANTS
    NoLostWakeup
    NeverPopsEmpty
    InterruptWakes
PROPERTY
    ElementIsTaken
CHECK_DEADLOCK FALSE
