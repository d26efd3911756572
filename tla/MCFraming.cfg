\* All streams of up to three frames in all pieces.
SPECIFICATION FairSpec
CONSTANTS
    Streams <- AllStreams
    HeaderSize = 2
    MaxPacket = 6
    DataLength = 3
    DoubleBelow = 6
    MaxLength = 40
    Executors = 2
    MaxFrames = 3
    GoodBodies = {1, 4, 5, 14}
    BadBodies = {0}
INVARIANTS
    ParserOK
    NothingIsHeld
    HandedOnce
PROPERTY
    EveryPacketIsHanded
CHECK_DEADLOCK FALSE
