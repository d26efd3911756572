\* Two packs that start in the object or on the heap, four operations that write.
SPECIFICATION PackSpec
CONSTANTS
    Packs = {p, q}
    Values <- SomeValues
    StackSize = 8
    IntSize = 2
    ShortSize = 1
    Lengths = {0, 9}
    MaxWrites = 4
    MaxAllocs = 22
SYMMETRY PackSymmetry
INVARIANT
    PackOK
CHECK_DEADLOCK FALSE
