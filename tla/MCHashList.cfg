\* Every operation, two threads, two nodes with different keys in one bucket.
SPECIFICATION Spec
CONSTANTS
    Threads = {t1, t2}
    Nodes = {n1, n2}
    Keys = {k1, k2}
    Heads = {h1}
    KeyOf <- FirstApart
    BucketOf <- OneBucket
    Uses = {"Add", "Pop", "Get", "Visit", "RemoveKey", "RemoveOne", "Free"}
    MaxClears = 1
    NoNode = NoNode
    NoThread = NoThread
    n1 = n1
    k1 = k1
    k2 = k2
    h1 = h1
SYMMETRY AnyThread
INVARIANT
    ListOK
PROPERTY
    ImplementsTable
