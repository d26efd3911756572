\* Three threads, two of which share a bucket, and a cache of one buffer.
SPECIFICATION FairSpec
CONSTANTS
    Threads = {t1, t2, t3}
    Buffers = {b1, b2, b3, b4}
    Buckets = {k1, k2}
    BucketOf <- Bucket
    CacheSize = 1
    NoBuffer = NoBuffer
    t3 = t3
    k1 = k1
    k2 = k2
INVARIANTS
    PoolOK
    CacheIsBounded
PROPERTY
    ReleasedIsRecycled
CHECK_DEADLOCK FALSE
