----------------------------- MODULE BufferPool -----------------------------
(***************************************************************************)
(* CIOCPBufferManager: buffers handed out (m_HashBuffer), released, cached *)
(* by thread (m_CacheBuffer) or deleted.  A released buffer goes back only *)
(* when the last reference to its node is dropped, by whichever thread     *)
(* drops it: the one that released it, or one that was passing by.         *)
(*                                                                         *)
(* A list operation is one step, as HashList shows it to be; its count is  *)
(* a step of its own.  Who may release a buffer is TcpWorker's subject:    *)
(* here its holder does, once.                                             *)
(***************************************************************************)
EXTENDS Integers, FiniteSets

CONSTANTS
    Threads,
    Buffers,      \* addresses of buffers: bounds the memory
    Buckets,      \* the buckets of m_CacheBuffer
    BucketOf(_),  \* GetThreadHashIndex
    CacheSize,    \* E_BUFFER_CACHE_SIZE
    NoBuffer

ASSUME ConstantsAssumption ==
    /\ IsFiniteSet(Threads)
    /\ IsFiniteSet(Buffers)
    /\ \A t \in Threads : BucketOf(t) \in Buckets
    /\ CacheSize \in Nat
    /\ NoBuffer \notin Buffers

VARIABLES
    mem,    \* the buffers that exist
    used,   \* the keys of m_HashBuffer
    dying,  \* nodes taken out of m_HashBuffer and not destroyed yet
    refs,   \* the threads that hold the node of a buffer
    cache,  \* m_CacheBuffer, by bucket
    size,   \* its m_nSize
    th,     \* each thread's call and its local variables
    stop    \* m_bStop

vars == <<mem, used, dying, refs, cache, size, th, stop>>

Thread == [pc : {"Idle", "Pop", "PopCount", "New", "AddHash", "Find", "Remove",
                 "Drop", "TestStop", "GetSize", "AddCache", "AddCount",
                 "Delete"},
           buf : Buffers \cup {NoBuffer},     \* the buffer of the call
           touched : Buffers \cup {NoBuffer}, \* a node passed on the way
           dead : Buffers \cup {NoBuffer},    \* the buffer of the callback
           back : {"Idle", "Find"}]           \* where the callback returns
Idle == [pc |-> "Idle", buf |-> NoBuffer, touched |-> NoBuffer,
         dead |-> NoBuffer, back |-> "Idle"]

TypeOK ==
    /\ mem \subseteq Buffers
    /\ used \subseteq mem
    /\ dying \subseteq mem
    /\ refs \in [Buffers -> SUBSET Threads]
    /\ cache \in [Buckets -> SUBSET mem]
    /\ size \in Int
    /\ th \in [Threads -> Thread]
    /\ stop \in BOOLEAN

Cached == UNION {cache[k] : k \in Buckets}

Init ==
    /\ mem = {}
    /\ used = {}
    /\ dying = {}
    /\ refs = [b \in Buffers |-> {}]
    /\ cache = [k \in Buckets |-> {}]
    /\ size = 0
    /\ th = [t \in Threads |-> Idle]
    /\ stop = FALSE

-----------------------------------------------------------------------------
(* AllocateBuffer. *)

At(t, label) == th[t].pc = label
Goto(t, label) == th' = [th EXCEPT ![t].pc = label]

Allocating == {t \in Threads : th[t].pc \in {"Pop", "New"}}

CallAllocateBuffer(t) ==
    /\ At(t, "Idle") /\ ~stop
    /\ Cardinality(Buffers \ mem) > Cardinality(Allocating)
    /\ Goto(t, "Pop")
    /\ UNCHANGED <<mem, used, dying, refs, cache, size, stop>>

\* Mutant of GetFromCache: the node stays in the cache.
GetFromCacheKeeps(t) ==
    /\ At(t, "Pop")
    /\ \/ cache[BucketOf(t)] = {} /\ Goto(t, "New")
       \/ \E b \in cache[BucketOf(t)] :
             th' = [th EXCEPT ![t].buf = b, ![t].pc = "PopCount"]
    /\ UNCHANGED <<mem, used, dying, refs, cache, size, stop>>

\* GetFromCache pops a node of the thread's own bucket.
GetFromCache(t) ==
    /\ At(t, "Pop")
    /\ LET k == BucketOf(t) IN
         \/ cache[k] = {} /\ Goto(t, "New") /\ UNCHANGED cache
         \/ \E b \in cache[k] :
               /\ cache' = [cache EXCEPT ![k] = @ \ {b}]
               /\ th' = [th EXCEPT ![t].buf = b, ![t].pc = "PopCount"]
    /\ UNCHANGED <<mem, used, dying, refs, size, stop>>

PopCount(t) ==
    /\ At(t, "PopCount")
    /\ size' = size - 1
    /\ Goto(t, "AddHash")
    /\ UNCHANGED <<mem, used, dying, refs, cache, stop>>

New(t) ==
    /\ At(t, "New")
    /\ \E b \in Buffers \ mem :
          /\ mem' = mem \cup {b}
          /\ th' = [th EXCEPT ![t].buf = b, ![t].pc = "AddHash"]
    /\ UNCHANGED <<used, dying, refs, cache, size, stop>>

\* The buffer is initialised, registered and handed out.
AddHash(t) ==
    /\ At(t, "AddHash")
    /\ used' = used \cup {th[t].buf}
    /\ th' = [th EXCEPT ![t] = Idle]
    /\ UNCHANGED <<mem, dying, refs, cache, size, stop>>

AllocateBuffer(t) == \/ CallAllocateBuffer(t) \/ GetFromCache(t)
                     \/ PopCount(t) \/ New(t) \/ AddHash(t)

-----------------------------------------------------------------------------
(* ReleaseBuffer: RemoveOnlyOneNode finds the node by its key and removes it. *)

CallReleaseBuffer(t) ==
    /\ At(t, "Idle")
    /\ \E b \in used :
          /\ \A u \in Threads : th[u].buf # b
          /\ th' = [th EXCEPT ![t].buf = b, ![t].pc = "Find"]
    /\ UNCHANGED <<mem, used, dying, refs, cache, size, stop>>

\* On its way the traversal holds the node of another buffer ...
Touch(t) ==
    /\ At(t, "Find") /\ th[t].touched = NoBuffer
    /\ \E b \in used \ {th[t].buf} :
          /\ refs' = [refs EXCEPT ![b] = @ \cup {t}]
          /\ th' = [th EXCEPT ![t].touched = b]
    /\ UNCHANGED <<mem, used, dying, cache, size, stop>>

\* A thread drops a node; the last one runs the node's destructor.
Drops(t, b, back, call) ==
    /\ refs' = [refs EXCEPT ![b] = @ \ {t}]
    /\ th' = [th EXCEPT ![t] =
                IF b \in dying /\ refs[b] = {t}
                THEN [call EXCEPT !.dead = b, !.back = back, !.pc = "TestStop"]
                ELSE [call EXCEPT !.pc = back]]
    /\ UNCHANGED <<mem, used, dying, cache, size, stop>>

\* Mutant of DropTouched: only the thread that released it destroys a node.
DropTouchedNever(t) ==
    /\ At(t, "Find") /\ th[t].touched # NoBuffer
    /\ refs' = [refs EXCEPT ![th[t].touched] = @ \ {t}]
    /\ th' = [th EXCEPT ![t].touched = NoBuffer]
    /\ UNCHANGED <<mem, used, dying, cache, size, stop>>

\* ... and drops it, perhaps as the last one.
DropTouched(t) ==
    /\ At(t, "Find") /\ th[t].touched # NoBuffer
    /\ Drops(t, th[t].touched, "Find", [th[t] EXCEPT !.touched = NoBuffer])

Find(t) ==
    /\ At(t, "Find") /\ th[t].touched = NoBuffer
    /\ refs' = [refs EXCEPT ![th[t].buf] = @ \cup {t}]
    /\ Goto(t, "Remove")
    /\ UNCHANGED <<mem, used, dying, cache, size, stop>>

RemoveNode(t) ==
    /\ At(t, "Remove")
    /\ used' = used \ {th[t].buf}
    /\ dying' = dying \cup {th[t].buf}
    /\ Goto(t, "Drop")
    /\ UNCHANGED <<mem, refs, cache, size, stop>>

Drop(t) == At(t, "Drop") /\ Drops(t, th[t].buf, "Idle", Idle)

ReleaseBuffer(t) ==
    \/ CallReleaseBuffer(t) \/ Touch(t) \/ DropTouched(t) \/ Find(t)
    \/ RemoveNode(t) \/ Drop(t)

-----------------------------------------------------------------------------
(* ReleaseBufferCallBack, called by the destructor of the node. *)

TestStop(t) ==
    /\ At(t, "TestStop")
    /\ Goto(t, IF stop THEN "Delete" ELSE "GetSize")
    /\ UNCHANGED <<mem, used, dying, refs, cache, size, stop>>

\* Mutant of GetSize: one more is let in.
GetSizeOneMore(t) ==
    /\ At(t, "GetSize")
    /\ Goto(t, IF size \in 0 .. CacheSize THEN "AddCache" ELSE "Delete")
    /\ UNCHANGED <<mem, used, dying, refs, cache, size, stop>>

\* m_nSize is unsigned: below zero it is above every limit.
GetSize(t) ==
    /\ At(t, "GetSize")
    /\ Goto(t, IF size >= 0 /\ size < CacheSize THEN "AddCache" ELSE "Delete")
    /\ UNCHANGED <<mem, used, dying, refs, cache, size, stop>>

AddCache(t) ==
    /\ At(t, "AddCache")
    /\ cache' = [cache EXCEPT ![BucketOf(t)] = @ \cup {th[t].dead}]
    /\ dying' = dying \ {th[t].dead}
    /\ th' = [th EXCEPT ![t].dead = NoBuffer, ![t].pc = "AddCount"]
    /\ UNCHANGED <<mem, used, refs, size, stop>>

CallBackReturns(t) ==
    th' = [th EXCEPT ![t].dead = NoBuffer, ![t].back = "Idle",
                     ![t].pc = th[t].back]

AddCount(t) ==
    /\ At(t, "AddCount")
    /\ size' = size + 1
    /\ CallBackReturns(t)
    /\ UNCHANGED <<mem, used, dying, refs, cache, stop>>

FreeIOBuffer(t) ==
    /\ At(t, "Delete")
    /\ mem' = mem \ {th[t].dead}
    /\ dying' = dying \ {th[t].dead}
    /\ CallBackReturns(t)
    /\ UNCHANGED <<used, refs, cache, size, stop>>

ReleaseBufferCallBack(t) == \/ TestStop(t) \/ GetSize(t) \/ AddCache(t)
                            \/ AddCount(t) \/ FreeIOBuffer(t)

-----------------------------------------------------------------------------
\* ~CIOCPBufferManager, when no thread uses it any more: the callbacks of the
\* nodes of both tables delete their buffers.
FreeAllBuffer ==
    /\ \A t \in Threads : At(t, "Idle")
    /\ ~stop /\ stop' = TRUE
    /\ mem' = mem \ (used \cup Cached)
    /\ used' = {}
    /\ cache' = [k \in Buckets |-> {}]
    /\ size' = 0
    /\ UNCHANGED <<dying, refs, th>>

Next ==
    \/ \E t \in Threads :
          AllocateBuffer(t) \/ ReleaseBuffer(t) \/ ReleaseBufferCallBack(t)
    \/ FreeAllBuffer

Spec == Init /\ [][Next]_vars

\* A thread that is in a call or a callback goes on.
FairSpec ==
    /\ Spec
    /\ \A t \in Threads :
          /\ WF_vars(DropTouched(t)) /\ WF_vars(Find(t))
          /\ WF_vars(RemoveNode(t)) /\ WF_vars(Drop(t))
          /\ WF_vars(ReleaseBufferCallBack(t))

-----------------------------------------------------------------------------
(* Properties. *)

InHand == {th[t].buf : t \in {u \in Threads :
                                 th[u].pc \in {"PopCount", "AddHash"}}}

\* A buffer is in one place at a time (IOCPBufferManager.cpp:31): the one handed
\* out is in no bucket of the cache, in no other thread's hands and under no
\* callback.
OnePlace ==
    /\ used \cap Cached = {} /\ used \cap dying = {} /\ used \cap InHand = {}
    /\ dying \cap Cached = {} /\ dying \cap InHand = {}
    /\ Cached \cap InHand = {}
    /\ \A t, u \in Threads : t # u =>
          /\ th[t].dead # NoBuffer => th[t].dead # th[u].dead
          /\ th[t].buf # NoBuffer => th[t].buf # th[u].buf

\* The cache outgrows its limit by no more than the threads that passed the test
\* of the size together (IOCPBufferManager.cpp:93-97).
CacheIsBounded ==
    Cardinality(Cached) <= CacheSize + Cardinality(Threads) - 1

CountsLater(pcs) == Cardinality({t \in Threads : th[t].pc \in pcs})

\* m_nSize is the number of cached buffers, late by what threads are counting.
SizeCounts == size + CountsLater({"AddCount"}) =
                Cardinality(Cached) + CountsLater({"PopCount"})

\* The unsigned size drops below zero (IOCPBufferManager.h:54) only while a
\* thread has yet to count the buffer it cached in a bucket that another thread
\* takes from as well.
UnderflowNeedsSharing ==
    size < 0 => \E t, u \in Threads :
                   t # u /\ At(t, "AddCount") /\ BucketOf(t) = BucketOf(u)

\* The destructor leaves no buffer behind, wherever the buffers were last.
NothingLeaks == stop => mem = {}

\* A released buffer is cached or deleted in the end, even if another thread held
\* its node when it was removed (List.h:50-56).
ReleasedIsRecycled == \A b \in Buffers : b \in dying ~> b \notin dying

\* The books of the pool agree: every buffer is in one place, the unsigned size
\* counts the cache and wraps only where threads share a bucket, and the
\* destructor frees all (IOCPBufferManager.cpp:31-99).
PoolOK == /\ TypeOK /\ OnePlace /\ SizeCounts
          /\ UnderflowNeedsSharing /\ NothingLeaks
=============================================================================
