--------------------------- MODULE BufferPoolProofs ---------------------------
(***************************************************************************)
(* Theorems of BufferPool, for any number of threads, buffers and buckets  *)
(* and any size of the cache.                                              *)
(***************************************************************************)
EXTENDS BufferPool, FiniteSetTheorems, TLAPS

-----------------------------------------------------------------------------
(* The inductive invariant: who has which buffer. *)

CallBack == {"TestStop", "GetSize", "AddCache", "Delete"}
Taken == {"PopCount", "AddHash"}

\* The threads that hold the node of b: at work on it, or passing it.
Holds(t, b) ==
    \/ th[t].pc \in {"Remove", "Drop"} /\ th[t].buf = b
    \/ th[t].touched = b

\* Where the buffers are that thread t works with.
ThreadOK(t) ==
    /\ th[t].pc \in {"Idle", "Pop", "New"} => th[t].buf = NoBuffer
    /\ th[t].pc \in Taken => /\ th[t].buf \in mem \ (used \cup dying)
                             /\ \A k \in Buckets : th[t].buf \notin cache[k]
    /\ th[t].pc \in {"Find", "Remove"} => th[t].buf \in used
    /\ th[t].pc = "Drop" => th[t].buf \in dying
    /\ th[t].pc \in CallBack \cup {"AddCount"} =>
          \/ th[t].back = "Find" /\ th[t].buf \in used
          \/ th[t].back = "Idle" /\ th[t].buf = NoBuffer
    /\ th[t].touched # NoBuffer => /\ th[t].pc = "Find"
                                   /\ th[t].touched \in used \cup dying
    /\ th[t].pc \in CallBack =>
          th[t].dead \in dying /\ \A u \in Threads : u \notin refs[th[t].dead]
    /\ th[t].pc \notin CallBack => th[t].dead = NoBuffer

RefsOK == \A b \in Buffers, t \in Threads : t \in refs[b] <=> Holds(t, b)

SetsApart ==
    /\ used \cap dying = {}
    /\ \A k \in Buckets : cache[k] \cap (used \cup dying) = {}
    /\ \A j, k \in Buckets : j # k => cache[j] \cap cache[k] = {}

ThreadsApart ==
    \A t, u \in Threads : t # u =>
        /\ th[t].dead # NoBuffer => th[t].dead # th[u].dead
        /\ th[t].buf # NoBuffer => th[t].buf # th[u].buf

\* No buffer is lost, and somebody will see to each that was released.
NoneLost ==
    /\ \A b \in mem : \/ b \in used \cup dying
                      \/ \E k \in Buckets : b \in cache[k]
                      \/ \E t \in Threads : th[t].pc \in Taken /\ th[t].buf = b
    /\ \A b \in dying : refs[b] # {} \/ \E t \in Threads : th[t].dead = b

Stopped == stop => mem = {} /\ \A t \in Threads : th[t].pc = "Idle"

PInv == /\ TypeOK /\ (\A t \in Threads : ThreadOK(t)) /\ RefsOK
        /\ SetsApart /\ ThreadsApart /\ NoneLost /\ Stopped

-----------------------------------------------------------------------------
(* Steps. *)

\* A step of t leaves the other threads where they are.
Moves(t) == /\ th' \in [Threads -> Thread]
            /\ \A u \in Threads : u # t => th'[u] = th[u]

LEMMA BucketTyped == \A t \in Threads : BucketOf(t) \in Buckets
  BY ConstantsAssumption

\* A step leaves the buffers of thread u where they are.
Still(u) ==
    /\ th[u].pc \in Taken => /\ th[u].buf \in mem' \ (used' \cup dying')
                             /\ \A k \in Buckets : th[u].buf \notin cache'[k]
    /\ th[u].pc \notin Taken \cup {"Drop"} /\ th[u].buf \in used => th[u].buf \in used'
    /\ th[u].pc = "Drop" => th[u].buf \in dying'
    /\ th[u].touched # NoBuffer => th[u].touched \in used' \cup dying'
    /\ th[u].pc \in CallBack =>
          th[u].dead \in dying' /\ \A v \in Threads : v \notin refs'[th[u].dead]

LEMMA StaysOK ==
  ASSUME NEW u \in Threads, ThreadOK(u), th'[u] = th[u], Still(u)
  PROVE  ThreadOK(u)'
  <1>1. /\ th'[u].pc \in Taken =>
              /\ th'[u].buf \in mem' \ (used' \cup dying')
              /\ \A k \in Buckets : th'[u].buf \notin cache'[k]
        /\ th'[u].pc \in {"Idle", "Pop", "New"} => th'[u].buf = NoBuffer
    BY DEF ThreadOK, Still
  <1>2. /\ th'[u].pc \in {"Find", "Remove"} => th'[u].buf \in used'
        /\ th'[u].pc = "Drop" => th'[u].buf \in dying'
        /\ th'[u].pc \in CallBack \cup {"AddCount"} =>
              \/ th'[u].back = "Find" /\ th'[u].buf \in used'
              \/ th'[u].back = "Idle" /\ th'[u].buf = NoBuffer
    BY DEF ThreadOK, Still, Taken, CallBack
  <1>3. /\ th'[u].touched # NoBuffer => /\ th'[u].pc = "Find"
                                       /\ th'[u].touched \in used' \cup dying'
        /\ th'[u].pc \in CallBack => /\ th'[u].dead \in dying'
                                     /\ \A v \in Threads : v \notin refs'[th'[u].dead]
        /\ th'[u].pc \notin CallBack => th'[u].dead = NoBuffer
    BY DEF ThreadOK, Still
  <1> QED BY <1>1, <1>2, <1>3 DEF ThreadOK, Taken, CallBack

\* A step that only takes t to another place of its call.
LEMMA GoesOn ==
  ASSUME PInv, NEW t \in Threads, Moves(t), ~ stop, size' \in Int,
         UNCHANGED <<mem, used, dying, refs, cache, stop>>,
         th'[t].buf = th[t].buf, th'[t].dead = th[t].dead,
         th'[t].touched = NoBuffer, th[t].touched = NoBuffer,
         th[t].pc \notin {"Remove", "Drop"}, th'[t].pc \notin {"Remove", "Drop"},
         th[t].pc \in Taken <=> th'[t].pc \in Taken, ThreadOK(t)'
  PROVE  PInv'
  <1>1. TypeOK'
    BY DEF PInv, TypeOK, Moves
  <1>2. \A u \in Threads : ThreadOK(u)'
    BY DEF PInv, Moves, ThreadOK
  <1>3. RefsOK'
    BY DEF PInv, Moves, RefsOK, Holds
  <1>4. SetsApart' /\ Stopped'
    BY DEF PInv, SetsApart, Stopped
  <1>5. ThreadsApart'
    BY DEF PInv, Moves, ThreadsApart
  <1>6. NoneLost'
    BY DEF PInv, Moves, NoneLost
  <1> QED BY <1>1, <1>2, <1>3, <1>4, <1>5, <1>6 DEF PInv

\* Where no thread is after the destructor.
LEMMA Busy ==
  ASSUME PInv, NEW t \in Threads, th[t].pc # "Idle"
  PROVE  ~ stop
  BY DEF PInv, Stopped

LEMMA GotoMoves ==
  ASSUME PInv, NEW t \in Threads, NEW l, Goto(t, l),
         [th[t] EXCEPT !.pc = l] \in Thread
  PROVE  /\ Moves(t) /\ th'[t] = [th[t] EXCEPT !.pc = l]
         /\ th'[t].pc = l /\ th'[t].buf = th[t].buf
         /\ th'[t].touched = th[t].touched /\ th'[t].dead = th[t].dead
         /\ th'[t].back = th[t].back
  <1>1. th \in [Threads -> Thread] /\ th' = [th EXCEPT ![t].pc = l]
    BY DEF PInv, TypeOK, Goto
  <1>2. /\ th'[t] = [th[t] EXCEPT !.pc = l]
        /\ \A u \in Threads : u # t => th'[u] = th[u]
    BY <1>1
  <1>3. th' \in [Threads -> Thread]
    BY <1>1
  <1> QED BY <1>1, <1>2, <1>3 DEF Moves, Thread

\* A thread gets a buffer to work with.
LEMMA TakesMoves ==
  ASSUME PInv, NEW t \in Threads, NEW b \in Buffers,
         NEW l \in {"PopCount", "AddHash", "Find"},
         th' = [th EXCEPT ![t].buf = b, ![t].pc = l]
  PROVE  /\ Moves(t) /\ th'[t].pc = l /\ th'[t].buf = b
         /\ th'[t].touched = th[t].touched /\ th'[t].dead = th[t].dead
         /\ th'[t].back = th[t].back
  <1> DEFINE x == [th EXCEPT ![t].buf = b]
  <1>1. th \in [Threads -> Thread]
    BY DEF PInv, TypeOK
  <1>2. /\ x \in [Threads -> Thread] /\ x[t] = [th[t] EXCEPT !.buf = b]
        /\ \A u \in Threads : u # t => x[u] = th[u]
    BY <1>1 DEF Thread
  <1>3. th' = [x EXCEPT ![t].pc = l]
    OBVIOUS
  <1> HIDE DEF x
  <1>4. /\ th' \in [Threads -> Thread] /\ th'[t] = [x[t] EXCEPT !.pc = l]
        /\ \A u \in Threads : u # t => th'[u] = x[u]
    BY <1>2, <1>3 DEF Thread
  <1> QED BY <1>1, <1>2, <1>4 DEF Moves, Thread

\* The steps that change no buffer's place.
LEMMA QuietStep ==
  ASSUME PInv, NEW t \in Threads,
         \/ CallAllocateBuffer(t) \/ (GetFromCache(t) /\ cache[BucketOf(t)] = {})
         \/ PopCount(t) \/ TestStop(t) \/ GetSize(t)
  PROVE  PInv'
  <1>1. th[t] \in Thread /\ ThreadOK(t) /\ size \in Int
    BY DEF PInv, TypeOK
  <1>2. PICK l \in {"Pop", "New", "AddHash", "GetSize", "Delete", "AddCache"} :
          /\ Goto(t, l)
          /\ \/ l = "Pop" /\ th[t].pc = "Idle" /\ ~ stop
             \/ l = "New" /\ th[t].pc = "Pop"
             \/ l = "AddHash" /\ th[t].pc = "PopCount"
             \/ l \in {"GetSize", "Delete"} /\ th[t].pc = "TestStop"
             \/ l \in {"AddCache", "Delete"} /\ th[t].pc = "GetSize"
    BY DEF CallAllocateBuffer, GetFromCache, PopCount, TestStop, GetSize, At
  <1>3. [th[t] EXCEPT !.pc = l] \in Thread
    BY <1>1 DEF Thread
  <1>4. /\ Moves(t) /\ th'[t].pc = l /\ th'[t].buf = th[t].buf
        /\ th'[t].touched = th[t].touched /\ th'[t].dead = th[t].dead
        /\ th'[t].back = th[t].back
    BY <1>2, <1>3, GotoMoves
  <1>5. /\ UNCHANGED <<mem, used, dying, refs, cache, stop>>
        /\ size' \in Int
    <2>1. CASE GetFromCache(t) /\ cache[BucketOf(t)] = {}
      BY <1>1, <2>1 DEF GetFromCache
    <2>2. CASE CallAllocateBuffer(t) \/ PopCount(t) \/ TestStop(t) \/ GetSize(t)
      BY <1>1, <2>2 DEF CallAllocateBuffer, PopCount, TestStop, GetSize
    <2> QED BY <2>1, <2>2
  <1>6. ~ stop
    BY <1>2, Busy
  <1>7. th[t].touched = NoBuffer
    BY <1>1, <1>2 DEF ThreadOK
  <1>8. ThreadOK(t)'
    BY <1>1, <1>2, <1>4, <1>5, <1>7 DEF ThreadOK, CallBack, Taken
  <1> QED BY <1>2, <1>4, <1>5, <1>6, <1>7, <1>8, GoesOn DEF Taken

\* A cached buffer comes into a thread's hands.
LEMMA PopStep ==
  ASSUME PInv, NEW t \in Threads, GetFromCache(t), NEW b \in cache[BucketOf(t)],
         cache' = [cache EXCEPT ![BucketOf(t)] = @ \ {b}],
         th' = [th EXCEPT ![t].buf = b, ![t].pc = "PopCount"]
  PROVE  PInv'
  <1> DEFINE k == BucketOf(t)
  <1>1. /\ th[t].pc = "Pop" /\ ~ stop
        /\ UNCHANGED <<mem, used, dying, refs, size, stop>>
    BY Busy DEF GetFromCache, At
  <1>2. /\ th \in [Threads -> Thread] /\ cache \in [Buckets -> SUBSET mem]
        /\ mem \subseteq Buffers /\ k \in Buckets /\ b \in mem
        /\ ThreadOK(t) /\ th[t].touched = NoBuffer /\ th[t].dead = NoBuffer
    BY <1>1, BucketTyped DEF PInv, TypeOK, ThreadOK, CallBack
  <1>3. /\ Moves(t) /\ th'[t].buf = b /\ th'[t].pc = "PopCount"
        /\ th'[t].touched = NoBuffer /\ th'[t].dead = NoBuffer
    BY <1>2, TakesMoves
  <1>4. /\ cache' \in [Buckets -> SUBSET mem] /\ cache'[k] = cache[k] \ {b}
        /\ \A j \in Buckets : j # k => cache'[j] = cache[j]
    BY <1>2
  <1>5. b \notin used \cup dying /\ \A j \in Buckets : j # k => b \notin cache[j]
    BY <1>2 DEF PInv, SetsApart
  <1>6. TypeOK'
    BY <1>1, <1>3, <1>4 DEF PInv, TypeOK, Moves
  <1>7. \A u \in Threads : ThreadOK(u)'
    <2>1. ThreadOK(t)'
      BY <1>1, <1>2, <1>3, <1>4, <1>5 DEF ThreadOK, Taken, CallBack
    <2>2. ASSUME NEW u \in Threads, u # t PROVE ThreadOK(u)'
      <3>1. ThreadOK(u) /\ th'[u] = th[u]
        BY <1>3, <2>2 DEF PInv, Moves
      <3>2. \A j \in Buckets : th[u].buf \notin cache[j] => th[u].buf \notin cache'[j]
        BY <1>4
      <3>3. /\ mem' = mem /\ used' = used /\ dying' = dying /\ refs' = refs
        BY <1>1
      <3>4. Still(u)
        BY <3>1, <3>2, <3>3 DEF ThreadOK, Still
      <3> QED BY <3>1, <3>4, StaysOK
    <2> QED BY <2>1, <2>2
  <1>8. RefsOK'
    BY <1>1, <1>2, <1>3, ConstantsAssumption DEF PInv, Moves, RefsOK, Holds
  <1>9. SetsApart'
    BY <1>1, <1>4 DEF PInv, SetsApart
  <1>10. ThreadsApart'
    <2>1. \A u \in Threads : u # t => th[u].buf # b
      <3> SUFFICES ASSUME NEW u \in Threads PROVE th[u].buf # b
        OBVIOUS
      <3>1. ThreadOK(u) /\ th[u] \in Thread /\ b # NoBuffer
        BY <1>2, ConstantsAssumption DEF PInv
      <3> QED BY <1>2, <1>5, <3>1 DEF ThreadOK, Thread, Taken, CallBack
    <2> QED BY <1>2, <1>3, <2>1 DEF PInv, Moves, ThreadsApart
  <1>11. NoneLost'
    <2>1. \A d \in mem : d = b \/ (\A j \in Buckets : d \in cache[j] => d \in cache'[j])
      BY <1>4
    <2>2. ASSUME NEW d \in mem, d # b, d \notin used \cup dying
          PROVE  \/ \E j \in Buckets : d \in cache'[j]
                 \/ \E u \in Threads : th'[u].pc \in Taken /\ th'[u].buf = d
      <3>1. CASE \E j \in Buckets : d \in cache[j]
        BY <2>1, <2>2, <3>1
      <3>2. CASE \E u \in Threads : th[u].pc \in Taken /\ th[u].buf = d
        BY <1>1, <1>3, <3>2 DEF Moves, Taken
      <3> QED BY <2>2, <3>1, <3>2 DEF PInv, NoneLost
    <2>3. \A d \in dying : refs[d] # {} \/ \E u \in Threads : th'[u].dead = d
      BY <1>2, <1>3 DEF PInv, NoneLost, Moves
    <2>4. th'[t].pc \in Taken
      BY <1>3 DEF Taken
    <2> QED BY <1>1, <1>3, <2>2, <2>3, <2>4 DEF NoneLost
  <1>12. Stopped'
    BY <1>1 DEF Stopped
  <1> QED BY <1>6, <1>7, <1>8, <1>9, <1>10, <1>11, <1>12 DEF PInv

\* A buffer is created in a thread's hands.
LEMMA NewStep ==
  ASSUME PInv, NEW t \in Threads, New(t)
  PROVE  PInv'
  <1>1. PICK b \in Buffers \ mem :
          /\ mem' = mem \cup {b}
          /\ th' = [th EXCEPT ![t].buf = b, ![t].pc = "AddHash"]
    BY DEF New
  <1>2. /\ th[t].pc = "New" /\ ~ stop /\ ThreadOK(t)
        /\ UNCHANGED <<used, dying, refs, cache, size, stop>>
    BY Busy DEF New, At, PInv
  <1>3. th[t].touched = NoBuffer /\ th[t].dead = NoBuffer /\ th[t].buf = NoBuffer
    BY <1>2 DEF ThreadOK, CallBack
  <1>4. /\ Moves(t) /\ th'[t].buf = b /\ th'[t].pc = "AddHash"
        /\ th'[t].touched = NoBuffer /\ th'[t].dead = NoBuffer
    BY <1>1, <1>3, TakesMoves
  <1>5. /\ b \notin used \cup dying /\ \A k \in Buckets : b \notin cache[k]
        /\ b # NoBuffer
    BY <1>1, ConstantsAssumption DEF PInv, TypeOK
  <1>6. TypeOK'
    BY <1>1, <1>2, <1>4 DEF PInv, TypeOK, Moves
  <1>7. \A u \in Threads : ThreadOK(u)'
    <2>1. ThreadOK(t)'
      <3>1. th'[t].buf = b /\ b \in mem' /\ b \notin used' \cup dying'
        BY <1>1, <1>2, <1>4, <1>5
      <3>2. \A k \in Buckets : th'[t].buf \notin cache'[k]
        BY <1>2, <1>4, <1>5
      <3> QED BY <1>4, <3>1, <3>2 DEF ThreadOK, Taken, CallBack
    <2>2. ASSUME NEW u \in Threads, u # t PROVE ThreadOK(u)'
      <3>1. ThreadOK(u) /\ th'[u] = th[u]
        BY <1>4, <2>2 DEF PInv, Moves
      <3>2. Still(u)
        BY <1>1, <1>2, <3>1 DEF ThreadOK, Still
      <3> QED BY <3>1, <3>2, StaysOK
    <2> QED BY <2>1, <2>2
  <1>8. RefsOK'
    BY <1>2, <1>3, <1>4, ConstantsAssumption DEF PInv, Moves, RefsOK, Holds
  <1>9. SetsApart'
    BY <1>2 DEF PInv, SetsApart
  <1>10. ThreadsApart'
    <2>1. \A u \in Threads : th[u].buf # b
      <3> SUFFICES ASSUME NEW u \in Threads PROVE th[u].buf # b
        OBVIOUS
      <3>1. ThreadOK(u) /\ th[u] \in Thread
        BY DEF PInv, TypeOK
      <3> QED BY <1>1, <1>5, <3>1 DEF ThreadOK, Thread, Taken, CallBack
    <2> QED BY <1>3, <1>4, <2>1 DEF PInv, Moves, ThreadsApart
  <1>11. NoneLost'
    BY <1>1, <1>2, <1>3, <1>4 DEF PInv, NoneLost, Moves, Taken
  <1>12. Stopped'
    BY <1>2 DEF Stopped
  <1> QED BY <1>6, <1>7, <1>8, <1>9, <1>10, <1>11, <1>12 DEF PInv

\* A buffer is handed out.
LEMMA HandOutStep ==
  ASSUME PInv, NEW t \in Threads, AddHash(t)
  PROVE  PInv'
  <1> DEFINE b == th[t].buf
  <1>1. /\ th[t].pc = "AddHash" /\ ~ stop /\ ThreadOK(t)
        /\ used' = used \cup {b} /\ th' = [th EXCEPT ![t] = Idle]
        /\ UNCHANGED <<mem, dying, refs, cache, size, stop>>
    BY Busy DEF AddHash, At, PInv
  <1>2. /\ b \in mem \ (used \cup dying) /\ \A k \in Buckets : b \notin cache[k]
        /\ th[t].touched = NoBuffer /\ th[t].dead = NoBuffer
    BY <1>1 DEF ThreadOK, Taken, CallBack
  <1>3. th \in [Threads -> Thread] /\ Idle \in Thread
    BY DEF PInv, TypeOK, Idle, Thread
  <1>4. /\ Moves(t) /\ th'[t].buf = NoBuffer /\ th'[t].pc = "Idle"
        /\ th'[t].touched = NoBuffer /\ th'[t].dead = NoBuffer
    BY <1>1, <1>3 DEF Moves, Idle
  <1>5. b \in Buffers /\ b # NoBuffer
    BY <1>2, ConstantsAssumption DEF PInv, TypeOK
  <1>6. TypeOK'
    BY <1>1, <1>2, <1>4 DEF PInv, TypeOK, Moves
  <1>7. \A u \in Threads : ThreadOK(u)'
    <2>1. ThreadOK(t)'
      BY <1>4 DEF ThreadOK, Taken, CallBack
    <2>2. ASSUME NEW u \in Threads, u # t PROVE ThreadOK(u)'
      <3>1. ThreadOK(u) /\ th'[u] = th[u] /\ th[u].buf # b
        BY <1>4, <1>5, <2>2 DEF PInv, Moves, ThreadsApart
      <3>2. Still(u)
        BY <1>1, <3>1 DEF ThreadOK, Still
      <3> QED BY <3>1, <3>2, StaysOK
    <2> QED BY <2>1, <2>2
  <1>8. RefsOK'
    BY <1>1, <1>2, <1>4, ConstantsAssumption DEF PInv, Moves, RefsOK, Holds
  <1>9. SetsApart'
    BY <1>1, <1>2 DEF PInv, SetsApart
  <1>10. ThreadsApart'
    BY <1>2, <1>4, <1>5 DEF PInv, Moves, ThreadsApart
  <1>11. NoneLost'
    BY <1>1, <1>2, <1>4 DEF PInv, NoneLost, Moves
  <1>12. Stopped'
    BY <1>1 DEF Stopped
  <1> QED BY <1>6, <1>7, <1>8, <1>9, <1>10, <1>11, <1>12 DEF PInv

\* A call to release a buffer that nobody else works with.
LEMMA CallStep ==
  ASSUME PInv, NEW t \in Threads, CallReleaseBuffer(t)
  PROVE  PInv'
  <1>1. PICK b \in used :
          /\ \A u \in Threads : th[u].buf # b
          /\ th' = [th EXCEPT ![t].buf = b, ![t].pc = "Find"]
    BY DEF CallReleaseBuffer
  <1>2. /\ th[t].pc = "Idle" /\ ThreadOK(t)
        /\ UNCHANGED <<mem, used, dying, refs, cache, size, stop>>
    BY DEF CallReleaseBuffer, At, PInv
  <1>3. /\ th[t].touched = NoBuffer /\ th[t].dead = NoBuffer
        /\ th[t].buf = NoBuffer /\ b \in Buffers /\ b # NoBuffer /\ ~ stop
    BY <1>1, <1>2, ConstantsAssumption
       DEF ThreadOK, CallBack, PInv, TypeOK, Stopped
  <1>4. /\ Moves(t) /\ th'[t].buf = b /\ th'[t].pc = "Find"
        /\ th'[t].touched = NoBuffer /\ th'[t].dead = NoBuffer
    BY <1>1, <1>3, TakesMoves
  <1>5. TypeOK'
    BY <1>2, <1>4 DEF PInv, TypeOK, Moves
  <1>6. \A u \in Threads : ThreadOK(u)'
    <2>1. ThreadOK(t)'
      BY <1>1, <1>2, <1>4 DEF ThreadOK, Taken, CallBack
    <2>2. ASSUME NEW u \in Threads, u # t PROVE ThreadOK(u)'
      <3>1. ThreadOK(u) /\ th'[u] = th[u]
        BY <1>4, <2>2 DEF PInv, Moves
      <3>2. Still(u)
        BY <1>2, <3>1 DEF ThreadOK, Still
      <3> QED BY <3>1, <3>2, StaysOK
    <2> QED BY <2>1, <2>2
  <1>7. RefsOK'
    BY <1>2, <1>3, <1>4, ConstantsAssumption DEF PInv, Moves, RefsOK, Holds
  <1>8. SetsApart' /\ Stopped'
    BY <1>2, <1>3 DEF PInv, SetsApart, Stopped
  <1>9. ThreadsApart'
    BY <1>1, <1>3, <1>4 DEF PInv, Moves, ThreadsApart
  <1>10. NoneLost'
    BY <1>2, <1>3, <1>4 DEF PInv, NoneLost, Moves, Taken
  <1> QED BY <1>5, <1>6, <1>7, <1>8, <1>9, <1>10 DEF PInv

\* A traversal takes hold of the node of a buffer: another one, or its own.
LEMMA HoldStep ==
  ASSUME PInv, NEW t \in Threads, Touch(t) \/ Find(t)
  PROVE  PInv'
  <1>1. /\ th[t].pc = "Find" /\ th[t].touched = NoBuffer /\ ThreadOK(t)
        /\ th[t] \in Thread /\ ~ stop
        /\ UNCHANGED <<mem, used, dying, cache, size, stop>>
    BY Busy DEF Touch, Find, At, PInv, TypeOK
  <1>2. th[t].buf \in used /\ th[t].dead = NoBuffer
    BY <1>1 DEF ThreadOK, CallBack
  <1>3. PICK b \in used :
          /\ refs' = [refs EXCEPT ![b] = @ \cup {t}] /\ Moves(t)
          /\ th'[t].buf = th[t].buf /\ th'[t].dead = NoBuffer
          /\ \/ th'[t].pc = "Find" /\ th'[t].touched = b /\ b # th[t].buf
             \/ /\ th'[t].pc = "Remove" /\ th'[t].touched = NoBuffer
                /\ b = th[t].buf
    <2>1. CASE Touch(t)
      <3>1. PICK b \in used \ {th[t].buf} :
              /\ refs' = [refs EXCEPT ![b] = @ \cup {t}]
              /\ th' = [th EXCEPT ![t].touched = b]
        BY <2>1 DEF Touch
      <3>2. th \in [Threads -> Thread] /\ b \in Buffers
        BY <3>1 DEF PInv, TypeOK
      <3>3. Moves(t) /\ th'[t] = [th[t] EXCEPT !.touched = b]
        BY <3>1, <3>2 DEF Moves, Thread
      <3>4. /\ th'[t].buf = th[t].buf /\ th'[t].dead = th[t].dead
            /\ th'[t].pc = th[t].pc /\ th'[t].touched = b
        BY <1>1, <3>3 DEF Thread
      <3> QED BY <1>1, <1>2, <3>1, <3>3, <3>4
    <2>2. CASE Find(t)
      <3>1. [th[t] EXCEPT !.pc = "Remove"] \in Thread
        BY <1>1 DEF Thread
      <3> QED BY <1>1, <1>2, <2>2, <3>1, GotoMoves DEF Find
    <2> QED BY <2>1, <2>2
  <1>4. /\ b \in Buffers /\ b # NoBuffer /\ refs \in [Buffers -> SUBSET Threads]
        /\ b \notin dying
    BY ConstantsAssumption DEF PInv, TypeOK, SetsApart
  <1>5. /\ refs' \in [Buffers -> SUBSET Threads] /\ refs'[b] = refs[b] \cup {t}
        /\ \A d \in Buffers : d # b => refs'[d] = refs[d]
    BY <1>3, <1>4
  <1>6. TypeOK'
    BY <1>1, <1>3, <1>5 DEF PInv, TypeOK, Moves
  <1>7. \A u \in Threads : ThreadOK(u)'
    <2>1. ThreadOK(t)'
      BY <1>1, <1>2, <1>3 DEF ThreadOK, Taken, CallBack
    <2>2. ASSUME NEW u \in Threads, u # t PROVE ThreadOK(u)'
      <3>1. ThreadOK(u) /\ th'[u] = th[u]
        BY <1>3, <2>2 DEF PInv, Moves
      <3>2. th[u].pc \in CallBack => refs'[th[u].dead] = refs[th[u].dead]
        BY <1>4, <1>5, <3>1 DEF ThreadOK, PInv, TypeOK
      <3>3. Still(u)
        BY <1>1, <3>1, <3>2 DEF ThreadOK, Still
      <3> QED BY <3>1, <3>3, StaysOK
    <2> QED BY <2>1, <2>2
  <1>8. RefsOK'
    <2> SUFFICES ASSUME NEW d \in Buffers, NEW u \in Threads
                 PROVE  u \in refs'[d] <=> Holds(u, d)'
      BY DEF RefsOK
    <2>1. u \in refs[d] <=> Holds(u, d)
      BY DEF PInv, RefsOK
    <2>2. CASE u = t
      BY <1>1, <1>3, <1>4, <1>5, <2>1, <2>2, ConstantsAssumption DEF Holds
    <2>3. CASE u # t
      BY <1>3, <1>5, <2>1, <2>3 DEF Holds, Moves
    <2> QED BY <2>2, <2>3
  <1>9. SetsApart' /\ Stopped'
    BY <1>1 DEF PInv, SetsApart, Stopped
  <1>10. ThreadsApart'
    BY <1>2, <1>3 DEF PInv, Moves, ThreadsApart
  <1>11. NoneLost'
    <2>1. \A d \in dying : refs'[d] = refs[d]
      BY <1>4, <1>5 DEF PInv, TypeOK
    <2>2. \A u \in Threads : th'[u].dead = th[u].dead
      BY <1>2, <1>3 DEF Moves
    <2>3. \A u \in Threads : th[u].pc \in Taken =>
                                th'[u].pc \in Taken /\ th'[u].buf = th[u].buf
      BY <1>1, <1>3 DEF Moves, Taken
    <2> QED BY <1>1, <2>1, <2>2, <2>3 DEF PInv, NoneLost
  <1> QED BY <1>6, <1>7, <1>8, <1>9, <1>10, <1>11 DEF PInv

\* The holder takes its buffer out of the table.
LEMMA RemoveStep ==
  ASSUME PInv, NEW t \in Threads, RemoveNode(t)
  PROVE  PInv'
  <1> DEFINE b == th[t].buf
  <1>1. /\ th[t].pc = "Remove" /\ th[t] \in Thread /\ ThreadOK(t) /\ ~ stop
        /\ used' = used \ {b} /\ dying' = dying \cup {b}
        /\ UNCHANGED <<mem, refs, cache, size, stop>>
    BY Busy DEF RemoveNode, At, PInv, TypeOK
  <1>2. b \in used /\ th[t].dead = NoBuffer /\ th[t].touched = NoBuffer
    BY <1>1 DEF ThreadOK, CallBack
  <1>3. /\ Moves(t) /\ th'[t].buf = b /\ th'[t].pc = "Drop"
        /\ th'[t].touched = NoBuffer /\ th'[t].dead = NoBuffer
    <2>1. [th[t] EXCEPT !.pc = "Drop"] \in Thread
      BY <1>1 DEF Thread
    <2> QED BY <1>2, <2>1, GotoMoves DEF RemoveNode
  <1>4. b \in Buffers /\ b # NoBuffer /\ t \in refs[b]
    BY <1>1, <1>2, ConstantsAssumption DEF PInv, TypeOK, RefsOK, Holds
  <1>5. TypeOK'
    BY <1>1, <1>2, <1>3 DEF PInv, TypeOK, Moves
  <1>6. \A u \in Threads : ThreadOK(u)'
    <2>1. ThreadOK(t)'
      BY <1>1, <1>3 DEF ThreadOK, Taken, CallBack
    <2>2. ASSUME NEW u \in Threads, u # t PROVE ThreadOK(u)'
      <3>1. ThreadOK(u) /\ th'[u] = th[u] /\ th[u].buf # b
        BY <1>3, <1>4, <2>2 DEF PInv, Moves, ThreadsApart
      <3>2. Still(u)
        BY <1>1, <3>1 DEF ThreadOK, Still
      <3> QED BY <3>1, <3>2, StaysOK
    <2> QED BY <2>1, <2>2
  <1>7. RefsOK'
    BY <1>1, <1>2, <1>3, ConstantsAssumption DEF PInv, Moves, RefsOK, Holds
  <1>8. SetsApart' /\ Stopped'
    BY <1>1, <1>2 DEF PInv, SetsApart, Stopped
  <1>9. ThreadsApart'
    BY <1>2, <1>3 DEF PInv, Moves, ThreadsApart
  <1>10. NoneLost'
    BY <1>1, <1>2, <1>3, <1>4 DEF PInv, NoneLost, Moves, Taken
  <1> QED BY <1>5, <1>6, <1>7, <1>8, <1>9, <1>10 DEF PInv

\* Thread t lets go of the node of b, which it passed or was to remove.
LetsGo(t, b) ==
    /\ refs' = [refs EXCEPT ![b] = @ \ {t}] /\ Moves(t)
    /\ th'[t].touched = NoBuffer /\ Holds(t, b)
    /\ \/ /\ th[t].pc = "Find" /\ th[t].touched = b
          /\ th'[t].buf = th[t].buf
          /\ \/ th'[t].pc = "Find" /\ th'[t].dead = NoBuffer
             \/ th'[t].pc = "TestStop" /\ th'[t].back = "Find"
       \/ /\ th[t].pc = "Drop" /\ th[t].buf = b
          /\ th'[t].buf = NoBuffer
          /\ \/ th'[t].pc = "Idle" /\ th'[t].dead = NoBuffer
             \/ th'[t].pc = "TestStop" /\ th'[t].back = "Idle"
    /\ \/ b \in dying /\ refs[b] = {t} /\ th'[t].pc = "TestStop" /\ th'[t].dead = b
       \/ ~ (b \in dying /\ refs[b] = {t}) /\ th'[t].pc # "TestStop"

LEMMA LetsGoOf ==
  ASSUME PInv, NEW t \in Threads, DropTouched(t) \/ Drop(t)
  PROVE  \E b \in used \cup dying : LetsGo(t, b)
  <1>1. th \in [Threads -> Thread] /\ th[t] \in Thread /\ ThreadOK(t)
    BY DEF PInv, TypeOK
  <1> DEFINE W(b, back, call) ==
                IF b \in dying /\ refs[b] = {t}
                THEN [call EXCEPT !.dead = b, !.back = back, !.pc = "TestStop"]
                ELSE [call EXCEPT !.pc = back]
  <1>2. CASE DropTouched(t)
    <2> DEFINE b == th[t].touched
               call == [th[t] EXCEPT !.touched = NoBuffer]
    <2>1. /\ refs' = [refs EXCEPT ![b] = @ \ {t}]
          /\ th' = [th EXCEPT ![t] = W(b, "Find", call)]
          /\ th[t].pc = "Find" /\ b # NoBuffer
      BY <1>2 DEF DropTouched, Drops, At
    <2>2. b \in used \cup dying /\ b \in Buffers /\ th[t].dead = NoBuffer
      BY <1>1, <2>1 DEF ThreadOK, PInv, TypeOK, CallBack
    <2>3. /\ call \in Thread /\ call.touched = NoBuffer
          /\ call.buf = th[t].buf /\ call.dead = NoBuffer
      BY <1>1, <2>2 DEF Thread
    <2> HIDE DEF call
    <2>4. W(b, "Find", call) \in Thread
      BY <2>2, <2>3 DEF Thread
    <2>5. Moves(t) /\ th'[t] = W(b, "Find", call)
      BY <1>1, <2>1, <2>4 DEF Moves
    <2>6. /\ th'[t].touched = NoBuffer /\ th'[t].buf = call.buf
          /\ \/ /\ b \in dying /\ refs[b] = {t}
                /\ th'[t].pc = "TestStop" /\ th'[t].back = "Find"
                /\ th'[t].dead = b
             \/ /\ ~ (b \in dying /\ refs[b] = {t})
                /\ th'[t].pc = "Find" /\ th'[t].dead = NoBuffer
      <3>1. CASE b \in dying /\ refs[b] = {t}
        BY <2>3, <2>5, <3>1 DEF Thread
      <3>2. CASE ~ (b \in dying /\ refs[b] = {t})
        BY <2>3, <2>5, <3>2 DEF Thread
      <3> QED BY <3>1, <3>2
    <2>7. LetsGo(t, b)
      BY <2>1, <2>3, <2>5, <2>6 DEF Holds, LetsGo
    <2> QED BY <2>2, <2>7
  <1>3. CASE Drop(t)
    <2> DEFINE b == th[t].buf
    <2>1. /\ refs' = [refs EXCEPT ![b] = @ \ {t}]
          /\ th' = [th EXCEPT ![t] = W(b, "Idle", Idle)]
          /\ th[t].pc = "Drop"
      BY <1>3 DEF Drop, Drops, At
    <2>2. b \in dying /\ b \in Buffers
      BY <1>1, <2>1 DEF ThreadOK, PInv, TypeOK
    <2>3. /\ Idle \in Thread /\ Idle.touched = NoBuffer
          /\ Idle.buf = NoBuffer /\ Idle.dead = NoBuffer
      BY DEF Idle, Thread
    <2>4. W(b, "Idle", Idle) \in Thread
      BY <2>2, <2>3 DEF Thread
    <2>5. Moves(t) /\ th'[t] = W(b, "Idle", Idle)
      BY <1>1, <2>1, <2>4 DEF Moves
    <2>6. /\ th'[t].touched = NoBuffer /\ th'[t].buf = Idle.buf
          /\ \/ /\ b \in dying /\ refs[b] = {t}
                /\ th'[t].pc = "TestStop" /\ th'[t].back = "Idle"
                /\ th'[t].dead = b
             \/ /\ ~ (b \in dying /\ refs[b] = {t})
                /\ th'[t].pc = "Idle" /\ th'[t].dead = NoBuffer
      <3>1. CASE b \in dying /\ refs[b] = {t}
        BY <2>3, <2>5, <3>1 DEF Thread
      <3>2. CASE ~ (b \in dying /\ refs[b] = {t})
        BY <2>3, <2>5, <3>2 DEF Thread
      <3> QED BY <3>1, <3>2
    <2>7. LetsGo(t, b)
      BY <2>1, <2>3, <2>5, <2>6 DEF Holds, LetsGo
    <2> QED BY <2>2, <2>7
  <1> QED BY <1>2, <1>3

\* A thread lets go of a node, and with the last reference to one that was
\* released enters the callback.
LEMMA LetGoStep ==
  ASSUME PInv, NEW t \in Threads, DropTouched(t) \/ Drop(t)
  PROVE  PInv'
  <1>1. /\ th \in [Threads -> Thread] /\ th[t] \in Thread /\ ThreadOK(t)
        /\ th[t].pc \in {"Find", "Drop"} /\ ~ stop
        /\ UNCHANGED <<mem, used, dying, cache, size, stop>>
    BY Busy DEF DropTouched, Drop, Drops, At, PInv, TypeOK
  <1>2. PICK b \in used \cup dying : LetsGo(t, b)
    BY LetsGoOf
  <1> USE DEF LetsGo
  <1>3. /\ b \in Buffers /\ b # NoBuffer /\ refs \in [Buffers -> SUBSET Threads]
        /\ t \in refs[b] /\ th[t].dead = NoBuffer
    BY <1>1, <1>2, ConstantsAssumption DEF PInv, TypeOK, RefsOK, ThreadOK, CallBack
  <1>4. /\ refs' \in [Buffers -> SUBSET Threads] /\ refs'[b] = refs[b] \ {t}
        /\ \A d \in Buffers : d # b => refs'[d] = refs[d]
    BY <1>2, <1>3
  <1>5. TypeOK'
    BY <1>1, <1>2, <1>4 DEF PInv, TypeOK, Moves
  <1>6. \A u \in Threads : ThreadOK(u)'
    <2>1. ThreadOK(t)'
      <3>1. th[t].pc = "Find" => th[t].buf \in used
        BY <1>1 DEF ThreadOK
      <3>2. th'[t].pc = "TestStop" =>
              /\ th'[t].dead \in dying'
              /\ \A v \in Threads : v \notin refs'[th'[t].dead]
        BY <1>1, <1>2, <1>4
      <3> QED BY <1>1, <1>2, <3>1, <3>2 DEF ThreadOK, Taken, CallBack
    <2>2. ASSUME NEW u \in Threads, u # t PROVE ThreadOK(u)'
      <3>1. ThreadOK(u) /\ th'[u] = th[u]
        BY <1>2, <2>2 DEF PInv, Moves
      <3>2. th[u].pc \in CallBack => refs'[th[u].dead] = refs[th[u].dead]
        BY <1>3, <1>4, <3>1 DEF ThreadOK, PInv, TypeOK
      <3>3. Still(u)
        BY <1>1, <3>1, <3>2 DEF ThreadOK, Still
      <3> QED BY <3>1, <3>3, StaysOK
    <2> QED BY <2>1, <2>2
  <1>7. RefsOK'
    <2> SUFFICES ASSUME NEW d \in Buffers, NEW u \in Threads
                 PROVE  u \in refs'[d] <=> Holds(u, d)'
      BY DEF RefsOK
    <2>1. u \in refs[d] <=> Holds(u, d)
      BY DEF PInv, RefsOK
    <2>2. CASE u = t
      <3>1. ~ Holds(t, d)' /\ (d # b => ~ Holds(t, d))
        BY <1>1, <1>2, ConstantsAssumption DEF Holds, ThreadOK
      <3> QED BY <1>4, <2>1, <2>2, <3>1
    <2>3. CASE u # t
      BY <1>2, <1>4, <2>1, <2>3 DEF Holds, Moves
    <2> QED BY <2>2, <2>3
  <1>8. SetsApart' /\ Stopped'
    BY <1>1 DEF PInv, SetsApart, Stopped
  <1>9. ThreadsApart'
    <2>1. ASSUME NEW u \in Threads, u # t, th'[t].dead # NoBuffer
          PROVE  th'[t].dead # th[u].dead
      <3>1. th'[t].dead = b
        BY <1>2, <2>1
      <3>2. th[u].pc \in CallBack => t \notin refs[th[u].dead]
        BY <2>1 DEF PInv, ThreadOK
      <3>3. th[u].pc \notin CallBack => th[u].dead = NoBuffer
        BY DEF PInv, ThreadOK
      <3> QED BY <1>3, <3>1, <3>2, <3>3
    <2>2. th'[t].buf = th[t].buf \/ th'[t].buf = NoBuffer
      BY <1>2
    <2> QED BY <1>2, <2>1, <2>2 DEF PInv, Moves, ThreadsApart
  <1>10. NoneLost'
    <2>1. ASSUME NEW d \in dying
          PROVE  refs'[d] # {} \/ \E u \in Threads : th'[u].dead = d
      <3>1. CASE d # b
        BY <1>2, <1>3, <1>4, <3>1, ConstantsAssumption
           DEF PInv, NoneLost, Moves, TypeOK
      <3>2. CASE d = b /\ refs[b] = {t}
        BY <1>2, <2>1, <3>2
      <3>3. CASE d = b /\ refs[b] # {t}
        BY <1>3, <1>4, <3>3
      <3> QED BY <3>1, <3>2, <3>3
    <2>2. \A u \in Threads : th[u].pc \in Taken =>
                                th'[u].pc \in Taken /\ th'[u].buf = th[u].buf
      BY <1>1, <1>2 DEF Moves, Taken
    <2> QED BY <1>1, <2>1, <2>2 DEF PInv, NoneLost
  <1> QED BY <1>5, <1>6, <1>7, <1>8, <1>9, <1>10 DEF PInv

\* What the callback of t does with its buffer is no other thread's business.
LEMMA CallBackFacts ==
  ASSUME PInv, NEW t \in Threads, th[t].pc \in CallBack
  PROVE  /\ th \in [Threads -> Thread] /\ th[t].touched = NoBuffer /\ ~ stop
         /\ th[t].dead \in dying /\ th[t].dead \in Buffers
         /\ th[t].dead # NoBuffer
         /\ th[t].dead \notin used /\ th[t].buf # th[t].dead
         /\ \A k \in Buckets : th[t].dead \notin cache[k]
         /\ \A v \in Threads : v \notin refs[th[t].dead]
         /\ \A u \in Threads : u # t =>
              /\ th[u].pc \in Taken \cup {"Drop"} => th[u].buf # th[t].dead
              /\ th[u].touched # th[t].dead /\ th[u].dead # th[t].dead
  <1> DEFINE b == th[t].dead
  <1>1. /\ ThreadOK(t) /\ th \in [Threads -> Thread] /\ ~ stop
        /\ th[t].touched = NoBuffer
    BY Busy DEF PInv, TypeOK, ThreadOK, CallBack
  <1>2. /\ b \in dying /\ b \in Buffers /\ b # NoBuffer /\ b \notin used
        /\ \A v \in Threads : v \notin refs[b]
        /\ \A k \in Buckets : b \notin cache[k]
    BY <1>1, ConstantsAssumption DEF ThreadOK, PInv, TypeOK, SetsApart
  <1>3. th[t].buf # b
    BY <1>1, <1>2 DEF ThreadOK, CallBack
  <1>4. ASSUME NEW u \in Threads, u # t
        PROVE  /\ th[u].pc \in Taken \cup {"Drop"} => th[u].buf # b
               /\ th[u].touched # b /\ th[u].dead # b
    <2>1. ThreadOK(u) /\ th[t].dead # th[u].dead /\ ~ Holds(u, b)
      BY <1>2, <1>4 DEF PInv, ThreadsApart, RefsOK
    <2> QED BY <1>2, <2>1 DEF ThreadOK, Holds
  <1> QED BY <1>1, <1>2, <1>3, <1>4

\* A released buffer is cached.
LEMMA CacheStep ==
  ASSUME PInv, NEW t \in Threads, AddCache(t)
  PROVE  PInv'
  <1> DEFINE b == th[t].dead
             k == BucketOf(t)
  <1>1. /\ th[t].pc = "AddCache" /\ th[t].pc \in CallBack /\ ThreadOK(t)
        /\ cache' = [cache EXCEPT ![k] = @ \cup {b}]
        /\ dying' = dying \ {b} /\ UNCHANGED <<mem, used, refs, size, stop>>
    BY DEF AddCache, At, CallBack, PInv
  <1>2. /\ th \in [Threads -> Thread] /\ th[t].touched = NoBuffer /\ ~ stop
        /\ b \in dying /\ b \in Buffers /\ b # NoBuffer /\ b \notin used
        /\ \A j \in Buckets : b \notin cache[j]
        /\ \A u \in Threads : u # t =>
              /\ th[u].pc \in Taken \cup {"Drop"} => th[u].buf # b
              /\ th[u].touched # b /\ th[u].dead # b
    BY <1>1, CallBackFacts
  <1>3. /\ Moves(t) /\ th'[t].pc = "AddCount" /\ th'[t].dead = NoBuffer
        /\ th'[t].buf = th[t].buf /\ th'[t].back = th[t].back
        /\ th'[t].touched = NoBuffer
    <2> DEFINE x == [th EXCEPT ![t].dead = NoBuffer]
    <2>1. /\ x \in [Threads -> Thread] /\ x[t] = [th[t] EXCEPT !.dead = NoBuffer]
          /\ \A u \in Threads : u # t => x[u] = th[u]
      BY <1>2 DEF Thread
    <2>2. th' = [x EXCEPT ![t].pc = "AddCount"]
      BY DEF AddCache
    <2> HIDE DEF x
    <2>3. /\ th' \in [Threads -> Thread] /\ th'[t] = [x[t] EXCEPT !.pc = "AddCount"]
          /\ \A u \in Threads : u # t => th'[u] = x[u]
      <3>1. x[t] \in Thread
        BY <2>1
      <3>2. [x[t] EXCEPT !.pc = "AddCount"] \in Thread
        BY <3>1 DEF Thread
      <3> QED BY <2>1, <2>2, <3>2
    <2>4. /\ x[t].dead = NoBuffer /\ x[t].touched = NoBuffer
          /\ x[t].buf = th[t].buf /\ x[t].back = th[t].back
      BY <1>2, <2>1 DEF Thread
    <2>5. /\ th'[t].pc = "AddCount" /\ th'[t].dead = x[t].dead
          /\ th'[t].touched = x[t].touched
          /\ th'[t].buf = x[t].buf /\ th'[t].back = x[t].back
      BY <2>1, <2>3 DEF Thread
    <2>6. Moves(t)
      BY <2>1, <2>3 DEF Moves
    <2> QED BY <2>4, <2>5, <2>6
  <1>4. /\ k \in Buckets /\ cache \in [Buckets -> SUBSET mem] /\ b \in mem
        /\ mem \subseteq Buffers
    BY <1>2, BucketTyped DEF PInv, TypeOK
  <1>5. /\ cache' \in [Buckets -> SUBSET mem] /\ cache'[k] = cache[k] \cup {b}
        /\ \A j \in Buckets : j # k => cache'[j] = cache[j]
    BY <1>1, <1>4
  <1>6. TypeOK'
    BY <1>1, <1>3, <1>5 DEF PInv, TypeOK, Moves
  <1>7. \A u \in Threads : ThreadOK(u)'
    <2>1. ThreadOK(t)'
      BY <1>1, <1>3 DEF ThreadOK, Taken, CallBack
    <2>2. ASSUME NEW u \in Threads, u # t PROVE ThreadOK(u)'
      <3>1. ThreadOK(u) /\ th'[u] = th[u]
        BY <1>3, <2>2 DEF PInv, Moves
      <3>2. th[u].pc \in Taken =>
              \A j \in Buckets : th[u].buf \notin cache[j] => th[u].buf \notin cache'[j]
        BY <1>2, <1>5, <2>2
      <3>3. Still(u)
        BY <1>1, <1>2, <2>2, <3>1, <3>2 DEF ThreadOK, Still
      <3> QED BY <3>1, <3>3, StaysOK
    <2> QED BY <2>1, <2>2
  <1>8. RefsOK'
    BY <1>1, <1>2, <1>3 DEF PInv, Moves, RefsOK, Holds
  <1>9. SetsApart'
    BY <1>1, <1>2, <1>5 DEF PInv, SetsApart
  <1>10. ThreadsApart'
    BY <1>3 DEF PInv, Moves, ThreadsApart
  <1>11. NoneLost'
    <2>1. \A d \in mem : \E j \in Buckets : d = b \/ d \in cache[j] => d \in cache'[j]
      BY <1>4, <1>5
    <2>2. ASSUME NEW d \in mem, d \notin used \cup dying'
          PROVE  \/ \E j \in Buckets : d \in cache'[j]
                 \/ \E u \in Threads : th'[u].pc \in Taken /\ th'[u].buf = d
      <3>1. CASE d = b
        BY <1>4, <1>5, <3>1
      <3>2. CASE \E j \in Buckets : d \in cache[j]
        BY <1>5, <3>2
      <3>3. CASE \E u \in Threads : th[u].pc \in Taken /\ th[u].buf = d
        BY <1>1, <1>3, <3>3 DEF Moves, Taken
      <3> QED BY <1>1, <2>2, <3>1, <3>2, <3>3 DEF PInv, NoneLost
    <2>3. ASSUME NEW d \in dying'
          PROVE  refs[d] # {} \/ \E u \in Threads : th'[u].dead = d
      BY <1>1, <1>3, <2>3 DEF PInv, NoneLost, Moves
    <2> QED BY <1>1, <2>2, <2>3 DEF NoneLost
  <1>12. Stopped'
    BY <1>1, <1>2 DEF Stopped
  <1> QED BY <1>6, <1>7, <1>8, <1>9, <1>10, <1>11, <1>12 DEF PInv

\* The thread leaves the callback for where it was called.
LEMMA ReturnMoves ==
  ASSUME PInv, NEW t \in Threads, CallBackReturns(t),
         th[t].pc \in CallBack \cup {"AddCount"}
  PROVE  /\ Moves(t) /\ th'[t].dead = NoBuffer /\ th'[t].buf = th[t].buf
         /\ th'[t].touched = NoBuffer /\ th[t].touched = NoBuffer
         /\ \/ th'[t].pc = "Find" /\ th[t].buf \in used
            \/ th'[t].pc = "Idle" /\ th[t].buf = NoBuffer
  <1>1. /\ th \in [Threads -> Thread] /\ th[t].touched = NoBuffer
        /\ \/ th[t].back = "Find" /\ th[t].buf \in used
           \/ th[t].back = "Idle" /\ th[t].buf = NoBuffer
    BY DEF PInv, TypeOK, ThreadOK, CallBack
  <1> DEFINE x == [th EXCEPT ![t].dead = NoBuffer]
             y == [x EXCEPT ![t].back = "Idle"]
  <1>2. /\ x \in [Threads -> Thread] /\ x[t] = [th[t] EXCEPT !.dead = NoBuffer]
        /\ \A u \in Threads : u # t => x[u] = th[u]
    <2>1. th[t] \in Thread
      BY <1>1
    <2>2. [th[t] EXCEPT !.dead = NoBuffer] \in Thread
      BY ONLY <2>1 DEF Thread
    <2> QED BY <1>1, <2>2
  <1> HIDE DEF x
  <1>3. /\ y \in [Threads -> Thread] /\ y[t] = [x[t] EXCEPT !.back = "Idle"]
        /\ \A u \in Threads : u # t => y[u] = x[u]
    <2>1. x[t] \in Thread
      BY <1>2
    <2>2. [x[t] EXCEPT !.back = "Idle"] \in Thread
      BY ONLY <2>1 DEF Thread
    <2> QED BY <1>2, <2>2
  <1>4. th' = [y EXCEPT ![t].pc = th[t].back] /\ th[t].back \in {"Idle", "Find"}
    BY <1>1 DEF CallBackReturns, x, Thread
  <1> HIDE DEF y
  <1>5. /\ th' \in [Threads -> Thread] /\ th'[t] = [y[t] EXCEPT !.pc = th[t].back]
        /\ \A u \in Threads : u # t => th'[u] = y[u]
    <2>1. [y[t] EXCEPT !.pc = th[t].back] \in Thread
      <3>1. y[t] \in Thread
        BY <1>3
      <3> QED BY ONLY <1>4, <3>1 DEF Thread
    <2> QED BY <1>3, <1>4, <2>1
  <1>6. th'[t].pc = th[t].back
    BY <1>1, <1>3, <1>5 DEF Thread
  <1> QED BY <1>1, <1>2, <1>3, <1>5, <1>6 DEF Moves, Thread

LEMMA CountedStep ==
  ASSUME PInv, NEW t \in Threads, AddCount(t)
  PROVE  PInv'
  <1>1. /\ th[t].pc = "AddCount" /\ CallBackReturns(t) /\ size' \in Int
        /\ UNCHANGED <<mem, used, dying, refs, cache, stop>>
    BY DEF AddCount, At, PInv, TypeOK
  <1>2. th[t].dead = NoBuffer /\ ~ stop
    BY <1>1, Busy DEF PInv, ThreadOK, CallBack
  <1>3. /\ Moves(t) /\ th'[t].dead = NoBuffer /\ th'[t].buf = th[t].buf
        /\ th'[t].touched = NoBuffer /\ th[t].touched = NoBuffer
        /\ \/ th'[t].pc = "Find" /\ th[t].buf \in used
           \/ th'[t].pc = "Idle" /\ th[t].buf = NoBuffer
    BY <1>1, ReturnMoves
  <1>4. ThreadOK(t)'
    BY <1>1, <1>3 DEF ThreadOK, Taken, CallBack
  <1> QED BY <1>1, <1>2, <1>3, <1>4, GoesOn DEF Taken

\* A released buffer is deleted.
LEMMA FreeStep ==
  ASSUME PInv, NEW t \in Threads, FreeIOBuffer(t)
  PROVE  PInv'
  <1> DEFINE b == th[t].dead
  <1>1. /\ th[t].pc = "Delete" /\ th[t].pc \in CallBack /\ CallBackReturns(t)
        /\ mem' = mem \ {b} /\ dying' = dying \ {b}
        /\ UNCHANGED <<used, refs, cache, size, stop>>
    BY DEF FreeIOBuffer, At, CallBack
  <1>2. /\ b \in dying /\ b \in Buffers /\ b # NoBuffer /\ b \notin used /\ ~ stop
        /\ \A j \in Buckets : b \notin cache[j]
        /\ \A u \in Threads : u # t =>
              /\ th[u].pc \in Taken \cup {"Drop"} => th[u].buf # b
              /\ th[u].touched # b /\ th[u].dead # b
    BY <1>1, CallBackFacts
  <1>3. /\ Moves(t) /\ th'[t].dead = NoBuffer /\ th'[t].buf = th[t].buf
        /\ th'[t].touched = NoBuffer /\ th[t].touched = NoBuffer
        /\ \/ th'[t].pc = "Find" /\ th[t].buf \in used
           \/ th'[t].pc = "Idle" /\ th[t].buf = NoBuffer
    BY <1>1, ReturnMoves
  <1>4. TypeOK'
    <2>1. cache' \in [Buckets -> SUBSET mem']
      BY <1>1, <1>2 DEF PInv, TypeOK
    <2> QED BY <1>1, <1>2, <1>3, <2>1 DEF PInv, TypeOK, Moves
  <1>5. \A u \in Threads : ThreadOK(u)'
    <2>1. ThreadOK(t)'
      BY <1>1, <1>3 DEF ThreadOK, Taken, CallBack
    <2>2. ASSUME NEW u \in Threads, u # t PROVE ThreadOK(u)'
      <3>1. ThreadOK(u) /\ th'[u] = th[u]
        BY <1>3, <2>2 DEF PInv, Moves
      <3>2. Still(u)
        BY <1>1, <1>2, <2>2, <3>1 DEF ThreadOK, Still
      <3> QED BY <3>1, <3>2, StaysOK
    <2> QED BY <2>1, <2>2
  <1>6. RefsOK'
    BY <1>1, <1>3 DEF PInv, Moves, RefsOK, Holds, CallBack
  <1>7. SetsApart' /\ Stopped'
    BY <1>1, <1>2 DEF PInv, SetsApart, Stopped
  <1>8. ThreadsApart'
    BY <1>3 DEF PInv, Moves, ThreadsApart
  <1>9. NoneLost'
    BY <1>1, <1>3 DEF PInv, NoneLost, Moves, Taken
  <1> QED BY <1>4, <1>5, <1>6, <1>7, <1>8, <1>9 DEF PInv

\* The destructor finds every buffer in one of the two tables.
LEMMA FreeAllStep ==
  ASSUME PInv, FreeAllBuffer
  PROVE  PInv'
  <1>1. /\ \A t \in Threads : th[t].pc = "Idle" /\ ThreadOK(t)
        /\ mem' = mem \ (used \cup Cached) /\ used' = {} /\ size' = 0
        /\ cache' = [k \in Buckets |-> {}] /\ UNCHANGED <<dying, refs, th>>
        /\ stop' = TRUE
    BY DEF FreeAllBuffer, At, PInv
  <1>2. \A b \in dying : FALSE
    <2>1. \A t \in Threads : /\ th[t].dead = NoBuffer /\ th[t].touched = NoBuffer
      BY <1>1 DEF ThreadOK, CallBack
    <2> SUFFICES ASSUME NEW b \in dying PROVE FALSE
      OBVIOUS
    <2>2. b \in Buffers /\ b # NoBuffer /\ refs[b] \in SUBSET Threads
      BY ConstantsAssumption DEF PInv, TypeOK
    <2>3. \A t \in Threads : ~ Holds(t, b)
      BY <1>1, <2>1, <2>2 DEF Holds
    <2> QED BY <2>1, <2>2, <2>3 DEF PInv, NoneLost, RefsOK
  <1>3. mem' = {}
    <2>1. \A b \in mem : b \in used \/ \E k \in Buckets : b \in cache[k]
      BY <1>1, <1>2 DEF PInv, NoneLost, Taken
    <2> QED BY <1>1, <2>1 DEF Cached
  <1>4. TypeOK'
    BY <1>1, <1>2, <1>3 DEF PInv, TypeOK
  <1>5. \A t \in Threads : ThreadOK(t)'
    BY <1>1 DEF ThreadOK, Taken, CallBack
  <1>6. RefsOK' /\ ThreadsApart'
    BY <1>1 DEF PInv, RefsOK, Holds, ThreadsApart
  <1>7. SetsApart' /\ NoneLost' /\ Stopped'
    BY <1>1, <1>2, <1>3 DEF SetsApart, NoneLost, Stopped
  <1> QED BY <1>4, <1>5, <1>6, <1>7 DEF PInv

LEMMA PInvInit == Init => PInv
  <1> SUFFICES ASSUME Init PROVE PInv
    OBVIOUS
  <1>1. TypeOK
    <2>1. Idle \in Thread
      BY DEF Idle, Thread
    <2>2. /\ th \in [Threads -> Thread] /\ cache \in [Buckets -> SUBSET mem]
          /\ refs \in [Buffers -> SUBSET Threads]
      BY <2>1 DEF Init
    <2>3. /\ mem \subseteq Buffers /\ used \subseteq mem /\ dying \subseteq mem
          /\ size \in Int
      BY DEF Init
    <2>4. stop \in BOOLEAN
      BY DEF Init
    <2> QED BY <2>2, <2>3, <2>4 DEF TypeOK
  <1>2. \A t \in Threads : ThreadOK(t)
    BY DEF Init, ThreadOK, Idle, Taken, CallBack
  <1>3. RefsOK
    BY ConstantsAssumption DEF Init, RefsOK, Holds, Idle
  <1> QED BY <1>1, <1>2, <1>3
          DEF Init, PInv, SetsApart, ThreadsApart, NoneLost, Stopped, Idle

LEMMA PInvNext == PInv /\ [Next]_vars => PInv'
  <1> SUFFICES ASSUME PInv, [Next]_vars PROVE PInv'
    OBVIOUS
  <1>1. CASE UNCHANGED vars
    BY <1>1 DEF vars, PInv, TypeOK, ThreadOK, RefsOK, Holds, SetsApart,
                ThreadsApart, NoneLost, Stopped, Taken, CallBack
  <1>2. ASSUME NEW t \in Threads, AllocateBuffer(t) PROVE PInv'
    <2>1. CASE GetFromCache(t)
      BY <2>1, QuietStep, PopStep DEF GetFromCache
    <2> QED BY <1>2, <2>1, QuietStep, NewStep, HandOutStep DEF AllocateBuffer
  <1>3. ASSUME NEW t \in Threads, ReleaseBuffer(t) PROVE PInv'
    BY <1>3, CallStep, HoldStep, LetGoStep, RemoveStep DEF ReleaseBuffer
  <1>4. ASSUME NEW t \in Threads, ReleaseBufferCallBack(t) PROVE PInv'
    BY <1>4, QuietStep, CacheStep, CountedStep, FreeStep
       DEF ReleaseBufferCallBack
  <1> QED BY <1>1, <1>2, <1>3, <1>4, FreeAllStep DEF Next

LEMMA PInvAlways == Spec => []PInv
  BY PInvInit, PInvNext, PTL DEF Spec

-----------------------------------------------------------------------------
(* What follows at once: one place for each buffer, none left behind. *)

LEMMA BuffersApart == PInv => OnePlace
  <1> SUFFICES ASSUME PInv PROVE OnePlace
    OBVIOUS
  <1>1. /\ used \cap Cached = {} /\ used \cap dying = {} /\ dying \cap Cached = {}
    BY DEF PInv, SetsApart, Cached
  <1>2. ASSUME NEW b \in InHand
        PROVE  b \notin used \cup dying \cup Cached
    <2>1. PICK t \in Threads : th[t].pc \in Taken /\ b = th[t].buf
      BY DEF InHand, Taken
    <2> QED BY <2>1 DEF PInv, ThreadOK, Cached
  <1> QED BY <1>1, <1>2 DEF OnePlace, PInv, ThreadsApart

LEMMA DestructorIsLast == PInv => NothingLeaks
  BY DEF PInv, Stopped, NothingLeaks

-----------------------------------------------------------------------------
(* Counting threads and cached buffers. *)

LEMMA CountMoves ==
  ASSUME NEW t \in Threads, Moves(t), NEW CONSTANT P
  PROVE  /\ CountsLater(P) \in Nat /\ CountsLater(P)' \in Nat
         /\ (th[t].pc \in P <=> th'[t].pc \in P) =>
               CountsLater(P)' = CountsLater(P)
         /\ th[t].pc \notin P /\ th'[t].pc \in P =>
               CountsLater(P)' = CountsLater(P) + 1
         /\ th[t].pc \in P /\ th'[t].pc \notin P =>
               CountsLater(P)' = CountsLater(P) - 1
  <1> DEFINE S == {u \in Threads : th[u].pc \in P}
             T == {u \in Threads : th'[u].pc \in P}
  <1>1. CountsLater(P) = Cardinality(S) /\ CountsLater(P)' = Cardinality(T)
    BY DEF CountsLater
  <1>2. IsFiniteSet(S) /\ IsFiniteSet(T)
    BY FS_Subset, ConstantsAssumption
  <1>3. Cardinality(S) \in Nat /\ Cardinality(T) \in Nat
    BY <1>2, FS_CardinalityType
  <1>4. \A u \in Threads : u # t => (u \in S <=> u \in T)
    BY DEF Moves
  <1>5. CASE th[t].pc \in P <=> th'[t].pc \in P
    <2>1. S = T
      BY <1>4, <1>5
    <2> QED BY <1>1, <1>3, <1>5, <2>1
  <1>6. CASE th[t].pc \notin P /\ th'[t].pc \in P
    <2>1. T = S \cup {t} /\ t \notin S
      BY <1>4, <1>6
    <2>2. Cardinality(T) = Cardinality(S) + 1
      BY <1>2, <2>1, FS_AddElement
    <2> QED BY <1>1, <1>3, <1>6, <2>2
  <1>7. CASE th[t].pc \in P /\ th'[t].pc \notin P
    <2>1. T = S \ {t} /\ t \in S
      BY <1>4, <1>7
    <2>2. Cardinality(T) = Cardinality(S) - 1
      BY <1>2, <2>1, FS_RemoveElement
    <2> QED BY <1>1, <1>3, <1>7, <2>2
  <1> QED BY <1>5, <1>6, <1>7

LEMMA CachedFinite ==
  ASSUME PInv
  PROVE  IsFiniteSet(Cached) /\ Cardinality(Cached) \in Nat
  <1>1. Cached \subseteq Buffers
    BY DEF PInv, TypeOK, Cached
  <1> QED BY <1>1, FS_Subset, FS_CardinalityType, ConstantsAssumption

\* The threads at one of two places, none of them at another.
LEMMA OthersCount ==
  ASSUME NEW t \in Threads, NEW CONSTANT p, NEW CONSTANT q, p # q,
         th[t].pc # p, th[t].pc # q
  PROVE  CountsLater({p}) + CountsLater({q}) <= Cardinality(Threads) - 1
  <1> DEFINE S == {u \in Threads : th[u].pc \in {p}}
             T == {u \in Threads : th[u].pc \in {q}}
  <1>1. CountsLater({p}) = Cardinality(S) /\ CountsLater({q}) = Cardinality(T)
    BY DEF CountsLater
  <1>2. IsFiniteSet(S) /\ IsFiniteSet(T) /\ S \cap T = {}
    BY FS_Subset, ConstantsAssumption
  <1>3. Cardinality(S \cup T) = Cardinality(S) + Cardinality(T)
    <2>1. /\ Cardinality(S \cup T) =
               Cardinality(S) + Cardinality(T) - Cardinality(S \cap T)
          /\ Cardinality(S) \in Nat /\ Cardinality(T) \in Nat
      BY <1>2, FS_Union, FS_CardinalityType
    <2>2. Cardinality(S \cap T) = 0
      BY <1>2, FS_EmptySet
    <2> HIDE DEF S, T
    <2> QED BY <2>1, <2>2
  <1>4. S \cup T \subseteq Threads \ {t}
    OBVIOUS
  <1>5. /\ IsFiniteSet(Threads \ {t})
        /\ Cardinality(Threads \ {t}) = Cardinality(Threads) - 1
    BY FS_RemoveElement, ConstantsAssumption
  <1>6. Cardinality(S \cup T) <= Cardinality(Threads \ {t})
    BY <1>4, <1>5, FS_Subset
  <1> HIDE DEF S, T
  <1> QED BY <1>1, <1>3, <1>5, <1>6

-----------------------------------------------------------------------------
(* The size counts the cache. *)

Counting == {"PopCount", "AddCache", "AddCount"}

\* A step of t moves it from one place to another, of those that count.
Steps(t, from, to) ==
    /\ Moves(t)
    /\ \A p \in Counting : (th[t].pc = p <=> from = p) /\ (th'[t].pc = p <=> to = p)

\* The steps that neither count nor cache anything.
LEMMA PlainStep ==
  ASSUME PInv, PInv', NEW t \in Threads,
         \/ CallAllocateBuffer(t) \/ (GetFromCache(t) /\ cache[BucketOf(t)] = {})
         \/ New(t) \/ AddHash(t) \/ ReleaseBuffer(t) \/ TestStop(t)
         \/ FreeIOBuffer(t) \/ (GetSize(t) /\ th'[t].pc # "AddCache")
  PROVE  Steps(t, "Idle", "Idle") /\ UNCHANGED <<cache, size>>
  <1>1. /\ th \in [Threads -> Thread] /\ th' \in [Threads -> Thread]
        /\ th[t] \in Thread /\ ThreadOK(t)
    BY DEF PInv, TypeOK
  <1>2. CASE CallAllocateBuffer(t)
    <2>1. th[t].pc = "Idle" /\ th'[t].pc = "Pop" /\ Moves(t)
      BY <1>1, <1>2 DEF CallAllocateBuffer, At, Goto, Moves, Thread
    <2> QED BY <1>2, <2>1 DEF CallAllocateBuffer, Steps, Counting
  <1>3. CASE GetFromCache(t) /\ cache[BucketOf(t)] = {}
    <2>1. /\ th[t].pc = "Pop" /\ Goto(t, "New")
          /\ UNCHANGED <<cache, size>>
      BY <1>3 DEF GetFromCache, At
    <2>2. th'[t].pc = "New" /\ Moves(t)
      BY <1>1, <2>1 DEF Goto, Moves, Thread
    <2> QED BY <2>1, <2>2 DEF Steps, Counting
  <1>4. CASE New(t)
    <2>1. PICK b \in Buffers : th' = [th EXCEPT ![t].buf = b, ![t].pc = "AddHash"]
      BY <1>4 DEF New
    <2>2. th[t].pc = "New" /\ th'[t].pc = "AddHash" /\ Moves(t)
      BY <1>1, <1>4, <2>1, TakesMoves DEF New, At
    <2> QED BY <1>4, <2>2 DEF New, Steps, Counting
  <1>5. CASE AddHash(t)
    <2>1. th[t].pc = "AddHash" /\ th'[t].pc = "Idle" /\ Moves(t)
      BY <1>1, <1>5 DEF AddHash, At, Moves, Idle
    <2> QED BY <1>5, <2>1 DEF AddHash, Steps, Counting
  <1>6. CASE ReleaseBuffer(t)
    <2>1. CASE CallReleaseBuffer(t)
      <3>1. PICK b \in Buffers : th' = [th EXCEPT ![t].buf = b, ![t].pc = "Find"]
        BY <2>1 DEF CallReleaseBuffer, PInv, TypeOK
      <3>2. th[t].pc = "Idle" /\ th'[t].pc = "Find" /\ Moves(t)
        BY <1>1, <2>1, <3>1, TakesMoves DEF CallReleaseBuffer, At
      <3> QED BY <2>1, <3>2 DEF CallReleaseBuffer, Steps, Counting
    <2>2. CASE Touch(t)
      <3>1. PICK b \in used : th' = [th EXCEPT ![t].touched = b]
        BY <2>2 DEF Touch
      <3>2. th[t].pc = "Find" /\ th'[t].pc = "Find" /\ Moves(t)
        BY <1>1, <2>2, <3>1 DEF Touch, At, Moves, Thread
      <3> QED BY <2>2, <3>2 DEF Touch, Steps, Counting
    <2>3. CASE DropTouched(t) \/ Drop(t)
      <3>1. th[t].pc \in {"Find", "Drop"} /\ UNCHANGED <<cache, size>>
        BY <2>3 DEF DropTouched, Drop, Drops, At
      <3>2. PICK b \in used \cup dying : LetsGo(t, b)
        BY <2>3, LetsGoOf
      <3>3. th'[t].pc \in {"Find", "Idle", "TestStop"} /\ Moves(t)
        BY <3>2 DEF LetsGo
      <3> QED BY <3>1, <3>3 DEF Steps, Counting
    <2>4. CASE Find(t)
      <3>1. th[t].pc = "Find" /\ th'[t].pc = "Remove" /\ Moves(t)
        BY <1>1, <2>4 DEF Find, At, Goto, Moves, Thread
      <3> QED BY <2>4, <3>1 DEF Find, Steps, Counting
    <2>5. CASE RemoveNode(t)
      <3>1. th[t].pc = "Remove" /\ th'[t].pc = "Drop" /\ Moves(t)
        BY <1>1, <2>5 DEF RemoveNode, At, Goto, Moves, Thread
      <3> QED BY <2>5, <3>1 DEF RemoveNode, Steps, Counting
    <2> QED BY <1>6, <2>1, <2>2, <2>3, <2>4, <2>5 DEF ReleaseBuffer
  <1>7. CASE TestStop(t) \/ (GetSize(t) /\ th'[t].pc # "AddCache")
    <2>1. PICK l \in {"GetSize", "Delete", "AddCache"} :
            Goto(t, l) /\ (th[t].pc = "TestStop" => l # "AddCache")
      BY <1>7 DEF TestStop, GetSize, At
    <2>2. th'[t].pc = l /\ Moves(t)
      BY <1>1, <2>1 DEF Goto, Moves, Thread
    <2>3. th[t].pc \in {"TestStop", "GetSize"} /\ UNCHANGED <<cache, size>>
      BY <1>7 DEF TestStop, GetSize, At
    <2>4. l # "AddCache"
      BY <1>7, <2>1, <2>2 DEF TestStop, At
    <2> QED BY <2>2, <2>3, <2>4 DEF Steps, Counting
  <1>8. CASE FreeIOBuffer(t)
    <2>1. /\ th[t].pc = "Delete" /\ th[t].pc \in CallBack /\ CallBackReturns(t)
          /\ UNCHANGED <<cache, size>>
      BY <1>8 DEF FreeIOBuffer, At, CallBack
    <2>2. Moves(t) /\ th'[t].pc \in {"Find", "Idle"}
      BY <2>1, ReturnMoves
    <2> QED BY <2>1, <2>2 DEF Steps, Counting
  <1> QED BY <1>2, <1>3, <1>4, <1>5, <1>6, <1>7, <1>8

\* The other steps of a thread, and what they do to the cache and its size.
LEMMA CountingStep ==
  ASSUME PInv, PInv', NEW t \in Threads,
         AllocateBuffer(t) \/ ReleaseBuffer(t) \/ ReleaseBufferCallBack(t)
  PROVE  \/ Steps(t, "Idle", "Idle") /\ UNCHANGED <<cache, size>>
         \/ /\ Steps(t, "Idle", "PopCount") /\ UNCHANGED size
            /\ \E b \in cache[BucketOf(t)] :
                  cache' = [cache EXCEPT ![BucketOf(t)] = @ \ {b}]
         \/ /\ Steps(t, "PopCount", "Idle") /\ UNCHANGED cache
            /\ size' = size - 1
         \/ /\ Steps(t, "Idle", "AddCache") /\ UNCHANGED <<cache, size>>
            /\ size < CacheSize
         \/ /\ Steps(t, "AddCache", "AddCount") /\ UNCHANGED size
            /\ \A k \in Buckets : th[t].dead \notin cache[k]
            /\ cache' = [cache EXCEPT ![BucketOf(t)] = @ \cup {th[t].dead}]
         \/ /\ Steps(t, "AddCount", "Idle") /\ UNCHANGED cache
            /\ size' = size + 1
  <1>1. /\ th \in [Threads -> Thread] /\ th' \in [Threads -> Thread]
        /\ th[t] \in Thread /\ mem \subseteq Buffers
        /\ cache \in [Buckets -> SUBSET mem]
    BY DEF PInv, TypeOK
  <1>2. CASE GetFromCache(t) /\ cache[BucketOf(t)] # {}
    <2>1. PICK b \in cache[BucketOf(t)] :
            /\ cache' = [cache EXCEPT ![BucketOf(t)] = @ \ {b}]
            /\ th' = [th EXCEPT ![t].buf = b, ![t].pc = "PopCount"]
      BY <1>2 DEF GetFromCache
    <2>2. b \in Buffers
      BY <1>1, BucketTyped
    <2>3. th[t].pc = "Pop" /\ th'[t].pc = "PopCount" /\ Moves(t)
      BY <1>2, <2>1, <2>2, TakesMoves DEF GetFromCache, At
    <2> QED BY <1>2, <2>1, <2>3 DEF GetFromCache, Steps, Counting
  <1>3. CASE PopCount(t)
    <2>1. th[t].pc = "PopCount" /\ th'[t].pc = "AddHash" /\ Moves(t)
      BY <1>1, <1>3 DEF PopCount, At, Goto, Moves, Thread
    <2> QED BY <1>3, <2>1 DEF PopCount, Steps, Counting
  <1>4. CASE GetSize(t) /\ th'[t].pc = "AddCache"
    <2>1. /\ th[t].pc = "GetSize" /\ UNCHANGED <<cache, size>>
          /\ th' = [th EXCEPT ![t].pc =
                IF size >= 0 /\ size < CacheSize THEN "AddCache" ELSE "Delete"]
      BY <1>4 DEF GetSize, At, Goto
    <2>2. size < CacheSize
      <3> SUFFICES ASSUME ~ size < CacheSize PROVE FALSE
        OBVIOUS
      <3>1. th' = [th EXCEPT ![t].pc = "Delete"]
        BY <2>1
      <3> QED BY <1>1, <1>4, <3>1 DEF Thread
    <2>3. Moves(t)
      BY <1>1, <2>1 DEF Moves
    <2> QED BY <1>4, <2>1, <2>2, <2>3 DEF Steps, Counting
  <1>5. CASE AddCache(t)
    <2>1. th[t].pc = "AddCache" /\ th[t].pc \in CallBack
      BY <1>5 DEF AddCache, At, CallBack
    <2>2. Moves(t) /\ th'[t].pc = "AddCount"
      <3>1. th' = [th EXCEPT ![t].dead = NoBuffer, ![t].pc = "AddCount"]
        BY <1>5 DEF AddCache
      <3> QED BY <1>1, <3>1 DEF Moves, Thread
    <2>3. \A k \in Buckets : th[t].dead \notin cache[k]
      BY <2>1, CallBackFacts
    <2> QED BY <1>5, <2>1, <2>2, <2>3 DEF AddCache, Steps, Counting
  <1>6. CASE AddCount(t)
    <2>1. th[t].pc = "AddCount" /\ CallBackReturns(t)
      BY <1>6 DEF AddCount, At
    <2>2. Moves(t) /\ th'[t].pc \in {"Find", "Idle"}
      BY <2>1, ReturnMoves
    <2> QED BY <1>6, <2>1, <2>2 DEF AddCount, Steps, Counting
  <1> QED BY <1>2, <1>3, <1>4, <1>5, <1>6, PlainStep
          DEF AllocateBuffer, ReleaseBufferCallBack

\* What a step does to the cache of one bucket, it does to their number.
LEMMA CachedChange ==
  ASSUME PInv, NEW k \in Buckets
  PROVE  /\ cache' = cache => Cardinality(Cached)' = Cardinality(Cached)
         /\ \A b \in cache[k] : cache' = [cache EXCEPT ![k] = @ \ {b}] =>
               Cardinality(Cached)' = Cardinality(Cached) - 1
         /\ \A b : (cache' = [cache EXCEPT ![k] = @ \cup {b}]
                       /\ \A j \in Buckets : b \notin cache[j]) =>
               Cardinality(Cached)' = Cardinality(Cached) + 1
  <1>1. IsFiniteSet(Cached) /\ Cardinality(Cached) \in Nat
    BY CachedFinite
  <1>2. cache \in [Buckets -> SUBSET mem]
    BY DEF PInv, TypeOK
  <1>3. \A j \in Buckets : j # k => cache[j] \cap cache[k] = {}
    BY DEF PInv, SetsApart
  <1>4. ASSUME NEW b \in cache[k], cache' = [cache EXCEPT ![k] = @ \ {b}]
        PROVE  Cardinality(Cached)' = Cardinality(Cached) - 1
    <2>1. /\ cache'[k] = cache[k] \ {b}
          /\ \A j \in Buckets : j # k => cache'[j] = cache[j] /\ b \notin cache[j]
      BY <1>2, <1>3, <1>4
    <2>2. Cached' = Cached \ {b} /\ b \in Cached
      BY <2>1 DEF Cached
    <2> QED BY <1>1, <2>2, FS_RemoveElement
  <1>5. ASSUME NEW b, cache' = [cache EXCEPT ![k] = @ \cup {b}],
               \A j \in Buckets : b \notin cache[j]
        PROVE  Cardinality(Cached)' = Cardinality(Cached) + 1
    <2>1. /\ cache'[k] = cache[k] \cup {b}
          /\ \A j \in Buckets : j # k => cache'[j] = cache[j]
      BY <1>2, <1>5
    <2>2. Cached' = Cached \cup {b} /\ b \notin Cached
      BY <1>5, <2>1 DEF Cached
    <2> QED BY <1>1, <2>2, FS_AddElement
  <1>6. cache' = cache => Cached' = Cached
    BY DEF Cached
  <1> QED BY <1>4, <1>5, <1>6

\* How a step changes the numbers of threads that count.
LEMMA CountersMove ==
  ASSUME NEW t \in Threads, NEW CONSTANT from, NEW CONSTANT to,
         Steps(t, from, to), NEW CONSTANT p \in Counting
  PROVE  /\ CountsLater({p}) \in Nat /\ CountsLater({p})' \in Nat
         /\ (from = p <=> to = p) => CountsLater({p})' = CountsLater({p})
         /\ from # p /\ to = p => CountsLater({p})' = CountsLater({p}) + 1
         /\ from = p /\ to # p => CountsLater({p})' = CountsLater({p}) - 1
  <1>1. Moves(t) /\ (th[t].pc = p <=> from = p) /\ (th'[t].pc = p <=> to = p)
    BY DEF Steps
  <1> QED BY <1>1, CountMoves

\* A step in numbers: of the cached buffers, of the threads that count a buffer
\* taken, a buffer cached, or passed the test of the size.
LEMMA Ledger ==
  ASSUME PInv, PInv', NEW t \in Threads,
         AllocateBuffer(t) \/ ReleaseBuffer(t) \/ ReleaseBufferCallBack(t)
  PROVE  LET C == Cardinality(Cached)
             P == CountsLater({"PopCount"})
             V == CountsLater({"AddCache"})
             A == CountsLater({"AddCount"})
         IN  /\ C \in Nat /\ P \in Nat /\ V \in Nat /\ A \in Nat
             /\ size \in Int /\ size' \in Int
             /\ \/ size' = size /\ C' = C /\ P' = P /\ V' = V /\ A' = A
                \/ size' = size /\ C' = C - 1 /\ P' = P + 1 /\ V' = V /\ A' = A
                \/ size' = size - 1 /\ C' = C /\ P' = P - 1 /\ V' = V /\ A' = A
                \/ /\ size' = size /\ C' = C /\ P' = P /\ V' = V + 1 /\ A' = A
                   /\ size < CacheSize /\ V + A <= Cardinality(Threads) - 1
                \/ size' = size /\ C' = C + 1 /\ P' = P /\ V' = V - 1 /\ A' = A + 1
                \/ size' = size + 1 /\ C' = C /\ P' = P /\ V' = V /\ A' = A - 1
  <1>1. /\ Cardinality(Cached) \in Nat /\ size \in Int /\ size' \in Int
        /\ BucketOf(t) \in Buckets
    BY CachedFinite, BucketTyped DEF PInv, TypeOK
  <1>2. "PopCount" \in Counting /\ "AddCache" \in Counting /\ "AddCount" \in Counting
    BY DEF Counting
  <1>3. CASE Steps(t, "Idle", "Idle") /\ UNCHANGED <<cache, size>>
    BY <1>1, <1>2, <1>3, CountersMove, CachedChange
  <1>4. CASE /\ Steps(t, "Idle", "PopCount") /\ UNCHANGED size
             /\ \E b \in cache[BucketOf(t)] :
                   cache' = [cache EXCEPT ![BucketOf(t)] = @ \ {b}]
    <2>1. Cardinality(Cached)' = Cardinality(Cached) - 1
      BY <1>1, <1>4, CachedChange
    <2> QED BY <1>1, <1>2, <1>4, <2>1, CountersMove
  <1>5. CASE Steps(t, "PopCount", "Idle") /\ UNCHANGED cache /\ size' = size - 1
    BY <1>1, <1>2, <1>5, CountersMove, CachedChange
  <1>6. CASE /\ Steps(t, "Idle", "AddCache") /\ UNCHANGED <<cache, size>>
             /\ size < CacheSize
    <2>1. th[t].pc # "AddCache" /\ th[t].pc # "AddCount"
      BY <1>6 DEF Steps, Counting
    <2>2. CountsLater({"AddCache"}) + CountsLater({"AddCount"})
             <= Cardinality(Threads) - 1
      BY <2>1, OthersCount
    <2> QED BY <1>1, <1>2, <1>6, <2>2, CountersMove, CachedChange
  <1>7. CASE /\ Steps(t, "AddCache", "AddCount") /\ UNCHANGED size
             /\ \A k \in Buckets : th[t].dead \notin cache[k]
             /\ cache' = [cache EXCEPT ![BucketOf(t)] = @ \cup {th[t].dead}]
    <2>1. Cardinality(Cached)' = Cardinality(Cached) + 1
      BY <1>1, <1>7, CachedChange
    <2> QED BY <1>1, <1>2, <1>7, <2>1, CountersMove
  <1>8. CASE Steps(t, "AddCount", "Idle") /\ UNCHANGED cache /\ size' = size + 1
    BY <1>1, <1>2, <1>8, CountersMove, CachedChange
  <1> QED BY <1>3, <1>4, <1>5, <1>6, <1>7, <1>8, CountingStep

-----------------------------------------------------------------------------
(* The inductive invariant of the counts. *)

\* A thread that has yet to count the buffer it cached finds one in its bucket,
\* unless another thread takes from there as well.
StillCached ==
    \A t \in Threads : At(t, "AddCount") =>
        \/ cache[BucketOf(t)] # {}
        \/ \E u \in Threads : u # t /\ BucketOf(u) = BucketOf(t)

\* The threads that passed the test of the size count as if they had cached.
Passed == Cardinality(Cached) + CountsLater({"AddCache"})
              <= CacheSize + Cardinality(Threads) - 1

\* Nothing is counted while all threads are idle and no buffer is cached.
LEMMA NothingCounts ==
  ASSUME \A t \in Threads : th[t].pc = "Idle", \A k \in Buckets : cache[k] = {}
  PROVE  /\ Cardinality(Cached) = 0 /\ CountsLater({"PopCount"}) = 0
         /\ CountsLater({"AddCache"}) = 0 /\ CountsLater({"AddCount"}) = 0
  <1>1. \A p \in Counting : {t \in Threads : th[t].pc \in {p}} = {}
    BY DEF Counting
  <1>2. \A p \in Counting : CountsLater({p}) = 0
    BY <1>1, FS_EmptySet DEF CountsLater
  <1>3. Cached = {}
    BY DEF Cached
  <1> QED BY <1>2, <1>3, FS_EmptySet DEF Counting

LEMMA NothingCountsInit ==
  Init => SizeCounts /\ StillCached /\ (Threads # {} => Passed)
  <1> SUFFICES ASSUME Init PROVE SizeCounts /\ StillCached /\ (Threads # {} => Passed)
    OBVIOUS
  <1>1. /\ \A t \in Threads : th[t].pc = "Idle"
        /\ \A k \in Buckets : cache[k] = {}
        /\ size = 0
    BY DEF Init, Idle
  <1>2. /\ Cardinality(Cached) = 0 /\ CountsLater({"PopCount"}) = 0
        /\ CountsLater({"AddCache"}) = 0 /\ CountsLater({"AddCount"}) = 0
    BY <1>1, NothingCounts
  <1>3. Threads # {} => Cardinality(Threads) \in Nat /\ Cardinality(Threads) # 0
    BY FS_EmptySet, FS_CardinalityType, ConstantsAssumption
  <1> QED BY <1>1, <1>2, <1>3, ConstantsAssumption
          DEF SizeCounts, StillCached, Passed, At

LEMMA FreeAllCounts ==
  ASSUME FreeAllBuffer
  PROVE  SizeCounts' /\ StillCached' /\ (Threads # {} => Passed')
  <1>1. /\ \A t \in Threads : th'[t].pc = "Idle"
        /\ \A k \in Buckets : cache'[k] = {}
        /\ size' = 0
    BY DEF FreeAllBuffer, At
  <1>2. /\ Cardinality(Cached)' = 0 /\ CountsLater({"PopCount"})' = 0
        /\ CountsLater({"AddCache"})' = 0 /\ CountsLater({"AddCount"})' = 0
    <2>1. \A p \in Counting : {t \in Threads : th'[t].pc \in {p}} = {}
      BY <1>1 DEF Counting
    <2>2. \A p \in Counting : CountsLater({p})' = 0
      BY <2>1, FS_EmptySet DEF CountsLater
    <2>3. Cached' = {}
      BY <1>1 DEF Cached
    <2> QED BY <2>2, <2>3, FS_EmptySet DEF Counting
  <1>3. Threads # {} => Cardinality(Threads) \in Nat /\ Cardinality(Threads) # 0
    BY FS_EmptySet, FS_CardinalityType, ConstantsAssumption
  <1> QED BY <1>1, <1>2, <1>3, ConstantsAssumption
          DEF SizeCounts, StillCached, Passed, At

\* The size and the threads that are counting keep up with the cache.
LEMMA SizeCountsStep ==
  ASSUME PInv, PInv', SizeCounts, [Next]_vars
  PROVE  SizeCounts'
  <1>1. CASE UNCHANGED vars
    BY <1>1 DEF vars, SizeCounts, CountsLater, Cached
  <1>2. ASSUME NEW t \in Threads,
               AllocateBuffer(t) \/ ReleaseBuffer(t) \/ ReleaseBufferCallBack(t)
        PROVE  SizeCounts'
    BY <1>2, Ledger DEF SizeCounts
  <1> QED BY <1>1, <1>2, FreeAllCounts DEF Next

\* A thread lets itself in only while the size is below the limit.
LEMMA PassedStep ==
  ASSUME PInv, PInv', SizeCounts, Threads # {}, Passed, [Next]_vars
  PROVE  Passed'
  <1>1. CASE UNCHANGED vars
    BY <1>1 DEF vars, Passed, CountsLater, Cached
  <1>2. ASSUME NEW t \in Threads,
               AllocateBuffer(t) \/ ReleaseBuffer(t) \/ ReleaseBufferCallBack(t)
        PROVE  Passed'
    <2>1. CacheSize \in Nat /\ Cardinality(Threads) \in Nat
      BY FS_CardinalityType, ConstantsAssumption
    <2> QED BY <1>2, <2>1, Ledger DEF SizeCounts, Passed
  <1> QED BY <1>1, <1>2, FreeAllCounts DEF Next

LEMMA StillCachedStep ==
  ASSUME PInv, PInv', StillCached, [Next]_vars
  PROVE  StillCached'
  <1>1. CASE UNCHANGED vars
    BY <1>1 DEF vars, StillCached, At
  <1>2. ASSUME NEW t \in Threads,
               AllocateBuffer(t) \/ ReleaseBuffer(t) \/ ReleaseBufferCallBack(t)
        PROVE  StillCached'
    <2> SUFFICES ASSUME NEW u \in Threads, th'[u].pc = "AddCount",
                        \A v \in Threads : v # u => BucketOf(v) # BucketOf(u)
                 PROVE  cache'[BucketOf(u)] # {}
      BY DEF StillCached, At
    <2>1. /\ cache \in [Buckets -> SUBSET mem] /\ BucketOf(t) \in Buckets
          /\ BucketOf(u) \in Buckets /\ "AddCount" \in Counting
      BY BucketTyped DEF PInv, TypeOK, Counting
    <2>2. th[u].pc = "AddCount" => cache[BucketOf(u)] # {}
      BY DEF StillCached, At
    <2>3. CASE Steps(t, "AddCache", "AddCount") /\
                 cache' = [cache EXCEPT ![BucketOf(t)] = @ \cup {th[t].dead}]
      BY <2>1, <2>2, <2>3 DEF Steps, Moves
    <2>4. CASE Steps(t, "Idle", "PopCount") /\ \E b \in cache[BucketOf(t)] :
                 cache' = [cache EXCEPT ![BucketOf(t)] = @ \ {b}]
      <3>1. u # t /\ th[u].pc = "AddCount"
        BY <2>1, <2>4 DEF Steps, Moves
      <3> QED BY <2>1, <2>2, <2>4, <3>1
    <2>5. ASSUME NEW from \in {"Idle", "PopCount", "AddCount"},
                 NEW to \in {"Idle", "AddCache"},
                 Steps(t, from, to), UNCHANGED cache
          PROVE  cache'[BucketOf(u)] # {}
      <3>1. th[u].pc = "AddCount"
        BY <2>1, <2>5 DEF Steps, Moves
      <3> QED BY <2>2, <2>5, <3>1
    <2> QED BY <1>2, <2>3, <2>4, <2>5, CountingStep
  <1> QED BY <1>1, <1>2, FreeAllCounts DEF Next

\* Fewer cached buffers than threads to count them: two of these share a bucket,
\* or one of them shares it with a thread that took the buffer.
LEMMA SharedBucket == PInv /\ SizeCounts /\ StillCached => UnderflowNeedsSharing
  <1> SUFFICES ASSUME PInv, SizeCounts, StillCached, size < 0,
                      \A t, u \in Threads :
                         t # u /\ At(t, "AddCount") => BucketOf(t) # BucketOf(u)
               PROVE  FALSE
    BY DEF UnderflowNeedsSharing
  <1> DEFINE S == {t \in Threads : th[t].pc \in {"AddCount"}}
             f == [t \in S |-> CHOOSE b \in cache[BucketOf(t)] : TRUE]
  <1>1. \A t \in S : cache[BucketOf(t)] # {} /\ BucketOf(t) \in Buckets
    BY BucketTyped DEF StillCached, At
  <1>2. \A t \in S : f[t] \in cache[BucketOf(t)] /\ f[t] \in Cached
    BY <1>1 DEF Cached
  <1>3. \A t, u \in S : t # u => f[t] # f[u]
    <2> SUFFICES ASSUME NEW t \in S, NEW u \in S, t # u PROVE f[t] # f[u]
      OBVIOUS
    <2>1. BucketOf(t) # BucketOf(u)
      BY DEF At
    <2> HIDE DEF f
    <2> QED BY <1>1, <1>2, <2>1 DEF PInv, SetsApart
  <1>4. IsFiniteSet(S) /\ Cardinality(S) \in Nat
    BY FS_Subset, FS_CardinalityType, ConstantsAssumption
  <1>5. IsFiniteSet(Cached) /\ Cardinality(Cached) \in Nat
    BY CachedFinite
  <1>6. Cardinality(Cached) < Cardinality(S)
    <2>1. CountsLater({"PopCount"}) \in Nat
      BY FS_Subset, FS_CardinalityType, ConstantsAssumption DEF CountsLater
    <2>2. CountsLater({"AddCount"}) = Cardinality(S) /\ size \in Int
      BY DEF CountsLater, PInv, TypeOK
    <2> HIDE DEF S
    <2> QED BY <1>4, <1>5, <2>1, <2>2 DEF SizeCounts
  <1>7. f \in [S -> Cached]
    BY <1>2
  <1> HIDE DEF f, S
  <1> QED BY <1>3, <1>4, <1>5, <1>6, <1>7, FS_PigeonHole

-----------------------------------------------------------------------------
(* The theorems. *)

\* Whatever the threads do, every buffer is in one place: handed out, released
\* and not destroyed yet, cached in one bucket, or in one thread's hands; m_nSize
\* counts the cached ones but for what threads are counting, drops below zero
\* only where threads share a bucket, and the destructor frees all
\* (IOCPBufferManager.cpp:31-99).
THEOREM PoolBooksAgree == Spec => []PoolOK
  <1> DEFINE I == PInv /\ SizeCounts /\ StillCached
  <1>1. Init => I
    BY PInvInit, NothingCountsInit
  <1>2. I /\ [Next]_vars => I'
    BY PInvNext, SizeCountsStep, StillCachedStep
  <1>3. I => PoolOK
    BY BuffersApart, DestructorIsLast, SharedBucket DEF PoolOK, PInv
  <1> QED BY <1>1, <1>2, <1>3, PTL DEF Spec

\* With any number of threads, at least one, the cache holds fewer buffers above
\* its limit than there are threads: each of the others may have passed the test
\* of the size before a buffer was counted (IOCPBufferManager.cpp:93-97).
THEOREM CacheBounded ==
  ASSUME Threads # {}
  PROVE  Spec => []CacheIsBounded
  <1> DEFINE I == PInv /\ SizeCounts /\ Passed
  <1>1. Init => I
    BY PInvInit, NothingCountsInit
  <1>2. I /\ [Next]_vars => I'
    BY PInvNext, SizeCountsStep, PassedStep
  <1>3. I => CacheIsBounded
    <2>1. Cardinality(Threads) \in Nat /\ CacheSize \in Nat
      BY FS_CardinalityType, ConstantsAssumption
    <2>2. PInv => CountsLater({"AddCache"}) \in Nat /\ Cardinality(Cached) \in Nat
      BY FS_Subset, FS_CardinalityType, CachedFinite, ConstantsAssumption
         DEF CountsLater
    <2> QED BY <2>1, <2>2 DEF Passed, CacheIsBounded
  <1> QED BY <1>1, <1>2, <1>3, PTL DEF Spec
===============================================================================
