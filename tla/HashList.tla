------------------------------- MODULE HashList -------------------------------
(***************************************************************************)
(* CHashMap and its CList buckets: singly linked lists behind a head node, *)
(* one spin lock in every node.  Writers keep the head locked, readers     *)
(* lock two neighbours, let go of both and lock the next two, so a reader  *)
(* may stand on a node that is removed meanwhile and goes on by the link   *)
(* that node keeps.                                                        *)
(*                                                                         *)
(* One action is a piece of code between two lock operations, or between a *)
(* lock operation and an access another thread can see.  A shared_ptr is   *)
(* copied at once, with its old or its new value.                          *)
(***************************************************************************)
EXTENDS Integers, FiniteSets

CONSTANTS
    Threads, \* the threads that use the table
    Nodes,   \* the nodes ever created: bounds the calls of AddNode
    Keys,    \* the keys
    Heads,   \* the buckets, each named by its m_pFNode
    KeyOf(_),    \* m_HashKey
    BucketOf(_), \* GetHashIndex
    Uses,        \* the operations this table's owner calls
    MaxClears,   \* bound: calls of FreeHashMapNode
    NoNode, NoThread

ASSUME ConstantsAssumption ==
    /\ Nodes \cap Heads = {}
    /\ \A n \in Nodes : KeyOf(n) \in Keys
    /\ \A k \in Keys : BucketOf(k) \in Heads
    /\ NoNode \notin Nodes \cup Heads
    /\ IsFiniteSet(Nodes) /\ IsFiniteSet(Threads) /\ Keys # {}
    /\ NoThread \notin Threads
    /\ Uses \subseteq {"Add", "Pop", "Get", "Visit", "RemoveKey", "RemoveOne",
                      "Free"}
    /\ MaxClears \in Nat

VARIABLES
    inited,   \* the buckets of m_arrayHashData whose list exists
    next,     \* m_pNext
    lock,     \* m_bLock, and which thread set it
    removing, \* the nodes with m_bIsRemoving
    unused,   \* the nodes not created yet
    size,     \* m_nSize
    th,       \* each thread's call and its local variables
    clears,   \* calls of FreeHashMapNode so far
    lookup,   \* history: what each lookup may answer
    answer    \* history: what each thread's last lookup answered

listVars == <<inited, next, removing, unused>>
history  == <<lookup, answer>>
vars == <<listVars, lock, size, th, clears, history>>

AllNodes == Nodes \cup Heads

Ops == {"none", "Add", "Pop", "Get", "Visit", "RemoveKey", "RemoveOne", "Free"}
Call == [op : Ops,
         pc : {"Idle", "InitHashArray", "InitLocked", "LockHead", "LockNext",
               "Link", "Pop", "LockNode", "Unlink", "Added", "Removed",
               "Bucket", "LockPrev", "LockVisited", "Test", "Return",
               "NextKeyNode", "FreeList", "FreeNode"},
         node : Nodes \cup {NoNode},
         head : Heads \cup {NoNode},
         prev : AllNodes \cup {NoNode},
         nxt  : Nodes \cup {NoNode},
         heads : SUBSET Heads,
         keys  : SUBSET Keys,
         found : SUBSET Nodes]

Idle == [op |-> "none", pc |-> "Idle", node |-> NoNode, head |-> NoNode,
         prev |-> NoNode, nxt |-> NoNode, heads |-> {}, keys |-> {},
         found |-> {}]

\* The nodes behind n: the least set that the links do not lead out of.
Reach(links, n) ==
    {m \in Nodes : \A S \in SUBSET Nodes :
        (\A x \in S \cup {n} : links[x] \in S \cup {NoNode}) => m \in S}
Linked(n) == Reach(next, n)

\* What the callers see: the nodes linked from a head and not marked.
Content == (UNION {Linked(h) : h \in Heads}) \ removing

\* The buckets a FreeHashMapNode has still to empty.
Clearing == [t \in Threads |->
               LET c == th[t] IN
               IF c.op # "Free" THEN {}
               ELSE c.heads \cup IF c.pc = "FreeList" THEN {c.prev} ELSE {}]

Table == INSTANCE HashTable WITH content <- Content, clearing <- Clearing

TypeOK ==
    /\ inited \subseteq Heads
    /\ next \in [AllNodes -> Nodes \cup {NoNode}]
    /\ lock \in [AllNodes -> Threads \cup {NoThread}]
    /\ removing \subseteq Nodes
    /\ unused \subseteq Nodes
    /\ size \in Int
    /\ th \in [Threads -> Call]
    /\ clears \in 0 .. MaxClears
    /\ lookup \in [Threads -> Table!Lookup]
    /\ answer \in [Threads -> SUBSET Nodes]

Init ==
    /\ inited = {}
    /\ next = [n \in AllNodes |-> NoNode]
    /\ lock = [n \in AllNodes |-> NoThread]
    /\ removing = {}
    /\ unused = Nodes
    /\ size = 0
    /\ th = [t \in Threads |-> Idle]
    /\ clears = 0
    /\ lookup = [t \in Threads |-> Table!NoLookup]
    /\ answer = [t \in Threads |-> {}]

-----------------------------------------------------------------------------
(* Helpers. *)

At(t, label) == th[t].pc = label
Goto(t, label) == th' = [th EXCEPT ![t].pc = label]
Return(t) == th' = [th EXCEPT ![t] = Idle]

LockNode(t, n) == lock[n] = NoThread /\ lock' = [lock EXCEPT ![n] = t]
UnLock(t, ns)  == lock' = [n \in AllNodes |->
                             IF n \in ns THEN NoThread ELSE lock[n]]

\* The history of the lookups after a step that changes the content.
ContentChanges ==
    /\ lookup' = [t \in Threads |-> Table!Changed(lookup[t], Content')]
    /\ UNCHANGED answer

-----------------------------------------------------------------------------
(* The calls. *)

Starts(t, call) == /\ call.op \in Uses
                   /\ At(t, "Idle") /\ th' = [th EXCEPT ![t] = call]

\* A call that looks nodes up begins.
Seeks(t, kind, keys, call) ==
    /\ Starts(t, [call EXCEPT !.keys = keys, !.pc = "Bucket",
                              !.heads = {BucketOf(k) : k \in keys}])
    /\ lookup' = [lookup EXCEPT ![t] = Table!Begins(kind, keys, Content)]
    /\ answer' = [answer EXCEPT ![t] = {}]
    /\ UNCHANGED <<listVars, lock, size, clears>>

\* AddNode(Key, Data, CallBack) creates a node.
CallAddNode(t) ==
    /\ \E n \in unused :
          /\ Starts(t, [Idle EXCEPT !.op = "Add", !.pc = "InitHashArray",
                           !.node = n, !.head = BucketOf(KeyOf(n))])
          /\ unused' = unused \ {n}
    /\ UNCHANGED <<inited, next, removing, lock, size, clears, history>>

\* RemoveNode() takes the first node of the calling thread's bucket.
CallPop(t) ==
    /\ \E h \in Heads :
          Starts(t, [Idle EXCEPT !.op = "Pop", !.pc = "InitHashArray",
                        !.head = h])
    /\ UNCHANGED <<listVars, lock, size, clears, history>>

CallGetNodeBykey(t) ==
    \E k \in Keys : Seeks(t, "one", {k}, [Idle EXCEPT !.op = "Get"])
CallRemoveOnlyOneNode(t) ==
    \E k \in Keys : Seeks(t, "one", {k}, [Idle EXCEPT !.op = "RemoveOne"])
CallRemoveNode(t) ==
    \E k \in Keys : Seeks(t, "all", {k}, [Idle EXCEPT !.op = "RemoveKey"])
\* VistorNode, for every bucket; GetKeyNode, for one key.
CallVistorNode(t) ==
    \E keys \in {Keys} \cup {{k} : k \in Keys} :
        Seeks(t, "all", keys, [Idle EXCEPT !.op = "Visit"])

\* FreeHashMapNode: the size first, the lists after it.
CallFreeHashMapNode(t) ==
    /\ clears < MaxClears /\ clears' = clears + 1
    /\ Starts(t, [Idle EXCEPT !.op = "Free", !.pc = "Bucket",
                              !.heads = Heads])
    /\ size' = 0
    /\ UNCHANGED <<listVars, lock, history>>

Calls(t) ==
    \/ CallAddNode(t) \/ CallPop(t) \/ CallGetNodeBykey(t)
    \/ CallRemoveOnlyOneNode(t) \/ CallRemoveNode(t) \/ CallVistorNode(t)
    \/ CallFreeHashMapNode(t)

-----------------------------------------------------------------------------
(* The writers, AddNode and both RemoveNode of CList, keep the head locked. *)

\* InitHashArray: the first test.
InitHashArray(t) ==
    /\ At(t, "InitHashArray")
    /\ Goto(t, IF th[t].head \in inited THEN "LockHead" ELSE "InitLocked")
    /\ UNCHANGED <<listVars, lock, size, clears, history>>

\* Under m_mutexInit it tests again and makes the list.
InitLocked(t) ==
    /\ At(t, "InitLocked")
    /\ inited' = inited \cup {th[t].head}
    /\ Goto(t, "LockHead")
    /\ UNCHANGED <<next, removing, unused, lock, size, clears, history>>

\* Mutant of LockHead: nobody waits for the head.
LockNoHead(t) ==
    /\ At(t, "LockHead")
    /\ LET h == th[t].head IN
         th' = [th EXCEPT ![t].prev = h, ![t].nxt = next[h],
                  ![t].pc = IF th[t].op = "Add"
                            THEN IF next[h] = NoNode THEN "Link" ELSE "LockNext"
                            ELSE IF th[t].op = "Pop" THEN "Pop" ELSE "LockNode"]
    /\ UNCHANGED <<listVars, lock, size, clears, history>>

\* The head is locked and its link read.
LockHead(t) ==
    /\ At(t, "LockHead")
    /\ LET h == th[t].head IN
         /\ LockNode(t, h)
         /\ th' = [th EXCEPT ![t].prev = h, ![t].nxt = next[h],
                  ![t].pc = IF th[t].op = "Add"
                            THEN IF next[h] = NoNode THEN "Link" ELSE "LockNext"
                            ELSE IF th[t].op = "Pop" THEN "Pop" ELSE "LockNode"]
    /\ UNCHANGED <<listVars, size, clears, history>>

LockNext(t) ==
    /\ At(t, "LockNext")
    /\ LockNode(t, th[t].nxt)
    /\ Goto(t, "Link")
    /\ UNCHANGED <<listVars, size, clears, history>>

\* CList::AddNode links the node behind the head.
Link(t) ==
    /\ At(t, "Link")
    /\ LET c == th[t] IN
         /\ next' = [next EXCEPT ![c.node] = c.nxt, ![c.head] = c.node]
         /\ UnLock(t, {c.head, c.nxt})
    /\ Goto(t, "Added")
    /\ UNCHANGED <<inited, removing, unused, size, clears>>
    /\ ContentChanges

Added(t) ==
    /\ At(t, "Added")
    /\ size' = size + 1
    /\ Return(t)
    /\ UNCHANGED <<listVars, lock, clears, history>>

\* CList::RemoveNode() unlinks the first node and does not mark it.
Pop(t) ==
    /\ At(t, "Pop")
    /\ LET c == th[t] IN
         /\ next' = IF c.nxt = NoNode THEN next
                    ELSE [next EXCEPT ![c.head] = next[c.nxt]]
         /\ UnLock(t, {c.head})
         /\ IF c.nxt = NoNode THEN Return(t) ELSE Goto(t, "Removed")
    /\ UNCHANGED <<inited, removing, unused, size, clears>>
    /\ ContentChanges

\* What follows a list's RemoveNode: RemoveNode(Key) stops where it fails.
RemoveEnds(t, found) ==
    IF found THEN Goto(t, "Removed")
    ELSE Return(t)

\* CList::RemoveNode(pNode), one turn of its loop: the next node is locked; if
\* it is not the one, the loop goes on from it and it is unlocked.
LockNextNode(t) ==
    /\ At(t, "LockNode")
    /\ UNCHANGED <<inited, next, unused, size, clears>>
    /\ LET c == th[t] IN
         \/ /\ c.nxt = NoNode
            /\ UnLock(t, {c.head})
            /\ RemoveEnds(t, FALSE)
            /\ UNCHANGED <<removing, history>>
         \/ /\ c.nxt # NoNode /\ c.nxt # c.node
            /\ lock[c.nxt] = NoThread
            /\ th' = [th EXCEPT ![t].prev = c.nxt, ![t].nxt = next[c.nxt]]
            /\ UNCHANGED <<lock, removing, history>>
         \/ /\ c.nxt # NoNode /\ c.nxt = c.node
            /\ LockNode(t, c.nxt)
            /\ removing' = removing \cup {c.nxt}
            /\ Goto(t, "Unlink")
            /\ ContentChanges

\* Mutant of Unlink: the removed node loses its link.
UnlinkCuts(t) ==
    /\ At(t, "Unlink")
    /\ LET c == th[t] IN
         /\ next' = [next EXCEPT ![c.prev] = next[c.nxt], ![c.nxt] = NoNode]
         /\ UnLock(t, {c.head, c.nxt})
    /\ RemoveEnds(t, TRUE)
    /\ UNCHANGED <<inited, removing, unused, size, clears, history>>

\* Its predecessor, which is not locked, is linked past it.
Unlink(t) ==
    /\ At(t, "Unlink")
    /\ LET c == th[t] IN
         /\ next' = [next EXCEPT ![c.prev] = next[c.nxt]]
         /\ UnLock(t, {c.head, c.nxt})
    /\ RemoveEnds(t, TRUE)
    /\ UNCHANGED <<inited, removing, unused, size, clears, history>>

Removed(t) ==
    /\ At(t, "Removed")
    /\ size' = size - 1
    /\ IF th[t].op = "RemoveKey" THEN Goto(t, "NextKeyNode") ELSE Return(t)
    /\ UNCHANGED <<listVars, lock, clears, history>>

Writer(t) ==
    \/ InitHashArray(t) \/ InitLocked(t) \/ LockHead(t) \/ LockNext(t)
    \/ Link(t) \/ Added(t) \/ Pop(t) \/ LockNextNode(t) \/ Unlink(t)
    \/ Removed(t)

-----------------------------------------------------------------------------
(* The readers: VistorNode, GetNodeBykey. *)

\* The list of a bucket, if there is one.
Bucket(t) ==
    /\ At(t, "Bucket")
    /\ LET c == th[t] IN
         \/ /\ c.heads = {}
            /\ IF c.op = "Free" THEN Return(t) ELSE Goto(t, "Return")
         \/ \E h \in c.heads :
               th' = [th EXCEPT ![t].heads = @ \ {h}, ![t].prev = h,
                        ![t].pc = IF h \notin inited THEN "Bucket"
                                  ELSE IF c.op = "Free" THEN "FreeList"
                                  ELSE "LockPrev"]
    /\ UNCHANGED <<listVars, lock, size, clears, history>>

\* Lock a node and read its link.
LockPrev(t) ==
    /\ At(t, "LockPrev")
    /\ LET p == th[t].prev IN
         IF next[p] = NoNode
         THEN /\ lock[p] = NoThread
              /\ Goto(t, "Bucket")
              /\ UNCHANGED lock
         ELSE /\ LockNode(t, p)
              /\ th' = [th EXCEPT ![t].nxt = next[p], ![t].pc = "LockVisited"]
    /\ UNCHANGED <<listVars, size, clears, history>>

LockVisited(t) ==
    /\ At(t, "LockVisited")
    /\ LockNode(t, th[t].nxt)
    /\ Goto(t, "Test")
    /\ UNCHANGED <<listVars, size, clears, history>>

\* Does the traversal take the node?
Takes(c) == KeyOf(c.nxt) \in c.keys /\ c.nxt \notin removing

\* The node is visited unless it is marked; both locks are released.
Test(t) ==
    /\ At(t, "Test")
    /\ LET c == th[t] IN
         /\ UnLock(t, {c.prev, c.nxt})
         /\ th' = [th EXCEPT
              ![t].found = IF Takes(c) THEN @ \cup {c.nxt} ELSE @,
              ![t].prev = c.nxt,
              ![t].pc = IF Takes(c) /\ c.op \in {"Get", "RemoveOne"}
                        THEN "Return" ELSE "LockPrev"]
    /\ UNCHANGED <<listVars, size, clears, history>>

\* A lookup answers; RemoveNode(Key) and RemoveOnlyOneNode then remove.
LookupReturns(t) ==
    /\ At(t, "Return")
    /\ CASE th[t].op \in {"Get", "Visit"} -> Return(t)
         [] th[t].op \in {"RemoveOne", "RemoveKey"} ->
              th' = [th EXCEPT ![t] = [Idle EXCEPT !.op = th[t].op,
                       !.pc = "NextKeyNode", !.found = th[t].found]]
    /\ answer' = [answer EXCEPT ![t] = th[t].found]
    /\ lookup' = [lookup EXCEPT ![t] = Table!NoLookup]
    /\ UNCHANGED <<listVars, lock, size, clears>>

NextKeyNode(t) ==
    /\ At(t, "NextKeyNode")
    /\ \/ /\ th[t].found = {}
          /\ Return(t)
       \/ \E n \in th[t].found :
             th' = [th EXCEPT ![t].found = @ \ {n}, ![t].node = n,
                      ![t].head = BucketOf(KeyOf(n)),
                      ![t].pc = "InitHashArray"]
    /\ UNCHANGED <<listVars, lock, size, clears, history>>

Reader(t) == \/ Bucket(t) \/ LockPrev(t) \/ LockVisited(t) \/ Test(t)
             \/ LookupReturns(t) \/ NextKeyNode(t)

-----------------------------------------------------------------------------
(* FreeAllNode: the list is cut off under the head's lock, then its nodes are *)
(* marked and cut one by one.                                                 *)

FreeList(t) ==
    /\ At(t, "FreeList")
    /\ LET h == th[t].prev IN
         /\ lock[h] = NoThread
         /\ next' = [next EXCEPT ![h] = NoNode]
         /\ th' = [th EXCEPT ![t].prev = next[h],
                  ![t].pc = IF next[h] = NoNode THEN "Bucket" ELSE "FreeNode"]
    /\ UNCHANGED <<inited, removing, unused, lock, size, clears>>
    /\ ContentChanges

FreeNode(t) ==
    /\ At(t, "FreeNode")
    /\ LET p == th[t].prev IN
         /\ lock[p] = NoThread
         /\ removing' = removing \cup {p}
         /\ next' = [next EXCEPT ![p] = NoNode]
         /\ th' = [th EXCEPT ![t].prev = next[p],
                  ![t].pc = IF next[p] = NoNode THEN "Bucket" ELSE "FreeNode"]
    /\ UNCHANGED <<inited, unused, lock, size, clears, history>>

Next == \E t \in Threads :
            Calls(t) \/ Writer(t) \/ Reader(t) \/ FreeList(t) \/ FreeNode(t)

Spec == Init /\ [][Next]_vars

-----------------------------------------------------------------------------
(* Properties. *)

\* The list behaves as the table its callers think of (List.h:225-354): an
\* added node is found until it is removed, a removed one only by those that
\* looked before, and a node unlinked under a reader's feet hides no other.
ImplementsTable == Table!Spec

\* A locked node is locked by a thread that is inside it (List.h:178-200): no
\* thread leaves a call with a lock.
LocksAreHeld ==
    \A n \in AllNodes : lock[n] # NoThread =>
        LET c == th[lock[n]] IN n \in {c.head, c.prev, c.nxt}

CountsLater(pcs) == Cardinality({t \in Threads : th[t].pc \in pcs})

\* While nobody clears the table, m_nSize counts its nodes, late by what the
\* threads are about to count: of several threads that remove the same node one
\* alone counts it (HashMap.h:148).
SizeCounts ==
    clears = 0 => size + CountsLater({"Added"}) =
                    Cardinality(Content) + CountsLater({"Unlink", "Removed"})

\* What a traversal still has before it.
Ahead(c) == CASE c.pc = "LockPrev" -> Linked(c.prev)
              [] c.pc \in {"LockVisited", "Test"} -> {c.nxt} \cup Linked(c.nxt)
              [] OTHER -> {}

\* A node that stays in the table is never lost to a traversal, even one that
\* stands on a removed node and follows the link it kept (List.h:263).
NothingIsMissed ==
    \A t \in Threads : lookup[t].kind = "all" =>
        \A n \in lookup[t].must :
            \/ BucketOf(KeyOf(n)) \in th[t].heads
            \/ n \in th[t].found \cup Ahead(th[t])

\* The list is sound between any two steps of its threads: its locks are held by
\* threads inside it, its counter follows its nodes, and no traversal has lost
\* a node that stays (List.h:178-354, HashMap.h:148).
ListOK == TypeOK /\ LocksAreHeld /\ SizeCounts /\ NothingIsMissed
=============================================================================
