------------------------------ MODULE TcpWorker ------------------------------
(***************************************************************************)
(* The IOCP server core of IOCP/Src: the threads of CIOPool taking         *)
(* completions off the completion port, CTCPWorker handling them,          *)
(* CAsyncOperator posting the next ones, the tables of CTcpClientManager   *)
(* and CTCPBufferManager they share, the accept thread that admits         *)
(* connections and CConnectionCheck that cuts idle ones.                   *)
(*                                                                         *)
(* A thread's step ends where another thread could see what it did: one    *)
(* action is the code from one access of a shared table, of the port or    *)
(* of a socket up to the next.                                             *)
(***************************************************************************)
EXTENDS Integers, Sequences, FiniteSets

CONSTANTS
    Handles,     \* the SOCKET values the system hands out, again and again
    Buffers,     \* the CIOCPBuffer objects
    Threads,     \* the threads of the pool
    Acceptor,    \* the accept thread
    NoBuf,       \* a thread that holds no buffer
    NoHandle,    \* a thread that works on no socket
    MaxClients,  \* m_nMaxClientCount
    MaxConns,    \* bound: how many connections peers open
    MaxPackets,  \* bound: how many whole packets peers send
    MaxExpiries, \* bound: how often CConnectionCheck finds a client expired
    FailSites    \* where PostQueuedCompletionStatus may fail

Sites == { "Associate", "OnInitialize", "ReadFinished", "AsyncSend",
           "ContinueAsyncRead", "ContinueAsyncSend" }

ASSUME ConstantsAssumption ==
    /\ IsFiniteSet(Handles)
    /\ IsFiniteSet(Threads)
    /\ MaxClients \in Nat
    /\ MaxConns \in Nat
    /\ MaxPackets \in Nat
    /\ MaxExpiries \in Nat
    /\ FailSites \subseteq Sites
    /\ Acceptor \notin Threads
    /\ NoBuf \notin Buffers
    /\ NoHandle \notin Handles

Procs == Threads \cup {Acceptor}
Conns == 1 .. MaxConns
NoConn == 0

VARIABLES
    sock,       \* the connection a socket handle is open for, or NoConn
    client,     \* m_mapClientContext: the client registered under a handle
    size,       \* m_mapClientContext.m_nSize
    registered, \* m_HashBuffer: the buffers handed out and not released
    op,         \* m_nOperationType of each buffer
    port,       \* the completion port: a FIFO of completions
    kernel,     \* the overlapped WSARecv and WSASend under way
    proc,       \* what each thread is doing
    conns,      \* connections accepted so far
    packets,    \* packets received so far
    expiries    \* clients found expired so far

vars == <<sock, client, size, registered, op, port, kernel, proc, conns,
          packets, expiries>>

ReadOps  == {"OP_IOInitialize", "OP_IORead", "OP_IOReadCompleted"}
WriteOps == {"OP_IOWrite", "OP_IOWriteCompleted"}
OpTypes  == {"OP_NULL"} \cup ReadOps \cup WriteOps

\* How a completion ended: posted by the program, some bytes, only a part of
\* the bytes, no bytes, or with an error.
Results == {"posted", "some", "part", "zero", "error"}

Completion == [buf : Buffers, key : Handles, res : Results]
Overlapped == [buf : Buffers, key : Handles, conn : Conns]

Labels == { "Idle", "ProcessIOMessage", "Dispatch", "AsyncSend",
            "RemoveClient", "CountDown", "DisConnectClient", "ReleaseBuffer",
            "IsAccept", "AddClient", "CountUp", "Associate",
            "RejectClientConnect", "Crashed" }

\* pc      what the thread does next
\* ret     where RemoveClient returns to
\* after   where the ReleaseBuffer of DoRead or of the accept thread returns to
\* buf     pIOCPBuffer, key dwCompletionKey, res dwIoSize and bResult
\* echoes  packets of ListRecvPacket not yet echoed, ok the bResult of the parse
Work == [pc : Labels,
         ret : {"ReleaseBuffer", "AsyncSend", "RemoveClient"},
         after : {"Idle", "AsyncSend", "RejectClientConnect"},
         buf : Buffers \cup {NoBuf}, key : Handles \cup {NoHandle},
         res : Results, echoes : 0 .. MaxPackets, ok : BOOLEAN]

Idle == [pc |-> "Idle", ret |-> "ReleaseBuffer", after |-> "Idle",
         buf |-> NoBuf, key |-> NoHandle, res |-> "posted", echoes |-> 0,
         ok |-> TRUE]

Init ==
    /\ sock = [h \in Handles |-> NoConn]
    /\ client = [h \in Handles |-> NoConn]
    /\ size = 0
    /\ registered = {}
    /\ op = [b \in Buffers |-> "OP_NULL"]
    /\ port = <<>>
    /\ kernel = {}
    /\ proc = [p \in Procs |-> Idle]
    /\ conns = 0
    /\ packets = 0
    /\ expiries = 0

-----------------------------------------------------------------------------
(* Control flow inside one thread. *)

Become(p, w) == proc' = [proc EXCEPT ![p] = w]

\* Enter RemoveClient, to return to where.
Remove(w, where) == [w EXCEPT !.pc = "RemoveClient", !.ret = where]

\* Mutant of Echo: one round more than there are packets.
EchoOnceMore(w) ==
    IF w.echoes >= 0 THEN [w EXCEPT !.pc = "AsyncSend", !.ret = "ReleaseBuffer",
                                    !.after = "Idle"]
    ELSE IF w.ok THEN Idle
    ELSE [Remove(w, "ReleaseBuffer") EXCEPT !.after = "Idle"]

\* Mutant of Echo: the buffer is released even if it was posted again.
EchoReleases(w) ==
    IF w.echoes > 0 THEN [w EXCEPT !.pc = "AsyncSend", !.ret = "ReleaseBuffer",
                                   !.after = "Idle"]
    ELSE [w EXCEPT !.pc = "ReleaseBuffer", !.after = "Idle", !.ok = FALSE]

\* Mutant of Echo: the buffer is released and the client forgotten.
EchoKeepsClient(w) ==
    IF w.echoes > 0 THEN [w EXCEPT !.pc = "AsyncSend", !.ret = "ReleaseBuffer",
                                   !.after = "Idle"]
    ELSE IF w.ok THEN Idle
    ELSE [w EXCEPT !.pc = "ReleaseBuffer", !.after = "Idle"]

\* The tail of ParseReceivePackage and of OnReadCompleted: packets still to
\* echo, else done, else the client is removed and the buffer released.
Echo(w) ==
    IF w.echoes > 0 THEN [w EXCEPT !.pc = "AsyncSend", !.ret = "ReleaseBuffer",
                                   !.after = "Idle"]
    ELSE IF w.ok THEN Idle
    ELSE [Remove(w, "ReleaseBuffer") EXCEPT !.after = "Idle"]

\* Mutant of Return: a failed ContinueAsyncRead or AsyncSend ends the handler.
ReturnForgets(w) ==
    IF w.ret = "ReleaseBuffer" THEN [w EXCEPT !.pc = "ReleaseBuffer"] ELSE Idle

\* Return from RemoveClient.
Return(w) ==
    CASE w.ret = "AsyncSend"    -> Echo(w)
      [] w.ret = "RemoveClient" -> Remove(w, "ReleaseBuffer")
      [] OTHER                  -> [w EXCEPT !.pc = "ReleaseBuffer"]

Posted(b, h) == [buf |-> b, key |-> h, res |-> "posted"]

-----------------------------------------------------------------------------
(* The pool threads. *)

\* Mutant of OnOperationCanceled: the client stays registered.
OnOperationCanceledKeeps(w) == [w EXCEPT !.pc = "ReleaseBuffer"]

OnOperationCanceled(w) == Remove(w, "ReleaseBuffer")
OnOperationCompleted(w) == [w EXCEPT !.pc = "ProcessIOMessage"]

\* IOCPWorkerThread: take the oldest completion and hand it to the executor.
GetQueuedCompletionStatus(t) ==
    /\ proc[t].pc = "Idle"
    /\ port # <<>>
    /\ LET e == Head(port)
           w == [Idle EXCEPT !.buf = e.buf, !.key = e.key, !.res = e.res]
       IN  Become(t, IF e.res = "error" THEN OnOperationCanceled(w)
                                         ELSE OnOperationCompleted(w))
    /\ port' = Tail(port)
    /\ UNCHANGED <<sock, client, size, registered, op, kernel, conns, packets,
                   expiries>>

\* Mutant of ProcessIOMessage: a completion without a client is dropped.
ProcessIOMessageDrops(t) ==
    /\ proc[t].pc = "ProcessIOMessage"
    /\ Become(t, IF client[proc[t].key] = NoConn THEN Idle
                 ELSE [proc[t] EXCEPT !.pc = "Dispatch"])
    /\ UNCHANGED <<sock, client, size, registered, op, port, kernel, conns,
                   packets, expiries>>

\* ProcessIOMessage: the client of the completion key, if there still is one.
ProcessIOMessage(t) ==
    /\ proc[t].pc = "ProcessIOMessage"
    /\ Become(t, [proc[t] EXCEPT !.pc = IF client[proc[t].key] = NoConn
                                        THEN "ReleaseBuffer" ELSE "Dispatch"])
    /\ UNCHANGED <<sock, client, size, registered, op, port, kernel, conns,
                   packets, expiries>>

Dispatched(t, type) == proc[t].pc = "Dispatch" /\ op[proc[t].buf] = type

\* OnInitialize: DoRead posts the first read of a client.
OnInitialize(t) ==
    /\ Dispatched(t, "OP_IOInitialize")
    /\ op' = [op EXCEPT ![proc[t].buf] = "OP_IORead"]
    /\ \/ /\ port' = Append(port, Posted(proc[t].buf, proc[t].key))
          /\ Become(t, Idle)
       \/ /\ "OnInitialize" \in FailSites
          /\ Become(t, Remove(proc[t], "ReleaseBuffer"))
          /\ UNCHANGED port
    /\ UNCHANGED <<sock, client, size, registered, kernel, conns, packets,
                   expiries>>

\* WSARecv or WSASend on the handle: it starts on whatever connection the
\* handle is open for, or fails; failing it always can (the peer reset).
StartIO(t) ==
    LET w == proc[t] IN
    \/ /\ sock[w.key] # NoConn
       /\ kernel' = kernel \cup
              {[buf |-> w.buf, key |-> w.key, conn |-> sock[w.key]]}
       /\ Become(t, Idle)
    \/ /\ Become(t, Remove(w, "ReleaseBuffer"))
       /\ UNCHANGED kernel

OnRead(t) ==
    /\ Dispatched(t, "OP_IORead")
    /\ op' = [op EXCEPT ![proc[t].buf] = "OP_IOReadCompleted"]
    /\ StartIO(t)
    /\ UNCHANGED <<sock, client, size, registered, port, conns, packets,
                   expiries>>

OnWrite(t) ==
    /\ Dispatched(t, "OP_IOWrite")
    /\ op' = [op EXCEPT ![proc[t].buf] = "OP_IOWriteCompleted"]
    /\ StartIO(t)
    /\ UNCHANGED <<sock, client, size, registered, port, conns, packets,
                   expiries>>

\* Post the buffer just read again for reading; in failing, DoRead removes the
\* client and releases the buffer, ContinueAsyncRead only removes the client.
DoRead(t, w) ==
    \/ /\ port' = Append(port, Posted(w.buf, w.key))
       /\ Become(t, Echo(w))
    \/ /\ "ReadFinished" \in FailSites
       /\ Become(t, [Remove(w, "ReleaseBuffer") EXCEPT !.after = "AsyncSend",
                                                       !.ok = FALSE])
       /\ UNCHANGED port

ContinueAsyncRead(t, w) ==
    \/ /\ port' = Append(port, Posted(w.buf, w.key))
       /\ Become(t, Echo(w))
    \/ /\ "ContinueAsyncRead" \in FailSites
       /\ Become(t, [Remove(w, "AsyncSend") EXCEPT !.ok = FALSE])
       /\ UNCHANGED port

\* OnReadCompleted with no bytes: the peer has closed.
OnReadCompletedZero(t) ==
    /\ Dispatched(t, "OP_IOReadCompleted")
    /\ proc[t].res = "zero"
    /\ Become(t, Remove(proc[t], "ReleaseBuffer"))
    /\ UNCHANGED <<sock, client, size, registered, op, port, kernel, conns,
                   packets, expiries>>

\* OnReadCompleted and ParseReceivePackage up to the callback: n whole packets
\* were in the buffer, followed by nothing (FINISHED), by the start of another
\* (UNFINISHED) or by a malformed header, after which nothing is posted.
OnReadCompleted(t) ==
    /\ Dispatched(t, "OP_IOReadCompleted")
    /\ proc[t].res # "zero"
    /\ \E n \in 0 .. (MaxPackets - packets) :
        LET w == [proc[t] EXCEPT !.echoes = n]
            b == w.buf
        IN  /\ packets' = packets + n
            /\ \/ n > 0 /\ op' = [op EXCEPT ![b] = "OP_IORead"] /\ DoRead(t, w)
               \/ op' = [op EXCEPT ![b] = "OP_IORead"] /\ ContinueAsyncRead(t, w)
               \/ /\ Become(t, Echo([w EXCEPT !.ok = FALSE]))
                  /\ UNCHANGED <<op, port>>
    /\ UNCHANGED <<sock, client, size, registered, kernel, conns, expiries>>

\* One round of the echo loop: a packet goes back in a buffer of its own.  A
\* failed AsyncSend has released that buffer again and removes the client.
AsyncSend(t) ==
    /\ proc[t].pc = "AsyncSend"
    /\ \/ \E b \in Buffers \ registered :
            /\ registered' = registered \cup {b}
            /\ op' = [op EXCEPT ![b] = "OP_IOWrite"]
            /\ port' = Append(port, Posted(b, proc[t].key))
            /\ Become(t, Echo([proc[t] EXCEPT !.echoes = @ - 1]))
       \/ /\ "AsyncSend" \in FailSites
          /\ Become(t, [Remove(proc[t], "RemoveClient") EXCEPT !.ok = FALSE,
                                                               !.echoes = 0])
          /\ UNCHANGED <<registered, op, port>>
    /\ UNCHANGED <<sock, client, size, kernel, conns, packets, expiries>>

\* OnWriteCompleted: no bytes, all of them, or a part; ContinueAsyncSend
\* posts the rest.
OnWriteCompleted(t) ==
    /\ Dispatched(t, "OP_IOWriteCompleted")
    /\ \/ /\ proc[t].res = "zero"
          /\ Become(t, Remove(proc[t], "ReleaseBuffer"))
          /\ UNCHANGED <<op, port>>
       \/ /\ proc[t].res \notin {"zero", "part"}
          /\ Become(t, [proc[t] EXCEPT !.pc = "ReleaseBuffer"])
          /\ UNCHANGED <<op, port>>
       \/ /\ proc[t].res = "part"
          /\ op' = [op EXCEPT ![proc[t].buf] = "OP_IOWrite"]
          /\ \/ /\ port' = Append(port, Posted(proc[t].buf, proc[t].key))
                /\ Become(t, Idle)
             \/ /\ "ContinueAsyncSend" \in FailSites
                /\ Become(t, Remove(proc[t], "RemoveClient"))
                /\ UNCHANGED port
    /\ UNCHANGED <<sock, client, size, registered, kernel, conns, packets,
                   expiries>>

-----------------------------------------------------------------------------
(* CClientManager and CIOCPBufferManager, called by every thread. *)

\* Mutant of RemoveClient: the outcome of RemoveNode is not looked at.
RemoveClientUnchecked(p) ==
    /\ proc[p].pc = "RemoveClient"
    /\ client' = [client EXCEPT ![proc[p].key] = NoConn]
    /\ Become(p, [proc[p] EXCEPT !.pc = "CountDown"])
    /\ UNCHANGED <<sock, size, registered, op, port, kernel, conns, packets,
                   expiries>>

\* RemoveClient: among the threads that remove one client, one finds the node.
RemoveClient(p) ==
    LET w == proc[p] IN
    /\ w.pc = "RemoveClient"
    /\ IF client[w.key] = NoConn
       THEN Become(p, Return(w)) /\ UNCHANGED client
       ELSE /\ client' = [client EXCEPT ![w.key] = NoConn]
            /\ Become(p, [w EXCEPT !.pc = "CountDown"])
    /\ UNCHANGED <<sock, size, registered, op, port, kernel, conns, packets,
                   expiries>>

\* CHashMap::RemoveNode counts the node after it is out of the list.
CountDown(p) ==
    /\ proc[p].pc = "CountDown"
    /\ size' = size - 1
    /\ Become(p, [proc[p] EXCEPT !.pc = "DisConnectClient"])
    /\ UNCHANGED <<sock, client, registered, op, port, kernel, conns, packets,
                   expiries>>

\* DisConnectClient closes the handle, whatever it is open for by now.
DisConnectClient(p) ==
    /\ proc[p].pc = "DisConnectClient"
    /\ sock' = [sock EXCEPT ![proc[p].key] = NoConn]
    /\ Become(p, Return(proc[p]))
    /\ UNCHANGED <<client, size, registered, op, port, kernel, conns, packets,
                   expiries>>

\* ReleaseBuffer takes the buffer out of m_HashBuffer if it is still there.
ReleaseBuffer(p) ==
    LET w == proc[p] IN
    /\ w.pc = "ReleaseBuffer"
    /\ registered' = registered \ {w.buf}
    /\ Become(p, CASE w.after = "Idle"      -> Idle
                   [] w.after = "AsyncSend" -> Echo(w)
                   [] OTHER -> [w EXCEPT !.pc = "RejectClientConnect"])
    /\ UNCHANGED <<sock, client, size, op, port, kernel, conns, packets,
                   expiries>>

-----------------------------------------------------------------------------
(* The accept thread: CAccept::Run and AssociateIncomingClientSocket. *)

\* WSAAccept: the system may hand out any handle that is not open.
Accept ==
    /\ proc[Acceptor].pc = "Idle"
    /\ conns < MaxConns
    /\ conns' = conns + 1
    /\ \E h \in Handles :
        /\ sock[h] = NoConn
        /\ sock' = [sock EXCEPT ![h] = conns']
        /\ Become(Acceptor, [Idle EXCEPT !.pc = "IsAccept", !.key = h])
    /\ UNCHANGED <<client, size, registered, op, port, kernel, packets,
                   expiries>>

\* Mutant of HasRoom: off by one more.
HasRoomForMore == size <= MaxClients + 1

\* m_nSize is unsigned; CountMatches keeps what the accept thread reads here
\* from being below zero.
HasRoom == size <= MaxClients

\* IsAccept and Associate; the latter fails on a handle that is not open.
IsAccept ==
    LET w == proc[Acceptor] IN
    /\ w.pc = "IsAccept"
    /\ Become(Acceptor, [w EXCEPT !.pc =
            IF HasRoom /\ sock[w.key] # NoConn
            THEN "AddClient" ELSE "RejectClientConnect"])
    /\ UNCHANGED <<sock, client, size, registered, op, port, kernel, conns,
                   packets, expiries>>

AddClient ==
    LET w == proc[Acceptor] IN
    /\ w.pc = "AddClient"
    /\ IF client[w.key] = NoConn
       THEN /\ client' = [client EXCEPT ![w.key] = conns]
            /\ Become(Acceptor, [w EXCEPT !.pc = "CountUp"])
       ELSE /\ Become(Acceptor, [w EXCEPT !.pc = "RejectClientConnect"])
            /\ UNCHANGED client
    /\ UNCHANGED <<sock, size, registered, op, port, kernel, conns, packets,
                   expiries>>

\* Mutant of CountUp: OP_IOInitialize is posted before the client is looked up.
CountUpPosts ==
    /\ proc[Acceptor].pc = "CountUp"
    /\ size' = size + 1
    /\ \E b \in Buffers \ registered :
        /\ op' = [op EXCEPT ![b] = "OP_IOInitialize"]
        /\ registered' = registered \cup {b}
        /\ port' = Append(port, Posted(b, proc[Acceptor].key))
    /\ Become(Acceptor, [proc[Acceptor] EXCEPT !.pc = "Associate"])
    /\ UNCHANGED <<sock, client, kernel, conns, packets, expiries>>

\* CHashMap::AddNode counts the node after it is in the list.
CountUp ==
    /\ proc[Acceptor].pc = "CountUp"
    /\ size' = size + 1
    /\ Become(Acceptor, [proc[Acceptor] EXCEPT !.pc = "Associate"])
    /\ UNCHANGED <<sock, client, registered, op, port, kernel, conns, packets,
                   expiries>>

\* The rest of AssociateIncomingClientSocket: the client just added is looked
\* up and used unchecked, then OP_IOInitialize is posted for it.
Associate ==
    LET w == proc[Acceptor] IN
    /\ w.pc = "Associate"
    /\ \/ /\ client[w.key] = NoConn
          /\ Become(Acceptor, [w EXCEPT !.pc = "Crashed"])
          /\ UNCHANGED <<registered, op, port>>
       \/ /\ client[w.key] # NoConn
          /\ \E b \in Buffers \ registered :
              /\ op' = [op EXCEPT ![b] = "OP_IOInitialize"]
              /\ registered' = registered \cup {b}
              /\ \/ /\ port' = Append(port, Posted(b, w.key))
                    /\ Become(Acceptor, Idle)
                 \/ /\ "Associate" \in FailSites
                    /\ Become(Acceptor,
                              [Remove(w, "ReleaseBuffer") EXCEPT
                                   !.buf = b, !.after = "RejectClientConnect"])
                    /\ UNCHANGED port
    /\ UNCHANGED <<sock, client, size, kernel, conns, packets, expiries>>

RejectClientConnect ==
    /\ proc[Acceptor].pc = "RejectClientConnect"
    /\ sock' = [sock EXCEPT ![proc[Acceptor].key] = NoConn]
    /\ Become(Acceptor, Idle)
    /\ UNCHANGED <<client, size, registered, op, port, kernel, conns, packets,
                   expiries>>

-----------------------------------------------------------------------------
(* The timer thread and the system. *)

\* CConnectionCheck::Vistor: an expired client's socket is closed under the
\* node's lock; the client stays registered until an operation of it fails.
Vistor(h) ==
    /\ client[h] # NoConn
    /\ expiries < MaxExpiries
    /\ expiries' = expiries + 1
    /\ sock' = [sock EXCEPT ![h] = NoConn]
    /\ UNCHANGED <<client, size, registered, op, port, kernel, proc, conns,
                   packets>>

Complete(k, res) ==
    /\ kernel' = kernel \ {k}
    /\ port' = Append(port, [buf |-> k.buf, key |-> k.key, res |-> res])
    /\ UNCHANGED <<sock, client, size, registered, op, proc, conns, packets,
                   expiries>>

\* Closing a socket completes what is under way on it with an error.
Aborted(k) == sock[k.key] # k.conn /\ Complete(k, "error")

\* The peer sends, reads, shuts down or resets.
Finished(k) ==
    /\ sock[k.key] = k.conn
    /\ \E res \in {"some", "zero", "error"} \cup
                  (IF op[k.buf] = "OP_IOWriteCompleted" THEN {"part"} ELSE {}) :
          Complete(k, res)

-----------------------------------------------------------------------------

Running == proc[Acceptor].pc # "Crashed"

Handler(t) ==
    \/ ProcessIOMessage(t)
    \/ OnInitialize(t)
    \/ OnRead(t)
    \/ OnReadCompletedZero(t)
    \/ OnReadCompleted(t)
    \/ AsyncSend(t)
    \/ OnWrite(t)
    \/ OnWriteCompleted(t)

Removal(p) ==
    \/ RemoveClient(p)
    \/ CountDown(p)
    \/ DisConnectClient(p)
    \/ ReleaseBuffer(p)

IOCPWorkerThread(t) ==
    GetQueuedCompletionStatus(t) \/ Handler(t) \/ Removal(t)

AssociateIncomingClientSocket ==
    \/ IsAccept
    \/ AddClient
    \/ CountUp
    \/ Associate
    \/ Removal(Acceptor)
    \/ RejectClientConnect

System ==
    \/ \E h \in Handles : Vistor(h)
    \/ \E k \in kernel : Aborted(k)
    \/ \E k \in kernel : Finished(k)

Next ==
    /\ Running
    /\ \/ \E t \in Threads : IOCPWorkerThread(t)
       \/ Accept
       \/ AssociateIncomingClientSocket
       \/ System

Spec == Init /\ [][Next]_vars

\* Each thread runs on, and the system completes what was under way on a
\* socket that was closed.  Nothing obliges a peer, the accept loop or the timer.
Fairness ==
    /\ \A t \in Threads : WF_vars(Running /\ IOCPWorkerThread(t))
    /\ WF_vars(Running /\ AssociateIncomingClientSocket)
    /\ WF_vars(Running /\ \E k \in kernel : Aborted(k))

FairSpec == Spec /\ Fairness
-----------------------------------------------------------------------------
(* Correctness. *)

TypeOK ==
    /\ sock \in [Handles -> Conns \cup {NoConn}]
    /\ client \in [Handles -> Conns \cup {NoConn}]
    /\ size \in Int
    /\ registered \in SUBSET Buffers
    /\ op \in [Buffers -> OpTypes]
    /\ port \in Seq(Completion)
    /\ kernel \in SUBSET Overlapped
    /\ proc \in [Procs -> Work]
    /\ conns \in 0 .. MaxConns
    /\ packets \in 0 .. MaxPackets
    /\ expiries \in 0 .. MaxExpiries

OnPort(b)   == \E i \in DOMAIN port : port[i].buf = b
InKernel(b) == \E k \in kernel : k.buf = b

\* A thread with work w has yet to post or to release its buffer.
OwesIn(w) ==
    /\ w.buf # NoBuf
    /\ w.pc \notin {"Idle", "RejectClientConnect", "Crashed"}
    /\ ~ (w.pc = "AsyncSend" /\ w.ok)

Owes(p) == OwesIn(proc[p])

\* No buffer leaks, whatever fails: one that is handed out is under way, or a
\* thread is still about to post it or release it.
NoBufferLeak ==
    \A b \in registered :
        OnPort(b) \/ InKernel(b) \/ \E p \in Procs : Owes(p) /\ proc[p].buf = b

\* A buffer that is under way or in a thread's hands is handed out and has
\* that one owner: no double release, no release of a buffer that the port or
\* the kernel still refers to, no two operations in one OVERLAPPED.
ExclusiveOwner ==
    /\ \A i \in DOMAIN port :
        LET b == port[i].buf IN
        /\ b \in registered
        /\ \A j \in DOMAIN port : port[j].buf = b => j = i
        /\ ~ InKernel(b)
        /\ \A p \in Procs : Owes(p) => proc[p].buf # b
    /\ \A k \in kernel :
        /\ k.buf \in registered
        /\ \A m \in kernel : m.buf = k.buf => m = k
        /\ \A p \in Procs : Owes(p) => proc[p].buf # k.buf
    /\ \A p \in Procs : Owes(p) =>
        /\ proc[p].buf \in registered
        /\ \A q \in Procs : Owes(q) /\ proc[q].buf = proc[p].buf => q = p

Clients == {h \in Handles : client[h] # NoConn}
At(label) == {p \in Procs : proc[p].pc = label}

\* The counter differs from the number of registered clients by exactly the
\* threads between changing the list and changing the counter.
CountMatches ==
    size = Cardinality(Clients) + Cardinality(At("CountDown"))
                                - Cardinality(At("CountUp"))

\* IsAccept lets in one client more than m_nMaxClientCount, and never two.
ClientBound == Cardinality(Clients) <= MaxClients + 1

\* A registered client's handle is its own open socket, even though handles
\* are reissued: it is closed by the one thread that took the client out of the
\* table, after it did.  This needs that no client expires (Vistor closes the
\* socket of a registered client) and that posting OP_IOInitialize never fails
\* (the accept thread then closes a handle RemoveClient has closed before).
RegisteredIsOpen ==
    \A h \in Handles : client[h] # NoConn => sock[h] = client[h]

\* Thread p will post a read for its handle, or take the client off it.
AttendsTo(p, h) ==
    /\ proc[p].key = h
    /\ \/ proc[p].pc \in {"ProcessIOMessage", "Dispatch"}
              /\ op[proc[p].buf] \in ReadOps
       \/ proc[p].pc \in {"RemoveClient", "CountUp", "Associate"}
       \/ proc[p].ret = "RemoveClient"
       \/ ~ proc[p].ok

\* No client is stranded: while it is registered, a read of it is under way or
\* some thread is about to start one or to remove it.  Otherwise its data, its
\* closing and its expiry would go unnoticed for good.  This needs that the
\* posts of DoRead after a read and of AsyncSend succeed: in failing they
\* release a buffer that has another owner, and with it another client's read.
NoStrandedClient ==
    \A h \in Clients :
        \/ \E i \in DOMAIN port : port[i].key = h
               /\ (op[port[i].buf] \in ReadOps \/ port[i].res = "error")
        \/ \E k \in kernel : k.key = h /\ op[k.buf] \in ReadOps
        \/ \E p \in Procs : AttendsTo(p, h)

\* The comment at E_RECEIVE_PKG_FINISHED: the read posted first uses a new
\* buffer.  So a thread at work on the packets it parsed does not share the
\* buffer it may still release with the port or the kernel.
PostedReadIsNewBuffer ==
    \A t \in Threads : proc[t].pc = "AsyncSend" =>
        ~ OnPort(proc[t].buf) /\ ~ InKernel(proc[t].buf)

\* Once every connection is closed for good, every buffer comes back.
BuffersComeBack ==
    (<>[](\A h \in Handles : sock[h] = NoConn))
        => <>[](registered = {} \/ ~ Running)
=============================================================================
