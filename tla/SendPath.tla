------------------------------ MODULE SendPath ------------------------------
(***************************************************************************)
(* The sending side: CAsyncOperator::AsyncSend posts a buffer on the       *)
(* completion port, a thread takes it and calls WSASend (OnWrite), the     *)
(* kernel posts the outcome, a thread takes that (OnWriteCompleted) and    *)
(* posts the rest of what was not written.  Meanwhile the client may be    *)
(* removed and its SOCKET value given to the next connection.              *)
(*                                                                         *)
(* One SOCKET value, held by the connections 1, 2, ... in turn.  What goes *)
(* on the wire is kept as the pieces <<packet, offset, length>> that       *)
(* WSASend took.  RemoveClient is one step here, and each packet has a     *)
(* buffer of its own: TcpWorker has the gaps and the pool.                 *)
(***************************************************************************)
EXTENDS Integers, Sequences, FiniteSets, SequencesExt

CONSTANTS
    Threads,    \* the executors of the IO pool
    Lengths,    \* the length of each packet to be sent
    MaxConns,   \* bound: connections the SOCKET value is given to
    MaxWrites,  \* bound: calls of WSASend
    UintSize    \* 2^w: m_nWriteQueueSize is a UINT

ASSUME ConstantsAssumption ==
    /\ Lengths \in Seq(Nat \ {0})
    /\ MaxConns \in Nat \ {0}
    /\ MaxWrites \in Nat
    /\ UintSize \in Nat \ {0, 1}

Packets == 1 .. Len(Lengths)
Conns   == 1 .. MaxConns
None    == 0

VARIABLES
    conn,    \* the connection the SOCKET value was given to last
    open,    \* it is registered and its socket is open
    queue,   \* m_nWriteQueueSize of each connection's CClientContext
    buf,     \* the CIOCPBuffer of each packet
    port,    \* the completion port: packets with the size or failure posted
    kernel,  \* writes under way: packet, connection, bytes that WSASend took
    th,      \* what each thread is doing
    wire,    \* history: what was written to each connection
    strays   \* history: connections that met a write of another one

netVars == <<conn, open>>
vars == <<netVars, queue, buf, port, kernel, th, wire, strays>>

Piece == [pkt : Packets, off : Nat, len : Nat]

TypeOK ==
    /\ conn \in 0 .. MaxConns /\ open \in BOOLEAN
    /\ queue \in [Conns -> 0 .. UintSize - 1]
    /\ buf \in [Packets -> [for : {None} \cup Conns, off : Nat, len : Nat,
                            op : {"new", "OP_IOWrite", "OP_IOWriteCompleted",
                                  "released"}]]
    /\ port \in Seq([pkt : Packets, size : Nat, failed : BOOLEAN])
    /\ kernel \subseteq [pkt : Packets, conn : Conns, size : Nat]
    /\ th \in [Threads -> [pc : {"Get", "OnWrite", "WSASend", "OnWriteCompleted"},
                           pkt : {None} \cup Packets, ctx : {None} \cup Conns,
                           size : Nat]]
    /\ wire \in [Conns -> Seq(Piece)]
    /\ strays \subseteq Conns

Idle == [pc |-> "Get", pkt |-> None, ctx |-> None, size |-> 0]

Init ==
    /\ conn = None /\ open = FALSE
    /\ queue = [c \in Conns |-> 0]
    /\ buf = [p \in Packets |-> [for |-> None, off |-> 0, len |-> 0,
                                 op |-> "new"]]
    /\ port = <<>> /\ kernel = {}
    /\ th = [t \in Threads |-> Idle]
    /\ wire = [c \in Conns |-> <<>>]
    /\ strays = {}

Registered == IF open THEN conn ELSE None
Posted(p, s) == [pkt |-> p, size |-> s, failed |-> FALSE]

-----------------------------------------------------------------------------
(* Connections come and go. *)

\* A connection is accepted and gets the SOCKET value that was closed.
AddClient ==
    /\ ~open /\ conn < MaxConns
    /\ conn' = conn + 1 /\ open' = TRUE
    /\ UNCHANGED <<queue, buf, port, kernel, th, wire, strays>>

\* RemoveClient(handle): whoever holds the SOCKET value now is removed, and its
\* socket closed.
RemoveClient == open' = FALSE

\* A reader, or the peer's closing, removes the client meanwhile.
Disconnect ==
    /\ open
    /\ RemoveClient
    /\ UNCHANGED <<conn, queue, buf, port, kernel, th, wire, strays>>

-----------------------------------------------------------------------------
(* AsyncSend and ContinueAsyncSend. *)

Unsent(p) == buf[p].op = "new"

\* SetupWrite(n): m_wsaDataBuf is what follows the first n bytes of the buffer.
SetupWrite(p, n) == [buf[p] EXCEPT !.off = n, !.len = Lengths[p] - n,
                                   !.op = "OP_IOWrite"]

\* A handler that holds the context of connection c, which may be gone by now,
\* sends the next packet: SetData, SetupWrite and the post.  If one of them
\* fails the buffer is released and whoever has the SOCKET value removed.
AsyncSend ==
    \E p \in Packets, c \in 1 .. conn :
        /\ Unsent(p) /\ \A q \in 1 .. p - 1 : ~Unsent(q)
        /\ \/ /\ buf' = [buf EXCEPT ![p] = [SetupWrite(p, 0) EXCEPT !.for = c]]
              /\ port' = Append(port, Posted(p, Lengths[p]))
              /\ UNCHANGED open
           \/ /\ buf' = [buf EXCEPT ![p].op = "released"]
              /\ RemoveClient /\ UNCHANGED port
        /\ UNCHANGED <<conn, queue, kernel, th, wire, strays>>

\* ReleaseBuffer, and the thread returns to the port.
ReleaseBuffer(t, p) ==
    /\ buf' = [buf EXCEPT ![p].op = "released"]
    /\ th' = [th EXCEPT ![t] = Idle]

-----------------------------------------------------------------------------
(* The IO pool's threads. *)

\* Mutant of Get: without a client the buffer is forgotten.
GetForgets(t) ==
    /\ th[t].pc = "Get" /\ port # <<>>
    /\ LET e == Head(port)
           p == e.pkt
       IN  /\ th' = [th EXCEPT ![t] =
                       IF e.failed \/ ~open THEN Idle
                       ELSE [pc |-> IF buf[p].op = "OP_IOWrite"
                                    THEN "OnWrite" ELSE "OnWriteCompleted",
                             pkt |-> p, ctx |-> conn, size |-> e.size]]
           /\ IF e.failed THEN RemoveClient ELSE UNCHANGED open
           /\ strays' = strays \cup ({conn} \ {buf[p].for})
    /\ port' = Tail(port)
    /\ UNCHANGED <<conn, queue, buf, kernel, wire>>

\* GetQueuedCompletionStatus and ProcessIOMessage up to the handler: GetClient
\* finds whoever is registered for the SOCKET value now.  A failure goes to
\* OnOperationCanceled.
Get(t) ==
    /\ th[t].pc = "Get" /\ port # <<>>
    /\ LET e == Head(port)
           p == e.pkt
       IN  \/ /\ e.failed
              /\ ReleaseBuffer(t, p)
              /\ RemoveClient
              /\ UNCHANGED strays
           \/ /\ ~e.failed /\ ~open
              /\ ReleaseBuffer(t, p)
              /\ UNCHANGED <<open, strays>>
           \/ /\ ~e.failed /\ open
              /\ th' = [th EXCEPT ![t] =
                          [pc |-> IF buf[p].op = "OP_IOWrite"
                                  THEN "OnWrite" ELSE "OnWriteCompleted",
                           pkt |-> p, ctx |-> conn, size |-> e.size]]
              /\ strays' = strays \cup ({conn} \ {buf[p].for})
              /\ UNCHANGED <<open, buf>>
    /\ port' = Tail(port)
    /\ UNCHANGED <<conn, queue, kernel, wire>>

\* m_nWriteQueueSize is an unsigned counter.
AddWriteQueue(n) == (n + 1) % UintSize

ReleaseWriteQueue(n) == (n - 1) % UintSize

\* Mutant of OnWrite: the operation type is left alone.
OnWriteKeepsType(t) ==
    /\ th[t].pc = "OnWrite"
    /\ queue' = [queue EXCEPT ![th[t].ctx] = AddWriteQueue(@)]
    /\ th' = [th EXCEPT ![t].pc = "WSASend"]
    /\ UNCHANGED <<netVars, buf, port, kernel, wire, strays>>

\* OnWrite up to WSASend.
OnWrite(t) ==
    /\ th[t].pc = "OnWrite"
    /\ buf' = [buf EXCEPT ![th[t].pkt].op = "OP_IOWriteCompleted"]
    /\ queue' = [queue EXCEPT ![th[t].ctx] = AddWriteQueue(@)]
    /\ th' = [th EXCEPT ![t].pc = "WSASend"]
    /\ UNCHANGED <<netVars, port, kernel, wire, strays>>

\* WSASend by SOCKET value: all or a part of m_wsaDataBuf goes to whoever has
\* it, or the call fails, as it does on a closed socket.
WSASend(t) ==
    /\ th[t].pc = "WSASend"
    /\ LET p == th[t].pkt
           b == buf[p]
       IN  \/ /\ open
              /\ FoldSeq(LAMBDA s, n : n + Len(s), 0, wire) < MaxWrites
              /\ \E n \in 1 .. b.len :
                    /\ kernel' = kernel \cup {[pkt |-> p, conn |-> conn,
                                                size |-> n]}
                    /\ wire' = [wire EXCEPT ![conn] =
                                  Append(@, [pkt |-> p, off |-> b.off,
                                             len |-> n])]
              /\ strays' = strays \cup ({conn} \ {th[t].ctx})
              /\ th' = [th EXCEPT ![t] = Idle]
              /\ UNCHANGED <<open, buf>>
           \/ /\ RemoveClient
              /\ ReleaseBuffer(t, p)
              /\ UNCHANGED <<kernel, wire, strays>>
    /\ UNCHANGED <<conn, queue, port>>

\* OnWriteCompleted: what was written is compared with all of the buffer, and
\* ContinueAsyncSend goes on behind as many bytes of it.
Written(t) == th[t].size >= Lengths[th[t].pkt]

\* Mutant of OnWriteCompleted: the write queue is released once more.
OnWriteCompletedTwice(t) ==
    /\ th[t].pc = "OnWriteCompleted" /\ Written(t)
    /\ queue' = [queue EXCEPT ![th[t].ctx] = ReleaseWriteQueue(ReleaseWriteQueue(@))]
    /\ ReleaseBuffer(t, th[t].pkt)
    /\ UNCHANGED <<netVars, port, kernel, wire, strays>>

OnWriteCompleted(t) ==
    /\ th[t].pc = "OnWriteCompleted"
    /\ queue' = [queue EXCEPT ![th[t].ctx] = ReleaseWriteQueue(@)]
    /\ LET p == th[t].pkt
       IN  \/ /\ Written(t)
              /\ ReleaseBuffer(t, p)
              /\ UNCHANGED <<open, port>>
           \/ /\ ~Written(t)
              /\ buf' = [buf EXCEPT ![p] = SetupWrite(p, th[t].size)]
              /\ port' = Append(port, Posted(p, Lengths[p]))
              /\ th' = [th EXCEPT ![t] = Idle]
              /\ UNCHANGED open
           \/ /\ ~Written(t)
              /\ RemoveClient /\ UNCHANGED port
              /\ ReleaseBuffer(t, p)
    /\ UNCHANGED <<conn, kernel, wire, strays>>

\* The kernel has done a write, or ends it because closesocket told it to or the
\* peer reset the connection: the outcome goes to the port.
Cancelled(k) == ~ (open /\ k.conn = conn)

KernelDone ==
    \E k \in kernel :
        /\ \/ port' = Append(port, [Posted(k.pkt, 0) EXCEPT !.failed = TRUE])
           \/ ~Cancelled(k) /\ port' = Append(port, Posted(k.pkt, k.size))
        /\ kernel' = kernel \ {k}
        /\ UNCHANGED <<netVars, queue, buf, th, wire, strays>>

ThreadStep(t) ==
    \/ Get(t)
    \/ OnWrite(t)
    \/ WSASend(t)
    \/ OnWriteCompleted(t)

Next ==
    \/ AddClient
    \/ Disconnect
    \/ AsyncSend
    \/ \E t \in Threads : ThreadStep(t)
    \/ KernelDone

-----------------------------------------------------------------------------
(* Properties. *)

Overlap(i, j) == /\ i.pkt = j.pkt
                 /\ i.off < j.off + j.len /\ j.off < i.off + i.len

\* WSASend took a part of the packet only.
PartlyWritten(p) ==
    \E c \in Conns : \E i \in DOMAIN wire[c] :
        wire[c][i].pkt = p /\ wire[c][i].len < Lengths[p]

\* No byte of a packet is written twice, to whichever connection, unless a part
\* of the packet was written: the rest is then cut off at the wrong place and
\* taken for a part again (CommunicationWorker.cpp:238).
SentOnce ==
    \A c, d \in Conns : \A i \in DOMAIN wire[c], j \in DOMAIN wire[d] :
        <<c, i>> # <<d, j>> /\ Overlap(wire[c][i], wire[d][j])
            => PartlyWritten(wire[c][i].pkt)

\* What is given to WSASend lies within the packet and is never empty: the
\* completion of an empty write would be taken for a disconnection.  The test
\* in SetupWrite (IOCPBuffer.cpp:123) is unsigned and rejects nothing.
SendsWithinData ==
    \A p \in Packets : buf[p].op \in {"OP_IOWrite", "OP_IOWriteCompleted"} =>
        buf[p].len > 0 /\ buf[p].off + buf[p].len = Lengths[p]

\* m_nWriteQueueSize counts the client's writes under way as long as no thread
\* has worked for it on a write of another holder of its SOCKET value; one
\* that has can wrap the counter, on which CheckWriteQueueStatus sleeps.
QueueIsExact ==
    (open /\ conn \notin strays) =>
        queue[conn] = Cardinality({p \in Packets :
            buf[p].for = conn /\ buf[p].op = "OP_IOWriteCompleted"})

\* Every buffer posted by AsyncSend is released in the end, whether it was
\* written, failed, or lost its client; one that was written in part may be
\* written again for good.
EverySendEnds ==
    \A p \in Packets :
        ~Unsent(p) ~> (buf[p].op = "released" \/ PartlyWritten(p))

\* No byte goes out twice, and every write is a part of its packet, but for
\* what follows a partial write (CommunicationWorker.cpp:238).
WritesOK == TypeOK /\ SentOnce /\ SendsWithinData

Spec == Init /\ [][Next]_vars

\* A posted buffer is taken and worked on, a write under way ends; packets and
\* connections come as they like.
FairSpec == /\ Spec
            /\ \A t \in Threads : WF_vars(ThreadStep(t))
            /\ WF_vars(KernelDone)
=============================================================================
