------------------------------- MODULE Framing -------------------------------
(***************************************************************************)
(* The receiving side of one connection: the read buffer (CIOCPBuffer), the *)
(* parse loop of CCommonProtocol over it (CIOPack, CCommonPack) and the    *)
(* hand-over of the packets, which goes on while another thread already    *)
(* reads on.  The peer sends a stream of frames; the kernel delivers it in *)
(* pieces of any size.                                                     *)
(*                                                                         *)
(* Bytes are positions of the stream.  A frame is where it starts, the     *)
(* length its header names (which its body has), and whether it can be     *)
(* parsed.  The client may be removed at any time, and each echo may fail. *)
(* Who owns the buffers then is TcpWorker's subject.                       *)
(***************************************************************************)
EXTENDS Integers, Sequences, FiniteSets, FiniteSetsExt

CONSTANTS
    Streams,     \* the streams of frames a peer may send
    HeaderSize,  \* sizeof(PACKET)
    MaxPacket,   \* MAX_SINGLE_PACKET_SIZE
    DataLength,  \* IOBUFFER_DATA_LENGTH
    DoubleBelow, \* IOBUFFER_DATA_LENGTH * 10
    MaxLength,   \* 1 GB, the limit of GenerateNewBuffer
    Executors    \* the pool's threads

Frame == [at : Nat, body : Nat, kind : {"good", "magic", "body"}]
Size(f) == HeaderSize + f.body

ASSUME ConstantsAssumption ==
    /\ HeaderSize \in Nat \ {0}
    /\ MaxPacket \in Nat \ {0}
    /\ DataLength \in Nat \ {0, 1}
    /\ DoubleBelow \in Nat /\ DoubleBelow >= DataLength
    /\ MaxLength \in Nat /\ MaxLength >= 2 * (HeaderSize + MaxPacket)
    /\ MaxLength >= DataLength
    /\ Executors \in Nat \ {0}
    /\ Streams \subseteq Seq(Frame)
    /\ IsFiniteSet(Streams)
    /\ \A s \in Streams : \A i \in 1 .. Len(s) :
          /\ s[i].at = IF i = 1 THEN 0 ELSE s[i - 1].at + Size(s[i - 1])
          /\ s[i].kind = "good" => s[i].body > 0

VARIABLES
    stream,   \* what the peer sends
    hasCallBack, \* SetServerExecuteCallBack was called
    received, \* how many bytes of it have been received
    base,     \* the position of the buffer's first byte
    used,     \* m_nUsed of the buffer
    length,   \* m_nDataLength
    wsa,      \* m_wsaDataBuf.len
    pc,       \* where the chain of reads is
    pos,      \* m_nPos of the CIOPack
    list,     \* ListRecvPacket
    end,      \* how the parse loop ended: bResult and nStatus
    parsed,   \* history: the frames taken out of the stream
    batches,  \* the lists that executors are working on
    gone,     \* the client is in the manager's map no more
    handed,   \* history: the packets echoed, or given to the callback
    lost      \* history: the packets behind an echo that failed, with it

setupVars == <<stream, hasCallBack>>
readVars == <<received, base, used, length, wsa>>
loopVars == <<pos, list, end>>
workVars == <<batches, handed, lost>>
vars == <<setupVars, readVars, loopVars, pc, parsed, gone, workVars>>

TypeOK ==
    /\ stream \in Seq(Frame)
    /\ hasCallBack \in BOOLEAN
    /\ received \in Nat /\ base \in Nat /\ used \in Nat
    /\ length \in Nat /\ wsa \in Nat /\ pos \in Nat
    /\ pc \in {"Post", "Recv", "Parse", "Flush", "Closed"}
    /\ list \in Seq(1 .. Len(stream))
    /\ end \in {"none", "finished", "unfinished", "failed"}
    /\ parsed \in Seq(1 .. Len(stream))
    /\ batches \subseteq Seq(1 .. Len(stream))
    /\ gone \in BOOLEAN
    /\ handed \in Seq(1 .. Len(stream))
    /\ lost \subseteq 1 .. Len(stream)

Init ==
    /\ stream \in Streams
    /\ hasCallBack \in BOOLEAN
    /\ received = 0 /\ base = 0 /\ used = 0
    /\ length = DataLength /\ wsa = DataLength
    /\ pc = "Post"
    /\ pos = 0 /\ list = <<>> /\ end = "none"
    /\ parsed = <<>>
    /\ batches = {}
    /\ gone = FALSE
    /\ handed = <<>>
    /\ lost = {}

Total(s) == IF s = <<>> THEN 0 ELSE s[Len(s)].at + Size(s[Len(s)])

-----------------------------------------------------------------------------
(* CIOCPBuffer. *)

\* GetNewLength.
GetNewLength(n) == IF n < DoubleBelow THEN 2 * n ELSE (3 * n) \div 2

\* SetupRead: a full buffer grows.  What it would grow to:
Grown(l, u) == IF u = l THEN GetNewLength(l) ELSE l

\* GenerateNewBuffer refuses what is longer.
GenerateNewBuffer(l) == l <= MaxLength

-----------------------------------------------------------------------------
(* Reading: OP_IORead, WSARecv, OP_IOReadCompleted. *)

\* A thread of the pool takes the posted read and calls WSARecv.
OnRead ==
    /\ pc = "Post" /\ ~gone
    /\ Cardinality(batches) < Executors
    /\ pc' = "Recv"
    /\ UNCHANGED <<setupVars, readVars, loopVars, parsed, gone, workVars>>

\* It completes with some of the bytes that are there.
OnReadCompleted ==
    /\ pc = "Recv" /\ ~gone
    /\ Cardinality(batches) < Executors
    /\ \E n \in 1 .. wsa :
          /\ n <= Total(stream) - received
          /\ received' = received + n
          /\ used' = used + n
    /\ pc' = "Parse"
    /\ pos' = 0 /\ list' = <<>> /\ end' = "none"
    /\ UNCHANGED <<setupVars, base, length, wsa, parsed, gone, workVars>>

\* With none: the peer closed the connection.
OnReadCompletedZero ==
    /\ pc = "Recv" /\ ~gone
    /\ Cardinality(batches) < Executors
    /\ pc' = "Closed" /\ gone' = TRUE
    /\ UNCHANGED <<setupVars, readVars, loopVars, parsed, workVars>>

\* Another thread removes the client: the connection check, or a completion that
\* carries an error.
RemoveClient ==
    /\ ~gone /\ gone' = TRUE
    /\ UNCHANGED <<setupVars, readVars, loopVars, pc, parsed, workVars>>

\* The read ends with its client removed: its buffer is released.
ClientGone ==
    /\ pc \in {"Post", "Recv"} /\ gone
    /\ Cardinality(batches) < Executors
    /\ pc' = "Closed"
    /\ UNCHANGED <<setupVars, readVars, loopVars, parsed, gone, workVars>>

-----------------------------------------------------------------------------
(* The parse loop of ParseReceivePackage. *)

Remainder == used - pos

\* The frames whose header stands at the read position: one or none.
Here == {i \in 1 .. Len(stream) : stream[i].at = base + pos}

LoopEnds(how) == pc' = "Flush" /\ end' = how

\* Less than a header is left.
HeaderIncomplete ==
    /\ pc = "Parse" /\ Remainder < HeaderSize
    /\ LoopEnds("unfinished")
    /\ UNCHANGED <<setupVars, readVars, pos, list, parsed, gone, workVars>>

\* UnPackHeader fails, the length is out of range, or UnPackBody fails.
Unparsable ==
    /\ pc = "Parse" /\ Remainder >= HeaderSize
    /\ \E i \in Here :
          \/ stream[i].kind = "magic" \/ stream[i].body >= MaxPacket
          \/ stream[i].kind = "body" /\ Remainder >= Size(stream[i])
    /\ LoopEnds("failed")
    /\ UNCHANGED <<setupVars, readVars, pos, list, parsed, gone, workVars>>

\* Mutant of BodyIncomplete: the header is not unread.
BodyIncompleteForgets ==
    /\ pc = "Parse" /\ Remainder >= HeaderSize
    /\ \E i \in Here : Remainder - HeaderSize < stream[i].body
    /\ pos' = pos + HeaderSize
    /\ LoopEnds("unfinished")
    /\ UNCHANGED <<setupVars, readVars, list, parsed, gone, workVars>>

\* The header is there and its body is not: SkipReadPos goes back.
BodyIncomplete ==
    /\ pc = "Parse" /\ Remainder >= HeaderSize
    /\ \E i \in Here :
          /\ stream[i].kind # "magic" /\ stream[i].body < MaxPacket
          /\ Remainder - HeaderSize < stream[i].body
    /\ LoopEnds("unfinished")
    /\ UNCHANGED <<setupVars, readVars, pos, list, parsed, gone, workVars>>

\* Mutant of Packet: the rest of the buffer is left for the next read.
PacketStops ==
    /\ pc = "Parse" /\ Remainder >= HeaderSize
    /\ \E i \in Here :
          /\ stream[i].kind = "good" /\ Remainder >= Size(stream[i])
          /\ pos' = pos + Size(stream[i])
          /\ list' = Append(list, i)
          /\ parsed' = Append(parsed, i)
    /\ LoopEnds("finished")
    /\ UNCHANGED <<setupVars, readVars, gone, workVars>>

\* A packet is taken; the loop goes on while bytes are left.
Packet ==
    /\ pc = "Parse" /\ Remainder >= HeaderSize
    /\ \E i \in Here :
          LET f == stream[i] IN
            /\ f.kind = "good" /\ f.body < MaxPacket
            /\ Remainder >= Size(f)
            /\ pos' = pos + Size(f)
            /\ list' = Append(list, i)
            /\ parsed' = Append(parsed, i)
            /\ IF Remainder = Size(f) THEN LoopEnds("finished")
               ELSE UNCHANGED <<pc, end>>
    /\ UNCHANGED <<setupVars, readVars, gone, workVars>>

ParseReceivePackage ==
    HeaderIncomplete \/ Unparsable \/ BodyIncomplete \/ Packet

-----------------------------------------------------------------------------
(* After the loop. *)

\* Mutant of Work: the last packet is left out.
WorkSkipsLast(l, ok) ==
    IF Len(l) < 2 \/ (hasCallBack /\ ~ok) THEN batches
    ELSE batches \cup {SubSeq(l, 1, Len(l) - 1)}

\* The packets that are handed on: all of them are echoed, even those before a
\* frame that failed; a callback gets none then.
Work(l, ok) ==
    IF l = <<>> \/ (hasCallBack /\ ~ok) THEN batches ELSE batches \cup {l}

\* Flush has that many bytes to remove.
Flushed == pos <= used /\ pos <= length

\* Flush, then the next read is posted for the room behind the rest, then the
\* packets are worked on.  (SetupRead in OnRead changes nothing any more.)
ReadCompletedCallBack ==
    /\ pc = "Flush" /\ end # "failed" /\ Flushed
    /\ GenerateNewBuffer(Grown(length, used - pos))
    /\ base' = base + pos
    /\ used' = used - pos
    /\ length' = Grown(length, used - pos)
    /\ wsa' = length' - used'
    /\ pc' = "Post"
    /\ batches' = Work(list, TRUE)
    /\ pos' = 0 /\ list' = <<>> /\ end' = "none"
    /\ UNCHANGED <<setupVars, received, parsed, gone, handed, lost>>

\* Otherwise the client is removed: a frame failed, Flush or SetupRead did, or
\* the read could not be posted, which may happen to any.
ParseFails ==
    /\ pc = "Flush"
    /\ pc' = "Closed" /\ gone' = TRUE
    /\ batches' = Work(list, FALSE)
    /\ UNCHANGED <<setupVars, readVars, loopVars, parsed, handed, lost>>

\* Mutant of Execute: the packet stays in its batch.
ExecuteKeeps ==
    /\ \E b \in batches : handed' = Append(handed, Head(b))
    /\ UNCHANGED <<setupVars, readVars, loopVars, pc, parsed, gone, batches,
                   lost>>

\* One packet of a batch is echoed or given to the server's callback.  (PackData
\* does not fail: what it writes back is no longer than what was read.)
Execute ==
    /\ \E b \in batches :
          /\ handed' = Append(handed, Head(b))
          /\ batches' = (batches \ {b}) \cup
                        (IF Len(b) = 1 THEN {} ELSE {Tail(b)})
    /\ UNCHANGED <<setupVars, readVars, loopVars, pc, parsed, gone, lost>>

Members(s) == {s[k] : k \in 1 .. Len(s)}

\* AsyncSend fails: the client is removed and the rest of the batch dropped.
SendFails ==
    /\ ~hasCallBack
    /\ \E b \in batches :
          /\ batches' = batches \ {b}
          /\ lost' = lost \cup Members(b)
    /\ gone' = TRUE
    /\ UNCHANGED <<setupVars, readVars, loopVars, pc, parsed, handed>>

Next == \/ OnRead \/ OnReadCompleted \/ OnReadCompletedZero
        \/ RemoveClient \/ ClientGone
        \/ ParseReceivePackage \/ ReadCompletedCallBack \/ ParseFails
        \/ Execute \/ SendFails

Spec == Init /\ [][Next]_vars

\* The threads go on, and what the peer has sent arrives.
FairSpec ==
    /\ Spec
    /\ WF_vars(OnRead) /\ WF_vars(OnReadCompleted) /\ WF_vars(ClientGone)
    /\ WF_vars(ParseReceivePackage)
    /\ WF_vars(ReadCompletedCallBack \/ ParseFails)
    /\ WF_vars(Execute)

-----------------------------------------------------------------------------
(* Properties. *)

\* However the stream is cut into pieces, the frames come out of it one after the
\* other, none twice, none skipped, and the buffer goes on where the last one
\* ended (CommonProtocol.cpp:35-83).
InStep ==
    /\ \A i \in 1 .. Len(parsed) : parsed[i] = i
    /\ base + pos = Total(SubSeq(stream, 1, Len(parsed)))
    /\ pc # "Closed" => base + used = received

\* While a read is posted or pending the buffer holds no frame that could have
\* been taken out or refused (CommonProtocol.cpp:77): no packet waits for bytes
\* behind it.
NothingIsHeld ==
    pc \in {"Post", "Recv"} =>
        \A i \in 1 .. Len(stream) : stream[i].at >= base =>
            received < stream[i].at + Size(stream[i])

\* A read always has room (IOCPBuffer.cpp:134-159): one of zero bytes would
\* complete at once and look like the end of the connection.
ReadHasRoom ==
    pc \in {"Post", "Recv"} => wsa > 0 /\ used + wsa <= length

\* The buffer of a connection never outgrows twice the largest packet, so
\* GenerateNewBuffer never refuses (IOCPBuffer.cpp:220).
BufferIsBounded ==
    length <= DataLength \/ length < 2 * (HeaderSize + MaxPacket)

\* A packet is handed on once, only after it was parsed, and never behind an echo
\* of its batch that failed, though threads work on batches while another one
\* parses on (CommonProtocol.cpp:88-113).
HandedOnce ==
    /\ \A i, j \in 1 .. Len(handed) : handed[i] = handed[j] => i = j
    /\ \A i \in 1 .. Len(handed) : handed[i] \in 1 .. Len(parsed)
    /\ \A b \in batches : \A i \in 1 .. Len(b), j \in 1 .. Len(handed) :
          b[i] # handed[j]
    /\ \A i \in 1 .. Len(handed) : handed[i] \notin lost
    /\ \A b \in batches : \A i, j \in 1 .. Len(b) : i < j => b[i] < b[j]

\* Every packet taken from the stream is handed on in the end, also when its client
\* is removed meanwhile (CommonProtocol.cpp:88-113).  Two are not, and then the
\* connection has ended: one whose batch the server's callback is denied, as a bad
\* frame follows it or the next read is not posted, and one at or behind an echo
\* that failed.
EveryPacketIsHanded ==
    \A i \in 1 .. Max({Len(s) : s \in Streams}) :
        i \in Members(parsed)
            ~> \/ i \in Members(handed)
               \/ hasCallBack /\ pc = "Closed" /\ i \in Members(list)
               \/ i \in lost /\ gone /\ pc = "Closed"

\* The parser and its buffer agree with the stream: it is in step with the
\* frames, each read has room, and the buffer does not grow without bound.
ParserOK == TypeOK /\ InStep /\ ReadHasRoom /\ BufferIsBounded
=============================================================================
