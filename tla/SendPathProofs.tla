--------------------------- MODULE SendPathProofs ---------------------------
(***************************************************************************)
(* Theorems of SendPath, for any packets, threads, connections and writes. *)
(***************************************************************************)
EXTENDS SendPath, FiniteSetTheorems, TLAPS

-----------------------------------------------------------------------------
(* The inductive invariant: where each packet is. *)

Op(p) == buf[p].op
Busy(t) == th[t].pc # "Get"

\* All of the packet was written with n bytes, unless a part of it was.
Enough(p, n) == n >= Lengths[p] \/ PartlyWritten(p)

\* A packet is on the port, with the kernel or with a thread, once.
Apart ==
    /\ \A i, j \in DOMAIN port : port[i].pkt = port[j].pkt => i = j
    /\ \A k, l \in kernel : k.pkt = l.pkt => k = l
    /\ \A t, u \in Threads :
          Busy(t) /\ Busy(u) /\ th[t].pkt = th[u].pkt => t = u
    /\ \A i \in DOMAIN port, k \in kernel : port[i].pkt # k.pkt
    /\ \A i \in DOMAIN port, t \in Threads : Busy(t) => port[i].pkt # th[t].pkt
    /\ \A k \in kernel, t \in Threads : Busy(t) => k.pkt # th[t].pkt

PortOK == \A i \in DOMAIN port :
    /\ Op(port[i].pkt) \in {"OP_IOWrite", "OP_IOWriteCompleted"}
    /\ Op(port[i].pkt) = "OP_IOWriteCompleted" /\ ~port[i].failed =>
          Enough(port[i].pkt, port[i].size)

KernelOK == \A k \in kernel :
    Op(k.pkt) = "OP_IOWriteCompleted" /\ Enough(k.pkt, k.size)

\* A thread works for the connection that the packet is for, or for a later
\* one, which is then a stray.
ThreadOK(t) == Busy(t) =>
    /\ th[t].pkt \in Packets /\ th[t].ctx \in 1 .. conn
    /\ buf[th[t].pkt].for \in 1 .. th[t].ctx
    /\ buf[th[t].pkt].for # th[t].ctx => th[t].ctx \in strays
    /\ Op(th[t].pkt) = IF th[t].pc = "OnWrite" THEN "OP_IOWrite"
                       ELSE "OP_IOWriteCompleted"
    /\ th[t].pc = "OnWriteCompleted" => Enough(th[t].pkt, th[t].size)

\* WSASend may yet be called with the packet.
Sendable(p) ==
    \/ Op(p) \in {"new", "OP_IOWrite"}
    \/ \E t \in Threads : th[t].pc = "WSASend" /\ th[t].pkt = p

\* Unless written in part, it was written once at most, and not yet if it may
\* be written.
WireOK ==
    /\ \A p \in Packets : Sendable(p) /\ ~PartlyWritten(p) =>
          \A c \in Conns : \A i \in DOMAIN wire[c] : wire[c][i].pkt # p
    /\ \A c, d \in Conns : \A i \in DOMAIN wire[c], j \in DOMAIN wire[d] :
          wire[c][i].pkt = wire[d][j].pkt /\ ~PartlyWritten(wire[c][i].pkt)
              => c = d /\ i = j

ConnOK ==
    /\ open => conn \in Conns
    /\ \A p \in Packets :
          /\ buf[p].for <= conn
          /\ Op(p) \in {"OP_IOWrite", "OP_IOWriteCompleted"} =>
                buf[p].for \in Conns
    /\ \A c \in Conns : c > conn => queue[c] = 0

SInv == /\ Apart /\ PortOK /\ KernelOK /\ (\A t \in Threads : ThreadOK(t))
        /\ WireOK /\ ConnOK /\ SendsWithinData

-----------------------------------------------------------------------------
(* Types. *)

BufType == [for : {None} \cup Conns, off : Nat, len : Nat,
            op : {"new", "OP_IOWrite", "OP_IOWriteCompleted", "released"}]
PostType == [pkt : Packets, size : Nat, failed : BOOLEAN]
WriteType == [pkt : Packets, conn : Conns, size : Nat]
ThreadType == [pc : {"Get", "OnWrite", "WSASend", "OnWriteCompleted"},
               pkt : {None} \cup Packets, ctx : {None} \cup Conns, size : Nat]

\* TypeOK, now and after a step, by the names of the record types.
LEMMA TypeParts ==
  /\ TypeOK <=> /\ conn \in 0 .. MaxConns /\ open \in BOOLEAN
                /\ queue \in [Conns -> 0 .. UintSize - 1]
                /\ buf \in [Packets -> BufType] /\ port \in Seq(PostType)
                /\ kernel \subseteq WriteType /\ th \in [Threads -> ThreadType]
                /\ wire \in [Conns -> Seq(Piece)] /\ strays \subseteq Conns
  /\ TypeOK' <=> /\ conn' \in 0 .. MaxConns /\ open' \in BOOLEAN
                 /\ queue' \in [Conns -> 0 .. UintSize - 1]
                 /\ buf' \in [Packets -> BufType] /\ port' \in Seq(PostType)
                 /\ kernel' \subseteq WriteType /\ th' \in [Threads -> ThreadType]
                 /\ wire' \in [Conns -> Seq(Piece)] /\ strays' \subseteq Conns
  BY DEF TypeOK, BufType, PostType, WriteType, ThreadType

\* What the constants are.
LEMMA Constants ==
  /\ Packets \subseteq Nat /\ None \notin Packets /\ Conns \subseteq Nat
  /\ None \notin Conns /\ None = 0 /\ MaxConns \in Nat
  /\ \A p \in Packets : Lengths[p] \in Nat /\ Lengths[p] > 0
  /\ \A c : c \in Conns <=> c \in Nat /\ 0 < c /\ c <= MaxConns
  BY ConstantsAssumption DEF Packets, Conns, None

\* A thread at the port.
LEMMA IdleTyped == Idle \in ThreadType /\ Idle.pc = "Get"
  BY Constants DEF Idle, ThreadType

\* What SetupWrite makes of a buffer.
LEMMA SetUp ==
  ASSUME TypeOK, NEW p \in Packets, NEW n \in Nat, n < Lengths[p]
  PROVE  /\ SetupWrite(p, n) \in BufType
         /\ SetupWrite(p, n).for = buf[p].for
         /\ SetupWrite(p, n).op = "OP_IOWrite"
         /\ SetupWrite(p, n).len > 0
         /\ SetupWrite(p, n).off + SetupWrite(p, n).len = Lengths[p]
  <1>1. buf[p] \in BufType /\ Lengths[p] - n \in Nat /\ Lengths[p] - n > 0
    BY TypeParts, Constants
  <1>2. PICK m \in Nat : m = Lengths[p] - n /\ m > 0 /\ n + m = Lengths[p]
    BY <1>1, Constants
  <1>3. SetupWrite(p, n) = [for |-> buf[p].for, off |-> n, len |-> m,
                            op |-> "OP_IOWrite"]
    <2>1. SetupWrite(p, n) = [buf[p] EXCEPT !.off = n, !.len = m,
                                            !.op = "OP_IOWrite"]
      BY <1>2 DEF SetupWrite
    <2> QED BY <1>1, <2>1 DEF BufType
  <1>4. buf[p].for \in {None} \cup Conns
    BY <1>1 DEF BufType
  <1> QED BY <1>2, <1>3, <1>4 DEF BufType

\* What is posted: a size or a failure.
LEMMA PostedTyped ==
  ASSUME NEW p \in Packets, NEW n \in Nat
  PROVE  /\ Posted(p, n) \in PostType /\ Posted(p, n).pkt = p
         /\ Posted(p, n).size = n /\ ~Posted(p, n).failed
         /\ [Posted(p, n) EXCEPT !.failed = TRUE] \in PostType
         /\ [Posted(p, n) EXCEPT !.failed = TRUE].pkt = p
         /\ [Posted(p, n) EXCEPT !.failed = TRUE].failed
  BY DEF Posted, PostType

\* The port with an entry more, and without its first.
LEMMA Appended ==
  ASSUME NEW s \in Seq(PostType), NEW e \in PostType
  PROVE  /\ Append(s, e) \in Seq(PostType)
         /\ DOMAIN Append(s, e) = DOMAIN s \cup {Len(s) + 1}
         /\ Len(s) + 1 \notin DOMAIN s
         /\ Append(s, e)[Len(s) + 1] = e
         /\ \A i \in DOMAIN s : Append(s, e)[i] = s[i]
  OBVIOUS

LEMMA Taken ==
  ASSUME NEW s \in Seq(PostType), s # <<>>
  PROVE  /\ Tail(s) \in Seq(PostType)
         /\ Head(s) = s[1] /\ 1 \in DOMAIN s /\ s[1] \in PostType
         /\ \A i \in DOMAIN Tail(s) : /\ i \in Nat /\ i + 1 \in DOMAIN s
                                      /\ i + 1 # 1 /\ Tail(s)[i] = s[i + 1]
  <1>1. /\ DOMAIN s = 1 .. Len(s) /\ Len(s) \in Nat \ {0} /\ Head(s) = s[1]
        /\ DOMAIN Tail(s) = 1 .. Len(s) - 1 /\ Tail(s) \in Seq(PostType)
    OBVIOUS
  <1>2. \A i \in 1 .. Len(s) - 1 : Tail(s)[i] = s[i + 1]
    OBVIOUS
  <1>3. 1 \in DOMAIN s /\ s[1] \in PostType
    BY <1>1
  <1> QED BY <1>1, <1>2, <1>3

\* The unsigned counter.
LEMMA Counted ==
  ASSUME NEW n \in 0 .. UintSize - 1
  PROVE  /\ AddWriteQueue(n) \in 0 .. UintSize - 1
         /\ ReleaseWriteQueue(n) \in 0 .. UintSize - 1
         /\ n + 1 < UintSize => AddWriteQueue(n) = n + 1
         /\ n > 0 => ReleaseWriteQueue(n) = n - 1
  <1>1. UintSize \in Nat /\ UintSize > 1
    BY ConstantsAssumption
  <1>2. \A x \in Int : x % UintSize \in 0 .. UintSize - 1
    BY <1>1
  <1>3. \A x \in 0 .. UintSize - 1 : x % UintSize = x
    BY <1>1
  <1> QED BY <1>1, <1>2, <1>3 DEF AddWriteQueue, ReleaseWriteQueue

-----------------------------------------------------------------------------
(* The kinds of steps. *)

\* Thread t goes on with packet p, whose buffer becomes b.
Moves(t, w) == th' = [th EXCEPT ![t] = w]
Becomes(p, b) == buf' = [buf EXCEPT ![p] = b]

\* Only thread t changes.
LEMMA Moved ==
  ASSUME TypeOK, NEW t \in Threads, NEW w, Moves(t, w)
  PROVE  /\ th'[t] = w /\ \A u \in Threads : u # t => th'[u] = th[u]
         /\ w \in ThreadType => th' \in [Threads -> ThreadType]
  BY TypeParts DEF Moves

\* Only the buffer of packet p changes.
LEMMA Became ==
  ASSUME TypeOK, NEW p \in Packets, NEW b, Becomes(p, b)
  PROVE  /\ buf'[p] = b /\ \A q \in Packets : q # p => buf'[q] = buf[q]
         /\ b \in BufType => buf' \in [Packets -> BufType]
  BY TypeParts DEF Becomes

\* What is released.
LEMMA Released ==
  ASSUME TypeOK, NEW p \in Packets
  PROVE  /\ [buf[p] EXCEPT !.op = "released"] \in BufType
         /\ [buf[p] EXCEPT !.op = "released"].for = buf[p].for
         /\ [buf[p] EXCEPT !.op = "released"].op = "released"
  <1>1. buf[p] \in BufType
    BY TypeParts
  <1> QED BY <1>1 DEF BufType

\* What a step that concerns packet p leaves alone: the other packets, what
\* the kernel has of them and what was written.
Aside(p) ==
    /\ \A q \in Packets : q # p => buf'[q] = buf[q]
    /\ kernel' \subseteq kernel /\ (\A k \in kernel' : k.pkt # p)
    /\ wire' = wire /\ conn' = conn /\ (open' => open)
    /\ strays \subseteq strays'
    /\ \A c \in Conns : c > conn => queue'[c] = queue[c]

\* The threads other than t go on as they are, without p.
Others(p, t) == \A u \in Threads : u # t /\ Busy(u)' =>
                    Busy(u) /\ th'[u] = th[u] /\ th[u].pkt # p

\* The port loses its first d entries, and has none of p.
Shifted(p, d) == \A i \in DOMAIN port' :
    /\ i \in Nat /\ i + d \in DOMAIN port
    /\ port'[i] = port[i + d] /\ port[i + d].pkt # p

\* A packet is written in part as long as the wire is.
LEMMA PartlyStays == wire' = wire => \A p : PartlyWritten(p)' <=> PartlyWritten(p)
  BY DEF PartlyWritten

\* The types of the entries of the port, the kernel, the threads and buffers.
LEMMA EntryTypes ==
  ASSUME TypeOK
  PROVE  /\ \A i \in DOMAIN port : /\ port[i].pkt \in Packets
                                   /\ port[i].size \in Nat
                                   /\ port[i].failed \in BOOLEAN
         /\ \A k \in kernel : /\ k.pkt \in Packets /\ k.conn \in Conns
                              /\ k.size \in Nat
         /\ \A t \in Threads : th[t] \in ThreadType
         /\ DOMAIN th = Threads /\ DOMAIN port \subseteq Nat
         /\ \A p \in Packets : buf[p] \in BufType
  <1>1. port \in Seq(PostType)
    BY TypeParts
  <1>2. \A i \in DOMAIN port : port[i] \in PostType
    BY <1>1
  <1>3. DOMAIN port \subseteq Nat
    BY <1>1
  <1>4. \A k \in kernel : k \in WriteType
    BY TypeParts
  <1> QED BY <1>2, <1>3, <1>4, TypeParts DEF PostType, WriteType

\* What the other packets' entries meant they mean still.
LEMMA AsideKeeps ==
  ASSUME TypeOK, SInv, NEW p \in Packets, Aside(p)
  PROVE  /\ \A q \in Packets : q # p => Op(q)' = Op(q)
         /\ \A q, n : Enough(q, n)' <=> Enough(q, n)
         /\ KernelOK'
         /\ \A t \in Threads : ThreadOK(t) /\ th'[t] = th[t] /\ th[t].pkt # p
                               => ThreadOK(t)'
  <1>1. \A q \in Packets : q # p => Op(q)' = Op(q)
    BY DEF Aside, Op
  <1>2. \A q, n : Enough(q, n)' <=> Enough(q, n)
    BY PartlyStays DEF Aside, Enough
  <1>3. KernelOK'
    BY <1>1, <1>2, EntryTypes DEF Aside, KernelOK, SInv
  <1>4. ASSUME NEW t \in Threads, ThreadOK(t), th'[t] = th[t], th[t].pkt # p
        PROVE  ThreadOK(t)'
    BY <1>1, <1>2, <1>4 DEF ThreadOK, Aside, Busy
  <1> QED BY <1>1, <1>2, <1>3, <1>4

\* A step that releases packet p, which the port or a thread held.
LEMMA ReleaseStep ==
  ASSUME TypeOK, SInv, NEW p \in Packets, Aside(p), NEW d \in Nat,
         Shifted(p, d), buf'[p].op = "released", buf'[p].for = buf[p].for,
         \A u \in Threads : Busy(u)' =>
             Busy(u) /\ th'[u] = th[u] /\ th[u].pkt # p
  PROVE  SInv'
  <1>1. Apart'
    <2>1. \A i, j \in DOMAIN port' : port'[i].pkt = port'[j].pkt => i = j
      BY EntryTypes DEF SInv, Apart, Shifted
    <2>2. \A i \in DOMAIN port', k \in kernel' : port'[i].pkt # k.pkt
      BY DEF SInv, Apart, Shifted, Aside
    <2>3. \A i \in DOMAIN port', t \in Threads : Busy(t)' => port'[i].pkt # th'[t].pkt
      BY DEF SInv, Apart, Shifted
    <2> QED BY <2>1, <2>2, <2>3 DEF SInv, Apart, Aside
  <1>2. PortOK'
    BY AsideKeeps, EntryTypes DEF SInv, PortOK, Shifted
  <1>3. KernelOK'
    BY AsideKeeps
  <1>4. ASSUME NEW t \in Threads PROVE ThreadOK(t)'
    <2>1. CASE Busy(t)'
      BY <2>1, AsideKeeps DEF SInv
    <2> QED BY <2>1 DEF ThreadOK
  <1>5. WireOK'
    <2>1. \A q \in Packets : Sendable(q)' => Sendable(q)
      BY AsideKeeps DEF Sendable, Op, Busy
    <2> QED BY <2>1, PartlyStays DEF SInv, WireOK, Aside
  <1>6. ConnOK'
    BY AsideKeeps DEF SInv, ConnOK, Aside, Op
  <1>7. SendsWithinData'
    BY DEF SInv, SendsWithinData, Aside
  <1> QED BY <1>1, <1>2, <1>3, <1>4, <1>5, <1>6, <1>7 DEF SInv

\* A step that posts packet p, which a thread or the kernel held, or nobody.
LEMMA PostStep ==
  ASSUME TypeOK, SInv, NEW p \in Packets, Aside(p), NEW e \in PostType,
         e.pkt = p, port' = Append(port, e),
         \A i \in DOMAIN port : port[i].pkt # p,
         buf'[p].op \in {"OP_IOWrite", "OP_IOWriteCompleted"},
         buf'[p].for \in 1 .. conn, buf'[p].len > 0,
         buf'[p].off + buf'[p].len = Lengths[p],
         buf'[p].op = "OP_IOWriteCompleted" /\ ~e.failed => Enough(p, e.size),
         buf'[p].op = "OP_IOWrite" => Sendable(p) \/ PartlyWritten(p),
         \A u \in Threads : Busy(u)' =>
             Busy(u) /\ th'[u] = th[u] /\ th[u].pkt # p
  PROVE  SInv'
  <1> DEFINE n == Len(port) + 1
  <1>0. /\ DOMAIN port' = DOMAIN port \cup {n} /\ n \notin DOMAIN port
        /\ port'[n] = e /\ \A i \in DOMAIN port : port'[i] = port[i]
    BY TypeParts, Appended
  <1> HIDE DEF n
  <1>1. Apart'
    <2>1. \A i, j \in DOMAIN port' : port'[i].pkt = port'[j].pkt => i = j
      BY <1>0 DEF SInv, Apart
    <2>2. \A i \in DOMAIN port', k \in kernel' : port'[i].pkt # k.pkt
      BY <1>0 DEF SInv, Apart, Aside
    <2>3. \A i \in DOMAIN port', t \in Threads : Busy(t)' => port'[i].pkt # th'[t].pkt
      BY <1>0 DEF SInv, Apart
    <2> QED BY <2>1, <2>2, <2>3 DEF SInv, Apart, Aside
  <1>2. PortOK'
    <2> SUFFICES ASSUME NEW i \in DOMAIN port', NEW f, f = port'[i]
                 PROVE  /\ buf'[f.pkt].op \in {"OP_IOWrite", "OP_IOWriteCompleted"}
                        /\ buf'[f.pkt].op = "OP_IOWriteCompleted" /\ ~f.failed =>
                              Enough(f.pkt, f.size)
      BY PartlyStays DEF PortOK, Op, Enough, Aside
    <2>1. CASE i = n
      BY <1>0, <2>1, AsideKeeps DEF Op
    <2>2. CASE i # n
      BY <1>0, <2>2, AsideKeeps, EntryTypes DEF SInv, PortOK, Op
    <2> QED BY <2>1, <2>2
  <1>3. KernelOK'
    BY AsideKeeps
  <1>4. ASSUME NEW t \in Threads PROVE ThreadOK(t)'
    <2>1. CASE Busy(t)'
      BY <2>1, AsideKeeps DEF SInv
    <2> QED BY <2>1 DEF ThreadOK
  <1>5. WireOK'
    <2>1. \A q \in Packets : Sendable(q)' => Sendable(q) \/ PartlyWritten(q)
      BY AsideKeeps DEF Sendable, Op, Busy
    <2> QED BY <2>1, PartlyStays DEF SInv, WireOK, Aside
  <1>6. ConnOK'
    <2>0. conn \in 0 .. MaxConns /\ MaxConns \in Nat
      BY TypeParts, Constants
    <2>1. \A c \in 1 .. conn : c <= conn /\ c \in Conns
      BY <2>0 DEF Conns
    <2>2. \A q \in Packets :
            /\ buf'[q].for <= conn
            /\ buf'[q].op \in {"OP_IOWrite", "OP_IOWriteCompleted"} =>
                  buf'[q].for \in Conns
      BY <2>1 DEF SInv, ConnOK, Aside, Op
    <2> QED BY <2>2 DEF SInv, ConnOK, Aside, Op
  <1>7. SendsWithinData'
    BY DEF SInv, SendsWithinData, Aside
  <1> QED BY <1>1, <1>2, <1>3, <1>4, <1>5, <1>6, <1>7 DEF SInv

\* A step in which thread t takes packet p or goes on with it.
LEMMA WorkStep ==
  ASSUME TypeOK, SInv, NEW p \in Packets, Aside(p), NEW d \in Nat,
         Shifted(p, d), NEW t \in Threads, Others(p, t),
         th'[t].pkt = p, ThreadOK(t)', kernel' = kernel,
         buf'[p].for = buf[p].for, buf'[p].off = buf[p].off,
         buf'[p].len = buf[p].len,
         Op(p) \in {"OP_IOWrite", "OP_IOWriteCompleted"}, Sendable(p)' => Sendable(p)
  PROVE  SInv'
  <1>1. Apart'
    <2>1. \A i, j \in DOMAIN port' : port'[i].pkt = port'[j].pkt => i = j
      BY EntryTypes DEF SInv, Apart, Shifted
    <2>2. \A i \in DOMAIN port', k \in kernel' : port'[i].pkt # k.pkt
      BY DEF SInv, Apart, Shifted, Aside
    <2>3. \A i \in DOMAIN port', u \in Threads : Busy(u)' => port'[i].pkt # th'[u].pkt
      BY DEF SInv, Apart, Shifted, Others
    <2>4. \A v, u \in Threads :
             Busy(v)' /\ Busy(u)' /\ th'[v].pkt = th'[u].pkt => v = u
      BY DEF SInv, Apart, Others
    <2>5. \A k \in kernel', u \in Threads : Busy(u)' => k.pkt # th'[u].pkt
      BY DEF SInv, Apart, Others, Aside
    <2> QED BY <2>1, <2>2, <2>3, <2>4, <2>5 DEF SInv, Apart, Aside
  <1>2. PortOK'
    BY AsideKeeps, EntryTypes DEF SInv, PortOK, Shifted
  <1>3. KernelOK'
    BY AsideKeeps
  <1>4. ASSUME NEW u \in Threads PROVE ThreadOK(u)'
    <2>1. CASE Busy(u)' /\ u # t
      BY <2>1, AsideKeeps DEF SInv, Others
    <2>2. CASE ~Busy(u)'
      BY <2>2 DEF ThreadOK
    <2> QED BY <2>1, <2>2
  <1>5. WireOK'
    <2>1. \A q \in Packets : Sendable(q)' => Sendable(q)
      BY AsideKeeps DEF Sendable, Op, Busy, Others
    <2> QED BY <2>1, PartlyStays DEF SInv, WireOK, Aside
  <1>6. ConnOK'
    BY AsideKeeps DEF SInv, ConnOK, Aside, Op
  <1>7. SendsWithinData'
    BY DEF SInv, SendsWithinData, Aside, Op
  <1> QED BY <1>1, <1>2, <1>3, <1>4, <1>5, <1>6, <1>7 DEF SInv

-----------------------------------------------------------------------------
(* The actions. *)

\* Nothing but the connection changes hands.
LEMMA ConnectionKeeps ==
  ASSUME TypeOK, SInv, AddClient \/ Disconnect
  PROVE  TypeOK' /\ SInv'
  <1>1. /\ conn' \in 0 .. MaxConns /\ conn <= conn' /\ open' \in BOOLEAN
        /\ open' => conn' \in Conns
        /\ UNCHANGED <<queue, buf, port, kernel, th, wire, strays>>
    <2>1. conn \in 0 .. MaxConns /\ MaxConns \in Nat /\ open \in BOOLEAN
      BY TypeParts, Constants
    <2>2. CASE AddClient
      <3>1. conn + 1 \in 0 .. MaxConns /\ conn + 1 \in Conns /\ conn <= conn + 1
        BY <2>1, <2>2 DEF AddClient, Conns
      <3>2. conn' = conn + 1 /\ open' = TRUE
        BY <2>2 DEF AddClient
      <3> QED BY <2>2, <3>1, <3>2 DEF AddClient
    <2>3. CASE Disconnect
      <3>1. /\ open' = FALSE /\ conn' = conn
            /\ UNCHANGED <<queue, buf, port, kernel, th, wire, strays>>
        BY <2>3 DEF Disconnect, RemoveClient
      <3>2. conn <= conn
        BY <2>1
      <3> QED BY <2>1, <3>1, <3>2
    <2> QED BY <2>2, <2>3
  <1>2. TypeOK'
    BY <1>1, TypeParts
  <1>3. Apart' /\ PortOK' /\ KernelOK' /\ WireOK' /\ SendsWithinData'
    BY <1>1 DEF SInv, Apart, PortOK, KernelOK, WireOK, SendsWithinData, Op,
                Busy, Enough, PartlyWritten, Sendable
  <1>4. ASSUME NEW t \in Threads PROVE ThreadOK(t)'
    <2>1. \A c \in 1 .. conn : c \in 1 .. conn'
      BY <1>1, TypeParts, Constants
    <2> QED BY <1>1, <2>1 DEF SInv, ThreadOK, Op, Busy, Enough, PartlyWritten
  <1>5. ConnOK'
    <2>1. \A p \in Packets : buf[p].for \in Nat
      BY EntryTypes, Constants DEF BufType
    <2>2. conn \in Nat /\ conn' \in Nat /\ \A c \in Conns : c \in Nat
      BY <1>1, TypeParts, Constants
    <2>3. \A p \in Packets : buf[p].for <= conn'
      BY <1>1, <2>1, <2>2 DEF SInv, ConnOK
    <2>4. \A c \in Conns : c > conn' => queue[c] = 0
      BY <1>1, <2>2 DEF SInv, ConnOK
    <2> QED BY <1>1, <2>3, <2>4 DEF SInv, ConnOK, Op
  <1> QED BY <1>2, <1>3, <1>4, <1>5 DEF SInv

\* A packet not yet sent is nowhere.
LEMMA UnsentNowhere ==
  ASSUME TypeOK, SInv, NEW p \in Packets, Unsent(p)
  PROVE  /\ \A i \in DOMAIN port : port[i].pkt # p
         /\ \A k \in kernel : k.pkt # p
         /\ \A t \in Threads : Busy(t) => th[t].pkt # p
  BY DEF Unsent, SInv, PortOK, KernelOK, ThreadOK, Op

\* AsyncSend: a packet that is nowhere is posted, or released at once.
LEMMA SendKeeps ==
  ASSUME TypeOK, SInv, AsyncSend
  PROVE  TypeOK' /\ SInv'
  <1>1. PICK p \in Packets, c \in 1 .. conn :
          /\ Unsent(p)
          /\ \/ /\ Becomes(p, [SetupWrite(p, 0) EXCEPT !.for = c])
                /\ port' = Append(port, Posted(p, Lengths[p]))
                /\ UNCHANGED open
             \/ /\ Becomes(p, [buf[p] EXCEPT !.op = "released"])
                /\ open' = FALSE /\ UNCHANGED port
          /\ UNCHANGED <<conn, queue, kernel, th, wire, strays>>
    BY DEF AsyncSend, RemoveClient, Becomes
  <1>2. /\ \A i \in DOMAIN port : port[i].pkt # p
        /\ \A k \in kernel : k.pkt # p
        /\ \A t \in Threads : Busy(t)' =>
               Busy(t) /\ th'[t] = th[t] /\ th[t].pkt # p
    BY <1>1, UnsentNowhere DEF Busy
  <1>3. Aside(p)
    BY <1>1, <1>2, Became DEF Aside
  <1>4. CASE /\ Becomes(p, [SetupWrite(p, 0) EXCEPT !.for = c])
             /\ port' = Append(port, Posted(p, Lengths[p]))
             /\ UNCHANGED open
    <2> DEFINE b == [SetupWrite(p, 0) EXCEPT !.for = c]
               e == Posted(p, Lengths[p])
    <2>1. /\ b \in BufType /\ b.for = c /\ b.op = "OP_IOWrite" /\ b.len > 0
          /\ b.off + b.len = Lengths[p]
      <3>1. c \in Conns /\ Lengths[p] \in Nat /\ 0 < Lengths[p]
        BY TypeParts, Constants DEF Conns
      <3> DEFINE x == SetupWrite(p, 0)
      <3>2. x \in BufType /\ x.op = "OP_IOWrite" /\ x.len > 0 /\ x.off + x.len = Lengths[p]
        BY <3>1, SetUp
      <3> HIDE DEF x
      <3>3. LET y == [x EXCEPT !.for = c] IN
              /\ y \in BufType /\ y.for = c /\ y.op = x.op /\ y.len = x.len
              /\ y.off = x.off
        BY <3>1, <3>2 DEF BufType
      <3> QED BY <3>2, <3>3 DEF x
    <2>2. /\ e \in PostType /\ e.pkt = p
      BY PostedTyped, Constants
    <2> HIDE DEF b, e
    <2>3. buf' \in [Packets -> BufType] /\ buf'[p] = b
      BY <1>4, <2>1, Became DEF b
    <2>4. port' = Append(port, e) /\ port' \in Seq(PostType)
      BY <1>4, <2>2, Appended, TypeParts DEF e
    <2>5. TypeOK'
      BY <1>1, <1>4, <2>3, <2>4, TypeParts
    <2>6. Sendable(p)
      BY <1>1 DEF Unsent, Sendable, Op
    <2> QED BY <1>1, <1>2, <1>3, <2>1, <2>2, <2>3, <2>4, <2>5, <2>6, PostStep
  <1>5. CASE /\ Becomes(p, [buf[p] EXCEPT !.op = "released"])
             /\ open' = FALSE /\ UNCHANGED port
    <2>1. /\ buf' \in [Packets -> BufType] /\ buf'[p].op = "released"
          /\ buf'[p].for = buf[p].for
      BY <1>5, Released, Became
    <2>2. TypeOK'
      BY <1>1, <1>5, <2>1, TypeParts
    <2>3. Shifted(p, 0)
      BY <1>2, <1>5, EntryTypes DEF Shifted
    <2> QED BY <1>2, <1>3, <2>1, <2>2, <2>3, ReleaseStep
  <1> QED BY <1>1, <1>4, <1>5

\* What a thread that is busy with a packet knows.
LEMMA BusyWith ==
  ASSUME TypeOK, SInv, NEW t \in Threads, Busy(t), NEW p, p = th[t].pkt
  PROVE  /\ p \in Packets /\ ThreadOK(t)
         /\ th[t].ctx \in Conns /\ th[t].ctx \in 1 .. conn
         /\ \A i \in DOMAIN port : port[i].pkt # p
         /\ \A k \in kernel : k.pkt # p
         /\ \A u \in Threads : u # t /\ Busy(u) => th[u].pkt # p
  <1>1. ThreadOK(t) /\ p \in Packets /\ th[t].ctx \in 1 .. conn
    BY DEF SInv, ThreadOK
  <1>2. conn \in 0 .. MaxConns /\ MaxConns \in Nat
    BY TypeParts, Constants
  <1>3. th[t].ctx \in Conns
    BY <1>1, <1>2 DEF Conns
  <1> QED BY <1>1, <1>3 DEF SInv, Apart

\* Releasing a packet that the thread or the port held, and nobody else.
LEMMA ReleaseKeeps ==
  ASSUME TypeOK, SInv, NEW t \in Threads, NEW p \in Packets,
         ReleaseBuffer(t, p), Busy(t) => th[t].pkt = p,
         port' \in Seq(PostType), NEW d \in Nat, Shifted(p, d),
         \A k \in kernel : k.pkt # p,
         \A u \in Threads : u # t /\ Busy(u) => th[u].pkt # p,
         conn' = conn, open' \in BOOLEAN, open' => open,
         queue' \in [Conns -> 0 .. UintSize - 1],
         \A c \in Conns : c > conn => queue'[c] = queue[c],
         UNCHANGED <<kernel, wire, strays>> 
  PROVE  TypeOK' /\ SInv'
  <1>1. Becomes(p, [buf[p] EXCEPT !.op = "released"]) /\ Moves(t, Idle)
    BY DEF ReleaseBuffer, Becomes, Moves
  <1>2. /\ buf' \in [Packets -> BufType] /\ buf'[p].op = "released"
        /\ buf'[p].for = buf[p].for
        /\ \A q \in Packets : q # p => buf'[q] = buf[q]
    <2> DEFINE b == [buf[p] EXCEPT !.op = "released"]
    <2>1. b \in BufType /\ b.for = buf[p].for /\ b.op = "released"
      BY Released
    <2>2. Becomes(p, b)
      BY <1>1
    <2> HIDE DEF b
    <2> QED BY <2>1, <2>2, Became
  <1>3. /\ th' \in [Threads -> ThreadType] /\ ~Busy(t)'
        /\ \A u \in Threads : u # t => th'[u] = th[u]
    BY <1>1, Moved, IdleTyped DEF Busy
  <1>4. TypeOK'
    BY <1>2, <1>3, TypeParts
  <1>5. Aside(p)
    BY <1>2 DEF Aside
  <1>6. \A u \in Threads : Busy(u)' =>
            Busy(u) /\ th'[u] = th[u] /\ th[u].pkt # p
    BY <1>3 DEF Busy
  <1> QED BY <1>2, <1>4, <1>5, <1>6, ReleaseStep

\* GetQueuedCompletionStatus.
LEMMA GetKeeps ==
  ASSUME TypeOK, SInv, NEW t \in Threads, Get(t)
  PROVE  TypeOK' /\ SInv'
  <1> SUFFICES ASSUME NEW e, NEW p, e = Head(port), p = e.pkt
               PROVE  TypeOK' /\ SInv'
    OBVIOUS
  <1>1. /\ ~Busy(t) /\ port # <<>> /\ port' = Tail(port)
        /\ UNCHANGED <<conn, queue, kernel, wire>>
    BY DEF Get, Busy
  <1>2. /\ e = port[1] /\ 1 \in DOMAIN port /\ port' \in Seq(PostType)
        /\ \A i \in DOMAIN port' : /\ i \in Nat /\ i + 1 \in DOMAIN port
                                   /\ i + 1 # 1 /\ port'[i] = port[i + 1]
    BY <1>1, Taken, TypeParts
  <1>3. /\ p \in Packets /\ e.size \in Nat /\ e.failed \in BOOLEAN
    BY <1>2, EntryTypes
  <1>4. Shifted(p, 1)
    BY <1>2 DEF Shifted, SInv, Apart
  <1>5. /\ \A k \in kernel : k.pkt # p
        /\ \A u \in Threads : Busy(u) => th[u].pkt # p
    BY <1>2 DEF SInv, Apart
  <1>6. /\ Op(p) \in {"OP_IOWrite", "OP_IOWriteCompleted"}
        /\ Op(p) = "OP_IOWriteCompleted" /\ ~e.failed => Enough(p, e.size)
    BY <1>2 DEF SInv, PortOK
  <1>7. \/ /\ ReleaseBuffer(t, p) /\ open' \in BOOLEAN /\ (open' => open)
           /\ UNCHANGED strays
        \/ /\ ~e.failed /\ open
           /\ Moves(t, [pc |-> IF buf[p].op = "OP_IOWrite"
                               THEN "OnWrite" ELSE "OnWriteCompleted",
                        pkt |-> p, ctx |-> conn, size |-> e.size])
           /\ strays' = strays \cup ({conn} \ {buf[p].for})
           /\ UNCHANGED <<open, buf>>
    BY TypeParts DEF Get, RemoveClient, Moves
  <1>8. CASE /\ ReleaseBuffer(t, p) /\ open' \in BOOLEAN /\ (open' => open)
             /\ UNCHANGED strays
    <2>1. queue' \in [Conns -> 0 .. UintSize - 1]
      BY <1>1, TypeParts
    <2> QED BY <1>1, <1>2, <1>3, <1>4, <1>5, <1>8, <2>1, ReleaseKeeps
  <1>9. CASE /\ ~e.failed /\ open
             /\ Moves(t, [pc |-> IF buf[p].op = "OP_IOWrite"
                                 THEN "OnWrite" ELSE "OnWriteCompleted",
                          pkt |-> p, ctx |-> conn, size |-> e.size])
             /\ strays' = strays \cup ({conn} \ {buf[p].for})
             /\ UNCHANGED <<open, buf>>
    <2> DEFINE w == [pc |-> IF buf[p].op = "OP_IOWrite"
                            THEN "OnWrite" ELSE "OnWriteCompleted",
                     pkt |-> p, ctx |-> conn, size |-> e.size]
    <2>1. conn \in Conns /\ conn \in 1 .. conn /\ conn \in Nat
      BY <1>9, Constants DEF SInv, ConnOK
    <2>2. /\ w \in ThreadType /\ w.pkt = p /\ w.ctx = conn /\ w.size = e.size
          /\ w.pc = IF buf[p].op = "OP_IOWrite" THEN "OnWrite"
                    ELSE "OnWriteCompleted"
      BY <1>3, <2>1 DEF ThreadType
    <2>3. Moves(t, w)
      BY <1>9
    <2> HIDE DEF w
    <2>4. /\ th' \in [Threads -> ThreadType] /\ th'[t] = w
          /\ \A u \in Threads : u # t => th'[u] = th[u]
      BY <2>2, <2>3, Moved
    <2>5. TypeOK'
      BY <1>1, <1>2, <1>9, <2>1, <2>4, TypeParts
    <2>6. Aside(p)
      BY <1>1, <1>5, <1>9 DEF Aside
    <2>7. buf[p].for \in 1 .. conn
      <3>1. buf[p].for \in Conns /\ buf[p].for <= conn
        BY <1>3, <1>6 DEF SInv, ConnOK
      <3> QED BY <2>1, <3>1, Constants
    <2>8. ThreadOK(t)'
      <3>1. buf[p].for # conn => conn \in strays'
        BY <1>9
      <3>2. Enough(p, e.size) => Enough(p, e.size)'
        BY <1>1, PartlyStays DEF Enough
      <3>3. buf' = buf /\ conn' = conn
        BY <1>1, <1>9
      <3> QED BY <1>3, <1>6, <1>9, <2>1, <2>2, <2>4, <2>7, <3>1, <3>2, <3>3
              DEF ThreadOK, Op, Enough
    <2>9. Others(p, t)
      BY <1>5, <2>4 DEF Others, Busy
    <2>10. Sendable(p)' => Sendable(p)
      <3>1. CASE Op(p) = "OP_IOWrite"
        BY <3>1 DEF Sendable
      <3>2. CASE Op(p) = "OP_IOWriteCompleted"
        BY <1>5, <1>9, <2>2, <2>4, <3>2 DEF Sendable, Op, Busy
      <3> QED BY <1>6, <3>1, <3>2
    <2>11. th'[t].pkt = p
      BY <2>2, <2>4
    <2> QED BY <1>1, <1>3, <1>4, <1>6, <1>9, <2>5, <2>6, <2>8, <2>9, <2>10,
               <2>11, WorkStep
  <1> QED BY <1>7, <1>8, <1>9

\* OnWrite.
LEMMA WriteKeeps ==
  ASSUME TypeOK, SInv, NEW t \in Threads, OnWrite(t)
  PROVE  TypeOK' /\ SInv'
  <1> SUFFICES ASSUME NEW p, p = th[t].pkt
               PROVE  TypeOK' /\ SInv'
    OBVIOUS
  <1>1. /\ th[t].pc = "OnWrite" /\ Busy(t)
        /\ Becomes(p, [buf[p] EXCEPT !.op = "OP_IOWriteCompleted"])
        /\ queue' = [queue EXCEPT ![th[t].ctx] = AddWriteQueue(@)]
        /\ Moves(t, [th[t] EXCEPT !.pc = "WSASend"])
        /\ UNCHANGED <<netVars, port, kernel, wire, strays>>
    BY DEF OnWrite, Busy, Becomes, Moves
  <1>2. /\ p \in Packets /\ ThreadOK(t)
        /\ th[t].ctx \in Conns /\ th[t].ctx \in 1 .. conn
        /\ \A i \in DOMAIN port : port[i].pkt # p
        /\ \A k \in kernel : k.pkt # p
        /\ \A u \in Threads : u # t /\ Busy(u) => th[u].pkt # p
    BY <1>1, BusyWith
  <1> DEFINE b == [buf[p] EXCEPT !.op = "OP_IOWriteCompleted"]
             w == [th[t] EXCEPT !.pc = "WSASend"]
  <1>3. /\ b \in BufType /\ b.op = "OP_IOWriteCompleted" /\ b.for = buf[p].for
        /\ b.off = buf[p].off /\ b.len = buf[p].len
    <2>1. buf[p] \in BufType
      BY <1>2, TypeParts
    <2> QED BY <2>1 DEF BufType
  <1>4. /\ w \in ThreadType /\ w.pc = "WSASend" /\ w.pkt = p /\ w.ctx = th[t].ctx
    <2>1. th[t] \in ThreadType
      BY TypeParts
    <2> QED BY <2>1 DEF ThreadType
  <1>5. Becomes(p, b) /\ Moves(t, w)
    BY <1>1
  <1> HIDE DEF b, w
  <1>6. /\ buf' \in [Packets -> BufType] /\ buf'[p] = b
        /\ \A q \in Packets : q # p => buf'[q] = buf[q]
    BY <1>2, <1>3, <1>5, Became
  <1>7. /\ th' \in [Threads -> ThreadType] /\ th'[t] = w
        /\ \A u \in Threads : u # t => th'[u] = th[u]
    BY <1>4, <1>5, Moved
  <1>8. /\ queue' \in [Conns -> 0 .. UintSize - 1]
        /\ \A c \in Conns : c > conn => queue'[c] = queue[c]
    <2>1. queue \in [Conns -> 0 .. UintSize - 1] /\ conn \in Nat
      BY TypeParts
    <2>2. AddWriteQueue(queue[th[t].ctx]) \in 0 .. UintSize - 1
      BY <1>2, <2>1, Counted
    <2>3. \A c \in Conns : c > conn => c # th[t].ctx
      BY <1>2, <2>1
    <2> QED BY <1>1, <2>1, <2>2, <2>3
  <1>9. TypeOK'
    BY <1>1, <1>6, <1>7, <1>8, TypeParts DEF netVars
  <1>10. Aside(p)
    BY <1>1, <1>2, <1>6, <1>8 DEF Aside, netVars
  <1>11. Shifted(p, 0)
    BY <1>1, <1>2, EntryTypes DEF Shifted
  <1>12. ThreadOK(t)'
    BY <1>1, <1>2, <1>3, <1>4, <1>6, <1>7 DEF ThreadOK, Op, netVars
  <1>13. Others(p, t)
    BY <1>2, <1>7 DEF Others, Busy
  <1>14. Op(p) = "OP_IOWrite"
    BY <1>1, <1>2 DEF ThreadOK
  <1>15. Sendable(p) /\ kernel' = kernel /\ th'[t].pkt = p
    BY <1>1, <1>4, <1>7, <1>14 DEF Sendable
  <1>16. /\ buf'[p].for = buf[p].for /\ buf'[p].off = buf[p].off
         /\ buf'[p].len = buf[p].len
    BY <1>3, <1>6
  <1> QED BY <1>2, <1>9, <1>10, <1>11, <1>12, <1>13, <1>14, <1>15, <1>16,
             WorkStep

\* WSASend puts one piece more on the wire.
Grows(c, m, x) ==
    /\ wire' \in [Conns -> Seq(Piece)]
    /\ \A d \in Conns : \A i \in DOMAIN wire[d] :
          i \in DOMAIN wire'[d] /\ wire'[d][i] = wire[d][i]
    /\ \A d \in Conns : \A i \in DOMAIN wire'[d] :
          i \in DOMAIN wire[d] \/ (d = c /\ i = m /\ wire'[d][i] = x)
    /\ \A q : PartlyWritten(q) => PartlyWritten(q)'
    /\ \A q : x.pkt = q /\ x.len < Lengths[q] => PartlyWritten(q)'

\* Append is such a step.
LEMMA WireGrows ==
  ASSUME TypeOK, NEW c \in Conns, NEW x \in Piece, NEW m, m = Len(wire[c]) + 1,
         wire' = [wire EXCEPT ![c] = Append(@, x)]
  PROVE  Grows(c, m, x)
  <1>1. wire \in [Conns -> Seq(Piece)]
    BY TypeParts
  <1>2. /\ wire' \in [Conns -> Seq(Piece)]
        /\ wire'[c] = Append(wire[c], x)
        /\ \A d \in Conns : d # c => wire'[d] = wire[d]
    BY <1>1
  <1>3. /\ DOMAIN wire'[c] = DOMAIN wire[c] \cup {m}
        /\ wire'[c][m] = x
        /\ \A i \in DOMAIN wire[c] : wire'[c][i] = wire[c][i]
    <2>1. wire[c] \in Seq(Piece)
      BY <1>1
    <2> QED BY <1>2, <2>1
  <1>4. \A d \in Conns : \A i \in DOMAIN wire[d] :
           i \in DOMAIN wire'[d] /\ wire'[d][i] = wire[d][i]
    BY <1>2, <1>3
  <1>5. \A d \in Conns : \A i \in DOMAIN wire'[d] :
           i \in DOMAIN wire[d] \/ (d = c /\ i = m /\ wire'[d][i] = x)
    BY <1>2, <1>3
  <1>6. \A q : PartlyWritten(q) => PartlyWritten(q)'
    BY <1>4 DEF PartlyWritten
  <1>7. \A q : x.pkt = q /\ x.len < Lengths[q] => PartlyWritten(q)'
    BY <1>3 DEF PartlyWritten
  <1> QED BY <1>2, <1>4, <1>5, <1>6, <1>7 DEF Grows

\* WSASend: the wire and the kernel get one entry more, or the packet is released.
LEMMA WSASendKeeps ==
  ASSUME TypeOK, SInv, NEW t \in Threads, WSASend(t)
  PROVE  TypeOK' /\ SInv'
  <1> SUFFICES ASSUME NEW p, p = th[t].pkt
               PROVE  TypeOK' /\ SInv'
    OBVIOUS
  <1>1. /\ th[t].pc = "WSASend" /\ Busy(t)
        /\ UNCHANGED <<conn, queue, port>>
        /\ \/ /\ open
              /\ \E n \in 1 .. buf[p].len :
                    /\ kernel' = kernel \cup {[pkt |-> p, conn |-> conn,
                                                size |-> n]}
                    /\ wire' = [wire EXCEPT ![conn] =
                                  Append(@, [pkt |-> p, off |-> buf[p].off,
                                             len |-> n])]
              /\ strays' = strays \cup ({conn} \ {th[t].ctx})
              /\ Moves(t, Idle)
              /\ UNCHANGED <<open, buf>>
           \/ /\ open' = FALSE
              /\ ReleaseBuffer(t, p)
              /\ UNCHANGED <<kernel, wire, strays>>
    BY DEF WSASend, Busy, Moves, RemoveClient
  <1>2. /\ p \in Packets /\ ThreadOK(t)
        /\ \A i \in DOMAIN port : port[i].pkt # p
        /\ \A k \in kernel : k.pkt # p
        /\ \A u \in Threads : u # t /\ Busy(u) => th[u].pkt # p
    BY <1>1, BusyWith
  <1>3. ASSUME open' = FALSE, ReleaseBuffer(t, p),
               UNCHANGED <<kernel, wire, strays>>
        PROVE  TypeOK' /\ SInv'
    <2>1. Shifted(p, 0)
      BY <1>1, <1>2, EntryTypes DEF Shifted
    <2>2. port' \in Seq(PostType) /\ queue' \in [Conns -> 0 .. UintSize - 1]
      BY <1>1, TypeParts
    <2> QED BY <1>1, <1>2, <1>3, <2>1, <2>2, ReleaseKeeps
  <1>4. ASSUME open, UNCHANGED <<open, buf>>, Moves(t, Idle),
               strays' = strays \cup ({conn} \ {th[t].ctx}),
               NEW n \in 1 .. buf[p].len,
               kernel' = kernel \cup {[pkt |-> p, conn |-> conn, size |-> n]},
               wire' = [wire EXCEPT ![conn] =
                          Append(@, [pkt |-> p, off |-> buf[p].off, len |-> n])]
        PROVE  TypeOK' /\ SInv'
    <2> SUFFICES ASSUME NEW c, c = conn, NEW b, b = buf[p],
                        NEW x, x = [pkt |-> p, off |-> b.off, len |-> n],
                        NEW m, m = Len(wire[c]) + 1,
                        NEW k, k = [pkt |-> p, conn |-> c, size |-> n]
                 PROVE  TypeOK' /\ SInv'
      OBVIOUS
    <2>1. /\ b \in BufType /\ b.off \in Nat /\ b.len \in Nat
          /\ b.len <= Lengths[p] /\ Op(p) = "OP_IOWriteCompleted"
      <3>1. b \in BufType
        BY <1>2, TypeParts
      <3>2. b.off \in Nat /\ b.len \in Nat
        BY <3>1 DEF BufType
      <3>3. Op(p) = "OP_IOWriteCompleted"
        BY <1>1, <1>2 DEF ThreadOK
      <3>4. b.off + b.len = Lengths[p]
        BY <1>2, <3>3 DEF SInv, SendsWithinData, Op
      <3> QED BY <3>1, <3>2, <3>3, <3>4
    <2>2. c \in Conns /\ n \in Nat /\ n <= b.len
      BY <1>4, <2>1 DEF SInv, ConnOK
    <2>3. x \in Piece /\ x.pkt = p /\ x.len = n
      BY <1>2, <2>1, <2>2 DEF Piece
    <2>4. k \in WriteType /\ k.pkt = p /\ k.size = n
      BY <1>2, <2>2 DEF WriteType
    <2>5. wire' = [wire EXCEPT ![c] = Append(@, x)] /\ kernel' = kernel \cup {k}
      BY <1>4
    <2>6. /\ wire' \in [Conns -> Seq(Piece)]
          /\ \A d \in Conns : \A i \in DOMAIN wire[d] :
                i \in DOMAIN wire'[d] /\ wire'[d][i] = wire[d][i]
          /\ \A d \in Conns : \A i \in DOMAIN wire'[d] :
                i \in DOMAIN wire[d] \/ (d = c /\ i = m /\ wire'[d][i] = x)
          /\ \A q : PartlyWritten(q) => PartlyWritten(q)'
          /\ \A q : x.pkt = q /\ x.len < Lengths[q] => PartlyWritten(q)'
      <3>1. Grows(c, m, x)
        BY <2>2, <2>3, <2>5, WireGrows
      <3> QED BY <3>1 DEF Grows
    <2>7. /\ th' \in [Threads -> ThreadType] /\ ~Busy(t)' /\ th'[t].pc = "Get"
          /\ \A u \in Threads : u # t => th'[u] = th[u]
      BY <1>4, Moved, IdleTyped DEF Busy
    <2>8. TypeOK'
      BY <1>1, <1>4, <2>2, <2>4, <2>5, <2>6, <2>7, TypeParts
    <2>9. \A q, l : Enough(q, l) => Enough(q, l)'
      BY <2>6 DEF Enough
    <2>10. \A q \in Packets : Op(q)' = Op(q)
      BY <1>4 DEF Op
    <2>11. Apart'
      BY <1>1, <1>2, <2>4, <2>5, <2>7 DEF SInv, Apart, Busy
    <2>12. PortOK'
      BY <1>1, <2>9, <2>10, EntryTypes DEF SInv, PortOK
    <2>13. KernelOK'
      <3>1. Enough(p, n)'
        BY <1>2, <2>2, <2>3, <2>6, Constants DEF Enough
      <3> QED BY <1>2, <2>1, <2>4, <2>5, <2>9, <2>10, <3>1, EntryTypes
              DEF SInv, KernelOK
    <2>14. ASSUME NEW u \in Threads PROVE ThreadOK(u)'
      <3>1. CASE u = t
        BY <2>7, <3>1 DEF ThreadOK
      <3>2. CASE u # t
        BY <1>1, <1>4, <2>7, <2>9, <2>10, <3>2 DEF SInv, ThreadOK, Busy
      <3> QED BY <3>1, <3>2
    <2>15. WireOK'
      <3>1. \A q \in Packets : Sendable(q)' => Sendable(q) /\ q # p
        BY <1>1, <1>2, <2>1, <2>7, <2>10 DEF Sendable, Busy
      <3>2. \A q \in Packets : Sendable(q)' /\ ~PartlyWritten(q)' =>
               \A d \in Conns : \A i \in DOMAIN wire'[d] : wire'[d][i].pkt # q
        BY <2>3, <2>6, <3>1 DEF SInv, WireOK
      <3>3. Sendable(p)
        BY <1>1 DEF Sendable
      <3>4. ~PartlyWritten(p)' =>
               \A d \in Conns : \A i \in DOMAIN wire[d] : wire[d][i].pkt # p
        BY <1>2, <2>6, <3>3 DEF SInv, WireOK
      <3>5. \A q : \A d, g \in Conns :
              \A i \in DOMAIN wire'[d], j \in DOMAIN wire'[g] :
                 wire'[d][i].pkt = q /\ wire'[g][j].pkt = q /\ ~PartlyWritten(q)'
                    => d = g /\ i = j
        <4> SUFFICES ASSUME NEW q, NEW d \in Conns, NEW g \in Conns,
                            NEW i \in DOMAIN wire'[d], NEW j \in DOMAIN wire'[g],
                            wire'[d][i].pkt = q, wire'[g][j].pkt = q,
                            ~PartlyWritten(q)'
                     PROVE  d = g /\ i = j
          OBVIOUS
        <4>1. CASE q = p
          <5>1. i \notin DOMAIN wire[d] /\ j \notin DOMAIN wire[g]
            BY <2>6, <3>4, <4>1
          <5> QED BY <2>6, <5>1
        <4>2. CASE q # p
          <5>1. /\ i \in DOMAIN wire[d] /\ wire[d][i].pkt = q
                /\ j \in DOMAIN wire[g] /\ wire[g][j].pkt = q
            BY <2>3, <2>6, <4>2
          <5>2. ~PartlyWritten(q)
            BY <2>6
          <5> QED BY <5>1, <5>2 DEF SInv, WireOK
        <4> QED BY <4>1, <4>2
      <3> QED BY <3>2, <3>5 DEF WireOK
    <2>16. ConnOK'
      BY <1>1, <1>4, <2>10 DEF SInv, ConnOK
    <2>17. SendsWithinData'
      BY <1>4 DEF SInv, SendsWithinData
    <2> QED BY <2>8, <2>11, <2>12, <2>13, <2>14, <2>15, <2>16, <2>17 DEF SInv
  <1> QED BY <1>1, <1>3, <1>4

\* OnWriteCompleted: the packet is released or its rest posted.
LEMMA WriteCompletedKeeps ==
  ASSUME TypeOK, SInv, NEW t \in Threads, OnWriteCompleted(t)
  PROVE  TypeOK' /\ SInv'
  <1> SUFFICES ASSUME NEW p, p = th[t].pkt, NEW s, s = th[t].size
               PROVE  TypeOK' /\ SInv'
    OBVIOUS
  <1>1. /\ th[t].pc = "OnWriteCompleted" /\ Busy(t)
        /\ queue' = [queue EXCEPT ![th[t].ctx] = ReleaseWriteQueue(@)]
        /\ UNCHANGED <<conn, kernel, wire, strays>>
        /\ \/ /\ ReleaseBuffer(t, p) /\ open' \in BOOLEAN /\ (open' => open)
              /\ UNCHANGED port
           \/ /\ ~ (s >= Lengths[p])
              /\ Becomes(p, SetupWrite(p, s))
              /\ port' = Append(port, Posted(p, Lengths[p]))
              /\ Moves(t, Idle)
              /\ UNCHANGED open
    BY TypeParts DEF OnWriteCompleted, Written, Busy, Moves, Becomes, RemoveClient
  <1>2. /\ p \in Packets /\ ThreadOK(t)
        /\ th[t].ctx \in Conns /\ th[t].ctx \in 1 .. conn
        /\ \A i \in DOMAIN port : port[i].pkt # p
        /\ \A k \in kernel : k.pkt # p
        /\ \A u \in Threads : u # t /\ Busy(u) => th[u].pkt # p
    BY <1>1, BusyWith
  <1>3. /\ queue' \in [Conns -> 0 .. UintSize - 1]
        /\ \A c \in Conns : c > conn => queue'[c] = queue[c]
    <2>1. queue \in [Conns -> 0 .. UintSize - 1] /\ conn \in Nat
      BY TypeParts
    <2>2. ReleaseWriteQueue(queue[th[t].ctx]) \in 0 .. UintSize - 1
      BY <1>2, <2>1, Counted
    <2>3. \A c \in Conns : c > conn => c # th[t].ctx
      BY <1>2, <2>1
    <2> QED BY <1>1, <2>1, <2>2, <2>3
  <1>4. ASSUME ReleaseBuffer(t, p), open' \in BOOLEAN, open' => open,
               UNCHANGED port
        PROVE  TypeOK' /\ SInv'
    <2>1. Shifted(p, 0)
      BY <1>2, <1>4, EntryTypes DEF Shifted
    <2>2. port' \in Seq(PostType)
      BY <1>4, TypeParts
    <2> QED BY <1>1, <1>2, <1>3, <1>4, <2>1, <2>2, ReleaseKeeps
  <1>5. ASSUME ~ (s >= Lengths[p]), Becomes(p, SetupWrite(p, s)),
               port' = Append(port, Posted(p, Lengths[p])), Moves(t, Idle),
               UNCHANGED open
        PROVE  TypeOK' /\ SInv'
    <2> SUFFICES ASSUME NEW b, b = SetupWrite(p, s),
                        NEW e, e = Posted(p, Lengths[p])
                 PROVE  TypeOK' /\ SInv'
      OBVIOUS
    <2>1. s \in Nat /\ s < Lengths[p] /\ Lengths[p] \in Nat
      <3>1. th[t] \in ThreadType
        BY TypeParts
      <3>2. s \in Nat
        BY <3>1 DEF ThreadType
      <3> QED BY <1>2, <1>5, <3>2, Constants
    <2>2. /\ b \in BufType /\ b.for = buf[p].for /\ b.op = "OP_IOWrite"
          /\ b.len > 0 /\ b.off + b.len = Lengths[p]
      BY <1>2, <2>1, SetUp
    <2>3. e \in PostType /\ e.pkt = p
      <3>1. Posted(p, Lengths[p]) \in PostType /\ Posted(p, Lengths[p]).pkt = p
        <4>1. p \in Packets /\ Lengths[p] \in Nat
          BY <1>2, <2>1
        <4> QED BY ONLY <4>1 DEF Posted, PostType
      <3> QED BY <3>1
    <2>4. /\ buf' \in [Packets -> BufType] /\ buf'[p] = b
          /\ \A q \in Packets : q # p => buf'[q] = buf[q]
      BY <1>2, <1>5, <2>2, Became
    <2>5. /\ th' \in [Threads -> ThreadType] /\ ~Busy(t)'
          /\ \A u \in Threads : u # t => th'[u] = th[u]
      BY <1>5, Moved, IdleTyped DEF Busy
    <2>6. port' = Append(port, e) /\ port' \in Seq(PostType)
      BY <1>5, <2>3, Appended, TypeParts
    <2>7. TypeOK'
      BY <1>1, <1>3, <1>5, <2>4, <2>5, <2>6, TypeParts
    <2>8. Aside(p)
      BY <1>1, <1>2, <1>3, <1>5, <2>4 DEF Aside
    <2>9. b.for \in 1 .. conn
      <3>1. buf[p].for \in 1 .. th[t].ctx /\ conn \in Nat
        BY <1>1, <1>2, TypeParts DEF ThreadOK
      <3> QED BY <1>2, <2>2, <3>1
    <2>10. PartlyWritten(p)
      BY <1>1, <1>2, <2>1 DEF ThreadOK, Enough
    <2>11. \A u \in Threads : Busy(u)' =>
               Busy(u) /\ th'[u] = th[u] /\ th[u].pkt # p
      BY <1>2, <2>5 DEF Busy
    <2> QED BY <1>2, <2>2, <2>3, <2>4, <2>6, <2>7, <2>8, <2>9, <2>10, <2>11,
               PostStep
  <1> QED BY <1>1, <1>4, <1>5

\* The outcome of a write.
LEMMA KernelKeeps ==
  ASSUME TypeOK, SInv, KernelDone
  PROVE  TypeOK' /\ SInv'
  <1>1. PICK k \in kernel :
          /\ \/ port' = Append(port, [Posted(k.pkt, 0) EXCEPT !.failed = TRUE])
             \/ port' = Append(port, Posted(k.pkt, k.size))
          /\ kernel' = kernel \ {k}
          /\ UNCHANGED <<netVars, queue, buf, th, wire, strays>>
    BY DEF KernelDone
  <1> SUFFICES ASSUME NEW p, p = k.pkt
               PROVE  TypeOK' /\ SInv'
    OBVIOUS
  <1>2. p \in Packets /\ k.size \in Nat
    BY EntryTypes
  <1>3. PICK e \in PostType : /\ e.pkt = p /\ (~e.failed => e.size = k.size)
                              /\ port' = Append(port, e)
    <2>1. CASE port' = Append(port, [Posted(p, 0) EXCEPT !.failed = TRUE])
      <3> DEFINE f == [Posted(p, 0) EXCEPT !.failed = TRUE]
      <3>1. f \in PostType /\ f.pkt = p /\ f.failed
        BY <1>2, PostedTyped
      <3>2. port' = Append(port, f)
        BY <2>1
      <3> HIDE DEF f
      <3> QED BY <3>1, <3>2
    <2>2. CASE port' = Append(port, Posted(p, k.size))
      <3> DEFINE f == Posted(p, k.size)
      <3>1. p \in Packets
        BY <1>2
      <3>2. k.size \in Nat
        BY <1>2
      <3>3. f \in PostType /\ f.pkt = p /\ f.size = k.size
        BY ONLY <3>1, <3>2 DEF Posted, PostType
      <3>4. port' = Append(port, f)
        BY <2>2
      <3> HIDE DEF f
      <3> QED BY <3>3, <3>4
    <2> QED BY <1>1, <2>1, <2>2
  <1>4. /\ port' = Append(port, e) /\ port' \in Seq(PostType)
        /\ kernel' \subseteq kernel /\ buf' = buf /\ th' = th /\ wire' = wire
        /\ conn' = conn /\ open' = open /\ queue' = queue /\ strays' = strays
    BY <1>1, <1>3, Appended, TypeParts DEF netVars
  <1>5. TypeOK'
    BY <1>4, TypeParts
  <1>6. /\ \A i \in DOMAIN port : port[i].pkt # p
        /\ \A t \in Threads : Busy(t) => th[t].pkt # p
        /\ \A l \in kernel' : l.pkt # p
    BY <1>1 DEF SInv, Apart
  <1>7. Op(p) = "OP_IOWriteCompleted" /\ Enough(p, k.size)
    BY DEF SInv, KernelOK
  <1>8. Aside(p)
    BY <1>4, <1>6 DEF Aside
  <1>9. /\ buf'[p].op = "OP_IOWriteCompleted" /\ buf'[p].for \in 1 .. conn
        /\ buf'[p].len > 0 /\ buf'[p].off + buf'[p].len = Lengths[p]
    <2>1. buf[p].for \in Conns /\ buf[p].for <= conn /\ conn \in Nat
      BY <1>2, <1>7, TypeParts DEF SInv, ConnOK
    <2>2. buf[p].for \in 1 .. conn
      BY <2>1, Constants
    <2>3. buf[p].len > 0 /\ buf[p].off + buf[p].len = Lengths[p]
      BY <1>2, <1>7 DEF SInv, SendsWithinData, Op
    <2> QED BY <1>4, <1>7, <2>2, <2>3 DEF Op
  <1>10. \A u \in Threads : Busy(u)' =>
             Busy(u) /\ th'[u] = th[u] /\ th[u].pkt # p
    BY <1>4, <1>6 DEF Busy
  <1> QED BY <1>2, <1>3, <1>4, <1>5, <1>6, <1>7, <1>8, <1>9, <1>10, PostStep

-----------------------------------------------------------------------------
(* Nothing is written twice. *)

\* The initial states.
LEMMA InitOK == Init => TypeOK /\ SInv
  <1> SUFFICES ASSUME Init PROVE TypeOK /\ SInv
    OBVIOUS
  <1>1. /\ \A t \in Threads : th[t] = Idle /\ ~Busy(t)
        /\ port = <<>> /\ DOMAIN port = {} /\ kernel = {}
        /\ \A p \in Packets : buf[p] = [for |-> None, off |-> 0, len |-> 0,
                                        op |-> "new"]
        /\ \A c \in Conns : wire[c] = <<>> /\ DOMAIN wire[c] = {} /\ queue[c] = 0
    BY IdleTyped DEF Init, Busy
  <1>2. TypeOK
    <2>1. 0 \in 0 .. UintSize - 1 /\ 0 \in 0 .. MaxConns /\ 0 \in Nat
      BY ConstantsAssumption
    <2>2. /\ conn = 0 /\ open = FALSE /\ strays = {} /\ None = 0
          /\ queue = [c \in Conns |-> 0] /\ th = [t \in Threads |-> Idle]
          /\ wire = [c \in Conns |-> <<>>]
          /\ buf = [p \in Packets |-> [for |-> None, off |-> 0, len |-> 0,
                                       op |-> "new"]]
      BY DEF Init, None
    <2>3. <<>> \in Seq(PostType) /\ <<>> \in Seq(Piece)
      OBVIOUS
    <2>4. [for |-> None, off |-> 0, len |-> 0, op |-> "new"] \in BufType
      BY <2>1 DEF BufType
    <2> QED BY <1>1, <2>1, <2>2, <2>3, <2>4, IdleTyped, TypeParts
  <1>3. Apart /\ PortOK /\ KernelOK /\ \A t \in Threads : ThreadOK(t)
    BY <1>1 DEF Apart, PortOK, KernelOK, ThreadOK
  <1>4. WireOK
    BY <1>1 DEF WireOK
  <1>5. ConnOK /\ SendsWithinData
    <2>1. conn = 0 /\ open = FALSE /\ None <= 0
      BY DEF Init, None
    <2> QED BY <1>1, <2>1 DEF ConnOK, SendsWithinData, Op
  <1> QED BY <1>2, <1>3, <1>4, <1>5 DEF SInv

\* The invariant is inductive.
LEMMA StepOK == TypeOK /\ SInv /\ [Next]_vars => TypeOK' /\ SInv'
  <1> SUFFICES ASSUME TypeOK, SInv, [Next]_vars PROVE TypeOK' /\ SInv'
    OBVIOUS
  <1>1. CASE AddClient \/ Disconnect
    BY <1>1, ConnectionKeeps
  <1>2. CASE AsyncSend
    BY <1>2, SendKeeps
  <1>3. ASSUME NEW t \in Threads, ThreadStep(t) PROVE TypeOK' /\ SInv'
    BY <1>3, GetKeeps, WriteKeeps, WSASendKeeps, WriteCompletedKeeps
       DEF ThreadStep
  <1>4. CASE KernelDone
    BY <1>4, KernelKeeps
  <1>5. CASE UNCHANGED vars
    <2>1. TypeOK'
      BY <1>5, TypeParts DEF vars, netVars
    <2>2. SInv'
      BY <1>5 DEF vars, netVars, SInv, Apart, PortOK, KernelOK, ThreadOK, WireOK,
           ConnOK, SendsWithinData, Op, Busy, Enough, PartlyWritten, Sendable
    <2> QED BY <2>1, <2>2
  <1> QED BY <1>1, <1>2, <1>3, <1>4, <1>5 DEF Next

\* Two pieces that overlap are pieces of one packet.
LEMMA Overlapping ==
  ASSUME TypeOK, SInv
  PROVE  SentOnce
  <1> SUFFICES ASSUME NEW c \in Conns, NEW d \in Conns,
                      NEW i \in DOMAIN wire[c], NEW j \in DOMAIN wire[d],
                      <<c, i>> # <<d, j>>, Overlap(wire[c][i], wire[d][j])
               PROVE  PartlyWritten(wire[c][i].pkt)
    BY DEF SentOnce
  <1> QED BY DEF SInv, WireOK, Overlap

\* No byte of a packet is given to WSASend twice, unless WSASend took a part of
\* the packet only, and every write lies within its packet and is not empty
\* (OnWrite and OnWriteCompleted, whichever connection has the SOCKET value).
THEOREM WritesAreSound == Spec => []WritesOK
  <1>1. TypeOK /\ SInv => WritesOK
    BY Overlapping DEF WritesOK, SInv
  <1> QED BY <1>1, InitOK, StepOK, PTL DEF Spec

-----------------------------------------------------------------------------
(* The write queue. *)

\* A connection's writes under way.
UnderWay(c) == {p \in Packets : /\ buf[p].for = c
                                /\ buf[p].op = "OP_IOWriteCompleted"}

\* The cardinality of a set of packets, with one more and one less.
LEMMA CountedWrites ==
  ASSUME NEW S \in SUBSET Packets
  PROVE  /\ IsFiniteSet(S) /\ Cardinality(S) \in Nat
         /\ Cardinality(S) <= Len(Lengths)
         /\ \A p \in Packets \ S : Cardinality(S \cup {p}) = Cardinality(S) + 1
         /\ \A p \in S : /\ Cardinality(S \ {p}) = Cardinality(S) - 1
                         /\ Cardinality(S) > 0
         /\ S = {} => Cardinality(S) = 0
  <1>1. Len(Lengths) \in Nat
    BY ConstantsAssumption
  <1>2. IsFiniteSet(Packets) /\ Cardinality(Packets) = Len(Lengths)
    BY <1>1, FS_Interval DEF Packets
  <1>3. IsFiniteSet(S) /\ Cardinality(S) <= Cardinality(Packets)
    BY <1>2, FS_Subset
  <1>4. Cardinality(S) \in Nat
    BY <1>3, FS_CardinalityType
  <1>5. \A p \in Packets \ S : Cardinality(S \cup {p}) = Cardinality(S) + 1
    BY <1>3, FS_AddElement
  <1>6. ASSUME NEW p \in S
        PROVE  Cardinality(S \ {p}) = Cardinality(S) - 1 /\ Cardinality(S) > 0
    <2>1. Cardinality(S \ {p}) = Cardinality(S) - 1 /\ IsFiniteSet(S \ {p})
      BY <1>3, FS_RemoveElement
    <2>2. Cardinality(S \ {p}) \in Nat
      BY <2>1, FS_CardinalityType
    <2> QED BY <1>4, <2>1, <2>2
  <1>7. S = {} => Cardinality(S) = 0
    BY FS_EmptySet
  <1> QED BY <1>2, <1>3, <1>4, <1>5, <1>6, <1>7

\* QueueIsExact by the name of the set.
LEMMA QueueIs == QueueIsExact <=> (open /\ conn \notin strays =>
                                       queue[conn] = Cardinality(UnderWay(conn)))
  BY DEF QueueIsExact, UnderWay

\* A step that leaves a connection's writes and its counter alone.
LEMMA QueueAlone ==
  ASSUME QueueIsExact, conn' = conn, strays \subseteq strays', open' => open,
         open' /\ conn \notin strays' =>
            /\ queue'[conn] = queue[conn]
            /\ \A p \in Packets :
                  buf'[p].for = conn /\ buf'[p].op = "OP_IOWriteCompleted"
                  <=> buf[p].for = conn /\ buf[p].op = "OP_IOWriteCompleted"
  PROVE  QueueIsExact'
  <1> SUFFICES ASSUME open', conn \notin strays'
               PROVE  queue'[conn] = Cardinality({p \in Packets :
                        buf'[p].for = conn /\ buf'[p].op = "OP_IOWriteCompleted"})
    BY DEF QueueIsExact
  <1>1. {p \in Packets : buf'[p].for = conn /\ buf'[p].op = "OP_IOWriteCompleted"}
          = UnderWay(conn)
    BY DEF UnderWay
  <1> QED BY <1>1 DEF QueueIsExact, UnderWay

\* The counter's range is not exhausted by the packets there are.
CountFits == Len(Lengths) < UintSize

\* OnWrite and OnWriteCompleted count the packet of the thread.
LEMMA QueueCounts ==
  ASSUME TypeOK, SInv, QueueIsExact, CountFits, NEW t \in Threads,
         OnWrite(t) \/ OnWriteCompleted(t)
  PROVE  QueueIsExact'
  <1> SUFFICES ASSUME open', conn \notin strays,
                      NEW c, c = conn, NEW p, p = th[t].pkt,
                      NEW S, S = UnderWay(c),
                      NEW n, n = Cardinality(S)
               PROVE  QueueIsExact'
    <2>1. UNCHANGED <<conn, strays>>
      BY DEF OnWrite, OnWriteCompleted, netVars
    <2> QED BY <2>1 DEF QueueIsExact
  <1>1. /\ conn' = c /\ strays' = strays /\ (open' => open)
    BY DEF OnWrite, OnWriteCompleted, netVars, RemoveClient
  <1>2. /\ p \in Packets /\ th[t].ctx \in Conns /\ th[t].ctx \in 1 .. c
        /\ buf[p].for \in 1 .. th[t].ctx /\ (th[t].ctx = c => buf[p].for = c)
        /\ Op(p) = IF th[t].pc = "OnWrite" THEN "OP_IOWrite"
                   ELSE "OP_IOWriteCompleted"
    <2>1. Busy(t)
      BY DEF OnWrite, OnWriteCompleted, Busy
    <2> QED BY <2>1, BusyWith DEF ThreadOK
  <1>3. c \in Conns /\ c \in Nat /\ queue[c] = n /\ queue[c] \in 0 .. UintSize - 1
    BY <1>1, QueueIs, TypeParts, Constants DEF SInv, ConnOK
  <1>4. buf \in [Packets -> BufType] /\ buf[p] \in BufType
    BY <1>2, TypeParts
  <1>5. CASE th[t].ctx # c
    <2>1. buf[p].for # c
      <3> SUFFICES ASSUME NEW x, x = th[t].ctx, NEW f, f = buf[p].for
                   PROVE  f # c
        OBVIOUS
      <3>1. x \in 1 .. c /\ f \in 1 .. x /\ x # c
        BY <1>2, <1>5
      <3> QED BY <1>3, <3>1
    <2>2. queue'[c] = queue[c]
      <3>1. PICK v : queue' = [queue EXCEPT ![th[t].ctx] = v]
        BY DEF OnWrite, OnWriteCompleted
      <3> QED BY <1>3, <1>5, <3>1, TypeParts
    <2>3. \A q \in Packets : q # p => buf'[q] = buf[q]
      BY <1>4 DEF OnWrite, OnWriteCompleted, ReleaseBuffer
    <2>4. buf'[p].for = buf[p].for
      <3>1. /\ [buf[p] EXCEPT !.op = "released"].for = buf[p].for
            /\ [buf[p] EXCEPT !.op = "OP_IOWriteCompleted"].for = buf[p].for
        BY <1>4 DEF BufType
      <3>2. SetupWrite(p, th[t].size).for = buf[p].for
        BY <1>4 DEF SetupWrite, BufType
      <3> QED BY <1>2, <1>4, <3>1, <3>2 DEF OnWrite, OnWriteCompleted, ReleaseBuffer
    <2> QED BY <1>1, <2>1, <2>2, <2>3, <2>4, QueueAlone
  <1>6. CASE th[t].ctx = c /\ OnWrite(t)
    <2>1. p \notin S
      BY <1>2, <1>6 DEF OnWrite, Op, UnderWay
    <2>2. /\ \A q \in Packets : q # p => buf'[q] = buf[q]
          /\ buf'[p].for = c /\ buf'[p].op = "OP_IOWriteCompleted"
      <3>1. LET b == [buf[p] EXCEPT !.op = "OP_IOWriteCompleted"]
            IN  b.for = buf[p].for /\ b.op = "OP_IOWriteCompleted"
        BY <1>4 DEF BufType
      <3> QED BY <1>2, <1>4, <1>6, <3>1 DEF OnWrite
    <2>3. {q \in Packets : buf'[q].for = c /\ buf'[q].op = "OP_IOWriteCompleted"}
            = S \cup {p}
      BY <1>2, <2>2 DEF UnderWay
    <2>4. Cardinality(S \cup {p}) = n + 1 /\ n + 1 < UintSize
      <3>1. S \in SUBSET Packets /\ (S \cup {p}) \in SUBSET Packets
        BY <1>2 DEF UnderWay
      <3>2. Cardinality(S \cup {p}) = n + 1
        BY <1>2, <2>1, <3>1, CountedWrites
      <3>3. Cardinality(S \cup {p}) <= Len(Lengths)
        BY <3>1, CountedWrites
      <3> QED BY <1>3, <3>2, <3>3, ConstantsAssumption DEF CountFits
    <2>5. queue'[c] = n + 1
      <3>1. queue'[c] = AddWriteQueue(queue[c])
        BY <1>3, <1>6, TypeParts DEF OnWrite
      <3>2. queue[c] + 1 < UintSize => AddWriteQueue(queue[c]) = queue[c] + 1
        BY <1>3, Counted
      <3> QED BY <1>3, <2>4, <3>1, <3>2
    <2> QED BY <1>1, <2>3, <2>4, <2>5 DEF QueueIsExact
  <1>7. CASE th[t].ctx = c /\ OnWriteCompleted(t)
    <2>1. p \in S
      BY <1>2, <1>7 DEF OnWriteCompleted, Op, UnderWay
    <2>2. /\ \A q \in Packets : q # p => buf'[q] = buf[q]
          /\ buf'[p].op # "OP_IOWriteCompleted"
      <3>1. [buf[p] EXCEPT !.op = "released"].op = "released"
        BY <1>4 DEF BufType
      <3>2. SetupWrite(p, th[t].size).op = "OP_IOWrite"
        BY <1>4 DEF SetupWrite, BufType
      <3> QED BY <1>2, <1>4, <1>7, <3>1, <3>2 DEF OnWriteCompleted, ReleaseBuffer
    <2>3. {q \in Packets : buf'[q].for = c /\ buf'[q].op = "OP_IOWriteCompleted"}
            = S \ {p}
      BY <1>2, <2>2 DEF UnderWay
    <2>4. Cardinality(S \ {p}) = n - 1 /\ n > 0
      <3>1. S \in SUBSET Packets
        BY DEF UnderWay
      <3> QED BY <2>1, <3>1, CountedWrites
    <2>5. queue'[c] = n - 1
      <3>1. queue'[c] = ReleaseWriteQueue(queue[c])
        BY <1>3, <1>7, TypeParts DEF OnWriteCompleted
      <3>2. queue[c] > 0 => ReleaseWriteQueue(queue[c]) = queue[c] - 1
        BY <1>3, Counted
      <3> QED BY <1>3, <2>4, <3>1, <3>2
    <2> QED BY <1>1, <2>3, <2>4, <2>5 DEF QueueIsExact
  <1> QED BY <1>5, <1>6, <1>7

\* Every step keeps the write queue exact.
LEMMA QueueStep ==
  ASSUME TypeOK, SInv, QueueIsExact, CountFits, [Next]_vars
  PROVE  QueueIsExact'
  <1>1. CASE AddClient
    <2> SUFFICES ASSUME NEW c, c = conn + 1
                 PROVE  QueueIsExact'
      OBVIOUS
    <2>1. conn \in 0 .. MaxConns /\ conn < MaxConns
      BY <1>1, TypeParts DEF AddClient
    <2>2. conn' = c /\ buf' = buf /\ queue' = queue /\ c \in Conns /\ c > conn
      BY <1>1, <2>1, Constants DEF AddClient, Conns
    <2>3. queue[c] = 0 /\ \A p \in Packets : buf[p].for # c
      <3>1. \A p \in Packets : buf[p].for <= conn /\ buf[p].for \in Nat
        BY EntryTypes, Constants DEF SInv, ConnOK, BufType
      <3> QED BY <2>1, <2>2, <3>1 DEF SInv, ConnOK
    <2>4. {p \in Packets : buf'[p].for = c /\ buf'[p].op = "OP_IOWriteCompleted"} = {}
      BY <2>2, <2>3
    <2> QED BY <2>2, <2>3, <2>4, FS_EmptySet DEF QueueIsExact
  <1>2. CASE Disconnect
    BY <1>2 DEF Disconnect, RemoveClient, QueueIsExact
  <1>3. CASE AsyncSend
    <2>1. PICK p \in Packets, c \in 1 .. conn :
            /\ Unsent(p)
            /\ \/ /\ buf' = [buf EXCEPT ![p] = [SetupWrite(p, 0) EXCEPT !.for = c]]
                  /\ open' = open
               \/ open' = FALSE
            /\ UNCHANGED <<conn, queue, strays>>
      BY <1>3 DEF AsyncSend, RemoveClient
    <2>2. CASE open'
      <3>1. buf \in [Packets -> BufType] /\ buf[p] \in BufType
        BY TypeParts
      <3>2. [SetupWrite(p, 0) EXCEPT !.for = c].op = "OP_IOWrite"
        BY <3>1 DEF SetupWrite, BufType
      <3>3. /\ \A q \in Packets : q # p => buf'[q] = buf[q]
            /\ buf'[p].op = "OP_IOWrite" /\ buf[p].op = "new"
        BY <2>1, <2>2, <3>1, <3>2 DEF Unsent
      <3> QED BY <2>1, <2>2, <3>3, QueueAlone
    <2> QED BY <2>2 DEF QueueIsExact
  <1>4. ASSUME NEW t \in Threads, Get(t) PROVE QueueIsExact'
    <2>1. /\ UNCHANGED <<conn, queue>> /\ strays \subseteq strays' /\ (open' => open)
          /\ (open' => buf' = buf)
      BY <1>4 DEF Get, RemoveClient
    <2> QED BY <2>1, QueueAlone
  <1>5. ASSUME NEW t \in Threads, WSASend(t) PROVE QueueIsExact'
    <2>1. /\ UNCHANGED <<conn, queue>> /\ strays \subseteq strays' /\ (open' => open)
          /\ (open' => buf' = buf)
      BY <1>5 DEF WSASend, RemoveClient
    <2> QED BY <2>1, QueueAlone
  <1>6. ASSUME NEW t \in Threads, OnWrite(t) \/ OnWriteCompleted(t)
        PROVE  QueueIsExact'
    BY <1>6, QueueCounts
  <1>7. CASE KernelDone
    BY <1>7, QueueAlone DEF KernelDone, netVars
  <1>8. CASE UNCHANGED vars
    BY <1>8, QueueAlone DEF vars, netVars
  <1> QED BY <1>1, <1>2, <1>3, <1>4, <1>5, <1>6, <1>7, <1>8 DEF Next, ThreadStep

\* m_nWriteQueueSize is the number of the client's writes under way, as long as
\* no thread worked for the client on another one's write (OnWrite,
\* OnWriteCompleted; CheckWriteQueueStatus sleeps on it), if a UINT counts as
\* many writes as there are packets.
THEOREM QueueCountsWrites ==
  ASSUME CountFits PROVE Spec => []QueueIsExact
  <1>1. Init => QueueIsExact
    BY DEF Init, QueueIsExact
  <1>2. TypeOK /\ SInv /\ QueueIsExact /\ [Next]_vars => QueueIsExact'
    BY QueueStep
  <1> QED BY <1>1, <1>2, InitOK, StepOK, PTL DEF Spec
=============================================================================
