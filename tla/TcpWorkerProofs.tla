--------------------------- MODULE TcpWorkerProofs ---------------------------
(***************************************************************************)
(* Theorems of TcpWorker, for any number of handles, buffers, threads,     *)
(* clients, connections and packets: its types, the buffers handed out and *)
(* their owners, the counter and the bound of the clients, their sockets,  *)
(* the reads posted for them and, in the last part, the life of a          *)
(* connection: TcpWorker implements Connections, step by step, and the     *)
(* accept thread survives the first connection.                            *)
(***************************************************************************)
EXTENDS TcpConnections, FiniteSetTheorems, FunctionTheorems, TLAPS

\* What a thread's fields hold where it stands, and that bResult is false on
\* the ways that lead from a failed post back into the echo loop.
WorkOK(w) ==
    /\ w.pc # "Idle" => w.key \in Handles
    /\ w.pc \in {"ProcessIOMessage", "Dispatch", "AsyncSend", "RemoveClient",
                 "CountDown", "DisConnectClient", "ReleaseBuffer"}
           => w.buf \in Buffers
    /\ w.pc \in {"IsAccept", "AddClient", "CountUp", "Associate"}
           => w.buf = NoBuf
    /\ w.pc = "AsyncSend" => w.echoes > 0
    /\ w.ret = "AsyncSend" => ~ w.ok
    /\ w.after = "AsyncSend" => ~ w.ok

IInv ==
    /\ TypeOK
    /\ \A p \in Procs : WorkOK(proc[p])

-----------------------------------------------------------------------------
(* The operators that lead a thread from one place to the next. *)

LEMMA IdleWork == Idle \in Work /\ WorkOK(Idle) /\ ~ OwesIn(Idle)
  BY ConstantsAssumption DEF Idle, Work, Labels, Results, WorkOK, OwesIn

\* Remove leads to RemoveClient with the thread's fields as they are.
LEMMA RemoveWork ==
  ASSUME NEW w \in Work, WorkOK(w), w.buf \in Buffers, w.key \in Handles,
         NEW r \in {"ReleaseBuffer", "RemoveClient"}
  PROVE  /\ Remove(w, r) \in Work /\ WorkOK(Remove(w, r))
         /\ OwesIn(Remove(w, r)) /\ Remove(w, r).buf = w.buf
  BY ConstantsAssumption DEF Work, Labels, WorkOK, OwesIn, Remove

\* Echo leads to the next packet, to the removal or, if bResult is true, out.
LEMMA EchoWork ==
  ASSUME NEW w \in Work, w.buf \in Buffers, w.key \in Handles
  PROVE  /\ Echo(w) \in Work /\ WorkOK(Echo(w))
         /\ ~ w.ok => OwesIn(Echo(w)) /\ Echo(w).buf = w.buf
  <1>1. CASE w.echoes > 0
    BY <1>1, ConstantsAssumption DEF Work, Labels, WorkOK, OwesIn, Echo
  <1>2. CASE ~ (w.echoes > 0) /\ w.ok
    BY <1>2, IdleWork DEF Echo
  <1>3. CASE ~ (w.echoes > 0) /\ ~ w.ok
    BY <1>3, ConstantsAssumption
       DEF Work, Labels, WorkOK, OwesIn, Remove, Echo
  <1> QED BY <1>1, <1>2, <1>3

\* A thread that returns from RemoveClient still has its buffer to give up.
LEMMA ReturnWork ==
  ASSUME NEW w \in Work, WorkOK(w), w.buf \in Buffers, w.key \in Handles
  PROVE  /\ Return(w) \in Work /\ WorkOK(Return(w))
         /\ OwesIn(Return(w)) /\ Return(w).buf = w.buf
  <1>1. CASE w.ret = "AsyncSend"
    BY <1>1, EchoWork DEF Return, WorkOK
  <1>2. CASE w.ret = "RemoveClient"
    BY <1>2, RemoveWork DEF Return
  <1>3. CASE w.ret = "ReleaseBuffer"
    BY <1>3, ConstantsAssumption DEF Return, Work, Labels, WorkOK, OwesIn
  <1> QED BY <1>1, <1>2, <1>3 DEF Work

-----------------------------------------------------------------------------
(* The completion port as a sequence. *)

\* Appending a completion puts its buffer on the port and keeps the others.
LEMMA AppendPort ==
  ASSUME NEW s \in Seq(Completion), NEW e \in Completion
  PROVE  /\ Append(s, e) \in Seq(Completion)
         /\ \A b : (\E i \in DOMAIN Append(s, e) : Append(s, e)[i].buf = b)
                   <=> (\E i \in DOMAIN s : s[i].buf = b) \/ e.buf = b
  OBVIOUS

\* Taking the oldest completion leaves the others on the port.
LEMMA TailPort ==
  ASSUME NEW s \in Seq(Completion), s # <<>>
  PROVE  /\ Tail(s) \in Seq(Completion) /\ Head(s) \in Completion
         /\ \A b : (\E i \in DOMAIN s : s[i].buf = b)
                   <=> Head(s).buf = b \/ \E i \in DOMAIN Tail(s) : Tail(s)[i].buf = b
  <1>1. /\ Tail(s) \in Seq(Completion) /\ Head(s) \in Completion
        /\ Head(s) = s[1] /\ DOMAIN s = 1 .. Len(s) /\ Len(s) \in Nat \ {0}
        /\ DOMAIN Tail(s) = 1 .. Len(s) - 1
    OBVIOUS
  <1>2. \A i \in 1 .. Len(s) - 1 : Tail(s)[i] = s[i + 1]
    OBVIOUS
  <1>3. ASSUME NEW b, NEW i \in DOMAIN s, s[i].buf = b
        PROVE  Head(s).buf = b \/ \E j \in DOMAIN Tail(s) : Tail(s)[j].buf = b
    <2>1. CASE i = 1
      BY <1>1, <1>3, <2>1
    <2>2. CASE i # 1
      <3>1. i - 1 \in 1 .. Len(s) - 1 /\ (i - 1) + 1 = i
        BY <1>1, <2>2
      <3> QED BY <1>1, <1>2, <1>3, <3>1
    <2> QED BY <2>1, <2>2
  <1>4. ASSUME NEW b, NEW j \in DOMAIN Tail(s), Tail(s)[j].buf = b
        PROVE  \E i \in DOMAIN s : s[i].buf = b
    <2>1. j + 1 \in DOMAIN s
      BY <1>1
    <2> QED BY <1>1, <1>2, <1>4, <2>1
  <1>5. ASSUME NEW b, Head(s).buf = b PROVE \E i \in DOMAIN s : s[i].buf = b
    <2>1. 1 \in DOMAIN s
      BY <1>1
    <2> QED BY <1>1, <1>5, <2>1
  <1> QED BY <1>1, <1>3, <1>4, <1>5

-----------------------------------------------------------------------------
(* Steps of one thread. *)

\* What every step of a thread needs of the variables it changes.
LEMMA StepOK ==
  ASSUME IInv, NEW p \in Procs, NEW w \in Work, WorkOK(w), Become(p, w),
         sock' \in [Handles -> Conns \cup {NoConn}],
         client' \in [Handles -> Conns \cup {NoConn}],
         size' \in Int,
         registered' \in SUBSET Buffers,
         op' \in [Buffers -> OpTypes],
         port' \in Seq(Completion),
         kernel' \in SUBSET Overlapped,
         conns' \in 0 .. MaxConns,
         packets' \in 0 .. MaxPackets,
         expiries' \in 0 .. MaxExpiries
  PROVE  IInv'
  BY DEF IInv, TypeOK, Become

\* No leak, if the step loses track neither of the buffers on the port and in
\* the kernel nor of the thread's own, and of the one it allocates.
LEMMA StepKeeps ==
  ASSUME IInv, NoBufferLeak, NEW p \in Procs, NEW w \in Work, Become(p, w),
         \A b : OnPort(b) => OnPort(b)' \/ (OwesIn(w) /\ w.buf = b),
         \A b : InKernel(b) => InKernel(b)',
         \A b \in registered' :
            b \in registered \/ OnPort(b)' \/ (OwesIn(w) /\ w.buf = b),
         \A b \in registered' : Owes(p) /\ proc[p].buf = b =>
            OnPort(b)' \/ InKernel(b)' \/ (OwesIn(w) /\ w.buf = b)
  PROVE  NoBufferLeak'
  <1>1. proc'[p] = w /\ \A q \in Procs : q # p => proc'[q] = proc[q]
    BY DEF Become, IInv, TypeOK
  <1>2. SUFFICES ASSUME NEW b \in registered'
                 PROVE  \/ OnPort(b)' \/ InKernel(b)'
                        \/ \E q \in Procs : OwesIn(proc'[q]) /\ proc'[q].buf = b
    BY DEF NoBufferLeak, Owes
  <1>3. CASE OwesIn(w) /\ w.buf = b
    BY <1>1, <1>3
  <1>4. CASE b \notin registered \/ OnPort(b) \/ InKernel(b)
    BY <1>3, <1>4
  <1>5. CASE \E q \in Procs : Owes(q) /\ proc[q].buf = b
    <2>1. PICK q \in Procs : OwesIn(proc[q]) /\ proc[q].buf = b
      BY <1>5 DEF Owes
    <2>2. CASE q = p
      BY <1>3, <2>1, <2>2 DEF Owes
    <2>3. CASE q # p
      BY <1>1, <2>1, <2>3
    <2> QED BY <2>2, <2>3
  <1> QED BY <1>4, <1>5 DEF NoBufferLeak

\* A post puts one buffer on the port and keeps the others there.
LEMMA PostPort ==
  ASSUME IInv, NEW e \in Completion, port' = Append(port, e)
  PROVE  /\ port' \in Seq(Completion)
         /\ \A b : OnPort(b)' <=> OnPort(b) \/ e.buf = b
  <1>1. port \in Seq(Completion)
    BY DEF IInv, TypeOK
  <1> QED BY <1>1, AppendPort DEF OnPort

\* No leak in a step that posts the thread's buffer or a new one.
LEMMA PostKeeps ==
  ASSUME IInv, NoBufferLeak, NEW p \in Procs, NEW w \in Work, Become(p, w),
         NEW e \in Completion, port' = Append(port, e), kernel' = kernel,
         registered' \subseteq registered \cup {e.buf},
         \A b : Owes(p) /\ proc[p].buf = b =>
                    e.buf = b \/ (OwesIn(w) /\ w.buf = b)
  PROVE  NoBufferLeak'
  <1>1. \A b : OnPort(b)' <=> OnPort(b) \/ e.buf = b
    BY PostPort
  <1>2. \A b : InKernel(b) => InKernel(b)'
    BY DEF InKernel
  <1> QED BY <1>1, <1>2, StepKeeps

\* No leak in a step that touches neither the port, the kernel nor the
\* allocated buffers, if the thread still has its buffer to give up.
LEMMA QuietKeeps ==
  ASSUME IInv, NoBufferLeak, NEW p \in Procs, NEW w \in Work, Become(p, w),
         port' = port, kernel' = kernel, registered' = registered,
         Owes(p) => OwesIn(w) /\ w.buf = proc[p].buf
  PROVE  NoBufferLeak'
  <1>1. \A b : (OnPort(b)' <=> OnPort(b)) /\ (InKernel(b)' <=> InKernel(b))
    BY DEF OnPort, InKernel
  <1> QED BY <1>1, StepKeeps

\* GetQueuedCompletionStatus moves a buffer from the port into the thread.
LEMMA DequeueStep ==
  ASSUME IInv, NoBufferLeak, NEW t \in Threads, GetQueuedCompletionStatus(t)
  PROVE  IInv' /\ NoBufferLeak'
  <1> DEFINE e == Head(port)
             v == [Idle EXCEPT !.buf = e.buf, !.key = e.key, !.res = e.res]
             w == IF e.res = "error" THEN OnOperationCanceled(v)
                  ELSE OnOperationCompleted(v)
  <1>1. /\ e \in Completion /\ port' \in Seq(Completion)
        /\ \A b : OnPort(b) => OnPort(b)' \/ e.buf = b
    <2>1. port \in Seq(Completion) /\ port # <<>> /\ port' = Tail(port)
      BY DEF GetQueuedCompletionStatus, IInv, TypeOK
    <2>2. /\ Tail(port) \in Seq(Completion) /\ Head(port) \in Completion
          /\ \A b : (\E i \in DOMAIN port : port[i].buf = b)
                   <=> Head(port).buf = b
                       \/ \E i \in DOMAIN Tail(port) : Tail(port)[i].buf = b
      BY <2>1, TailPort
    <2> QED BY <2>1, <2>2 DEF OnPort
  <1>2. v \in Work /\ v.buf = e.buf /\ v.buf \in Buffers /\ v.key \in Handles
        /\ v.pc = "Idle" /\ v.ret = "ReleaseBuffer" /\ v.after = "Idle"
    BY <1>1, IdleWork DEF Completion, Work, Idle
  <1>3. w \in Work /\ WorkOK(w) /\ OwesIn(w) /\ w.buf = e.buf
    <2>1. WorkOK(v)
      BY <1>2 DEF WorkOK
    <2>2. CASE e.res = "error"
      BY <1>2, <2>1, <2>2, RemoveWork DEF OnOperationCanceled
    <2>3. CASE e.res # "error"
      BY <1>2, <2>3, ConstantsAssumption
         DEF OnOperationCompleted, Work, Labels, WorkOK, OwesIn
    <2> QED BY <2>2, <2>3
  <1>4. Become(t, w) /\ t \in Procs /\ ~ Owes(t)
    BY DEF GetQueuedCompletionStatus, Procs, Owes, OwesIn
  <1>5. IInv'
    BY <1>1, <1>3, <1>4, StepOK DEF GetQueuedCompletionStatus, IInv, TypeOK
  <1>6. NoBufferLeak'
    BY <1>1, <1>3, <1>4, StepKeeps DEF GetQueuedCompletionStatus, InKernel
  <1> QED BY <1>5, <1>6

\* What a thread that dispatches a completion holds.
LEMMA DispatchFacts ==
  ASSUME IInv, NEW t \in Threads, proc[t].pc = "Dispatch"
  PROVE  /\ t \in Procs /\ proc[t] \in Work /\ WorkOK(proc[t]) /\ Owes(t)
         /\ proc[t].buf \in Buffers /\ proc[t].key \in Handles
         /\ Posted(proc[t].buf, proc[t].key) \in Completion
         /\ Posted(proc[t].buf, proc[t].key).buf = proc[t].buf
         /\ \A r \in {"ReleaseBuffer", "RemoveClient"} :
              /\ Remove(proc[t], r) \in Work /\ WorkOK(Remove(proc[t], r))
              /\ OwesIn(Remove(proc[t], r))
              /\ Remove(proc[t], r).buf = proc[t].buf
  <1>1. t \in Procs /\ proc[t] \in Work /\ WorkOK(proc[t])
    BY DEF Procs, IInv, TypeOK
  <1>2. proc[t].buf \in Buffers /\ proc[t].key \in Handles
    BY <1>1 DEF WorkOK
  <1>3. Owes(t)
    BY <1>2, ConstantsAssumption DEF Owes, OwesIn
  <1>4. /\ Posted(proc[t].buf, proc[t].key) \in Completion
        /\ Posted(proc[t].buf, proc[t].key).buf = proc[t].buf
    BY <1>2 DEF Posted, Completion, Results
  <1> QED BY <1>1, <1>2, <1>3, <1>4, RemoveWork

LEMMA LookupStep ==
  ASSUME IInv, NoBufferLeak, NEW t \in Threads, ProcessIOMessage(t)
  PROVE  IInv' /\ NoBufferLeak'
  <1> DEFINE w == [proc[t] EXCEPT !.pc = IF client[proc[t].key] = NoConn
                                         THEN "ReleaseBuffer" ELSE "Dispatch"]
  <1>1. t \in Procs /\ proc[t] \in Work /\ WorkOK(proc[t]) /\ Become(t, w)
        /\ proc[t].pc = "ProcessIOMessage"
    BY DEF ProcessIOMessage, Procs, IInv, TypeOK
  <1>2. w \in Work /\ WorkOK(w) /\ OwesIn(w) /\ w.buf = proc[t].buf
    BY <1>1, ConstantsAssumption DEF Work, Labels, WorkOK, OwesIn
  <1>3. IInv'
    BY <1>1, <1>2, StepOK DEF ProcessIOMessage, IInv, TypeOK
  <1>4. NoBufferLeak'
    BY <1>1, <1>2, QuietKeeps DEF ProcessIOMessage
  <1> QED BY <1>3, <1>4

LEMMA InitializeStep ==
  ASSUME IInv, NoBufferLeak, NEW t \in Threads, OnInitialize(t)
  PROVE  IInv' /\ NoBufferLeak'
  <1>1. proc[t].pc = "Dispatch"
    BY DEF OnInitialize, Dispatched
  <1>2. op' \in [Buffers -> OpTypes]
    BY DEF OnInitialize, IInv, TypeOK, OpTypes, ReadOps
  <1>3. CASE port' = Append(port, Posted(proc[t].buf, proc[t].key))
             /\ Become(t, Idle)
    <2>1. port' \in Seq(Completion)
      BY <1>1, <1>3, DispatchFacts, PostPort
    <2>2. IInv'
      BY <1>1, <1>2, <1>3, <2>1, DispatchFacts, IdleWork, StepOK
         DEF OnInitialize, IInv, TypeOK
    <2>3. NoBufferLeak'
      BY <1>1, <1>3, DispatchFacts, IdleWork, PostKeeps DEF OnInitialize
    <2> QED BY <2>2, <2>3
  <1>4. CASE Become(t, Remove(proc[t], "ReleaseBuffer")) /\ port' = port
    <2>1. IInv'
      BY <1>1, <1>2, <1>4, DispatchFacts, StepOK DEF OnInitialize, IInv, TypeOK
    <2>2. NoBufferLeak'
      BY <1>1, <1>4, DispatchFacts, QuietKeeps DEF OnInitialize
    <2> QED BY <2>1, <2>2
  <1> QED BY <1>3, <1>4 DEF OnInitialize

\* WSARecv and WSASend hand the buffer to the kernel or leave it to be released.
LEMMA StartIOStep ==
  ASSUME IInv, NoBufferLeak, NEW t \in Threads, OnRead(t) \/ OnWrite(t)
  PROVE  IInv' /\ NoBufferLeak'
  <1>1. /\ proc[t].pc = "Dispatch" /\ StartIO(t)
        /\ UNCHANGED <<sock, client, size, registered, port, conns, packets,
                       expiries>>
    BY DEF OnRead, OnWrite, Dispatched
  <1>2. op' \in [Buffers -> OpTypes]
    BY DEF OnRead, OnWrite, IInv, TypeOK, OpTypes, ReadOps, WriteOps
  <1>3. CASE Become(t, Remove(proc[t], "ReleaseBuffer")) /\ kernel' = kernel
    <2>1. IInv'
      BY <1>1, <1>2, <1>3, DispatchFacts, StepOK DEF IInv, TypeOK
    <2>2. NoBufferLeak'
      BY <1>1, <1>3, DispatchFacts, QuietKeeps
    <2> QED BY <2>1, <2>2
  <1>4. CASE /\ sock[proc[t].key] # NoConn
             /\ kernel' = kernel \cup {[buf |-> proc[t].buf,
                    key |-> proc[t].key, conn |-> sock[proc[t].key]]}
             /\ Become(t, Idle)
    <2>1. kernel' \in SUBSET Overlapped
      BY <1>1, <1>4, DispatchFacts DEF IInv, TypeOK, Overlapped
    <2>2. IInv'
      BY <1>1, <1>2, <1>4, <2>1, DispatchFacts, IdleWork, StepOK
         DEF IInv, TypeOK
    <2>3. \A b : (OnPort(b)' <=> OnPort(b)) /\ (InKernel(b) => InKernel(b)')
      BY <1>1, <1>4 DEF OnPort, InKernel
    <2>4. \A b : proc[t].buf = b => InKernel(b)'
      <3> DEFINE k == [buf |-> proc[t].buf, key |-> proc[t].key,
                       conn |-> sock[proc[t].key]]
      <3>1. k \in kernel' /\ k.buf = proc[t].buf
        BY <1>4
      <3> QED BY <3>1 DEF InKernel
    <2>5. NoBufferLeak'
      BY <1>1, <1>4, <2>3, <2>4, DispatchFacts, IdleWork, StepKeeps
    <2> QED BY <2>2, <2>5
  <1> QED BY <1>1, <1>3, <1>4 DEF StartIO

LEMMA ReadZeroStep ==
  ASSUME IInv, NoBufferLeak, NEW t \in Threads, OnReadCompletedZero(t)
  PROVE  IInv' /\ NoBufferLeak'
  <1>1. proc[t].pc = "Dispatch" /\ Become(t, Remove(proc[t], "ReleaseBuffer"))
    BY DEF OnReadCompletedZero, Dispatched
  <1>2. IInv'
    BY <1>1, DispatchFacts, StepOK DEF OnReadCompletedZero, IInv, TypeOK
  <1>3. NoBufferLeak'
    BY <1>1, DispatchFacts, QuietKeeps DEF OnReadCompletedZero
  <1> QED BY <1>2, <1>3

\* A parse leaves its buffer posted, or with a thread that will release it.
LEMMA ReadStep ==
  ASSUME IInv, NoBufferLeak, NEW t \in Threads, OnReadCompleted(t)
  PROVE  IInv' /\ NoBufferLeak'
  <1>1. PICK n \in 0 .. (MaxPackets - packets) :
          LET w == [proc[t] EXCEPT !.echoes = n]
              b == w.buf
          IN  /\ packets' = packets + n
              /\ \/ n > 0 /\ op' = [op EXCEPT ![b] = "OP_IORead"] /\ DoRead(t, w)
                 \/ op' = [op EXCEPT ![b] = "OP_IORead"] /\ ContinueAsyncRead(t, w)
                 \/ /\ Become(t, Echo([w EXCEPT !.ok = FALSE]))
                    /\ UNCHANGED <<op, port>>
    BY DEF OnReadCompleted
  <1> DEFINE w == [proc[t] EXCEPT !.echoes = n]
             bad == [w EXCEPT !.ok = FALSE]
             gone == [Remove(w, "ReleaseBuffer") EXCEPT !.after = "AsyncSend",
                                                        !.ok = FALSE]
             undone == [Remove(w, "AsyncSend") EXCEPT !.ok = FALSE]
  <1>2. /\ proc[t].pc = "Dispatch" /\ t \in Procs /\ proc[t] \in Work
        /\ WorkOK(proc[t]) /\ proc[t].buf \in Buffers
        /\ proc[t].key \in Handles
    BY DispatchFacts DEF OnReadCompleted, Dispatched
  <1>3. n \in 0 .. MaxPackets /\ packets' \in 0 .. MaxPackets
    BY <1>1, ConstantsAssumption DEF IInv, TypeOK
  <1>4. /\ w \in Work /\ w.buf = proc[t].buf /\ w.key = proc[t].key
        /\ bad \in Work /\ bad.buf = proc[t].buf /\ bad.key = proc[t].key
        /\ ~ bad.ok
    BY <1>2, <1>3 DEF Work
  <1>5. /\ gone \in Work /\ WorkOK(gone) /\ OwesIn(gone)
        /\ gone.buf = proc[t].buf
    BY <1>2, <1>4, ConstantsAssumption DEF Work, Labels, WorkOK, OwesIn, Remove
  <1>6. /\ undone \in Work /\ WorkOK(undone) /\ OwesIn(undone)
        /\ undone.buf = proc[t].buf
    BY <1>2, <1>4, ConstantsAssumption DEF Work, Labels, WorkOK, OwesIn, Remove
  <1>7. /\ op' \in [Buffers -> OpTypes]
        /\ UNCHANGED <<sock, client, size, registered, kernel, conns, expiries>>
    BY <1>1 DEF OnReadCompleted, IInv, TypeOK, OpTypes, ReadOps
  <1>8. CASE port' = Append(port, Posted(w.buf, w.key)) /\ Become(t, Echo(w))
    <2>1. /\ Posted(w.buf, w.key) \in Completion
          /\ Posted(w.buf, w.key).buf = proc[t].buf
      BY <1>2, <1>4, DispatchFacts
    <2>2. Echo(w) \in Work /\ WorkOK(Echo(w))
      BY <1>2, <1>4, EchoWork
    <2>3. port' \in Seq(Completion)
      BY <1>8, <2>1, PostPort
    <2>4. IInv'
      BY <1>2, <1>3, <1>7, <1>8, <2>2, <2>3, StepOK DEF IInv, TypeOK
    <2>5. NoBufferLeak'
      BY <1>2, <1>7, <1>8, <2>1, <2>2, PostKeeps
    <2> QED BY <2>4, <2>5
  <1>9. ASSUME NEW v \in Work, WorkOK(v), OwesIn(v), v.buf = proc[t].buf,
               Become(t, v), port' = port
        PROVE  IInv' /\ NoBufferLeak'
    <2>1. IInv'
      BY <1>2, <1>3, <1>7, <1>9, StepOK DEF IInv, TypeOK
    <2>2. NoBufferLeak'
      BY <1>2, <1>7, <1>9, QuietKeeps
    <2> QED BY <2>1, <2>2
  <1>10. CASE Become(t, Echo(bad)) /\ port' = port
    <2>1. /\ Echo(bad) \in Work /\ WorkOK(Echo(bad)) /\ OwesIn(Echo(bad))
          /\ Echo(bad).buf = proc[t].buf
      BY <1>2, <1>4, EchoWork
    <2> QED BY <1>9, <1>10, <2>1
  <1> QED BY <1>1, <1>5, <1>6, <1>8, <1>9, <1>10 DEF DoRead, ContinueAsyncRead

LEMMA SendStep ==
  ASSUME IInv, NoBufferLeak, NEW t \in Threads, AsyncSend(t)
  PROVE  IInv' /\ NoBufferLeak'
  <1>1. /\ proc[t].pc = "AsyncSend" /\ t \in Procs /\ proc[t] \in Work
        /\ WorkOK(proc[t]) /\ proc[t].buf \in Buffers
        /\ proc[t].key \in Handles /\ proc[t].echoes > 0
        /\ UNCHANGED <<sock, client, size, kernel, conns, packets, expiries>>
    BY DEF AsyncSend, Procs, IInv, TypeOK, WorkOK
  <1>2. CASE \E b \in Buffers \ registered :
                /\ registered' = registered \cup {b}
                /\ op' = [op EXCEPT ![b] = "OP_IOWrite"]
                /\ port' = Append(port, Posted(b, proc[t].key))
                /\ Become(t, Echo([proc[t] EXCEPT !.echoes = @ - 1]))
    <2> DEFINE v == [proc[t] EXCEPT !.echoes = @ - 1]
    <2>1. PICK b \in Buffers \ registered :
                /\ registered' = registered \cup {b}
                /\ op' = [op EXCEPT ![b] = "OP_IOWrite"]
                /\ port' = Append(port, Posted(b, proc[t].key))
                /\ Become(t, Echo(v))
      BY <1>2
    <2>2. /\ v \in Work /\ v.buf = proc[t].buf /\ v.key = proc[t].key
          /\ v.ok = proc[t].ok
      BY <1>1, ConstantsAssumption DEF Work
    <2>3. /\ Echo(v) \in Work /\ WorkOK(Echo(v))
          /\ ~ proc[t].ok => OwesIn(Echo(v)) /\ Echo(v).buf = proc[t].buf
      BY <1>1, <2>2, EchoWork
    <2>4. /\ Posted(b, proc[t].key) \in Completion
          /\ Posted(b, proc[t].key).buf = b
      BY <1>1 DEF Posted, Completion, Results
    <2>5. /\ port' \in Seq(Completion) /\ registered' \in SUBSET Buffers
          /\ op' \in [Buffers -> OpTypes]
      BY <2>1, <2>4, PostPort DEF IInv, TypeOK, OpTypes, WriteOps
    <2>6. IInv'
      BY <1>1, <2>1, <2>3, <2>5, StepOK DEF IInv, TypeOK
    <2>7. Owes(t) => ~ proc[t].ok
      BY <1>1 DEF Owes, OwesIn
    <2>8. NoBufferLeak'
      BY <1>1, <2>1, <2>3, <2>4, <2>7, PostKeeps
    <2> QED BY <2>6, <2>8
  <1>3. CASE /\ Become(t, [Remove(proc[t], "RemoveClient") EXCEPT
                                !.ok = FALSE, !.echoes = 0])
             /\ UNCHANGED <<registered, op, port>>
    <2> DEFINE v == [Remove(proc[t], "RemoveClient") EXCEPT
                         !.ok = FALSE, !.echoes = 0]
    <2>1. v \in Work /\ WorkOK(v) /\ OwesIn(v) /\ v.buf = proc[t].buf
      <3> DEFINE r == Remove(proc[t], "RemoveClient")
      <3>1. /\ r \in Work /\ WorkOK(r) /\ r.buf = proc[t].buf
            /\ r.pc = "RemoveClient" /\ r.ret = "RemoveClient"
        BY <1>1, RemoveWork DEF Remove, Work
      <3> HIDE DEF r
      <3>2. v = [r EXCEPT !.ok = FALSE, !.echoes = 0]
        BY DEF r
      <3>3. v \in Work
        <4> DEFINE u == [r EXCEPT !.ok = FALSE]
        <4>1. u \in Work
          BY <3>1 DEF Work
        <4>2. 0 \in 0 .. MaxPackets
          BY ConstantsAssumption
        <4>3. v = [u EXCEPT !.echoes = 0]
          BY <3>2
        <4> HIDE DEF u, v
        <4> QED BY <4>1, <4>2, <4>3 DEF Work
      <3>4. /\ v.pc = "RemoveClient" /\ v.ret = "RemoveClient" /\ ~ v.ok
            /\ v.buf = proc[t].buf /\ v.key = r.key
        BY <3>1, <3>2 DEF Work
      <3> QED BY <1>1, <3>1, <3>3, <3>4, ConstantsAssumption DEF WorkOK, OwesIn
    <2>2. IInv'
      BY <1>1, <1>3, <2>1, StepOK DEF IInv, TypeOK
    <2>3. NoBufferLeak'
      BY <1>1, <1>3, <2>1, QuietKeeps
    <2> QED BY <2>2, <2>3
  <1> QED BY <1>2, <1>3 DEF AsyncSend

LEMMA WriteDoneStep ==
  ASSUME IInv, NoBufferLeak, NEW t \in Threads, OnWriteCompleted(t)
  PROVE  IInv' /\ NoBufferLeak'
  <1>1. /\ proc[t].pc = "Dispatch"
        /\ UNCHANGED <<sock, client, size, registered, kernel, conns, packets,
                       expiries>>
    BY DEF OnWriteCompleted, Dispatched
  <1>2. op' \in [Buffers -> OpTypes]
    BY DEF OnWriteCompleted, IInv, TypeOK, OpTypes, WriteOps
  <1>3. ASSUME NEW v \in Work, WorkOK(v), OwesIn(v), v.buf = proc[t].buf,
               Become(t, v), port' = port
        PROVE  IInv' /\ NoBufferLeak'
    <2>1. IInv'
      BY <1>1, <1>2, <1>3, DispatchFacts, StepOK DEF IInv, TypeOK
    <2>2. NoBufferLeak'
      BY <1>1, <1>3, DispatchFacts, QuietKeeps
    <2> QED BY <2>1, <2>2
  <1>4. CASE port' = Append(port, Posted(proc[t].buf, proc[t].key))
             /\ Become(t, Idle)
    <2>1. port' \in Seq(Completion)
      BY <1>1, <1>4, DispatchFacts, PostPort
    <2>2. IInv'
      BY <1>1, <1>2, <1>4, <2>1, DispatchFacts, IdleWork, StepOK
         DEF IInv, TypeOK
    <2>3. NoBufferLeak'
      BY <1>1, <1>4, DispatchFacts, IdleWork, PostKeeps
    <2> QED BY <2>2, <2>3
  <1>5. CASE Become(t, [proc[t] EXCEPT !.pc = "ReleaseBuffer"]) /\ port' = port
    <2> DEFINE v == [proc[t] EXCEPT !.pc = "ReleaseBuffer"]
    <2>1. v \in Work /\ WorkOK(v) /\ OwesIn(v) /\ v.buf = proc[t].buf
      BY <1>1, DispatchFacts, ConstantsAssumption
         DEF Work, Labels, WorkOK, OwesIn
    <2> QED BY <1>3, <1>5, <2>1
  <1>6. \A r \in {"ReleaseBuffer", "RemoveClient"} :
          Become(t, Remove(proc[t], r)) /\ port' = port
              => IInv' /\ NoBufferLeak'
    BY <1>1, <1>3, DispatchFacts
  <1> QED BY <1>4, <1>5, <1>6 DEF OnWriteCompleted

-----------------------------------------------------------------------------
(* Steps that removal, release and acceptance consist of. *)

\* What a thread at one of these places holds.
LEMMA RemovalFacts ==
  ASSUME IInv, NEW p \in Procs,
         proc[p].pc \in {"RemoveClient", "CountDown", "DisConnectClient",
                         "ReleaseBuffer"}
  PROVE  /\ proc[p] \in Work /\ WorkOK(proc[p]) /\ Owes(p)
         /\ proc[p].buf \in Buffers /\ proc[p].key \in Handles
  BY ConstantsAssumption DEF IInv, TypeOK, WorkOK, Owes, OwesIn

LEMMA RemovalStep ==
  ASSUME IInv, NoBufferLeak, NEW p \in Procs, Removal(p)
  PROVE  IInv' /\ NoBufferLeak'
  <1>1. CASE RemoveClient(p)
    <2>1. /\ proc[p].pc = "RemoveClient"
          /\ UNCHANGED <<sock, size, registered, op, port, kernel, conns,
                         packets, expiries>>
      BY <1>1 DEF RemoveClient
    <2>2. client' \in [Handles -> Conns \cup {NoConn}]
      BY <1>1 DEF RemoveClient, IInv, TypeOK
    <2> DEFINE v == [proc[p] EXCEPT !.pc = "CountDown"]
    <2>3. v \in Work /\ WorkOK(v) /\ OwesIn(v) /\ v.buf = proc[p].buf
      BY <2>1, RemovalFacts, ConstantsAssumption
         DEF Work, Labels, WorkOK, OwesIn
    <2>4. ASSUME NEW w \in Work, WorkOK(w), OwesIn(w), w.buf = proc[p].buf,
                 Become(p, w)
          PROVE  IInv' /\ NoBufferLeak'
      BY <2>1, <2>2, <2>4, StepOK, QuietKeeps DEF IInv, TypeOK
    <2> QED BY <1>1, <2>1, <2>3, <2>4, RemovalFacts, ReturnWork DEF RemoveClient
  <1>2. CASE CountDown(p)
    <2> DEFINE v == [proc[p] EXCEPT !.pc = "DisConnectClient"]
    <2>1. proc[p].pc = "CountDown" /\ Become(p, v) /\ size' \in Int
      BY <1>2 DEF CountDown, IInv, TypeOK
    <2>2. v \in Work /\ WorkOK(v) /\ OwesIn(v) /\ v.buf = proc[p].buf
      BY <2>1, RemovalFacts, ConstantsAssumption
         DEF Work, Labels, WorkOK, OwesIn
    <2>3. IInv'
      BY <1>2, <2>1, <2>2, StepOK DEF CountDown, IInv, TypeOK
    <2>4. NoBufferLeak'
      BY <1>2, <2>1, <2>2, QuietKeeps DEF CountDown
    <2> QED BY <2>3, <2>4
  <1>3. CASE DisConnectClient(p)
    <2>1. /\ proc[p].pc = "DisConnectClient" /\ Become(p, Return(proc[p]))
          /\ sock' \in [Handles -> Conns \cup {NoConn}]
      BY <1>3 DEF DisConnectClient, IInv, TypeOK
    <2>2. /\ Return(proc[p]) \in Work /\ WorkOK(Return(proc[p]))
          /\ OwesIn(Return(proc[p])) /\ Return(proc[p]).buf = proc[p].buf
      BY <2>1, RemovalFacts, ReturnWork
    <2>3. IInv'
      BY <1>3, <2>1, <2>2, StepOK DEF DisConnectClient, IInv, TypeOK
    <2>4. NoBufferLeak'
      BY <1>3, <2>1, <2>2, QuietKeeps DEF DisConnectClient
    <2> QED BY <2>3, <2>4
  <1>4. CASE ReleaseBuffer(p)
    <2>1. /\ proc[p].pc = "ReleaseBuffer"
          /\ registered' = registered \ {proc[p].buf}
          /\ UNCHANGED <<sock, client, size, op, port, kernel, conns, packets,
                         expiries>>
      BY <1>4 DEF ReleaseBuffer
    <2> DEFINE v == [proc[p] EXCEPT !.pc = "RejectClientConnect"]
    <2>2. v \in Work /\ WorkOK(v)
      BY <2>1, RemovalFacts, ConstantsAssumption DEF Work, Labels, WorkOK
    <2>3. Echo(proc[p]) \in Work /\ WorkOK(Echo(proc[p]))
      BY <2>1, RemovalFacts, EchoWork
    <2>4. ASSUME NEW w \in Work, WorkOK(w), Become(p, w)
          PROVE  IInv' /\ NoBufferLeak'
      <3>1. IInv'
        BY <2>1, <2>4, StepOK DEF IInv, TypeOK
      <3>2. \A b : (OnPort(b)' <=> OnPort(b)) /\ (InKernel(b)' <=> InKernel(b))
        BY <2>1 DEF OnPort, InKernel
      <3>3. NoBufferLeak'
        BY <2>1, <2>4, <3>2, StepKeeps
      <3> QED BY <3>1, <3>3
    <2> QED BY <1>4, <2>2, <2>3, <2>4, IdleWork DEF ReleaseBuffer
  <1> QED BY <1>1, <1>2, <1>3, <1>4 DEF Removal

LEMMA AcceptStep ==
  ASSUME IInv, NoBufferLeak, Accept
  PROVE  IInv' /\ NoBufferLeak'
  <1>1. PICK h \in Handles :
          /\ sock' = [sock EXCEPT ![h] = conns']
          /\ Become(Acceptor, [Idle EXCEPT !.pc = "IsAccept", !.key = h])
    BY DEF Accept
  <1> DEFINE v == [Idle EXCEPT !.pc = "IsAccept", !.key = h]
  <1>2. Acceptor \in Procs /\ proc[Acceptor].pc = "Idle" /\ ~ Owes(Acceptor)
    BY DEF Accept, Procs, Owes, OwesIn
  <1>3. v \in Work /\ WorkOK(v)
    <2>1. /\ Idle \in Work /\ Idle.ret = "ReleaseBuffer"
          /\ Idle.after = "Idle" /\ Idle.buf = NoBuf
      BY IdleWork DEF Idle
    <2>2. /\ v \in Work /\ v.pc = "IsAccept" /\ v.key = h /\ v.buf = NoBuf
          /\ v.ret = "ReleaseBuffer" /\ v.after = "Idle"
      BY <2>1 DEF Work, Labels
    <2> QED BY <2>2 DEF WorkOK
  <1>4. conns' \in 0 .. MaxConns /\ sock' \in [Handles -> Conns \cup {NoConn}]
    BY <1>1, ConstantsAssumption DEF Accept, IInv, TypeOK, Conns
  <1>5. IInv'
    BY <1>1, <1>2, <1>3, <1>4, StepOK DEF Accept, IInv, TypeOK
  <1>6. NoBufferLeak'
    BY <1>1, <1>2, <1>3, QuietKeeps DEF Accept
  <1> QED BY <1>5, <1>6

\* The steps of the accept thread that move no buffer.
LEMMA AdmitStep ==
  ASSUME IInv, NoBufferLeak, IsAccept \/ AddClient \/ CountUp
  PROVE  IInv' /\ NoBufferLeak'
  <1>1. /\ Acceptor \in Procs /\ proc[Acceptor] \in Work /\ WorkOK(proc[Acceptor])
        /\ proc[Acceptor].pc \in {"IsAccept", "AddClient", "CountUp"}
        /\ proc[Acceptor].buf = NoBuf /\ proc[Acceptor].key \in Handles
        /\ ~ Owes(Acceptor)
        /\ UNCHANGED <<sock, registered, op, port, kernel, conns, packets,
                       expiries>>
    BY DEF IsAccept, AddClient, CountUp, IInv, TypeOK, Procs, WorkOK, Owes, OwesIn
  <1>2. size' \in Int
    BY DEF IsAccept, AddClient, CountUp, IInv, TypeOK
  <1>3. client' \in [Handles -> Conns \cup {NoConn}]
    <2>1. CASE AddClient /\ client[proc[Acceptor].key] = NoConn
      <3>1. client' = [client EXCEPT ![proc[Acceptor].key] = conns]
        BY <2>1 DEF AddClient
      <3>2. conns \in Conns \cup {NoConn}
        BY ConstantsAssumption DEF IInv, TypeOK, Conns, NoConn
      <3> QED BY <3>1, <3>2 DEF IInv, TypeOK
    <2>2. CASE client' = client
      BY <2>2 DEF IInv, TypeOK
    <2> QED BY <2>1, <2>2 DEF IsAccept, AddClient, CountUp
  <1>4. ASSUME NEW l \in {"AddClient", "CountUp", "Associate",
                          "RejectClientConnect"},
               Become(Acceptor, [proc[Acceptor] EXCEPT !.pc = l])
        PROVE  IInv' /\ NoBufferLeak'
    <2> DEFINE v == [proc[Acceptor] EXCEPT !.pc = l]
    <2>1. v \in Work /\ WorkOK(v)
      BY <1>1, <1>4, ConstantsAssumption DEF Work, Labels, WorkOK
    <2>2. IInv'
      BY <1>1, <1>2, <1>3, <1>4, <2>1, StepOK DEF IInv, TypeOK
    <2>3. NoBufferLeak'
      BY <1>1, <1>4, <2>1, QuietKeeps
    <2> QED BY <2>2, <2>3
  <1> QED BY <1>4 DEF IsAccept, AddClient, CountUp

LEMMA AssociateStep ==
  ASSUME IInv, NoBufferLeak, Associate
  PROVE  IInv' /\ NoBufferLeak'
  <1>1. /\ Acceptor \in Procs /\ proc[Acceptor] \in Work /\ WorkOK(proc[Acceptor])
        /\ proc[Acceptor].pc = "Associate"
        /\ proc[Acceptor].key \in Handles /\ ~ Owes(Acceptor)
        /\ UNCHANGED <<sock, client, size, kernel, conns, packets, expiries>>
    BY DEF Associate, IInv, TypeOK, Procs, WorkOK, Owes, OwesIn
  <1>2. CASE /\ Become(Acceptor, [proc[Acceptor] EXCEPT !.pc = "Crashed"])
             /\ UNCHANGED <<registered, op, port>>
    <2> DEFINE v == [proc[Acceptor] EXCEPT !.pc = "Crashed"]
    <2>1. v \in Work /\ WorkOK(v)
      BY <1>1, ConstantsAssumption DEF Work, Labels, WorkOK
    <2>2. IInv'
      BY <1>1, <1>2, <2>1, StepOK DEF IInv, TypeOK
    <2>3. NoBufferLeak'
      BY <1>1, <1>2, <2>1, QuietKeeps
    <2> QED BY <2>2, <2>3
  <1>3. ASSUME NEW b \in Buffers \ registered,
               op' = [op EXCEPT ![b] = "OP_IOInitialize"],
               registered' = registered \cup {b}
        PROVE  /\ op' \in [Buffers -> OpTypes] /\ registered' \in SUBSET Buffers
               /\ Posted(b, proc[Acceptor].key) \in Completion
               /\ Posted(b, proc[Acceptor].key).buf = b
    BY <1>1, <1>3
       DEF IInv, TypeOK, OpTypes, ReadOps, Posted, Completion, Results
  <1>4. ASSUME NEW b \in Buffers \ registered,
               op' = [op EXCEPT ![b] = "OP_IOInitialize"],
               registered' = registered \cup {b},
               port' = Append(port, Posted(b, proc[Acceptor].key)),
               Become(Acceptor, Idle)
        PROVE  IInv' /\ NoBufferLeak'
    <2>1. port' \in Seq(Completion)
      BY <1>3, <1>4, PostPort
    <2>2. IInv'
      BY <1>1, <1>3, <1>4, <2>1, IdleWork, StepOK DEF IInv, TypeOK
    <2>3. NoBufferLeak'
      BY <1>1, <1>3, <1>4, IdleWork, PostKeeps
    <2> QED BY <2>2, <2>3
  <1>5. ASSUME NEW b \in Buffers \ registered,
               op' = [op EXCEPT ![b] = "OP_IOInitialize"],
               registered' = registered \cup {b}, port' = port,
               Become(Acceptor, [Remove(proc[Acceptor], "ReleaseBuffer") EXCEPT
                                   !.buf = b, !.after = "RejectClientConnect"])
        PROVE  IInv' /\ NoBufferLeak'
    <2> DEFINE v == [Remove(proc[Acceptor], "ReleaseBuffer") EXCEPT
                         !.buf = b, !.after = "RejectClientConnect"]
    <2>1. v \in Work /\ WorkOK(v) /\ OwesIn(v) /\ v.buf = b
      BY <1>1, ConstantsAssumption DEF Work, Labels, WorkOK, OwesIn, Remove
    <2>2. IInv'
      BY <1>1, <1>3, <1>5, <2>1, StepOK DEF IInv, TypeOK
    <2>3. \A d : (OnPort(d)' <=> OnPort(d)) /\ (InKernel(d)' <=> InKernel(d))
      BY <1>1, <1>5 DEF OnPort, InKernel
    <2>4. Become(Acceptor, v) /\ \A d \in registered' : d \in registered \/ d = b
      BY <1>5
    <2> HIDE DEF v
    <2>5. NoBufferLeak'
      BY <1>1, <2>1, <2>3, <2>4, StepKeeps
    <2> QED BY <2>2, <2>5
  <1> QED BY <1>2, <1>4, <1>5 DEF Associate

LEMMA RejectStep ==
  ASSUME IInv, NoBufferLeak, RejectClientConnect
  PROVE  IInv' /\ NoBufferLeak'
  <1>1. /\ Acceptor \in Procs /\ ~ Owes(Acceptor) /\ Become(Acceptor, Idle)
        /\ sock' \in [Handles -> Conns \cup {NoConn}]
    BY DEF RejectClientConnect, IInv, TypeOK, Procs, Owes, OwesIn
  <1>2. IInv'
    BY <1>1, IdleWork, StepOK DEF RejectClientConnect, IInv, TypeOK
  <1>3. NoBufferLeak'
    BY <1>1, IdleWork, QuietKeeps DEF RejectClientConnect
  <1> QED BY <1>2, <1>3

LEMMA SystemStep ==
  ASSUME IInv, NoBufferLeak, System
  PROVE  IInv' /\ NoBufferLeak'
  <1>1. ASSUME NEW h \in Handles, Vistor(h)
        PROVE  IInv' /\ NoBufferLeak'
    <2>1. /\ sock' \in [Handles -> Conns \cup {NoConn}]
          /\ expiries' \in 0 .. MaxExpiries
      BY <1>1, ConstantsAssumption DEF Vistor, IInv, TypeOK
    <2>2. IInv'
      BY <1>1, <2>1 DEF Vistor, IInv, TypeOK
    <2>3. NoBufferLeak'
      BY <1>1 DEF Vistor, NoBufferLeak, OnPort, InKernel, Owes
    <2> QED BY <2>2, <2>3
  <1>2. ASSUME NEW k \in kernel, NEW res \in {"some", "part", "zero", "error"},
               Complete(k, res)
        PROVE  IInv' /\ NoBufferLeak'
    <2> DEFINE e == [buf |-> k.buf, key |-> k.key, res |-> res]
    <2>1. e \in Completion /\ e.buf = k.buf
      BY <1>2 DEF IInv, TypeOK, Overlapped, Completion, Results
    <2>2. port' = Append(port, e) /\ kernel' = kernel \ {k}
      BY <1>2 DEF Complete
    <2> HIDE DEF e
    <2>3. /\ port' \in Seq(Completion)
          /\ \A b : OnPort(b)' <=> OnPort(b) \/ k.buf = b
      BY <2>1, <2>2, PostPort
    <2>4. \A b : InKernel(b) => InKernel(b)' \/ k.buf = b
      BY <2>2 DEF InKernel
    <2>5. IInv'
      BY <1>2, <2>2, <2>3 DEF Complete, IInv, TypeOK
    <2>6. /\ registered' = registered
          /\ \A p \in Procs : Owes(p)' <=> Owes(p)
          /\ proc' = proc
      BY <1>2 DEF Complete, Owes
    <2>7. NoBufferLeak'
      BY <2>3, <2>4, <2>6 DEF NoBufferLeak
    <2> QED BY <2>5, <2>7
  <1> QED BY <1>1, <1>2 DEF System, Aborted, Finished

-----------------------------------------------------------------------------
(* The theorems. *)

LEMMA InitOK == Init => IInv /\ NoBufferLeak
  <1> SUFFICES ASSUME Init PROVE IInv /\ NoBufferLeak
    OBVIOUS
  <1>1. port \in Seq(Completion)
    BY DEF Init
  <1>2. TypeOK
    BY <1>1, IdleWork, ConstantsAssumption
       DEF Init, TypeOK, NoConn, OpTypes
  <1>3. \A p \in Procs : WorkOK(proc[p])
    BY IdleWork DEF Init
  <1>4. NoBufferLeak
    BY DEF Init, NoBufferLeak
  <1> QED BY <1>2, <1>3, <1>4 DEF IInv

LEMMA NextOK == IInv /\ NoBufferLeak /\ [Next]_vars => IInv' /\ NoBufferLeak'
  <1> SUFFICES ASSUME IInv, NoBufferLeak, [Next]_vars
               PROVE  IInv' /\ NoBufferLeak'
    OBVIOUS
  <1>1. CASE UNCHANGED vars
    BY <1>1 DEF vars, IInv, TypeOK, NoBufferLeak, OnPort, InKernel, Owes
  <1>2. ASSUME NEW t \in Threads, IOCPWorkerThread(t)
        PROVE  IInv' /\ NoBufferLeak'
    <2>1. t \in Procs
      BY DEF Procs
    <2> QED BY <1>2, <2>1, DequeueStep, LookupStep, InitializeStep,
               StartIOStep, ReadZeroStep, ReadStep, SendStep, WriteDoneStep,
               RemovalStep
            DEF IOCPWorkerThread, Handler
  <1>3. CASE Accept \/ AssociateIncomingClientSocket
    <2>1. Acceptor \in Procs
      BY DEF Procs
    <2> QED BY <1>3, <2>1, AcceptStep, AdmitStep, AssociateStep, RemovalStep,
               RejectStep
            DEF AssociateIncomingClientSocket
  <1>4. CASE System
    BY <1>4, SystemStep
  <1> QED BY <1>1, <1>2, <1>3, <1>4 DEF Next

\* Every variable keeps its type, in every behaviour of the server core.
THEOREM TypeCorrect == Spec => []TypeOK
  <1>1. IInv => TypeOK
    BY DEF IInv
  <1> QED BY <1>1, InitOK, NextOK, PTL DEF Spec

\* Whatever posts fail, clients expire and handles are reissued, a buffer that
\* AllocateBuffer handed out is under way or some thread still has to post or
\* release it: no handler of CTCPWorker, CAsyncOperator or the accept thread
\* has an exit that loses one.
THEOREM NothingLeaks == Spec => []NoBufferLeak
  BY InitOK, NextOK, PTL DEF Spec

-----------------------------------------------------------------------------
(* The clients: the counter of the client table, the bound it puts on the  *)
(* clients and the sockets they own.                                       *)

AcceptLabels == { "IsAccept", "AddClient", "CountUp", "Associate",
                  "RejectClientConnect", "Crashed" }

\* Only the accept thread is ever in AssociateIncomingClientSocket.
PoolOnly(w) == w.pc \notin AcceptLabels /\ w.after # "RejectClientConnect"
OnlyAcceptor == \A t \in Threads : PoolOnly(proc[t])

\* Where the handlers of the pool lead, before anything is counted.
PoolLabels == { "Idle", "ProcessIOMessage", "Dispatch", "AsyncSend",
                "RemoveClient", "ReleaseBuffer" }

\* Echo and Return lead into pool code and keep or clear the return address.
LEMMA EchoTo ==
  ASSUME NEW w \in Work
  PROVE  Echo(w).pc \in {"Idle", "AsyncSend", "RemoveClient"}
         /\ Echo(w).after = "Idle"
  BY DEF Echo, Remove, Idle, Work

LEMMA ReturnTo ==
  ASSUME NEW w \in Work
  PROVE  Return(w).pc \in PoolLabels /\ Return(w).after \in {"Idle", w.after}
  BY EchoTo DEF Return, Remove, Work, PoolLabels

\* So does Remove.
LEMMA RemoveTo ==
  ASSUME NEW w \in Work, NEW r
  PROVE  Remove(w, r).pc = "RemoveClient" /\ Remove(w, r).after = w.after
  BY DEF Remove, Work

\* A step of thread p that leaves the client table and its counter alone and
\* leads into pool code.
Plain(p) ==
    /\ client' = client /\ size' = size
    /\ proc[p].pc \notin {"CountUp", "CountDown"}
    /\ \E w : Become(p, w) /\ w.pc \in PoolLabels
                           /\ w.after \in {"Idle", "AsyncSend", proc[p].after}

\* Taking a completion and handling it count no client.
LEMMA HandlerPlain ==
  ASSUME IInv, NEW t \in Threads, GetQueuedCompletionStatus(t) \/ Handler(t)
  PROVE  Plain(t)
  <1>1. proc[t] \in Work
    BY DEF IInv, TypeOK, Procs
  <1>2. CASE GetQueuedCompletionStatus(t)
    <2> DEFINE e == Head(port)
               v == [Idle EXCEPT !.buf = e.buf, !.key = e.key, !.res = e.res]
    <2>1. v.pc = "Idle" /\ v.after = "Idle" /\ DOMAIN v = DOMAIN Idle
      BY DEF Idle
    <2>2. /\ OnOperationCanceled(v).pc = "RemoveClient"
          /\ OnOperationCanceled(v).after = "Idle"
          /\ OnOperationCompleted(v).pc = "ProcessIOMessage"
          /\ OnOperationCompleted(v).after = "Idle"
      BY DEF OnOperationCanceled, OnOperationCompleted, Remove, Idle
    <2> QED BY <1>2, <2>2 DEF GetQueuedCompletionStatus, Plain, PoolLabels
  <1>3. CASE ProcessIOMessage(t)
    BY <1>1, <1>3 DEF ProcessIOMessage, Plain, PoolLabels, Work
  <1>4. CASE OnInitialize(t) \/ OnReadCompletedZero(t) \/ OnWriteCompleted(t)
    <2>1. Idle.pc = "Idle" /\ Idle.after = "Idle"
      BY DEF Idle
    <2>2. /\ [proc[t] EXCEPT !.pc = "ReleaseBuffer"].pc = "ReleaseBuffer"
          /\ [proc[t] EXCEPT !.pc = "ReleaseBuffer"].after = proc[t].after
      BY <1>1 DEF Work
    <2>3. \/ Become(t, Idle)
          \/ Become(t, Remove(proc[t], "ReleaseBuffer"))
          \/ Become(t, Remove(proc[t], "RemoveClient"))
          \/ Become(t, [proc[t] EXCEPT !.pc = "ReleaseBuffer"])
      BY <1>4 DEF OnInitialize, OnReadCompletedZero, OnWriteCompleted
    <2>4. client' = client /\ size' = size /\ proc[t].pc = "Dispatch"
      BY <1>4 DEF OnInitialize, OnReadCompletedZero, OnWriteCompleted,
                  Dispatched
    <2>5. \A r : Remove(proc[t], r).pc = "RemoveClient"
                 /\ Remove(proc[t], r).after = proc[t].after
      BY <1>1, RemoveTo
    <2> QED BY <2>1, <2>2, <2>3, <2>4, <2>5 DEF Plain, PoolLabels
  <1>5. CASE OnRead(t) \/ OnWrite(t)
    <2>1. Idle.pc = "Idle" /\ Idle.after = "Idle"
      BY DEF Idle
    <2>2. Become(t, Idle) \/ Become(t, Remove(proc[t], "ReleaseBuffer"))
      BY <1>5 DEF OnRead, OnWrite, StartIO
    <2> QED BY <1>1, <1>5, <2>1, <2>2, RemoveTo
            DEF OnRead, OnWrite, Dispatched, Plain, PoolLabels
  <1>6. CASE OnReadCompleted(t)
    <2>1. PICK n \in 0 .. (MaxPackets - packets) :
            LET w == [proc[t] EXCEPT !.echoes = n] IN
            DoRead(t, w) \/ ContinueAsyncRead(t, w)
                \/ Become(t, Echo([w EXCEPT !.ok = FALSE]))
      BY <1>6 DEF OnReadCompleted
    <2> DEFINE w == [proc[t] EXCEPT !.echoes = n]
    <2>2. n \in 0 .. MaxPackets
      BY ConstantsAssumption DEF IInv, TypeOK
    <2>3. w \in Work /\ [w EXCEPT !.ok = FALSE] \in Work
      BY <1>1, <2>2 DEF Work
    <2> HIDE DEF w
    <2>4. /\ Echo(w).pc \in PoolLabels /\ Echo(w).after = "Idle"
          /\ Echo([w EXCEPT !.ok = FALSE]).pc \in PoolLabels
          /\ Echo([w EXCEPT !.ok = FALSE]).after = "Idle"
      BY <2>3, EchoTo DEF PoolLabels
    <2> DEFINE gone == [Remove(w, "ReleaseBuffer") EXCEPT !.after = "AsyncSend",
                                                          !.ok = FALSE]
               undone == [Remove(w, "AsyncSend") EXCEPT !.ok = FALSE]
    <2>5. gone.pc \in PoolLabels /\ gone.after = "AsyncSend"
      BY <2>3 DEF Remove, PoolLabels, Work
    <2>6. undone.pc \in PoolLabels /\ undone.after = proc[t].after
      BY <1>1, <2>3 DEF Remove, PoolLabels, Work, w
    <2> HIDE DEF gone, undone
    <2>7. Become(t, Echo(w)) \/ Become(t, Echo([w EXCEPT !.ok = FALSE]))
              \/ Become(t, gone) \/ Become(t, undone)
      BY <2>1 DEF DoRead, ContinueAsyncRead, w, gone, undone
    <2> QED BY <1>6, <2>4, <2>5, <2>6, <2>7
            DEF OnReadCompleted, Dispatched, Plain
  <1>7. CASE AsyncSend(t)
    <2> DEFINE v == [proc[t] EXCEPT !.echoes = @ - 1]
               r == Remove(proc[t], "RemoveClient")
               u == [r EXCEPT !.ok = FALSE, !.echoes = 0]
    <2>1. proc[t].echoes > 0
      BY <1>7 DEF AsyncSend, IInv, WorkOK, Procs
    <2>2. v \in Work
      BY <1>1, <2>1, ConstantsAssumption DEF Work
    <2>3. u.pc = "RemoveClient" /\ u.after = proc[t].after
      BY <1>1 DEF Remove, Work
    <2>4. Become(t, Echo(v)) \/ Become(t, u)
      BY <1>7 DEF AsyncSend
    <2> HIDE DEF v, u
    <2> QED BY <1>7, <2>2, <2>3, <2>4, EchoTo DEF AsyncSend, Plain, PoolLabels
  <1> QED BY <1>2, <1>3, <1>4, <1>5, <1>6, <1>7 DEF Handler

-----------------------------------------------------------------------------
(* The inductive invariant. *)

\* HasRoom is read before AddClient and holds for it: in between, other threads
\* only take clients away.
RoomForOne == proc[Acceptor].pc = "AddClient" => Cardinality(Clients) <= MaxClients

\* The accept thread only works on a connection it has accepted.
Accepted == proc[Acceptor].pc # "Idle" => conns > 0

CInv == OnlyAcceptor /\ CountMatches /\ ClientBound /\ RoomForOne

\* What is counted is finite.
LEMMA Counted ==
  /\ IsFiniteSet(Clients) /\ Cardinality(Clients) \in Nat
  /\ \A l : IsFiniteSet(At(l)) /\ Cardinality(At(l)) \in Nat
  <1>1. IsFiniteSet(Procs)
    BY ConstantsAssumption, FS_AddElement DEF Procs
  <1>2. IsFiniteSet(Clients)
    BY ConstantsAssumption, FS_Subset DEF Clients
  <1>3. \A l : IsFiniteSet(At(l))
    BY <1>1, FS_Subset DEF At
  <1> QED BY <1>2, <1>3, FS_CardinalityType

\* The accept thread counts a client up before it admits the next.
LEMMA NoneCountingUp ==
  ASSUME OnlyAcceptor, proc[Acceptor].pc # "CountUp"
  PROVE  At("CountUp") = {} /\ Cardinality(At("CountUp")) = 0
  BY FS_EmptySet DEF OnlyAcceptor, PoolOnly, AcceptLabels, At, Procs

\* A step that changes neither the table nor who is counting.
LEMMA NothingCounted ==
  ASSUME CInv, client' = client, size' = size,
         At("CountDown")' = At("CountDown"), At("CountUp")' = At("CountUp"),
         proc'[Acceptor].pc = "AddClient" => Cardinality(Clients) <= MaxClients
  PROVE  CountMatches' /\ ClientBound' /\ RoomForOne'
  <1>1. Clients' = Clients
    BY DEF Clients
  <1> QED BY <1>1 DEF CInv, CountMatches, ClientBound, RoomForOne

\* A step into pool code counts nothing.
LEMMA PlainCounts ==
  ASSUME IInv, CInv, NEW t \in Procs, Plain(t)
  PROVE  CInv'
  <1>1. PICK w : /\ Become(t, w) /\ w.pc \in PoolLabels
                 /\ w.after \in {"Idle", "AsyncSend", proc[t].after}
    BY DEF Plain
  <1>2. proc' = [proc EXCEPT ![t] = w] /\ DOMAIN proc = Procs
    BY <1>1 DEF Become, IInv, TypeOK
  <1>3. At("CountDown")' = At("CountDown") /\ At("CountUp")' = At("CountUp")
    BY <1>1, <1>2 DEF Plain, At, PoolLabels
  <1>4. proc'[Acceptor].pc = "AddClient" => Cardinality(Clients) <= MaxClients
    BY <1>1, <1>2 DEF CInv, RoomForOne, PoolLabels, Procs
  <1>5. OnlyAcceptor'
    BY <1>1, <1>2, ConstantsAssumption
       DEF CInv, OnlyAcceptor, PoolOnly, PoolLabels, AcceptLabels, Procs
  <1> QED BY <1>3, <1>4, <1>5, NothingCounted DEF Plain, CInv

\* A step of the accept thread that changes neither the table nor its counter.
LEMMA AcceptorCounts ==
  ASSUME IInv, CInv, NEW w, proc' = [proc EXCEPT ![Acceptor] = w],
         UNCHANGED <<client, size>>,
         proc[Acceptor].pc \notin {"CountUp", "CountDown"},
         w.pc \notin {"CountUp", "CountDown"},
         w.pc = "AddClient" => Cardinality(Clients) <= MaxClients
  PROVE  CInv'
  <1>1. DOMAIN proc = Procs /\ Acceptor \in Procs
    BY DEF IInv, TypeOK, Procs
  <1>2. At("CountDown")' = At("CountDown") /\ At("CountUp")' = At("CountUp")
    BY <1>1 DEF At
  <1>3. OnlyAcceptor'
    BY <1>1, ConstantsAssumption DEF CInv, OnlyAcceptor, Procs
  <1>4. proc'[Acceptor].pc = "AddClient" => Cardinality(Clients) <= MaxClients
    BY <1>1
  <1> QED BY <1>2, <1>3, <1>4, NothingCounted DEF CInv

\* The removal of a client is counted down after it.
LEMMA RemovalCounts ==
  ASSUME IInv, CInv, NEW p \in Procs, Removal(p)
  PROVE  CInv'
  <1> DEFINE w == proc[p]
  <1>1. w \in Work /\ DOMAIN proc = Procs
    BY DEF IInv, TypeOK
  <1>2. Return(w).pc \in PoolLabels /\ Return(w).after \in {"Idle", w.after}
    BY <1>1, ReturnTo
  <1>3. CASE RemoveClient(p) /\ client[w.key] = NoConn
    <2>1. Plain(p)
      BY <1>2, <1>3 DEF RemoveClient, Plain
    <2> QED BY <2>1, PlainCounts
  <1>4. CASE RemoveClient(p) /\ client[w.key] # NoConn
    <2> DEFINE v == [w EXCEPT !.pc = "CountDown"]
    <2>1. w.pc = "RemoveClient" /\ v.pc = "CountDown" /\ v.after = w.after
      BY <1>1, <1>4 DEF RemoveClient, Work
    <2>2. /\ proc' = [proc EXCEPT ![p] = v] /\ size' = size
          /\ client' = [client EXCEPT ![w.key] = NoConn]
      BY <1>4 DEF RemoveClient, Become
    <2>3. w.key \in Handles /\ client \in [Handles -> Conns \cup {NoConn}]
      BY <2>1, ConstantsAssumption DEF IInv, WorkOK, TypeOK
    <2> HIDE DEF v
    <2>4. At("CountUp")' = At("CountUp")
      BY <1>1, <2>1, <2>2 DEF At
    <2>5. At("CountDown")' = At("CountDown") \cup {p} /\ p \notin At("CountDown")
      BY <1>1, <2>1, <2>2 DEF At
    <2>6. Clients' = Clients \ {w.key} /\ w.key \in Clients
      BY <1>4, <2>2, <2>3 DEF Clients
    <2>7. Cardinality(At("CountDown")') = Cardinality(At("CountDown")) + 1
      BY <2>5, Counted, FS_AddElement
    <2>8. Cardinality(Clients') = Cardinality(Clients) - 1
      BY <2>6, Counted, FS_RemoveElement
    <2>9. OnlyAcceptor'
      BY <1>1, <2>1, <2>2
         DEF CInv, OnlyAcceptor, PoolOnly, AcceptLabels, Procs
    <2>10. proc'[Acceptor].pc = "AddClient" => proc[Acceptor].pc = "AddClient"
      BY <1>1, <2>1, <2>2 DEF Procs
    <2>11. CountMatches'
      BY <2>2, <2>4, <2>7, <2>8, Counted DEF CInv, CountMatches
    <2>12. ClientBound' /\ RoomForOne'
      BY <2>8, <2>10, Counted, ConstantsAssumption
         DEF CInv, ClientBound, RoomForOne
    <2> QED BY <2>9, <2>11, <2>12 DEF CInv
  <1>5. CASE CountDown(p)
    <2> DEFINE v == [w EXCEPT !.pc = "DisConnectClient"]
    <2>1. w.pc = "CountDown" /\ v.pc = "DisConnectClient" /\ v.after = w.after
      BY <1>1, <1>5 DEF CountDown, Work
    <2>2. /\ proc' = [proc EXCEPT ![p] = v] /\ size' = size - 1
          /\ client' = client
      BY <1>5 DEF CountDown, Become
    <2> HIDE DEF v
    <2>3. At("CountUp")' = At("CountUp")
      BY <1>1, <2>1, <2>2 DEF At
    <2>4. At("CountDown")' = At("CountDown") \ {p} /\ p \in At("CountDown")
      BY <1>1, <2>1, <2>2 DEF At
    <2>5. Cardinality(At("CountDown")') = Cardinality(At("CountDown")) - 1
      BY <2>4, Counted, FS_RemoveElement
    <2>6. Clients' = Clients
      BY <2>2 DEF Clients
    <2>7. OnlyAcceptor'
      BY <1>1, <2>1, <2>2
         DEF CInv, OnlyAcceptor, PoolOnly, AcceptLabels, Procs
    <2>8. proc'[Acceptor].pc = "AddClient" => proc[Acceptor].pc = "AddClient"
      BY <1>1, <2>1, <2>2 DEF Procs
    <2>9. CountMatches'
      BY <2>2, <2>3, <2>5, <2>6, Counted DEF CInv, CountMatches, TypeOK, IInv
    <2>10. ClientBound' /\ RoomForOne'
      BY <2>6, <2>8 DEF CInv, ClientBound, RoomForOne
    <2> QED BY <2>7, <2>9, <2>10 DEF CInv
  <1>6. CASE DisConnectClient(p)
    <2>1. Plain(p)
      BY <1>2, <1>6 DEF DisConnectClient, Plain
    <2> QED BY <2>1, PlainCounts
  <1>7. CASE ReleaseBuffer(p)
    <2>1. CASE w.after # "RejectClientConnect"
      <3>1. Idle.pc \in PoolLabels /\ Idle.after = "Idle"
        BY DEF Idle, PoolLabels
      <3>2. Echo(w).pc \in PoolLabels /\ Echo(w).after = "Idle"
        BY <1>1, EchoTo DEF PoolLabels
      <3>3. Become(p, Idle) \/ Become(p, Echo(w))
        BY <1>1, <1>7, <2>1 DEF ReleaseBuffer, Work
      <3>4. Plain(p)
        BY <1>7, <3>1, <3>2, <3>3 DEF ReleaseBuffer, Plain
      <3> QED BY <3>4, PlainCounts
    <2>2. CASE w.after = "RejectClientConnect"
      <3> DEFINE v == [w EXCEPT !.pc = "RejectClientConnect"]
      <3>1. p = Acceptor
        BY <2>2 DEF CInv, OnlyAcceptor, PoolOnly, Procs
      <3>2. w.pc = "ReleaseBuffer" /\ v.pc = "RejectClientConnect"
        BY <1>1, <1>7 DEF ReleaseBuffer, Work
      <3>3. proc' = [proc EXCEPT ![p] = v] /\ UNCHANGED <<client, size>>
        BY <1>7, <2>2 DEF ReleaseBuffer, Become
      <3> HIDE DEF v
      <3> QED BY <1>1, <3>1, <3>2, <3>3, AcceptorCounts
    <2> QED BY <2>1, <2>2
  <1> QED BY <1>3, <1>4, <1>5, <1>6, <1>7 DEF Removal

\* The accept thread has room for the one client it adds, and counts it after.
LEMMA AdmissionCounts ==
  ASSUME IInv, CInv, Accepted,
         Accept \/ IsAccept \/ AddClient \/ CountUp \/ Associate
                \/ RejectClientConnect
  PROVE  CInv'
  <1> DEFINE a == proc[Acceptor]
  <1>1. a \in Work /\ DOMAIN proc = Procs /\ Acceptor \in Procs
    BY DEF IInv, TypeOK, Procs
  <1>2. CASE Accept
    <2>1. PICK h \in Handles :
            proc' = [proc EXCEPT ![Acceptor] =
                         [Idle EXCEPT !.pc = "IsAccept", !.key = h]]
      BY <1>2 DEF Accept, Become
    <2>2. [Idle EXCEPT !.pc = "IsAccept", !.key = h].pc = "IsAccept"
      BY DEF Idle
    <2> QED BY <1>2, <2>1, <2>2, AcceptorCounts DEF Accept
  <1>3. CASE IsAccept
    <2>1. PICK l \in {"AddClient", "RejectClientConnect"} :
            /\ proc' = [proc EXCEPT ![Acceptor] = [a EXCEPT !.pc = l]]
            /\ l = "AddClient" => HasRoom
      BY <1>3 DEF IsAccept, Become
    <2>2. [a EXCEPT !.pc = l].pc = l
      BY <1>1 DEF Work
    <2>3. HasRoom => Cardinality(Clients) <= MaxClients
      BY <1>3, NoneCountingUp, Counted, ConstantsAssumption
         DEF IsAccept, HasRoom, CInv, CountMatches
    <2> QED BY <1>3, <2>1, <2>2, <2>3, AcceptorCounts DEF IsAccept
  <1>4. CASE AddClient /\ client[a.key] = NoConn
    <2> DEFINE v == [a EXCEPT !.pc = "CountUp"]
    <2>1. a.pc = "AddClient" /\ v.pc = "CountUp"
      BY <1>1, <1>4 DEF AddClient, Work
    <2>2. /\ proc' = [proc EXCEPT ![Acceptor] = v] /\ size' = size
          /\ client' = [client EXCEPT ![a.key] = conns]
      BY <1>4 DEF AddClient, Become
    <2>3. /\ a.key \in Handles /\ client \in [Handles -> Conns \cup {NoConn}]
          /\ conns # NoConn
      BY <1>1, <2>1 DEF IInv, WorkOK, TypeOK, Accepted, NoConn
    <2> HIDE DEF v
    <2>4. At("CountDown")' = At("CountDown")
      BY <1>1, <2>1, <2>2 DEF At
    <2>5. At("CountUp")' = At("CountUp") \cup {Acceptor}
          /\ Acceptor \notin At("CountUp")
      BY <1>1, <2>1, <2>2 DEF At
    <2>6. Clients' = Clients \cup {a.key} /\ a.key \notin Clients
      BY <1>4, <2>2, <2>3 DEF Clients
    <2>7. Cardinality(At("CountUp")') = Cardinality(At("CountUp")) + 1
      BY <2>5, Counted, FS_AddElement
    <2>8. Cardinality(Clients') = Cardinality(Clients) + 1
      BY <2>6, Counted, FS_AddElement
    <2>9. OnlyAcceptor'
      BY <2>2, ConstantsAssumption, <1>1 DEF CInv, OnlyAcceptor, Procs
    <2>10. CountMatches'
      BY <2>2, <2>4, <2>7, <2>8, Counted DEF CInv, CountMatches
    <2>11. ClientBound' /\ RoomForOne'
      BY <1>1, <2>1, <2>2, <2>8, Counted, ConstantsAssumption
         DEF CInv, ClientBound, RoomForOne
    <2> QED BY <2>9, <2>10, <2>11 DEF CInv
  <1>5. CASE AddClient /\ client[a.key] # NoConn
    <2>1. proc' = [proc EXCEPT ![Acceptor] =
                       [a EXCEPT !.pc = "RejectClientConnect"]]
      BY <1>5 DEF AddClient, Become
    <2>2. [a EXCEPT !.pc = "RejectClientConnect"].pc = "RejectClientConnect"
      BY <1>1 DEF Work
    <2> QED BY <1>5, <2>1, <2>2, AcceptorCounts DEF AddClient
  <1>6. CASE CountUp
    <2> DEFINE v == [a EXCEPT !.pc = "Associate"]
    <2>1. a.pc = "CountUp" /\ v.pc = "Associate"
      BY <1>1, <1>6 DEF CountUp, Work
    <2>2. /\ proc' = [proc EXCEPT ![Acceptor] = v] /\ size' = size + 1
          /\ client' = client
      BY <1>6 DEF CountUp, Become
    <2> HIDE DEF v
    <2>3. At("CountDown")' = At("CountDown")
      BY <1>1, <2>1, <2>2 DEF At
    <2>4. At("CountUp")' = At("CountUp") \ {Acceptor}
          /\ Acceptor \in At("CountUp")
      BY <1>1, <2>1, <2>2 DEF At
    <2>5. Cardinality(At("CountUp")') = Cardinality(At("CountUp")) - 1
      BY <2>4, Counted, FS_RemoveElement
    <2>6. Clients' = Clients
      BY <2>2 DEF Clients
    <2>7. OnlyAcceptor'
      BY <2>2, ConstantsAssumption, <1>1 DEF CInv, OnlyAcceptor, Procs
    <2>8. CountMatches'
      BY <2>2, <2>3, <2>5, <2>6, Counted DEF CInv, CountMatches, IInv, TypeOK
    <2>9. ClientBound' /\ RoomForOne'
      BY <1>1, <2>1, <2>2, <2>6 DEF CInv, ClientBound, RoomForOne
    <2> QED BY <2>7, <2>8, <2>9 DEF CInv
  <1>7. CASE Associate
    <2>1. PICK b : \/ Become(Acceptor, [a EXCEPT !.pc = "Crashed"])
                   \/ Become(Acceptor, Idle)
                   \/ Become(Acceptor, [Remove(a, "ReleaseBuffer") EXCEPT
                                  !.buf = b, !.after = "RejectClientConnect"])
      BY <1>7 DEF Associate
    <2> DEFINE r == Remove(a, "ReleaseBuffer")
               v == [r EXCEPT !.buf = b, !.after = "RejectClientConnect"]
    <2>2. [a EXCEPT !.pc = "Crashed"].pc = "Crashed" /\ Idle.pc = "Idle"
      BY <1>1 DEF Work, Idle
    <2>3. v.pc = "RemoveClient"
      BY <1>1 DEF Work, Remove
    <2> HIDE DEF v
    <2>4. PICK w : /\ proc' = [proc EXCEPT ![Acceptor] = w]
                   /\ w.pc \in {"Crashed", "Idle", "RemoveClient"}
      BY <2>1, <2>2, <2>3 DEF Become, v
    <2>5. UNCHANGED <<client, size>> /\ a.pc = "Associate"
      BY <1>7 DEF Associate
    <2> QED BY <2>4, <2>5, AcceptorCounts
  <1>8. CASE RejectClientConnect
    <2>1. Idle.pc = "Idle"
      BY DEF Idle
    <2> QED BY <1>8, <2>1, AcceptorCounts DEF RejectClientConnect, Become
  <1> QED BY <1>2, <1>3, <1>4, <1>5, <1>6, <1>7, <1>8

\* The invariants hold initially, and every step keeps them.
LEMMA CInvInit == Init => CInv /\ Accepted
  <1> SUFFICES ASSUME Init PROVE CInv /\ Accepted
    OBVIOUS
  <1>1. \A p \in Procs : proc[p].pc = "Idle" /\ proc[p].after = "Idle"
    BY DEF Init, Idle
  <1>2. Clients = {} /\ At("CountDown") = {} /\ At("CountUp") = {}
    BY <1>1 DEF Init, Clients, At
  <1>3. size = 0 /\ Cardinality({}) = 0
    BY FS_EmptySet DEF Init
  <1>4. OnlyAcceptor
    BY <1>1 DEF OnlyAcceptor, PoolOnly, AcceptLabels, Procs
  <1>5. Accepted /\ RoomForOne
    BY <1>1 DEF Accepted, RoomForOne, Procs
  <1>6. CountMatches /\ ClientBound
    BY <1>2, <1>3, ConstantsAssumption DEF CountMatches, ClientBound
  <1> QED BY <1>4, <1>5, <1>6 DEF CInv

LEMMA AcceptedNext == IInv /\ Accepted /\ [Next]_vars => Accepted'
  <1> SUFFICES ASSUME IInv, Accepted, [Next]_vars PROVE Accepted'
    OBVIOUS
  <1>1. conns \in Nat
    BY ConstantsAssumption DEF IInv, TypeOK
  <1>2. ASSUME NEW t \in Threads, IOCPWorkerThread(t) PROVE Accepted'
    <2>1. CASE Removal(t)
      <3>1. PICK w : Become(t, w)
        BY <2>1 DEF Removal, RemoveClient, CountDown, DisConnectClient,
                    ReleaseBuffer
      <3>2. conns' = conns
        BY <2>1 DEF Removal, RemoveClient, CountDown, DisConnectClient,
                    ReleaseBuffer
      <3> QED BY <3>1, <3>2, ConstantsAssumption DEF Become, Accepted, IInv,
                                                    TypeOK, Procs
    <2>2. CASE GetQueuedCompletionStatus(t) \/ Handler(t)
      <3>1. PICK w : Become(t, w)
        BY <2>2, HandlerPlain DEF Plain
      <3>2. conns' = conns
        BY <2>2 DEF GetQueuedCompletionStatus, Handler, ProcessIOMessage,
                    OnInitialize, OnRead, OnReadCompletedZero, OnReadCompleted,
                    AsyncSend, OnWrite, OnWriteCompleted
      <3> QED BY <3>1, <3>2, ConstantsAssumption DEF Become, Accepted, IInv,
                                                    TypeOK, Procs
    <2> QED BY <1>2, <2>1, <2>2 DEF IOCPWorkerThread
  <1>3. CASE Accept
    BY <1>1, <1>3 DEF Accept, Accepted
  <1>4. CASE AssociateIncomingClientSocket
    <2>1. proc[Acceptor].pc # "Idle" /\ conns' = conns
      BY <1>4 DEF AssociateIncomingClientSocket, IsAccept, AddClient, CountUp,
                  Associate, RejectClientConnect, Removal, RemoveClient,
                  CountDown, DisConnectClient, ReleaseBuffer
    <2> QED BY <2>1 DEF Accepted
  <1>5. CASE System \/ UNCHANGED vars
    BY <1>5 DEF System, Vistor, Aborted, Finished, Complete, vars, Accepted
  <1> QED BY <1>2, <1>3, <1>4, <1>5 DEF Next

LEMMA CInvNext == IInv /\ CInv /\ Accepted /\ [Next]_vars => CInv'
  <1> SUFFICES ASSUME IInv, CInv, Accepted, [Next]_vars PROVE CInv'
    OBVIOUS
  <1>1. ASSUME NEW t \in Threads, IOCPWorkerThread(t) PROVE CInv'
    <2>1. CASE Removal(t)
      BY <2>1, RemovalCounts DEF Procs
    <2>2. CASE GetQueuedCompletionStatus(t) \/ Handler(t)
      BY <2>2, HandlerPlain, PlainCounts DEF Procs
    <2> QED BY <1>1, <2>1, <2>2 DEF IOCPWorkerThread
  <1>2. CASE Accept
    BY <1>2, AdmissionCounts
  <1>3. CASE AssociateIncomingClientSocket
    BY <1>3, AdmissionCounts, RemovalCounts
       DEF AssociateIncomingClientSocket, Procs
  <1>4. CASE System \/ UNCHANGED vars
    <2>1. UNCHANGED <<client, size, proc>>
      BY <1>4 DEF System, Vistor, Aborted, Finished, Complete, vars
    <2>2. At("CountDown")' = At("CountDown") /\ At("CountUp")' = At("CountUp")
      BY <2>1 DEF At
    <2>3. OnlyAcceptor' /\ (proc'[Acceptor].pc = "AddClient"
                                => Cardinality(Clients) <= MaxClients)
      BY <2>1 DEF CInv, OnlyAcceptor, RoomForOne
    <2> QED BY <2>1, <2>2, <2>3, NothingCounted DEF CInv
  <1> QED BY <1>1, <1>2, <1>3, <1>4 DEF Next

LEMMA CInvAlways == Spec => []CInv
  BY InitOK, NextOK, CInvInit, CInvNext, AcceptedNext, PTL DEF Spec

\* The counter m_nSize is off by no more than the threads that have changed the
\* list and not yet the counter, however many threads remove how many clients.
THEOREM CounterAgrees == Spec => []CountMatches
  BY CInvAlways, PTL DEF CInv

\* However many connections come and go, IsAccept never lets the server have
\* more than one client above m_nMaxClientCount.
THEOREM ClientsBounded == Spec => []ClientBound
  BY CInvAlways, PTL DEF CInv
-----------------------------------------------------------------------------
(* The sockets of the clients. *)

\* Between taking a client out of the table and closing its socket.
Removing(w) == w.pc \in {"CountDown", "DisConnectClient"}

\* Between accepting a connection and adding its client or giving it up.
Admitting(w) == w.pc \in {"IsAccept", "AddClient", "RejectClientConnect"}

\* The thread that took a client out of the table is the one that may close its
\* socket, and that is open until it does: no new client can have its handle.
RemovesItsOwn ==
    \A p \in Procs : Removing(proc[p]) =>
        /\ client[proc[p].key] = NoConn
        /\ sock[proc[p].key] # NoConn
        /\ \A q \in Procs : Removing(proc[q]) /\ proc[q].key = proc[p].key
                            => q = p

\* An accepted handle has no client yet and nobody is about to close it.
AdmitsFresh ==
    Admitting(proc[Acceptor]) =>
        /\ client[proc[Acceptor].key] = NoConn
        /\ sock[proc[Acceptor].key] = conns
        /\ \A q \in Procs : Removing(proc[q]) => proc[q].key # proc[Acceptor].key

\* The accept thread removes no client: the post of OP_IOInitialize is what
\* would make it do so.
AcceptorRemovesNone ==
    proc[Acceptor].pc \notin {"RemoveClient", "CountDown", "DisConnectClient",
                              "ReleaseBuffer"}

OInv == RegisteredIsOpen /\ RemovesItsOwn /\ AdmitsFresh /\ AcceptorRemovesNone

\* A pool thread moves on without touching the table or a socket.
LEMMA PoolMoves ==
  ASSUME IInv, OInv, NEW p \in Threads, NEW w,
         proc' = [proc EXCEPT ![p] = w], UNCHANGED <<sock, client, conns>>,
         Removing(w) => Removing(proc[p]) /\ w.key = proc[p].key
  PROVE  OInv'
  <1>1. DOMAIN proc = Procs /\ p \in Procs /\ Acceptor \in Procs
        /\ p # Acceptor
    BY ConstantsAssumption DEF IInv, TypeOK, Procs
  <1>2. proc'[p] = w /\ \A q \in Procs : q # p => proc'[q] = proc[q]
    BY <1>1
  <1>3. \A q \in Procs : Removing(proc'[q]) =>
            Removing(proc[q]) /\ proc'[q].key = proc[q].key
    BY <1>2
  <1>4. RemovesItsOwn'
    BY <1>3 DEF OInv, RemovesItsOwn
  <1>5. AdmitsFresh' /\ AcceptorRemovesNone'
    BY <1>1, <1>2, <1>3 DEF OInv, AdmitsFresh, AcceptorRemovesNone
  <1>6. RegisteredIsOpen'
    BY DEF OInv, RegisteredIsOpen
  <1> QED BY <1>4, <1>5, <1>6 DEF OInv

\* The accept thread moves on without touching the table or a socket.
LEMMA AcceptorMoves ==
  ASSUME IInv, OInv, NEW w,
         proc' = [proc EXCEPT ![Acceptor] = w], UNCHANGED <<sock, client, conns>>,
         w.pc \notin {"RemoveClient", "CountDown", "DisConnectClient",
                      "ReleaseBuffer"},
         Admitting(w) => Admitting(proc[Acceptor])
                         /\ w.key = proc[Acceptor].key
  PROVE  OInv'
  <1>1. DOMAIN proc = Procs /\ Acceptor \in Procs
    BY DEF IInv, TypeOK, Procs
  <1>2. proc'[Acceptor] = w /\ \A q \in Procs : q # Acceptor => proc'[q] = proc[q]
    BY <1>1
  <1>3. \A q \in Procs : Removing(proc'[q]) =>
            Removing(proc[q]) /\ proc'[q].key = proc[q].key
    BY <1>2 DEF Removing
  <1>4. RemovesItsOwn'
    BY <1>3 DEF OInv, RemovesItsOwn
  <1>5. AdmitsFresh' /\ AcceptorRemovesNone'
    BY <1>2, <1>3 DEF OInv, AdmitsFresh, AcceptorRemovesNone
  <1>6. RegisteredIsOpen'
    BY DEF OInv, RegisteredIsOpen
  <1> QED BY <1>4, <1>5, <1>6 DEF OInv

\* A pool thread closes the socket of the client it took out, and no other's.
LEMMA PoolKeepsOpen ==
  ASSUME IInv, CInv, OInv, NEW t \in Threads, IOCPWorkerThread(t)
  PROVE  OInv'
  <1> DEFINE w == proc[t]
  <1>1. /\ t \in Procs /\ t # Acceptor /\ Acceptor \in Procs
        /\ w \in Work /\ DOMAIN proc = Procs
        /\ sock \in [Handles -> Conns \cup {NoConn}]
        /\ client \in [Handles -> Conns \cup {NoConn}]
    BY ConstantsAssumption DEF IInv, TypeOK, Procs
  <1>2. Return(w).pc \in PoolLabels
    BY <1>1, ReturnTo
  <1>3. CASE GetQueuedCompletionStatus(t) \/ Handler(t)
    <2>1. PICK v : Become(t, v) /\ v.pc \in PoolLabels
      BY <1>3, HandlerPlain DEF Plain
    <2>2. UNCHANGED <<sock, client, conns>>
      BY <1>3 DEF GetQueuedCompletionStatus, Handler, ProcessIOMessage,
                  OnInitialize, OnRead, OnReadCompletedZero, OnReadCompleted,
                  AsyncSend, OnWrite, OnWriteCompleted
    <2> QED BY <2>1, <2>2, PoolMoves DEF Become, Removing, PoolLabels
  <1>4. CASE RemoveClient(t) /\ client[w.key] = NoConn
    <2>1. Become(t, Return(w)) /\ UNCHANGED <<sock, client, conns>>
      BY <1>4 DEF RemoveClient
    <2> QED BY <1>2, <2>1, PoolMoves DEF Become, Removing, PoolLabels
  <1>5. CASE RemoveClient(t) /\ client[w.key] # NoConn
    <2> DEFINE v == [w EXCEPT !.pc = "CountDown"]
    <2>1. w.pc = "RemoveClient" /\ v.pc = "CountDown" /\ v.key = w.key
      BY <1>1, <1>5 DEF RemoveClient, Work
    <2>2. /\ proc' = [proc EXCEPT ![t] = v] /\ sock' = sock /\ conns' = conns
          /\ client' = [client EXCEPT ![w.key] = NoConn]
      BY <1>5 DEF RemoveClient, Become
    <2>3. w.key \in Handles
      BY <1>1, <2>1 DEF IInv, WorkOK
    <2> HIDE DEF v
    <2>4. proc'[t] = v /\ \A q \in Procs : q # t => proc'[q] = proc[q]
      BY <1>1, <2>2
    <2>5. \A h \in Handles : client[h] = NoConn => client'[h] = NoConn
      BY <1>1, <2>2
    <2>6. client'[w.key] = NoConn /\ sock[w.key] # NoConn
      BY <1>1, <1>5, <2>2, <2>3 DEF OInv, RegisteredIsOpen
    <2>7. \A q \in Procs : Removing(proc[q]) => proc[q].key # w.key
      BY <1>5 DEF OInv, RemovesItsOwn
    <2>8. Removing(v) /\ ~ Removing(w)
      BY <2>1 DEF Removing
    <2>9. \A q \in Procs : Removing(proc[q]) => proc[q].key \in Handles
      BY DEF IInv, WorkOK, Removing
    <2>10. RegisteredIsOpen'
      BY <1>1, <2>2 DEF OInv, RegisteredIsOpen
    <2>11. RemovesItsOwn'
      <3> SUFFICES ASSUME NEW p \in Procs, Removing(proc'[p])
                   PROVE  /\ client'[proc'[p].key] = NoConn
                          /\ sock'[proc'[p].key] # NoConn
                          /\ \A q \in Procs :
                                Removing(proc'[q]) /\ proc'[q].key = proc'[p].key
                                    => q = p
        BY DEF RemovesItsOwn
      <3>1. CASE p = t
        BY <2>1, <2>2, <2>4, <2>6, <2>7, <3>1
      <3>2. CASE p # t
        <4>1. proc'[p] = proc[p] /\ Removing(proc[p])
          BY <2>4, <3>2
        <4> QED BY <2>1, <2>2, <2>4, <2>5, <2>7, <2>9, <3>2, <4>1
                DEF OInv, RemovesItsOwn
      <3> QED BY <3>1, <3>2
    <2>12. AdmitsFresh'
      <3> SUFFICES ASSUME Admitting(proc'[Acceptor])
                   PROVE  /\ client'[proc'[Acceptor].key] = NoConn
                          /\ sock'[proc'[Acceptor].key] = conns'
                          /\ \A q \in Procs : Removing(proc'[q]) =>
                                 proc'[q].key # proc'[Acceptor].key
        BY DEF AdmitsFresh
      <3>1. proc'[Acceptor] = proc[Acceptor] /\ Admitting(proc[Acceptor])
        BY <1>1, <2>4
      <3>2. client[proc[Acceptor].key] = NoConn /\ proc[Acceptor].key # w.key
        BY <1>5, <3>1 DEF OInv, AdmitsFresh
      <3>3. proc[Acceptor].key \in Handles
        BY <1>1, <3>1 DEF IInv, WorkOK, Admitting
      <3> QED BY <2>1, <2>2, <2>4, <2>5, <3>1, <3>2, <3>3 DEF OInv, AdmitsFresh
    <2>13. AcceptorRemovesNone'
      BY <1>1, <2>4 DEF OInv, AcceptorRemovesNone
    <2> QED BY <2>10, <2>11, <2>12, <2>13 DEF OInv
  <1>6. CASE CountDown(t)
    <2> DEFINE v == [w EXCEPT !.pc = "DisConnectClient"]
    <2>1. w.pc = "CountDown" /\ v.pc = "DisConnectClient" /\ v.key = w.key
      BY <1>1, <1>6 DEF CountDown, Work
    <2>2. proc' = [proc EXCEPT ![t] = v] /\ UNCHANGED <<sock, client, conns>>
      BY <1>6 DEF CountDown, Become
    <2> HIDE DEF v
    <2> QED BY <2>1, <2>2, PoolMoves DEF Removing
  <1>7. CASE DisConnectClient(t)
    <2>1. /\ proc' = [proc EXCEPT ![t] = Return(w)]
          /\ sock' = [sock EXCEPT ![w.key] = NoConn]
          /\ client' = client /\ conns' = conns
      BY <1>7 DEF DisConnectClient, Become
    <2>2. w.key \in Handles /\ Removing(w)
      BY <1>1, <1>7 DEF DisConnectClient, IInv, WorkOK, Removing
    <2>3. proc'[t] = Return(w) /\ \A q \in Procs : q # t => proc'[q] = proc[q]
      BY <1>1, <2>1
    <2>4. ~ Removing(proc'[t])
      BY <1>2, <2>3 DEF Removing, PoolLabels
    <2>5. \A q \in Procs : Removing(proc'[q]) =>
              /\ q # t /\ proc'[q] = proc[q] /\ Removing(proc[q])
              /\ proc[q].key # w.key
      BY <1>1, <2>2, <2>3, <2>4 DEF OInv, RemovesItsOwn
    <2>6. \A q \in Procs : Removing(proc[q]) => proc[q].key \in Handles
      BY DEF IInv, WorkOK, Removing
    <2>7. \A h \in Handles : h # w.key => sock'[h] = sock[h]
      BY <1>1, <2>1
    <2>8. client[w.key] = NoConn
      BY <1>1, <2>2 DEF OInv, RemovesItsOwn
    <2>9. RegisteredIsOpen'
      BY <2>1, <2>7, <2>8 DEF OInv, RegisteredIsOpen
    <2>10. RemovesItsOwn'
      BY <2>1, <2>5, <2>6, <2>7 DEF OInv, RemovesItsOwn
    <2>11. AdmitsFresh'
      <3> SUFFICES ASSUME Admitting(proc'[Acceptor])
                   PROVE  /\ client'[proc'[Acceptor].key] = NoConn
                          /\ sock'[proc'[Acceptor].key] = conns'
                          /\ \A q \in Procs : Removing(proc'[q]) =>
                                 proc'[q].key # proc'[Acceptor].key
        BY DEF AdmitsFresh
      <3>1. proc'[Acceptor] = proc[Acceptor] /\ Admitting(proc[Acceptor])
        BY <1>1, <2>3
      <3>2. proc[Acceptor].key # w.key /\ proc[Acceptor].key \in Handles
        BY <1>1, <2>2, <3>1 DEF OInv, AdmitsFresh, IInv, WorkOK, Admitting
      <3> QED BY <2>1, <2>5, <2>7, <3>1, <3>2 DEF OInv, AdmitsFresh
    <2>12. AcceptorRemovesNone'
      BY <1>1, <2>3 DEF OInv, AcceptorRemovesNone
    <2> QED BY <2>9, <2>10, <2>11, <2>12 DEF OInv
  <1>8. CASE ReleaseBuffer(t)
    <2>1. UNCHANGED <<sock, client, conns>>
      BY <1>8 DEF ReleaseBuffer
    <2>2. Become(t, Idle) \/ Become(t, Echo(w))
      BY <1>1, <1>8 DEF ReleaseBuffer, CInv, OnlyAcceptor, PoolOnly, Work
    <2>3. Idle.pc = "Idle" /\ Echo(w).pc \in {"Idle", "AsyncSend", "RemoveClient"}
      BY <1>1, EchoTo DEF Idle
    <2> QED BY <2>1, <2>2, <2>3, PoolMoves DEF Become, Removing
  <1> QED BY <1>3, <1>4, <1>5, <1>6, <1>7, <1>8 DEF IOCPWorkerThread, Removal

\* A connection is accepted on a handle nobody uses, and until its client is in
\* the table nobody else comes to use it.
LEMMA AcceptKeepsOpen ==
  ASSUME IInv, OInv, Accept
  PROVE  OInv'
  <1>1. /\ Acceptor \in Procs /\ DOMAIN proc = Procs
        /\ sock \in [Handles -> Conns \cup {NoConn}]
        /\ conns \in Nat /\ conns' = conns + 1 /\ client' = client
    BY ConstantsAssumption DEF IInv, TypeOK, Procs, Accept
  <1>2. PICK h \in Handles :
          /\ sock[h] = NoConn /\ sock' = [sock EXCEPT ![h] = conns']
          /\ proc' = [proc EXCEPT ![Acceptor] =
                         [Idle EXCEPT !.pc = "IsAccept", !.key = h]]
    BY DEF Accept, Become
  <1> DEFINE v == [Idle EXCEPT !.pc = "IsAccept", !.key = h]
  <1>3. v.pc = "IsAccept" /\ v.key = h
    BY DEF Idle
  <1> HIDE DEF v
  <1>4. proc'[Acceptor] = v
        /\ \A q \in Procs : q # Acceptor => proc'[q] = proc[q]
    BY <1>1, <1>2 DEF v
  <1>5. \A q \in Procs : Removing(proc'[q]) =>
            /\ proc'[q] = proc[q] /\ Removing(proc[q])
            /\ proc[q].key \in Handles /\ proc[q].key # h
    BY <1>2, <1>3, <1>4
       DEF Removing, OInv, RemovesItsOwn, IInv, WorkOK
  <1>6. /\ \A k \in Handles : k # h => sock'[k] = sock[k]
        /\ sock'[h] = conns'
    BY <1>1, <1>2
  <1>7. client[h] = NoConn
    BY <1>2 DEF OInv, RegisteredIsOpen
  <1>8. RegisteredIsOpen'
    BY <1>1, <1>6, <1>7 DEF OInv, RegisteredIsOpen
  <1>9. RemovesItsOwn'
    BY <1>1, <1>5, <1>6 DEF OInv, RemovesItsOwn
  <1>10. AdmitsFresh' /\ AcceptorRemovesNone'
    BY <1>1, <1>3, <1>4, <1>5, <1>6, <1>7 DEF AdmitsFresh, AcceptorRemovesNone
  <1> QED BY <1>8, <1>9, <1>10 DEF OInv

\* Adding a client under its own open handle, or closing a handle without one.
LEMMA AdmissionKeepsOpen ==
  ASSUME IInv, OInv, "Associate" \notin FailSites,
         AssociateIncomingClientSocket
  PROVE  OInv'
  <1> DEFINE a == proc[Acceptor]
  <1>1. /\ Acceptor \in Procs /\ DOMAIN proc = Procs /\ a \in Work
        /\ sock \in [Handles -> Conns \cup {NoConn}]
        /\ client \in [Handles -> Conns \cup {NoConn}]
    BY DEF IInv, TypeOK, Procs
  <1>2. ~ Removal(Acceptor)
    BY DEF Removal, RemoveClient, CountDown, DisConnectClient, ReleaseBuffer,
           OInv, AcceptorRemovesNone
  <1>3. \A l : [a EXCEPT !.pc = l].pc = l /\ [a EXCEPT !.pc = l].key = a.key
    BY <1>1 DEF Work
  <1>4. CASE IsAccept
    <2>1. PICK l \in {"AddClient", "RejectClientConnect"} :
            Become(Acceptor, [a EXCEPT !.pc = l])
      BY <1>4 DEF IsAccept
    <2>2. UNCHANGED <<sock, client, conns>> /\ a.pc = "IsAccept"
      BY <1>4 DEF IsAccept
    <2> QED BY <1>3, <2>1, <2>2, AcceptorMoves DEF Become, Admitting
  <1>5. CASE AddClient /\ client[a.key] # NoConn
    <2>1. Become(Acceptor, [a EXCEPT !.pc = "RejectClientConnect"])
          /\ UNCHANGED <<sock, client, conns>> /\ a.pc = "AddClient"
      BY <1>5 DEF AddClient
    <2> QED BY <1>3, <2>1, AcceptorMoves DEF Become, Admitting
  <1>6. CASE AddClient /\ client[a.key] = NoConn
    <2> DEFINE v == [a EXCEPT !.pc = "CountUp"]
    <2>1. a.pc = "AddClient" /\ v.pc = "CountUp"
      BY <1>3, <1>6 DEF AddClient
    <2>2. /\ proc' = [proc EXCEPT ![Acceptor] = v]
          /\ client' = [client EXCEPT ![a.key] = conns]
          /\ sock' = sock /\ conns' = conns
      BY <1>6 DEF AddClient, Become
    <2> HIDE DEF v
    <2>3. a.key \in Handles
      BY <1>1, <2>1 DEF IInv, WorkOK
    <2>4. proc'[Acceptor] = v
          /\ \A q \in Procs : q # Acceptor => proc'[q] = proc[q]
      BY <1>1, <2>2
    <2>5. /\ client'[a.key] = sock[a.key]
          /\ \A k \in Handles : k # a.key => client'[k] = client[k]
      BY <1>1, <2>1, <2>2, <2>3 DEF OInv, AdmitsFresh, Admitting
    <2>6. \A q \in Procs : Removing(proc'[q]) =>
              /\ proc'[q] = proc[q] /\ Removing(proc[q])
              /\ proc[q].key \in Handles /\ proc[q].key # a.key
      BY <2>1, <2>4 DEF Removing, OInv, AdmitsFresh, Admitting, IInv, WorkOK
    <2>7. RegisteredIsOpen'
      BY <2>2, <2>5 DEF OInv, RegisteredIsOpen
    <2>8. RemovesItsOwn'
      BY <2>2, <2>5, <2>6 DEF OInv, RemovesItsOwn
    <2>9. AdmitsFresh' /\ AcceptorRemovesNone'
      BY <2>1, <2>4 DEF AdmitsFresh, AcceptorRemovesNone, Admitting
    <2> QED BY <2>7, <2>8, <2>9 DEF OInv
  <1>7. CASE CountUp
    <2>1. Become(Acceptor, [a EXCEPT !.pc = "Associate"])
          /\ UNCHANGED <<sock, client, conns>>
      BY <1>7 DEF CountUp
    <2> QED BY <1>3, <2>1, AcceptorMoves DEF Become, Admitting
  <1>8. CASE Associate
    <2>1. UNCHANGED <<sock, client, conns>>
      BY <1>8 DEF Associate
    <2>2. Become(Acceptor, [a EXCEPT !.pc = "Crashed"]) \/ Become(Acceptor, Idle)
      BY <1>8 DEF Associate
    <2>3. Idle.pc = "Idle"
      BY DEF Idle
    <2> QED BY <1>3, <2>1, <2>2, <2>3, AcceptorMoves DEF Become, Admitting
  <1>9. CASE RejectClientConnect
    <2>1. /\ proc' = [proc EXCEPT ![Acceptor] = Idle]
          /\ sock' = [sock EXCEPT ![a.key] = NoConn]
          /\ client' = client /\ Admitting(a)
      BY <1>9 DEF RejectClientConnect, Become, Admitting
    <2>2. Idle.pc = "Idle"
      BY DEF Idle
    <2>3. proc'[Acceptor] = Idle
          /\ \A q \in Procs : q # Acceptor => proc'[q] = proc[q]
      BY <1>1, <2>1
    <2>4. \A q \in Procs : Removing(proc'[q]) =>
              /\ proc'[q] = proc[q] /\ Removing(proc[q])
              /\ proc[q].key \in Handles /\ proc[q].key # a.key
      BY <2>1, <2>2, <2>3 DEF Removing, OInv, AdmitsFresh, IInv, WorkOK
    <2>5. \A k \in Handles : k # a.key => sock'[k] = sock[k]
      BY <1>1, <2>1
    <2>6. RegisteredIsOpen'
      BY <2>1, <2>5 DEF OInv, RegisteredIsOpen, AdmitsFresh
    <2>7. RemovesItsOwn'
      BY <2>1, <2>4, <2>5 DEF OInv, RemovesItsOwn
    <2>8. AdmitsFresh' /\ AcceptorRemovesNone'
      BY <2>2, <2>3 DEF AdmitsFresh, AcceptorRemovesNone, Admitting
    <2> QED BY <2>6, <2>7, <2>8 DEF OInv
  <1> QED BY <1>2, <1>4, <1>5, <1>6, <1>7, <1>8, <1>9
          DEF AssociateIncomingClientSocket

\* OInv under the conditions of the theorem below.
LEMMA OInvNext ==
  ASSUME MaxExpiries = 0, "Associate" \notin FailSites
  PROVE  IInv /\ CInv /\ OInv /\ [Next]_vars => OInv'
  <1> SUFFICES ASSUME IInv, CInv, OInv, [Next]_vars PROVE OInv'
    OBVIOUS
  <1>1. ASSUME NEW t \in Threads, IOCPWorkerThread(t) PROVE OInv'
    BY <1>1, PoolKeepsOpen
  <1>2. CASE Accept
    BY <1>2, AcceptKeepsOpen
  <1>3. CASE AssociateIncomingClientSocket
    BY <1>3, AdmissionKeepsOpen
  <1>4. CASE System \/ UNCHANGED vars
    <2>1. \A h \in Handles : ~ Vistor(h)
      BY DEF Vistor, IInv, TypeOK
    <2>2. UNCHANGED <<sock, client, conns, proc>>
      BY <1>4, <2>1 DEF System, Aborted, Finished, Complete, vars
    <2> QED BY <2>2 DEF OInv, RegisteredIsOpen, RemovesItsOwn, AdmitsFresh,
                        AcceptorRemovesNone
  <1> QED BY <1>1, <1>2, <1>3, <1>4 DEF Next

LEMMA OInvInit == Init => OInv
  BY DEF Init, OInv, RegisteredIsOpen, RemovesItsOwn, AdmitsFresh,
         AcceptorRemovesNone, Removing, Admitting, Idle, Procs

\* As long as no client expires and OP_IOInitialize can be posted, nobody ever
\* closes the socket of a registered client, although handles are reissued and
\* any number of threads find the same client dead and remove it by its handle.
THEOREM SocketsStayOpen ==
  ASSUME MaxExpiries = 0, "Associate" \notin FailSites
  PROVE  Spec => []RegisteredIsOpen
  <1>1. OInv => RegisteredIsOpen
    BY DEF OInv
  <1>2. IInv /\ CInv /\ OInv /\ [Next]_vars => OInv'
    BY OInvNext
  <1> QED BY <1>1, <1>2, InitOK, NextOK, CInvInit, CInvNext, AcceptedNext,
             OInvInit, PTL DEF Spec

-----------------------------------------------------------------------------
(* A buffer handed out has one owner, and a registered client has a read   *)
(* under way or somebody who sees to it.                                   *)

\* Only a failing DoRead sets after to AsyncSend, to echo on with the buffer
\* it has released: without that failure every release is a thread's last act.
\* And bResult is true until the parse.
ReleasesLast(w) ==
    /\ w.after # "AsyncSend"
    /\ w.pc \in {"ProcessIOMessage", "Dispatch"} => w.ok

XInv == ExclusiveOwner /\ \A p \in Procs : ReleasesLast(proc[p])

LEMMA Kinds ==
  ASSUME IInv
  PROVE  /\ proc \in [Procs -> Work] /\ DOMAIN proc = Procs
         /\ \A p \in Procs : proc[p] \in Work /\ WorkOK(proc[p])
         /\ \A p \in Procs : Owes(p) => proc[p].buf \in Buffers
         /\ port \in Seq(Completion) /\ kernel \in SUBSET Overlapped
         /\ \A t \in Threads : t \in Procs /\ t # Acceptor
         /\ Acceptor \in Procs
  <1>1. proc \in [Procs -> Work] /\ \A p \in Procs : WorkOK(proc[p])
    BY DEF IInv, TypeOK
  <1>2. \A p \in Procs : Owes(p) => proc[p].buf \in Buffers
    BY <1>1 DEF Owes, OwesIn, Work
  <1> QED BY <1>1, <1>2, ConstantsAssumption DEF IInv, TypeOK, Procs

\* The completions before and after a post.
LEMMA Appended ==
  ASSUME NEW s \in Seq(Completion), NEW e \in Completion
  PROVE  /\ DOMAIN Append(s, e) = DOMAIN s \cup {Len(s) + 1}
         /\ Len(s) + 1 \notin DOMAIN s
         /\ Append(s, e)[Len(s) + 1] = e
         /\ \A i \in DOMAIN s : Append(s, e)[i] = s[i]
  OBVIOUS

\* The completions left when the oldest is taken are those from the second on.
LEMMA Taken ==
  ASSUME NEW s \in Seq(Completion), s # <<>>
  PROVE  /\ Head(s) = s[1] /\ 1 \in DOMAIN s
         /\ \A i \in DOMAIN Tail(s) : /\ i \in Nat /\ i + 1 \in DOMAIN s
                                      /\ i + 1 # 1 /\ Tail(s)[i] = s[i + 1]
         /\ \A j \in DOMAIN s \ {1} : /\ j \in Nat /\ j - 1 \in DOMAIN Tail(s)
                                      /\ Tail(s)[j - 1] = s[j]
  <1>1. /\ DOMAIN s = 1 .. Len(s) /\ Len(s) \in Nat \ {0} /\ Head(s) = s[1]
        /\ DOMAIN Tail(s) = 1 .. Len(s) - 1
    OBVIOUS
  <1>2. \A i \in 1 .. Len(s) - 1 : Tail(s)[i] = s[i + 1]
    OBVIOUS
  <1>3. \A j \in 2 .. Len(s) : j - 1 \in 1 .. Len(s) - 1 /\ (j - 1) + 1 = j
    BY <1>1
  <1>4. \A j \in DOMAIN s \ {1} : j \in 2 .. Len(s)
    BY <1>1
  <1> QED BY <1>1, <1>2, <1>3, <1>4

-----------------------------------------------------------------------------
(* What a step may do to the owners of the buffers. *)

\* What a thread still owes after its step it owed before.
Yields(p, w) == OwesIn(w) => Owes(p) /\ w.buf = proc[p].buf

LEMMA Yielding ==
  ASSUME IInv, NEW p \in Procs, NEW w, Become(p, w), Yields(p, w)
  PROVE  /\ \A q \in Procs : Owes(q)' => Owes(q) /\ proc'[q].buf = proc[q].buf
         /\ (Owes(p)' <=> OwesIn(w)) /\ proc'[p] = w
         /\ \A q \in Procs : q # p => proc'[q] = proc[q]
  BY Kinds DEF Become, Yields, Owes

\* No buffer changes hands, but a thread may give its own up.
LEMMA OwnKept ==
  ASSUME IInv, ExclusiveOwner, NEW p \in Procs, NEW w, Become(p, w),
         Yields(p, w), UNCHANGED <<port, kernel, registered>>
  PROVE  ExclusiveOwner'
  <1>1. \A q \in Procs : Owes(q)' => Owes(q) /\ proc'[q].buf = proc[q].buf
    BY Yielding
  <1>2. \A b : InKernel(b)' <=> InKernel(b)
    BY DEF InKernel
  <1> QED BY <1>1, <1>2 DEF ExclusiveOwner

\* A buffer nobody else has is posted.
LEMMA OwnPosted ==
  ASSUME IInv, ExclusiveOwner, NEW p \in Procs, NEW w, Become(p, w),
         Yields(p, w), NEW e \in Completion, port' = Append(port, e),
         kernel' = kernel, registered \subseteq registered',
         e.buf \in registered', ~ OnPort(e.buf), ~ InKernel(e.buf),
         OwesIn(w) => w.buf # e.buf,
         \A q \in Procs : q # p /\ Owes(q) => proc[q].buf # e.buf
  PROVE  ExclusiveOwner'
  <1>1. \A q \in Procs : Owes(q)' => Owes(q) /\ proc'[q].buf = proc[q].buf
    BY Yielding
  <1>2. \A b : InKernel(b)' <=> InKernel(b)
    BY DEF InKernel
  <1>3. \A q \in Procs : Owes(q)' => proc'[q].buf # e.buf
    BY Yielding DEF Owes
  <1>4. /\ DOMAIN port' = DOMAIN port \cup {Len(port) + 1}
        /\ Len(port) + 1 \notin DOMAIN port /\ port'[Len(port) + 1] = e
        /\ \A i \in DOMAIN port : port'[i] = port[i] /\ port[i].buf # e.buf
    BY Kinds, Appended DEF OnPort
  <1>5. \A i \in DOMAIN port' :
          /\ port'[i].buf \in registered'
          /\ \A j \in DOMAIN port' : port'[j].buf = port'[i].buf => j = i
          /\ \A m \in kernel' : m.buf # port'[i].buf
          /\ \A q \in Procs : Owes(q)' => proc'[q].buf # port'[i].buf
    BY <1>1, <1>2, <1>3, <1>4 DEF ExclusiveOwner, InKernel
  <1>6. /\ \A k \in kernel' :
            /\ k.buf \in registered'
            /\ \A m \in kernel' : m.buf = k.buf => m = k
            /\ \A q \in Procs : Owes(q)' => proc'[q].buf # k.buf
        /\ \A q \in Procs : Owes(q)' =>
            /\ proc'[q].buf \in registered'
            /\ \A r \in Procs : Owes(r)' /\ proc'[r].buf = proc'[q].buf => r = q
    BY <1>1 DEF ExclusiveOwner
  <1> QED BY <1>5, <1>6 DEF ExclusiveOwner, InKernel

\* A thread hands its buffer to the kernel.
LEMMA OwnStarted ==
  ASSUME IInv, ExclusiveOwner, NEW p \in Procs, NEW w, Become(p, w),
         ~ OwesIn(w), Owes(p), NEW k, k.buf = proc[p].buf,
         kernel' = kernel \cup {k}, UNCHANGED <<port, registered>>
  PROVE  ExclusiveOwner'
  <1>1. \A q \in Procs : Owes(q)' => /\ Owes(q) /\ proc'[q].buf = proc[q].buf
                                     /\ proc'[q].buf # k.buf
    BY Yielding DEF Yields, ExclusiveOwner
  <1>2. ~ InKernel(k.buf) /\ ~ OnPort(k.buf) /\ k.buf \in registered
    BY DEF ExclusiveOwner, InKernel, OnPort
  <1>3. \A b : InKernel(b)' => InKernel(b) \/ b = k.buf
    BY DEF InKernel
  <1>4. \A i \in DOMAIN port' :
          /\ port'[i].buf \in registered'
          /\ \A j \in DOMAIN port' : port'[j].buf = port'[i].buf => j = i
          /\ \A m \in kernel' : m.buf # port'[i].buf
          /\ \A q \in Procs : Owes(q)' => proc'[q].buf # port'[i].buf
    <2> SUFFICES ASSUME NEW i \in DOMAIN port
                 PROVE  /\ port[i].buf \in registered
                        /\ \A j \in DOMAIN port : port[j].buf = port[i].buf => j = i
                        /\ \A m \in kernel' : m.buf # port[i].buf
                        /\ \A q \in Procs : Owes(q)' => proc'[q].buf # port[i].buf
      OBVIOUS
    <2>1. port[i].buf # k.buf
      BY <1>2 DEF OnPort
    <2> QED BY <1>1, <2>1 DEF ExclusiveOwner, InKernel
  <1>5. \A m \in kernel' :
          /\ m.buf \in registered'
          /\ \A n \in kernel' : n.buf = m.buf => n = m
          /\ \A q \in Procs : Owes(q)' => proc'[q].buf # m.buf
    BY <1>1, <1>2 DEF ExclusiveOwner, InKernel
  <1>6. \A q \in Procs : Owes(q)' =>
          /\ proc'[q].buf \in registered'
          /\ \A r \in Procs : Owes(r)' /\ proc'[r].buf = proc'[q].buf => r = q
    BY <1>1 DEF ExclusiveOwner
  <1> QED BY <1>4, <1>5, <1>6 DEF ExclusiveOwner, InKernel

\* A thread takes the oldest completion's buffer off the port.
LEMMA OwnTaken ==
  ASSUME IInv, ExclusiveOwner, NEW p \in Procs, NEW w, Become(p, w),
         ~ Owes(p), port # <<>>, port' = Tail(port), w.buf = Head(port).buf,
         UNCHANGED <<kernel, registered>>
  PROVE  ExclusiveOwner'
  <1>1. proc'[p] = w /\ \A q \in Procs : q # p => proc'[q] = proc[q]
    BY Kinds DEF Become
  <1>2. /\ Head(port) = port[1] /\ 1 \in DOMAIN port
        /\ \A i \in DOMAIN port' : /\ i \in Nat /\ i + 1 \in DOMAIN port
                                   /\ i + 1 # 1 /\ port'[i] = port[i + 1]
    BY Kinds, Taken
  <1>3. \A i, j \in DOMAIN port' : port'[i].buf = port'[j].buf => i = j
    <2> SUFFICES ASSUME NEW i \in DOMAIN port', NEW j \in DOMAIN port',
                        port'[i].buf = port'[j].buf
                 PROVE  i = j
      OBVIOUS
    <2>1. i + 1 = j + 1
      BY <1>2 DEF ExclusiveOwner
    <2> QED BY <1>2, <2>1
  <1>4. \A i \in DOMAIN port' : /\ port'[i].buf \in registered
                                /\ port'[i].buf # w.buf
                                /\ ~ InKernel(port'[i].buf)
                                /\ \A q \in Procs : Owes(q) =>
                                        proc[q].buf # port'[i].buf
    BY <1>2 DEF ExclusiveOwner
  <1>5. /\ w.buf \in registered /\ ~ InKernel(w.buf)
        /\ \A q \in Procs : Owes(q) => proc[q].buf # w.buf
    BY <1>2 DEF ExclusiveOwner
  <1>6. \A q \in Procs : Owes(q)' => \/ q = p /\ proc'[q].buf = w.buf
                                     \/ q # p /\ Owes(q) /\ proc'[q] = proc[q]
    BY <1>1 DEF Owes
  <1>7. \A b : InKernel(b)' <=> InKernel(b)
    BY DEF InKernel
  <1>8. \A i \in DOMAIN port' :
          /\ port'[i].buf \in registered'
          /\ \A j \in DOMAIN port' : port'[j].buf = port'[i].buf => j = i
          /\ \A m \in kernel' : m.buf # port'[i].buf
          /\ \A q \in Procs : Owes(q)' => proc'[q].buf # port'[i].buf
    BY <1>3, <1>4, <1>6, <1>7 DEF InKernel
  <1>9. \A k \in kernel' :
          /\ k.buf \in registered'
          /\ \A m \in kernel' : m.buf = k.buf => m = k
          /\ \A q \in Procs : Owes(q)' => proc'[q].buf # k.buf
    BY <1>5, <1>6 DEF ExclusiveOwner, InKernel
  <1>10. \A q \in Procs : Owes(q)' =>
          /\ proc'[q].buf \in registered'
          /\ \A r \in Procs : Owes(r)' /\ proc'[r].buf = proc'[q].buf => r = q
    BY <1>5, <1>6 DEF ExclusiveOwner
  <1> QED BY <1>8, <1>9, <1>10 DEF ExclusiveOwner, InKernel

\* A thread holds a buffer it has just been given.
LEMMA OwnHeld ==
  ASSUME IInv, ExclusiveOwner, NEW p \in Procs, NEW w, Become(p, w),
         ~ Owes(p), w.buf \notin registered,
         registered' = registered \cup {w.buf}, UNCHANGED <<port, kernel>>
  PROVE  ExclusiveOwner'
  <1>1. proc'[p] = w /\ \A q \in Procs : q # p => proc'[q] = proc[q]
    BY Kinds DEF Become
  <1>2. \A q \in Procs : Owes(q)' => \/ q = p /\ proc'[q].buf = w.buf
                                     \/ q # p /\ Owes(q) /\ proc'[q] = proc[q]
    BY <1>1 DEF Owes
  <1>3. \A b : InKernel(b)' <=> InKernel(b)
    BY DEF InKernel
  <1> QED BY <1>2, <1>3 DEF ExclusiveOwner

\* A thread releases its buffer, and nothing else refers to that.
LEMMA OwnReleased ==
  ASSUME IInv, ExclusiveOwner, NEW p \in Procs, NEW w, Become(p, w),
         ~ OwesIn(w), Owes(p), registered' = registered \ {proc[p].buf},
         UNCHANGED <<port, kernel>>
  PROVE  ExclusiveOwner'
  <1>1. \A q \in Procs : Owes(q)' => /\ Owes(q) /\ proc'[q].buf = proc[q].buf
                                     /\ proc'[q].buf # proc[p].buf
    BY Yielding DEF Yields, ExclusiveOwner
  <1>2. \A b : InKernel(b)' <=> InKernel(b)
    BY DEF InKernel
  <1> QED BY <1>1, <1>2 DEF ExclusiveOwner

\* The kernel hands a buffer to the port.
LEMMA OwnCompleted ==
  ASSUME IInv, ExclusiveOwner, NEW k \in kernel, NEW e \in Completion,
         e.buf = k.buf, kernel' = kernel \ {k}, port' = Append(port, e),
         UNCHANGED <<registered, proc>>
  PROVE  ExclusiveOwner'
  <1>1. \A q \in Procs : Owes(q)' <=> Owes(q)
    BY DEF Owes
  <1>2. \A b : InKernel(b)' => InKernel(b) /\ b # k.buf
    BY DEF InKernel, ExclusiveOwner
  <1>3. InKernel(k.buf)
    BY DEF InKernel
  <1>4. /\ DOMAIN port' = DOMAIN port \cup {Len(port) + 1}
        /\ Len(port) + 1 \notin DOMAIN port /\ port'[Len(port) + 1] = e
        /\ \A i \in DOMAIN port : port'[i] = port[i] /\ port[i].buf # e.buf
    BY <1>3, Kinds, Appended DEF ExclusiveOwner
  <1>5. \A i \in DOMAIN port' :
          /\ port'[i].buf \in registered'
          /\ \A j \in DOMAIN port' : port'[j].buf = port'[i].buf => j = i
          /\ \A m \in kernel' : m.buf # port'[i].buf
          /\ \A q \in Procs : Owes(q)' => proc'[q].buf # port'[i].buf
    BY <1>1, <1>2, <1>4 DEF ExclusiveOwner, InKernel
  <1> QED BY <1>1, <1>5 DEF ExclusiveOwner, InKernel
-----------------------------------------------------------------------------
(* The steps. *)

\* Without these two failures no buffer is released that has another owner.
LatePostsSucceed == "ReadFinished" \notin FailSites /\ "AsyncSend" \notin FailSites

\* A thread that leaves the parse with bResult true owes nothing any more.
LEMMA EchoOwes ==
  ASSUME NEW w \in Work
  PROVE  /\ ReleasesLast(Echo(w))
         /\ w.ok => ~ OwesIn(Echo(w))
  BY DEF Work, Echo, Remove, OwesIn, Idle, ReleasesLast

LEMMA ReturnLast ==
  ASSUME NEW w \in Work, w.after # "AsyncSend"
  PROVE  ReleasesLast(Return(w))
  BY EchoOwes DEF Work, Return, Remove, ReleasesLast

LEMMA RemoveLast ==
  ASSUME NEW w \in Work, w.after # "AsyncSend", NEW r
  PROVE  ReleasesLast(Remove(w, r))
  BY DEF Work, Remove, ReleasesLast

LEMMA LastKept ==
  ASSUME IInv, XInv, NEW p \in Procs, NEW w, Become(p, w), ReleasesLast(w)
  PROVE  \A q \in Procs : ReleasesLast(proc'[q])
  BY Kinds DEF Become, XInv

\* Steps that leave every buffer where it is.
LEMMA QuietOwners ==
  ASSUME IInv, XInv, NEW p \in Procs, NEW w, Become(p, w), ReleasesLast(w),
         Yields(p, w), UNCHANGED <<port, kernel, registered>>
  PROVE  XInv'
  BY OwnKept, LastKept DEF XInv

\* Steps that post the buffer the thread owns.
LEMMA PostOwners ==
  ASSUME IInv, XInv, NEW p \in Procs, NEW w, Become(p, w), ReleasesLast(w),
         Owes(p), ~ OwesIn(w), proc[p].key \in Handles,
         port' = Append(port, Posted(proc[p].buf, proc[p].key)),
         UNCHANGED <<kernel, registered>>
  PROVE  XInv'
  <1> DEFINE e == Posted(proc[p].buf, proc[p].key)
  <1>1. e \in Completion /\ e.buf = proc[p].buf
    BY Kinds DEF Posted, Completion, Results
  <1>2. /\ e.buf \in registered' /\ ~ OnPort(e.buf) /\ ~ InKernel(e.buf)
        /\ \A q \in Procs : q # p /\ Owes(q) => proc[q].buf # e.buf
    BY <1>1 DEF XInv, ExclusiveOwner, OnPort, InKernel
  <1> HIDE DEF e
  <1>3. ExclusiveOwner'
    BY <1>1, <1>2, OwnPosted DEF XInv, Yields, e
  <1> QED BY <1>3, LastKept DEF XInv

\* Steps that post a buffer just allocated.
LEMMA NewOwners ==
  ASSUME IInv, XInv, NEW p \in Procs, NEW w, Become(p, w), ReleasesLast(w),
         Yields(p, w), NEW b \in Buffers \ registered, NEW h \in Handles,
         registered' = registered \cup {b}, port' = Append(port, Posted(b, h)),
         kernel' = kernel
  PROVE  XInv'
  <1>1. Posted(b, h) \in Completion /\ Posted(b, h).buf = b
    BY DEF Posted, Completion, Results
  <1>2. /\ ~ OnPort(b) /\ ~ InKernel(b)
        /\ \A q \in Procs : Owes(q) => proc[q].buf # b
    BY DEF XInv, ExclusiveOwner, OnPort, InKernel
  <1>3. OwesIn(w) => w.buf # b
    BY <1>2 DEF Yields
  <1>4. ExclusiveOwner'
    BY <1>1, <1>2, <1>3, OwnPosted DEF XInv
  <1> QED BY <1>4, LastKept DEF XInv

LEMMA DequeueOwners ==
  ASSUME IInv, XInv, NEW t \in Threads, GetQueuedCompletionStatus(t)
  PROVE  XInv'
  <1> DEFINE e == Head(port)
             v == [Idle EXCEPT !.buf = e.buf, !.key = e.key, !.res = e.res]
             w == IF e.res = "error" THEN OnOperationCanceled(v)
                  ELSE OnOperationCompleted(v)
  <1>1. /\ t \in Procs /\ Become(t, w) /\ port # <<>> /\ port' = Tail(port)
        /\ ~ Owes(t) /\ UNCHANGED <<kernel, registered>>
    BY Kinds DEF GetQueuedCompletionStatus, Owes, OwesIn
  <1>2. w.buf = Head(port).buf /\ ReleasesLast(w)
    BY DEF OnOperationCanceled, OnOperationCompleted, Remove, Idle, ReleasesLast
  <1> HIDE DEF w
  <1>3. ExclusiveOwner'
    BY <1>1, <1>2, OwnTaken DEF XInv
  <1> QED BY <1>1, <1>2, <1>3, LastKept DEF XInv

LEMMA LookupOwners ==
  ASSUME IInv, XInv, NEW t \in Threads, ProcessIOMessage(t)
  PROVE  XInv'
  <1> DEFINE w == [proc[t] EXCEPT !.pc = IF client[proc[t].key] = NoConn
                                         THEN "ReleaseBuffer" ELSE "Dispatch"]
  <1>1. /\ t \in Procs /\ proc[t] \in Work /\ Become(t, w)
        /\ proc[t].pc = "ProcessIOMessage" /\ proc[t].buf \in Buffers
        /\ UNCHANGED <<port, kernel, registered>>
    BY Kinds DEF ProcessIOMessage, WorkOK
  <1>2. ReleasesLast(w) /\ Yields(t, w)
    BY <1>1, ConstantsAssumption
       DEF XInv, ReleasesLast, Work, Yields, Owes, OwesIn
  <1> HIDE DEF w
  <1> QED BY <1>1, <1>2, QuietOwners

\* What a thread that dispatches a completion may become.
LEMMA DispatchLast ==
  ASSUME IInv, XInv, NEW t \in Threads, proc[t].pc = "Dispatch"
  PROVE  /\ proc[t].ok /\ proc[t].after # "AsyncSend"
         /\ ReleasesLast(Idle) /\ ~ OwesIn(Idle)
         /\ \A r \in {"ReleaseBuffer", "RemoveClient"} :
              ReleasesLast(Remove(proc[t], r)) /\ Yields(t, Remove(proc[t], r))
  <1>1. /\ t \in Procs /\ proc[t] \in Work /\ Owes(t)
        /\ \A r \in {"ReleaseBuffer", "RemoveClient"} :
              Remove(proc[t], r).buf = proc[t].buf
    BY DispatchFacts
  <1>2. proc[t].ok /\ proc[t].after # "AsyncSend"
    BY <1>1 DEF XInv, ReleasesLast
  <1>3. ReleasesLast(Idle) /\ ~ OwesIn(Idle)
    BY IdleWork DEF ReleasesLast, Idle
  <1> QED BY <1>1, <1>2, <1>3, RemoveLast DEF Yields

LEMMA InitializeOwners ==
  ASSUME IInv, XInv, NEW t \in Threads, OnInitialize(t)
  PROVE  XInv'
  <1>1. proc[t].pc = "Dispatch" /\ UNCHANGED <<kernel, registered>>
    BY DEF OnInitialize, Dispatched
  <1>2. CASE port' = Append(port, Posted(proc[t].buf, proc[t].key))
             /\ Become(t, Idle)
    BY <1>1, <1>2, DispatchFacts, DispatchLast, PostOwners
  <1>3. CASE Become(t, Remove(proc[t], "ReleaseBuffer")) /\ port' = port
    BY <1>1, <1>3, DispatchFacts, DispatchLast, QuietOwners
  <1> QED BY <1>2, <1>3 DEF OnInitialize

LEMMA StartIOOwners ==
  ASSUME IInv, XInv, NEW t \in Threads, OnRead(t) \/ OnWrite(t)
  PROVE  XInv'
  <1>1. /\ proc[t].pc = "Dispatch" /\ StartIO(t)
        /\ UNCHANGED <<registered, port>>
    BY DEF OnRead, OnWrite, Dispatched
  <1>2. CASE Become(t, Remove(proc[t], "ReleaseBuffer")) /\ kernel' = kernel
    BY <1>1, <1>2, DispatchFacts, DispatchLast, QuietOwners
  <1>3. CASE /\ kernel' = kernel \cup {[buf |-> proc[t].buf,
                    key |-> proc[t].key, conn |-> sock[proc[t].key]]}
             /\ Become(t, Idle)
    <2> DEFINE k == [buf |-> proc[t].buf, key |-> proc[t].key,
                     conn |-> sock[proc[t].key]]
    <2>1. k.buf = proc[t].buf /\ kernel' = kernel \cup {k}
      BY <1>3
    <2> HIDE DEF k
    <2>2. ExclusiveOwner'
      BY <1>1, <1>3, <2>1, DispatchFacts, DispatchLast, OwnStarted DEF XInv
    <2> QED BY <1>1, <1>3, <2>2, DispatchFacts, DispatchLast, LastKept DEF XInv
  <1> QED BY <1>1, <1>2, <1>3 DEF StartIO

LEMMA ReadZeroOwners ==
  ASSUME IInv, XInv, NEW t \in Threads, OnReadCompletedZero(t)
  PROVE  XInv'
  BY DispatchFacts, DispatchLast, QuietOwners
     DEF OnReadCompletedZero, Dispatched

LEMMA ReadOwners ==
  ASSUME LatePostsSucceed, IInv, XInv, NEW t \in Threads, OnReadCompleted(t)
  PROVE  XInv'
  <1>1. PICK n \in 0 .. (MaxPackets - packets) :
          LET w == [proc[t] EXCEPT !.echoes = n]
              b == w.buf
          IN  /\ packets' = packets + n
              /\ \/ n > 0 /\ op' = [op EXCEPT ![b] = "OP_IORead"] /\ DoRead(t, w)
                 \/ op' = [op EXCEPT ![b] = "OP_IORead"] /\ ContinueAsyncRead(t, w)
                 \/ /\ Become(t, Echo([w EXCEPT !.ok = FALSE]))
                    /\ UNCHANGED <<op, port>>
    BY DEF OnReadCompleted
  <1> DEFINE w == [proc[t] EXCEPT !.echoes = n]
             bad == [w EXCEPT !.ok = FALSE]
             undone == [Remove(w, "AsyncSend") EXCEPT !.ok = FALSE]
  <1>2. /\ proc[t].pc = "Dispatch" /\ t \in Procs /\ proc[t] \in Work
        /\ proc[t].buf \in Buffers /\ proc[t].key \in Handles /\ Owes(t)
        /\ proc[t].ok /\ proc[t].after # "AsyncSend"
        /\ UNCHANGED <<kernel, registered>>
    BY DispatchFacts, DispatchLast DEF OnReadCompleted, Dispatched
  <1>3. n \in 0 .. MaxPackets
    BY <1>1, ConstantsAssumption DEF IInv, TypeOK
  <1>4. /\ w \in Work /\ w.buf = proc[t].buf /\ w.key = proc[t].key /\ w.ok
        /\ w.after # "AsyncSend"
        /\ bad \in Work /\ bad.buf = proc[t].buf /\ bad.key = proc[t].key
        /\ ~ bad.ok
    BY <1>2, <1>3 DEF Work
  <1>5. undone.buf = proc[t].buf /\ ReleasesLast(undone)
    BY <1>2, <1>4 DEF Work, Remove, ReleasesLast
  <1>6. CASE port' = Append(port, Posted(w.buf, w.key)) /\ Become(t, Echo(w))
    BY <1>2, <1>4, <1>6, EchoOwes, PostOwners
  <1>7. CASE Become(t, undone) /\ port' = port
    <2> HIDE DEF undone
    <2> QED BY <1>2, <1>5, <1>7, QuietOwners DEF Yields
  <1>8. CASE Become(t, Echo(bad)) /\ port' = port
    <2>1. Echo(bad).buf = proc[t].buf /\ ReleasesLast(Echo(bad))
      BY <1>2, <1>4, EchoOwes, EchoWork
    <2> QED BY <1>2, <1>8, <2>1, QuietOwners DEF Yields
  <1> QED BY <1>1, <1>6, <1>7, <1>8
          DEF DoRead, ContinueAsyncRead, LatePostsSucceed

LEMMA SendOwners ==
  ASSUME LatePostsSucceed, IInv, XInv, NEW t \in Threads, AsyncSend(t)
  PROVE  XInv'
  <1>1. PICK b \in Buffers \ registered :
          /\ registered' = registered \cup {b}
          /\ port' = Append(port, Posted(b, proc[t].key))
          /\ Become(t, Echo([proc[t] EXCEPT !.echoes = @ - 1]))
    BY DEF AsyncSend, LatePostsSucceed
  <1> DEFINE v == [proc[t] EXCEPT !.echoes = @ - 1]
  <1>2. /\ proc[t].pc = "AsyncSend" /\ t \in Procs /\ proc[t] \in Work
        /\ proc[t].buf \in Buffers /\ proc[t].key \in Handles
        /\ proc[t].echoes > 0 /\ kernel' = kernel
    BY Kinds DEF AsyncSend, WorkOK
  <1>3. /\ v \in Work /\ v.buf = proc[t].buf /\ v.key = proc[t].key
        /\ v.ok = proc[t].ok
    BY <1>2, ConstantsAssumption DEF Work
  <1>4. Yields(t, Echo(v)) /\ ReleasesLast(Echo(v))
    <2>1. ASSUME OwesIn(Echo(v)) PROVE ~ proc[t].ok /\ Echo(v).buf = proc[t].buf
      BY <1>2, <1>3, <2>1, EchoOwes, EchoWork
    <2>2. ~ proc[t].ok => Owes(t)
      BY <1>2, ConstantsAssumption DEF Owes, OwesIn
    <2> QED BY <1>3, <2>1, <2>2, EchoOwes DEF Yields
  <1> HIDE DEF v
  <1>5. Become(t, Echo(v))
    BY <1>1 DEF v
  <1> QED BY <1>1, <1>2, <1>4, <1>5, NewOwners

LEMMA WriteDoneOwners ==
  ASSUME IInv, XInv, NEW t \in Threads, OnWriteCompleted(t)
  PROVE  XInv'
  <1>1. proc[t].pc = "Dispatch" /\ UNCHANGED <<registered, kernel>>
    BY DEF OnWriteCompleted, Dispatched
  <1>2. CASE port' = Append(port, Posted(proc[t].buf, proc[t].key))
             /\ Become(t, Idle)
    BY <1>1, <1>2, DispatchFacts, DispatchLast, PostOwners
  <1>3. CASE Become(t, [proc[t] EXCEPT !.pc = "ReleaseBuffer"]) /\ port' = port
    <2> DEFINE v == [proc[t] EXCEPT !.pc = "ReleaseBuffer"]
    <2>1. /\ t \in Procs /\ proc[t] \in Work /\ Owes(t)
          /\ proc[t].after # "AsyncSend"
      BY <1>1, DispatchFacts, DispatchLast
    <2>2. v.buf = proc[t].buf /\ ReleasesLast(v)
      BY <2>1 DEF Work, ReleasesLast
    <2> QED BY <1>1, <1>3, <2>1, <2>2, QuietOwners DEF Yields
  <1>4. ASSUME NEW r \in {"ReleaseBuffer", "RemoveClient"},
               Become(t, Remove(proc[t], r)), port' = port
        PROVE  XInv'
    BY <1>1, <1>4, DispatchFacts, DispatchLast, QuietOwners
  <1> QED BY <1>2, <1>3, <1>4 DEF OnWriteCompleted

LEMMA RemovalOwners ==
  ASSUME IInv, XInv, NEW p \in Procs, Removal(p)
  PROVE  XInv'
  <1>1. /\ proc[p] \in Work /\ WorkOK(proc[p]) /\ Owes(p)
        /\ proc[p].buf \in Buffers /\ proc[p].key \in Handles
        /\ proc[p].after # "AsyncSend"
        /\ UNCHANGED <<port, kernel>>
    BY RemovalFacts
       DEF XInv, ReleasesLast, Removal, RemoveClient, CountDown,
           DisConnectClient, ReleaseBuffer
  <1>2. ASSUME NEW l \in {"CountDown", "DisConnectClient"},
               Become(p, [proc[p] EXCEPT !.pc = l]), registered' = registered
        PROVE  XInv'
    <2> DEFINE v == [proc[p] EXCEPT !.pc = l]
    <2>1. v.buf = proc[p].buf /\ ReleasesLast(v)
      BY <1>1 DEF Work, ReleasesLast
    <2> QED BY <1>1, <1>2, <2>1, QuietOwners DEF Yields
  <1>3. ASSUME Become(p, Return(proc[p])), registered' = registered PROVE XInv'
    BY <1>1, <1>3, ReturnWork, ReturnLast, QuietOwners DEF Yields
  <1>4. CASE ReleaseBuffer(p)
    <2> DEFINE v == [proc[p] EXCEPT !.pc = "RejectClientConnect"]
    <2>1. registered' = registered \ {proc[p].buf}
      BY <1>4 DEF ReleaseBuffer
    <2>2. Become(p, Idle) \/ Become(p, v)
      BY <1>1, <1>4 DEF ReleaseBuffer
    <2>3. ~ OwesIn(v) /\ ReleasesLast(v) /\ ~ OwesIn(Idle) /\ ReleasesLast(Idle)
      BY <1>1, IdleWork DEF Work, OwesIn, ReleasesLast, Idle
    <2> HIDE DEF v
    <2>4. ExclusiveOwner'
      BY <1>1, <2>1, <2>2, <2>3, OwnReleased DEF XInv
    <2> QED BY <2>2, <2>3, <2>4, LastKept DEF XInv
  <1> QED BY <1>2, <1>3, <1>4 DEF Removal, RemoveClient, CountDown, DisConnectClient

LEMMA AcceptorOwners ==
  ASSUME IInv, XInv,
         Accept \/ IsAccept \/ AddClient \/ CountUp \/ RejectClientConnect
  PROVE  XInv'
  <1>1. /\ Acceptor \in Procs /\ proc[Acceptor] \in Work
        /\ WorkOK(proc[Acceptor]) /\ ReleasesLast(proc[Acceptor])
        /\ UNCHANGED <<registered, port, kernel>>
    BY Kinds DEF XInv, Accept, IsAccept, AddClient, CountUp, RejectClientConnect
  <1>2. ASSUME NEW h \in Handles,
               Become(Acceptor, [Idle EXCEPT !.pc = "IsAccept", !.key = h])
        PROVE  XInv'
    <2> DEFINE v == [Idle EXCEPT !.pc = "IsAccept", !.key = h]
    <2>1. ~ OwesIn(v) /\ ReleasesLast(v)
      BY DEF Idle, OwesIn, ReleasesLast
    <2> HIDE DEF v
    <2>2. Become(Acceptor, v)
      BY <1>2 DEF v
    <2> QED BY <1>1, <2>1, <2>2, QuietOwners DEF Yields
  <1>3. ASSUME NEW l \in {"AddClient", "CountUp", "Associate",
                          "RejectClientConnect"},
               proc[Acceptor].pc \in {"IsAccept", "AddClient", "CountUp"},
               Become(Acceptor, [proc[Acceptor] EXCEPT !.pc = l])
        PROVE  XInv'
    <2> DEFINE v == [proc[Acceptor] EXCEPT !.pc = l]
    <2>1. ~ OwesIn(v) /\ ReleasesLast(v)
      BY <1>1, <1>3 DEF Work, WorkOK, OwesIn, ReleasesLast
    <2> HIDE DEF v
    <2>2. Become(Acceptor, v)
      BY <1>3 DEF v
    <2> QED BY <1>1, <2>1, <2>2, QuietOwners DEF Yields
  <1>4. ASSUME Become(Acceptor, Idle) PROVE XInv'
    <2>1. ~ OwesIn(Idle) /\ ReleasesLast(Idle)
      BY DEF Idle, OwesIn, ReleasesLast
    <2> QED BY <1>1, <1>4, <2>1, QuietOwners DEF Yields
  <1> QED BY <1>2, <1>3, <1>4
          DEF Accept, IsAccept, AddClient, CountUp, RejectClientConnect

LEMMA AssociateOwners ==
  ASSUME IInv, XInv, Associate
  PROVE  XInv'
  <1>1. /\ Acceptor \in Procs /\ proc[Acceptor] \in Work
        /\ ReleasesLast(proc[Acceptor]) /\ proc[Acceptor].pc = "Associate"
        /\ proc[Acceptor].key \in Handles /\ ~ Owes(Acceptor)
        /\ kernel' = kernel
    BY Kinds DEF XInv, Associate, WorkOK, Owes, OwesIn
  <1>2. CASE /\ Become(Acceptor, [proc[Acceptor] EXCEPT !.pc = "Crashed"])
             /\ UNCHANGED <<registered, op, port>>
    <2> DEFINE v == [proc[Acceptor] EXCEPT !.pc = "Crashed"]
    <2>1. ~ OwesIn(v) /\ ReleasesLast(v)
      BY <1>1 DEF Work, OwesIn, ReleasesLast
    <2> HIDE DEF v
    <2>2. Become(Acceptor, v)
      BY <1>2 DEF v
    <2> QED BY <1>1, <1>2, <2>1, <2>2, QuietOwners DEF Yields
  <1>3. ASSUME NEW b \in Buffers \ registered, registered' = registered \cup {b},
               port' = Append(port, Posted(b, proc[Acceptor].key)),
               Become(Acceptor, Idle)
        PROVE  XInv'
    <2>1. ~ OwesIn(Idle) /\ ReleasesLast(Idle)
      BY DEF Idle, OwesIn, ReleasesLast
    <2> QED BY <1>1, <1>3, <2>1, NewOwners DEF Yields
  <1>4. ASSUME NEW b \in Buffers \ registered, registered' = registered \cup {b},
               port' = port,
               Become(Acceptor, [Remove(proc[Acceptor], "ReleaseBuffer") EXCEPT
                                   !.buf = b, !.after = "RejectClientConnect"])
        PROVE  XInv'
    <2> DEFINE v == [Remove(proc[Acceptor], "ReleaseBuffer") EXCEPT
                         !.buf = b, !.after = "RejectClientConnect"]
    <2>1. v.buf = b /\ ReleasesLast(v)
      BY <1>1 DEF Work, Remove, ReleasesLast
    <2> HIDE DEF v
    <2>2. Become(Acceptor, v)
      BY <1>4 DEF v
    <2>3. ExclusiveOwner'
      BY <1>1, <1>4, <2>1, <2>2, OwnHeld DEF XInv
    <2> QED BY <1>1, <2>1, <2>2, <2>3, LastKept DEF XInv
  <1> QED BY <1>2, <1>3, <1>4 DEF Associate

LEMMA SystemOwners ==
  ASSUME IInv, XInv, System
  PROVE  XInv'
  <1>1. ASSUME NEW h \in Handles, Vistor(h) PROVE XInv'
    BY <1>1 DEF Vistor, XInv, ExclusiveOwner, InKernel, Owes
  <1>2. ASSUME NEW k \in kernel, NEW res \in {"some", "part", "zero", "error"},
               Complete(k, res)
        PROVE  XInv'
    <2> DEFINE e == [buf |-> k.buf, key |-> k.key, res |-> res]
    <2>1. e \in Completion /\ e.buf = k.buf
      BY <1>2, Kinds DEF Overlapped, Completion, Results
    <2>2. /\ port' = Append(port, e) /\ kernel' = kernel \ {k}
          /\ UNCHANGED <<registered, proc>>
      BY <1>2 DEF Complete
    <2> HIDE DEF e
    <2> QED BY <2>1, <2>2, OwnCompleted DEF XInv
  <1> QED BY <1>1, <1>2 DEF System, Aborted, Finished

-----------------------------------------------------------------------------

LEMMA XInvInit == Init => XInv
  BY IdleWork DEF Init, XInv, ExclusiveOwner, ReleasesLast, Owes, Idle

LEMMA XInvNext ==
  ASSUME LatePostsSucceed
  PROVE  IInv /\ XInv /\ [Next]_vars => XInv'
  <1> SUFFICES ASSUME IInv, XInv, [Next]_vars PROVE XInv'
    OBVIOUS
  <1>1. CASE UNCHANGED vars
    BY <1>1 DEF vars, XInv, ExclusiveOwner, InKernel, Owes
  <1>2. ASSUME NEW t \in Threads, IOCPWorkerThread(t) PROVE XInv'
    BY <1>2, Kinds, DequeueOwners, LookupOwners, InitializeOwners,
       StartIOOwners, ReadZeroOwners, ReadOwners, SendOwners, WriteDoneOwners,
       RemovalOwners
       DEF IOCPWorkerThread, Handler
  <1>3. CASE Accept \/ AssociateIncomingClientSocket
    BY <1>3, Kinds, AcceptorOwners, AssociateOwners, RemovalOwners
       DEF AssociateIncomingClientSocket
  <1> QED BY <1>1, <1>2, <1>3, SystemOwners DEF Next

\* A buffer is never released twice, never released while the port or the
\* kernel still refers to it, and no two operations share an OVERLAPPED,
\* whichever other posts fail, clients expire and handles are reissued, if
\* the posts of DoRead after a read and of AsyncSend succeed: DoRead releases
\* the buffer on failure and OnReadCompleted releases it again.
THEOREM BuffersHaveOneOwner ==
  ASSUME LatePostsSucceed
  PROVE  Spec => []ExclusiveOwner
  <1>1. Init => IInv /\ XInv
    BY InitOK, XInvInit
  <1>2. IInv /\ XInv /\ NoBufferLeak /\ [Next]_vars => (IInv /\ XInv /\ NoBufferLeak)'
    BY NextOK, XInvNext
  <1>3. XInv => ExclusiveOwner
    BY DEF XInv
  <1> QED BY <1>1, <1>2, <1>3, InitOK, PTL DEF Spec
-----------------------------------------------------------------------------
(* The read every client waits for. *)

PortFor(h) == \E i \in DOMAIN port :
    port[i].key = h /\ (op[port[i].buf] \in ReadOps \/ port[i].res = "error")
KernelFor(h) == \E k \in kernel : k.key = h /\ op[k.buf] \in ReadOps

\* A thread with work w sees to h: what AttendsTo says, place by place, and
\* without the threads that have seen to h already.
KeepsIn(w, h) ==
    /\ w.key = h
    /\ \/ w.pc \in {"ProcessIOMessage", "Dispatch"} /\ op[w.buf] \in ReadOps
       \/ w.pc \in {"RemoveClient", "CountUp", "Associate"}
       \/ w.pc \in {"CountDown", "DisConnectClient"} /\ w.ret # "ReleaseBuffer"
       \/ w.pc = "AsyncSend" /\ ~ w.ok

Keeps(p, h) == KeepsIn(proc[p], h)

NInv == \A h \in Clients :
            PortFor(h) \/ KernelFor(h) \/ \E p \in Procs : Keeps(p, h)

\* A step of thread p disturbs neither the port's reads, nor the kernel's, nor
\* the other threads': each of their buffers has its one owner.
LEMMA OthersKeep ==
  ASSUME IInv, XInv, NEW p \in Procs, NEW w, Become(p, w),
         \A b \in registered :
            op'[b] = op[b] \/ (Owes(p) /\ b = proc[p].buf),
         \A i \in DOMAIN port : i \in DOMAIN port' /\ port'[i] = port[i],
         kernel \subseteq kernel', NEW h
  PROVE  /\ PortFor(h) => PortFor(h)'
         /\ KernelFor(h) => KernelFor(h)'
         /\ \A q \in Procs : q # p /\ Keeps(q, h) => Keeps(q, h)'
  <1>1. ASSUME PortFor(h) PROVE PortFor(h)'
    <2>1. PICK i \in DOMAIN port : port[i].key = h
              /\ (op[port[i].buf] \in ReadOps \/ port[i].res = "error")
      BY <1>1 DEF PortFor
    <2>2. op'[port[i].buf] = op[port[i].buf]
      BY DEF XInv, ExclusiveOwner
    <2> QED BY <2>1, <2>2 DEF PortFor
  <1>2. ASSUME KernelFor(h) PROVE KernelFor(h)'
    <2>1. PICK k \in kernel : k.key = h /\ op[k.buf] \in ReadOps
      BY <1>2 DEF KernelFor
    <2>2. op'[k.buf] = op[k.buf]
      BY DEF XInv, ExclusiveOwner
    <2> QED BY <2>1, <2>2 DEF KernelFor
  <1>3. ASSUME NEW q \in Procs, q # p, Keeps(q, h) PROVE Keeps(q, h)'
    <2>1. proc'[q] = proc[q]
      BY <1>3, Kinds DEF Become
    <2>2. CASE proc[q].pc \in {"ProcessIOMessage", "Dispatch"}
      <3>1. Owes(q)
        BY <2>2, Kinds, ConstantsAssumption DEF Owes, OwesIn, WorkOK
      <3>2. op'[proc[q].buf] = op[proc[q].buf]
        BY <1>3, <3>1 DEF XInv, ExclusiveOwner
      <3> QED BY <1>3, <2>1, <3>2 DEF Keeps, KeepsIn
    <2>3. CASE proc[q].pc \notin {"ProcessIOMessage", "Dispatch"}
      BY <1>3, <2>1, <2>3 DEF Keeps, KeepsIn
    <2> QED BY <2>2, <2>3
  <1> QED BY <1>1, <1>2, <1>3

\* So it is enough that p goes on seeing to the client it works for.
LEMMA StillKept ==
  ASSUME IInv, XInv, NInv, NEW p \in Procs, NEW w, Become(p, w),
         \A b \in registered :
            op'[b] = op[b] \/ (Owes(p) /\ b = proc[p].buf),
         \A i \in DOMAIN port : i \in DOMAIN port' /\ port'[i] = port[i],
         kernel \subseteq kernel',
         \A h \in Clients' : \/ h \in Clients /\ ~ Keeps(p, h)
                             \/ PortFor(h)' \/ KernelFor(h)' \/ Keeps(p, h)'
  PROVE  NInv'
  <1> SUFFICES ASSUME NEW h \in Clients'
               PROVE  PortFor(h)' \/ KernelFor(h)' \/ \E q \in Procs : Keeps(q, h)'
    BY DEF NInv
  <1>1. CASE h \in Clients /\ ~ Keeps(p, h)
    BY <1>1, OthersKeep DEF NInv
  <1> QED BY <1>1

\* The completions on the port stay where they are when one is appended.
LEMMA PortStays ==
  ASSUME IInv, port' = port \/ \E e \in Completion : port' = Append(port, e)
  PROVE  \A i \in DOMAIN port : i \in DOMAIN port' /\ port'[i] = port[i]
  BY Kinds, Appended

\* Posting a read is seeing to the client.
LEMMA PostedRead ==
  ASSUME IInv, NEW b \in Buffers, NEW h \in Handles,
         op'[b] \in ReadOps, port' = Append(port, Posted(b, h))
  PROVE  PortFor(h)'
  <1>1. Posted(b, h) \in Completion /\ Posted(b, h).buf = b /\ Posted(b, h).key = h
    BY DEF Posted, Completion, Results
  <1>2. Len(port) + 1 \in DOMAIN port' /\ port'[Len(port) + 1] = Posted(b, h)
    BY <1>1, Kinds, Appended
  <1> QED BY <1>1, <1>2 DEF PortFor

\* Steps in which the table of clients stays as it is.
LEMMA KeptOn ==
  ASSUME IInv, XInv, NInv, NEW p \in Procs, NEW w, Become(p, w),
         client' = client,
         \A b \in registered :
            op'[b] = op[b] \/ (Owes(p) /\ b = proc[p].buf),
         port' = port \/ \E e \in Completion : port' = Append(port, e),
         kernel \subseteq kernel',
         \A h \in Clients : Keeps(p, h) =>
            PortFor(h)' \/ KernelFor(h)' \/ Keeps(p, h)'
  PROVE  NInv'
  <1>1. Clients' = Clients
    BY DEF Clients
  <1> QED BY <1>1, PortStays, StillKept

\* Where a thread is when it removes the client of its key.
LEMMA RemoveKeeps ==
  ASSUME NEW w \in Work, NEW r
  PROVE  Remove(w, r).key = w.key /\ Remove(w, r).pc = "RemoveClient"
  BY DEF Work, Remove

LEMMA EchoKeeps ==
  ASSUME NEW w \in Work, ~ w.ok
  PROVE  /\ Echo(w).key = w.key
         /\ \/ Echo(w).pc = "RemoveClient"
            \/ Echo(w).pc = "AsyncSend" /\ ~ Echo(w).ok
  BY DEF Work, Echo, Remove

LEMMA NowAt ==
  ASSUME IInv, NEW p \in Procs, NEW w, Become(p, w)
  PROVE  proc'[p] = w
  BY Kinds DEF Become

\* A thread that goes on to remove the client of its key.
LEMMA GoesToRemove ==
  ASSUME IInv, XInv, NInv, NEW p \in Procs, NEW w, Become(p, w),
         w.key = proc[p].key,
         w.pc = "RemoveClient" \/ (w.pc = "AsyncSend" /\ ~ w.ok),
         \A b \in registered :
            op'[b] = op[b] \/ (Owes(p) /\ b = proc[p].buf),
         port' = port \/ \E e \in Completion : port' = Append(port, e),
         UNCHANGED <<client, kernel>>
  PROVE  NInv'
  <1>1. \A h : Keeps(p, h) => Keeps(p, h)'
    BY NowAt DEF Keeps, KeepsIn
  <1> QED BY <1>1, KeptOn

\* A thread that had nobody to see to.
LEMMA NobodyToKeep ==
  ASSUME IInv, XInv, NInv, NEW p \in Procs, NEW w, Become(p, w),
         \A h \in Clients : ~ Keeps(p, h),
         \A b \in registered :
            op'[b] = op[b] \/ (Owes(p) /\ b = proc[p].buf),
         port' = port \/ \E e \in Completion : port' = Append(port, e),
         client' = client, kernel \subseteq kernel'
  PROVE  NInv'
  BY KeptOn

\* Setting the operation of the buffer a thread dispatches disturbs nobody.
LEMMA OpSet ==
  ASSUME IInv, NEW t \in Threads, proc[t].pc = "Dispatch", NEW o \in OpTypes,
         op' = [op EXCEPT ![proc[t].buf] = o]
  PROVE  /\ op'[proc[t].buf] = o
         /\ \A b \in registered :
              op'[b] = op[b] \/ (Owes(t) /\ b = proc[t].buf)
  BY DispatchFacts DEF IInv, TypeOK

LEMMA DequeueKeeps ==
  ASSUME IInv, XInv, NInv, NEW t \in Threads, GetQueuedCompletionStatus(t)
  PROVE  NInv'
  <1> DEFINE e == Head(port)
             v == [Idle EXCEPT !.buf = e.buf, !.key = e.key, !.res = e.res]
             w == IF e.res = "error" THEN OnOperationCanceled(v)
                  ELSE OnOperationCompleted(v)
  <1>1. /\ t \in Procs /\ Become(t, w) /\ port # <<>> /\ port' = Tail(port)
        /\ proc[t].pc = "Idle" /\ UNCHANGED <<kernel, op, client>>
    BY Kinds DEF GetQueuedCompletionStatus
  <1>2. /\ w.key = e.key /\ w.buf = e.buf
        /\ w.pc = IF e.res = "error" THEN "RemoveClient" ELSE "ProcessIOMessage"
    BY DEF OnOperationCanceled, OnOperationCompleted, Remove, Idle
  <1> HIDE DEF w
  <1>3. proc'[t] = w /\ \A q \in Procs : q # t => proc'[q] = proc[q]
    BY <1>1, Kinds DEF Become
  <1>4. /\ e = port[1]
        /\ \A j \in DOMAIN port \ {1} : /\ j - 1 \in DOMAIN port'
                                        /\ port'[j - 1] = port[j]
    BY <1>1, Kinds, Taken
  <1> HIDE DEF e
  <1> SUFFICES ASSUME NEW h \in Clients
               PROVE  PortFor(h)' \/ KernelFor(h)' \/ \E q \in Procs : Keeps(q, h)'
    BY <1>1 DEF NInv, Clients
  <1>5. CASE PortFor(h)
    <2>1. PICK i \in DOMAIN port : port[i].key = h
              /\ (op[port[i].buf] \in ReadOps \/ port[i].res = "error")
      BY <1>5 DEF PortFor
    <2>2. CASE i = 1
      <3>1. Keeps(t, h)'
        BY <1>1, <1>2, <1>3, <1>4, <2>1, <2>2 DEF Keeps, KeepsIn
      <3> QED BY <1>1, <3>1
    <2>3. CASE i # 1
      <3>1. i - 1 \in DOMAIN port' /\ port'[i - 1] = port[i]
        BY <1>4, <2>3
      <3> QED BY <1>1, <2>1, <3>1 DEF PortFor
    <2> QED BY <2>2, <2>3
  <1>6. CASE KernelFor(h)
    BY <1>1, <1>6 DEF KernelFor
  <1>7. CASE \E q \in Procs : Keeps(q, h)
    <2>1. PICK q \in Procs : Keeps(q, h)
      BY <1>7
    <2>2. q # t
      BY <1>1, <2>1 DEF Keeps, KeepsIn
    <2> QED BY <1>1, <1>3, <2>1, <2>2 DEF Keeps, KeepsIn
  <1> QED BY <1>5, <1>6, <1>7 DEF NInv

LEMMA LookupKeeps ==
  ASSUME IInv, XInv, NInv, NEW t \in Threads, ProcessIOMessage(t)
  PROVE  NInv'
  <1> DEFINE w == [proc[t] EXCEPT !.pc = IF client[proc[t].key] = NoConn
                                         THEN "ReleaseBuffer" ELSE "Dispatch"]
  <1>1. /\ t \in Procs /\ proc[t] \in Work /\ Become(t, w)
        /\ proc[t].pc = "ProcessIOMessage"
        /\ UNCHANGED <<op, port, kernel, client>>
    BY Kinds DEF ProcessIOMessage
  <1>2. \A h \in Clients : Keeps(t, h) => Keeps(t, h)'
    <2> SUFFICES ASSUME NEW h \in Clients, Keeps(t, h) PROVE Keeps(t, h)'
      OBVIOUS
    <2>1. proc[t].key = h /\ client[h] # NoConn
      BY DEF Keeps, KeepsIn, Clients
    <2>2. w.key = h /\ w.buf = proc[t].buf /\ w.pc = "Dispatch"
      BY <1>1, <2>1 DEF Work
    <2>3. proc'[t] = w
      BY <1>1, NowAt
    <2> QED BY <1>1, <2>2, <2>3 DEF Keeps, KeepsIn
  <1> QED BY <1>1, <1>2, KeptOn

LEMMA InitializeKeeps ==
  ASSUME IInv, XInv, NInv, NEW t \in Threads, OnInitialize(t)
  PROVE  NInv'
  <1>1. /\ proc[t].pc = "Dispatch" /\ op' = [op EXCEPT ![proc[t].buf] = "OP_IORead"]
        /\ UNCHANGED <<kernel, client>>
    BY DEF OnInitialize, Dispatched
  <1>2. /\ op'[proc[t].buf] = "OP_IORead"
        /\ \A b \in registered :
              op'[b] = op[b] \/ (Owes(t) /\ b = proc[t].buf)
    BY <1>1, OpSet DEF OpTypes, ReadOps
  <1>3. CASE port' = Append(port, Posted(proc[t].buf, proc[t].key))
             /\ Become(t, Idle)
    <2>1. \A h : h = proc[t].key => PortFor(h)'
      BY <1>1, <1>2, <1>3, DispatchFacts, PostedRead DEF ReadOps
    <2>2. \A h : Keeps(t, h) => h = proc[t].key
      BY DEF Keeps, KeepsIn
    <2> QED BY <1>1, <1>2, <1>3, <2>1, <2>2, DispatchFacts, KeptOn
  <1>4. CASE Become(t, Remove(proc[t], "ReleaseBuffer")) /\ port' = port
    BY <1>1, <1>2, <1>4, DispatchFacts, RemoveKeeps, GoesToRemove
  <1> QED BY <1>3, <1>4 DEF OnInitialize

LEMMA StartReadKeeps ==
  ASSUME IInv, XInv, NInv, NEW t \in Threads, OnRead(t)
  PROVE  NInv'
  <1>1. /\ proc[t].pc = "Dispatch" /\ StartIO(t)
        /\ op' = [op EXCEPT ![proc[t].buf] = "OP_IOReadCompleted"]
        /\ UNCHANGED <<port, client>>
    BY DEF OnRead, Dispatched
  <1>2. /\ op'[proc[t].buf] = "OP_IOReadCompleted"
        /\ \A b \in registered :
              op'[b] = op[b] \/ (Owes(t) /\ b = proc[t].buf)
    BY <1>1, OpSet DEF OpTypes, ReadOps
  <1>3. CASE /\ kernel' = kernel \cup {[buf |-> proc[t].buf,
                    key |-> proc[t].key, conn |-> sock[proc[t].key]]}
             /\ Become(t, Idle)
    <2>1. \A h : h = proc[t].key => KernelFor(h)'
      <3> DEFINE k == [buf |-> proc[t].buf, key |-> proc[t].key,
                       conn |-> sock[proc[t].key]]
      <3>1. k \in kernel' /\ k.key = proc[t].key /\ k.buf = proc[t].buf
        BY <1>3
      <3> QED BY <1>2, <3>1 DEF KernelFor, ReadOps
    <2>2. \A h : Keeps(t, h) => h = proc[t].key
      BY DEF Keeps, KeepsIn
    <2> QED BY <1>1, <1>2, <1>3, <2>1, <2>2, DispatchFacts, KeptOn
  <1>4. CASE Become(t, Remove(proc[t], "ReleaseBuffer")) /\ kernel' = kernel
    BY <1>1, <1>2, <1>4, DispatchFacts, RemoveKeeps, GoesToRemove
  <1> QED BY <1>1, <1>3, <1>4 DEF StartIO

\* A thread that handles a write sees to nobody.
LEMMA WriterKeepsNobody ==
  ASSUME NEW t, proc[t].pc = "Dispatch", op[proc[t].buf] \in WriteOps
  PROVE  \A h : ~ Keeps(t, h)
  BY DEF Keeps, KeepsIn, ReadOps, WriteOps

LEMMA WriteKeeps ==
  ASSUME IInv, XInv, NInv, NEW t \in Threads, OnWrite(t) \/ OnWriteCompleted(t)
  PROVE  NInv'
  <1>1. /\ proc[t].pc = "Dispatch" /\ op[proc[t].buf] \in WriteOps
        /\ client' = client /\ kernel \subseteq kernel'
    BY DEF OnWrite, OnWriteCompleted, Dispatched, StartIO, WriteOps
  <1>2. \A b \in registered : op'[b] = op[b] \/ (Owes(t) /\ b = proc[t].buf)
    BY <1>1, OpSet DEF OnWrite, OnWriteCompleted, OpTypes, WriteOps
  <1>3. port' = port \/ \E e \in Completion : port' = Append(port, e)
    BY <1>1, DispatchFacts DEF OnWrite, OnWriteCompleted
  <1>4. PICK w : Become(t, w)
    BY DEF OnWrite, OnWriteCompleted, StartIO
  <1> QED BY <1>1, <1>2, <1>3, <1>4, DispatchFacts, WriterKeepsNobody, NobodyToKeep

LEMMA ReadZeroKeeps ==
  ASSUME IInv, XInv, NInv, NEW t \in Threads, OnReadCompletedZero(t)
  PROVE  NInv'
  BY DispatchFacts, RemoveKeeps, GoesToRemove
     DEF OnReadCompletedZero, Dispatched

LEMMA ReadKeeps ==
  ASSUME LatePostsSucceed, IInv, XInv, NInv, NEW t \in Threads, OnReadCompleted(t)
  PROVE  NInv'
  <1>1. PICK n \in 0 .. (MaxPackets - packets) :
          LET w == [proc[t] EXCEPT !.echoes = n]
              b == w.buf
          IN  /\ packets' = packets + n
              /\ \/ n > 0 /\ op' = [op EXCEPT ![b] = "OP_IORead"] /\ DoRead(t, w)
                 \/ op' = [op EXCEPT ![b] = "OP_IORead"] /\ ContinueAsyncRead(t, w)
                 \/ /\ Become(t, Echo([w EXCEPT !.ok = FALSE]))
                    /\ UNCHANGED <<op, port>>
    BY DEF OnReadCompleted
  <1> DEFINE w == [proc[t] EXCEPT !.echoes = n]
             bad == [w EXCEPT !.ok = FALSE]
             undone == [Remove(w, "AsyncSend") EXCEPT !.ok = FALSE]
  <1>2. /\ proc[t].pc = "Dispatch" /\ t \in Procs /\ proc[t] \in Work
        /\ proc[t].buf \in Buffers /\ proc[t].key \in Handles
        /\ Posted(proc[t].buf, proc[t].key) \in Completion
        /\ UNCHANGED <<kernel, client>>
    BY DispatchFacts DEF OnReadCompleted, Dispatched
  <1>3. n \in 0 .. MaxPackets
    BY <1>1, ConstantsAssumption DEF IInv, TypeOK
  <1>4. /\ w \in Work /\ w.buf = proc[t].buf /\ w.key = proc[t].key
        /\ bad \in Work /\ bad.key = proc[t].key /\ ~ bad.ok
    BY <1>2, <1>3 DEF Work
  <1>5. undone.key = proc[t].key /\ undone.pc = "RemoveClient"
    BY <1>4 DEF Work, Remove
  <1>6. op' = [op EXCEPT ![proc[t].buf] = "OP_IORead"] =>
          /\ op'[proc[t].buf] = "OP_IORead"
          /\ \A b \in registered :
                op'[b] = op[b] \/ (Owes(t) /\ b = proc[t].buf)
    BY <1>2, OpSet DEF OpTypes, ReadOps
  <1>7. CASE /\ port' = Append(port, Posted(w.buf, w.key)) /\ Become(t, Echo(w))
             /\ op' = [op EXCEPT ![proc[t].buf] = "OP_IORead"]
    <2>1. \A h : h = proc[t].key => PortFor(h)'
      BY <1>2, <1>4, <1>6, <1>7, PostedRead DEF ReadOps
    <2>2. \A h : Keeps(t, h) => h = proc[t].key
      BY DEF Keeps, KeepsIn
    <2> QED BY <1>2, <1>4, <1>6, <1>7, <2>1, <2>2, KeptOn
  <1>8. CASE /\ Become(t, undone) /\ port' = port
             /\ op' = [op EXCEPT ![proc[t].buf] = "OP_IORead"]
    <2> HIDE DEF undone
    <2> QED BY <1>2, <1>5, <1>6, <1>8, GoesToRemove
  <1>9. CASE Become(t, Echo(bad)) /\ UNCHANGED <<op, port>>
    <2> HIDE DEF bad
    <2> QED BY <1>2, <1>4, <1>9, EchoKeeps, GoesToRemove
  <1>10. \/ /\ port' = Append(port, Posted(w.buf, w.key)) /\ Become(t, Echo(w))
            /\ op' = [op EXCEPT ![proc[t].buf] = "OP_IORead"]
         \/ /\ Become(t, undone) /\ port' = port
            /\ op' = [op EXCEPT ![proc[t].buf] = "OP_IORead"]
         \/ Become(t, Echo(bad)) /\ UNCHANGED <<op, port>>
    BY <1>1, <1>4 DEF DoRead, ContinueAsyncRead, LatePostsSucceed
  <1> QED BY <1>7, <1>8, <1>9, <1>10

LEMMA SendKeeps ==
  ASSUME LatePostsSucceed, IInv, XInv, NInv, NEW t \in Threads, AsyncSend(t)
  PROVE  NInv'
  <1>1. PICK b \in Buffers \ registered :
          /\ op' = [op EXCEPT ![b] = "OP_IOWrite"]
          /\ port' = Append(port, Posted(b, proc[t].key))
          /\ Become(t, Echo([proc[t] EXCEPT !.echoes = @ - 1]))
    BY DEF AsyncSend, LatePostsSucceed
  <1> DEFINE v == [proc[t] EXCEPT !.echoes = @ - 1]
  <1>2. /\ proc[t].pc = "AsyncSend" /\ t \in Procs /\ proc[t] \in Work
        /\ proc[t].key \in Handles /\ proc[t].echoes > 0
        /\ UNCHANGED <<client, kernel>>
    BY Kinds DEF AsyncSend, WorkOK
  <1>3. v \in Work /\ v.key = proc[t].key /\ v.ok = proc[t].ok
    BY <1>2, ConstantsAssumption DEF Work
  <1> HIDE DEF v
  <1>4. Become(t, Echo(v)) /\ Posted(b, proc[t].key) \in Completion
    BY <1>1, <1>2 DEF v, Posted, Completion, Results
  <1>5. \A d \in registered : op'[d] = op[d]
    BY <1>1 DEF IInv, TypeOK
  <1>6. CASE proc[t].ok
    <2>1. \A h : ~ Keeps(t, h)
      BY <1>2, <1>6 DEF Keeps, KeepsIn
    <2> QED BY <1>1, <1>2, <1>4, <1>5, <2>1, NobodyToKeep
  <1>7. CASE ~ proc[t].ok
    BY <1>1, <1>2, <1>3, <1>4, <1>5, <1>7, EchoKeeps, GoesToRemove
  <1> QED BY <1>6, <1>7

LEMMA RemovalKeeps ==
  ASSUME IInv, XInv, NInv, NEW p \in Procs, Removal(p)
  PROVE  NInv'
  <1>1. /\ proc[p] \in Work /\ WorkOK(proc[p])
        /\ proc[p].buf \in Buffers /\ proc[p].key \in Handles
        /\ UNCHANGED <<op, port, kernel>>
    BY RemovalFacts
       DEF Removal, RemoveClient, CountDown, DisConnectClient, ReleaseBuffer
  <1>2. CASE RemoveClient(p)
    <2>1. /\ proc[p].pc = "RemoveClient" /\ client \in [Handles -> Conns \cup {NoConn}]
          /\ client' = client \/ client' = [client EXCEPT ![proc[p].key] = NoConn]
          /\ client'[proc[p].key] = NoConn
      BY <1>1, <1>2 DEF RemoveClient, IInv, TypeOK
    <2>2. PICK w : Become(p, w)
      BY <1>2 DEF RemoveClient
    <2>3. \A h \in Clients' : h \in Clients /\ h # proc[p].key
      BY <1>1, <2>1 DEF Clients
    <2>4. \A h \in Clients' : h \in Clients /\ ~ Keeps(p, h)
      BY <2>3 DEF Keeps, KeepsIn
    <2> QED BY <1>1, <2>2, <2>4, StillKept
  <1>3. CASE CountDown(p)
    <2> DEFINE v == [proc[p] EXCEPT !.pc = "DisConnectClient"]
    <2>1. proc[p].pc = "CountDown" /\ Become(p, v) /\ client' = client
      BY <1>3 DEF CountDown
    <2>2. /\ v.key = proc[p].key /\ v.ret = proc[p].ret
          /\ v.pc = "DisConnectClient"
      BY <1>1 DEF Work
    <2> HIDE DEF v
    <2>3. \A h : Keeps(p, h) => Keeps(p, h)'
      BY <2>1, <2>2, NowAt DEF Keeps, KeepsIn
    <2> QED BY <1>1, <2>1, <2>3, KeptOn
  <1>4. CASE DisConnectClient(p)
    <2>1. /\ proc[p].pc = "DisConnectClient" /\ Become(p, Return(proc[p]))
          /\ client' = client
      BY <1>4 DEF DisConnectClient
    <2>2. CASE proc[p].ret = "ReleaseBuffer"
      <3>1. \A h : ~ Keeps(p, h)
        BY <2>1, <2>2 DEF Keeps, KeepsIn
      <3> QED BY <1>1, <2>1, <3>1, NobodyToKeep
    <2>3. CASE proc[p].ret = "AsyncSend"
      <3>1. Return(proc[p]) = Echo(proc[p]) /\ ~ proc[p].ok
        BY <1>1, <2>3 DEF Return, WorkOK
      <3> QED BY <1>1, <2>1, <3>1, EchoKeeps, GoesToRemove
    <2>4. CASE proc[p].ret = "RemoveClient"
      <3>1. Return(proc[p]) = Remove(proc[p], "ReleaseBuffer")
        BY <2>4 DEF Return
      <3> QED BY <1>1, <2>1, <3>1, RemoveKeeps, GoesToRemove
    <2> QED BY <1>1, <2>2, <2>3, <2>4 DEF Work
  <1>5. CASE ReleaseBuffer(p)
    <2>1. proc[p].pc = "ReleaseBuffer" /\ client' = client
      BY <1>5 DEF ReleaseBuffer
    <2>2. PICK w : Become(p, w)
      BY <1>5 DEF ReleaseBuffer
    <2>3. \A h : ~ Keeps(p, h)
      BY <2>1 DEF Keeps, KeepsIn
    <2> QED BY <1>1, <2>1, <2>2, <2>3, NobodyToKeep
  <1> QED BY <1>2, <1>3, <1>4, <1>5 DEF Removal

LEMMA AcceptorKeeps ==
  ASSUME IInv, XInv, NInv,
         Accept \/ IsAccept \/ AddClient \/ CountUp \/ RejectClientConnect
  PROVE  NInv'
  <1>1. /\ Acceptor \in Procs /\ proc[Acceptor] \in Work
        /\ WorkOK(proc[Acceptor]) /\ UNCHANGED <<op, port, kernel>>
    BY Kinds DEF Accept, IsAccept, AddClient, CountUp, RejectClientConnect
  <1>2. CASE Accept \/ IsAccept \/ RejectClientConnect
    <2>1. /\ proc[Acceptor].pc \in {"Idle", "IsAccept", "RejectClientConnect"}
          /\ client' = client
      BY <1>2 DEF Accept, IsAccept, RejectClientConnect
    <2>2. PICK w : Become(Acceptor, w)
      BY <1>2 DEF Accept, IsAccept, RejectClientConnect
    <2>3. \A h : ~ Keeps(Acceptor, h)
      BY <2>1 DEF Keeps, KeepsIn
    <2> QED BY <1>1, <2>1, <2>2, <2>3, NobodyToKeep
  <1>3. CASE AddClient
    <2> DEFINE v == [proc[Acceptor] EXCEPT !.pc = "CountUp"]
    <2>1. proc[Acceptor].pc = "AddClient" /\ proc[Acceptor].key \in Handles
      BY <1>1, <1>3 DEF AddClient, WorkOK
    <2>2. \A h : ~ Keeps(Acceptor, h)
      BY <2>1 DEF Keeps, KeepsIn
    <2>3. CASE /\ client' = [client EXCEPT ![proc[Acceptor].key] = conns]
               /\ Become(Acceptor, v)
      <3>1. proc'[Acceptor] = v /\ v.pc = "CountUp" /\ v.key = proc[Acceptor].key
        BY <1>1, <2>3, NowAt DEF Work
      <3> HIDE DEF v
      <3>2. \A h : h = proc[Acceptor].key => Keeps(Acceptor, h)'
        BY <3>1 DEF Keeps, KeepsIn
      <3>3. \A h \in Clients' : h \in Clients \/ h = proc[Acceptor].key
        BY <2>3 DEF Clients, IInv, TypeOK
      <3> QED BY <1>1, <2>2, <2>3, <3>2, <3>3, StillKept
    <2>4. CASE client' = client
      <3>1. PICK w : Become(Acceptor, w)
        BY <1>3 DEF AddClient
      <3> QED BY <1>1, <2>2, <2>4, <3>1, NobodyToKeep
    <2> QED BY <1>3, <2>3, <2>4 DEF AddClient
  <1>4. CASE CountUp
    <2> DEFINE v == [proc[Acceptor] EXCEPT !.pc = "Associate"]
    <2>1. Become(Acceptor, v) /\ client' = client
      BY <1>4 DEF CountUp
    <2>2. v.pc = "Associate" /\ v.key = proc[Acceptor].key
      BY <1>1 DEF Work
    <2> HIDE DEF v
    <2>3. \A h : Keeps(Acceptor, h) => Keeps(Acceptor, h)'
      BY <1>1, <2>1, <2>2, NowAt DEF Keeps, KeepsIn
    <2> QED BY <1>1, <2>1, <2>3, KeptOn
  <1> QED BY <1>2, <1>3, <1>4

LEMMA AssociateKeeps ==
  ASSUME IInv, XInv, NInv, Associate
  PROVE  NInv'
  <1>1. /\ Acceptor \in Procs /\ proc[Acceptor] \in Work
        /\ proc[Acceptor].key \in Handles
        /\ UNCHANGED <<kernel, client>>
    BY Kinds DEF Associate, WorkOK
  <1>2. CASE client[proc[Acceptor].key] = NoConn /\ UNCHANGED <<op, port>>
    <2>1. PICK w : Become(Acceptor, w)
      BY DEF Associate
    <2>2. \A h \in Clients : ~ Keeps(Acceptor, h)
      BY <1>2 DEF Keeps, KeepsIn, Clients
    <2> QED BY <1>1, <1>2, <2>1, <2>2, NobodyToKeep
  <1>3. ASSUME NEW b \in Buffers \ registered,
               op' = [op EXCEPT ![b] = "OP_IOInitialize"]
        PROVE  /\ op'[b] = "OP_IOInitialize"
               /\ \A d \in registered : op'[d] = op[d]
    BY <1>3 DEF IInv, TypeOK
  <1>4. ASSUME NEW b \in Buffers \ registered,
               op' = [op EXCEPT ![b] = "OP_IOInitialize"],
               port' = Append(port, Posted(b, proc[Acceptor].key)),
               Become(Acceptor, Idle)
        PROVE  NInv'
    <2>1. \A h : h = proc[Acceptor].key => PortFor(h)'
      BY <1>1, <1>3, <1>4, PostedRead DEF ReadOps
    <2>2. \A h : Keeps(Acceptor, h) => h = proc[Acceptor].key
      BY DEF Keeps, KeepsIn
    <2>3. Posted(b, proc[Acceptor].key) \in Completion
      BY <1>1 DEF Posted, Completion, Results
    <2> QED BY <1>1, <1>3, <1>4, <2>1, <2>2, <2>3, KeptOn
  <1>5. ASSUME NEW b \in Buffers \ registered,
               op' = [op EXCEPT ![b] = "OP_IOInitialize"], port' = port,
               Become(Acceptor, [Remove(proc[Acceptor], "ReleaseBuffer") EXCEPT
                                   !.buf = b, !.after = "RejectClientConnect"])
        PROVE  NInv'
    <2> DEFINE v == [Remove(proc[Acceptor], "ReleaseBuffer") EXCEPT
                         !.buf = b, !.after = "RejectClientConnect"]
    <2>1. v.key = proc[Acceptor].key /\ v.pc = "RemoveClient"
      BY <1>1 DEF Work, Remove
    <2>2. Become(Acceptor, v)
      BY <1>5
    <2> HIDE DEF v
    <2> QED BY <1>1, <1>3, <1>5, <2>1, <2>2, GoesToRemove
  <1> QED BY <1>2, <1>4, <1>5 DEF Associate

LEMMA SystemKeeps ==
  ASSUME IInv, XInv, NInv, System
  PROVE  NInv'
  <1>1. ASSUME NEW h \in Handles, Vistor(h) PROVE NInv'
    BY <1>1 DEF Vistor, NInv, Clients, PortFor, KernelFor, Keeps, KeepsIn
  <1>2. ASSUME NEW k \in kernel, NEW res \in {"some", "part", "zero", "error"},
               Complete(k, res)
        PROVE  NInv'
    <2> DEFINE e == [buf |-> k.buf, key |-> k.key, res |-> res]
    <2>1. e \in Completion /\ e.buf = k.buf /\ e.key = k.key
      BY <1>2, Kinds DEF Overlapped, Completion, Results
    <2>2. /\ port' = Append(port, e) /\ kernel' = kernel \ {k}
          /\ UNCHANGED <<op, proc, client>>
      BY <1>2 DEF Complete
    <2> HIDE DEF e
    <2>3. /\ \A i \in DOMAIN port : i \in DOMAIN port' /\ port'[i] = port[i]
          /\ Len(port) + 1 \in DOMAIN port' /\ port'[Len(port) + 1] = e
      BY <2>1, <2>2, Kinds, Appended
    <2> SUFFICES ASSUME NEW h \in Clients
                 PROVE  \/ PortFor(h)' \/ KernelFor(h)'
                        \/ \E q \in Procs : Keeps(q, h)'
      BY <2>2 DEF NInv, Clients
    <2>4. PortFor(h) => PortFor(h)'
      BY <2>2, <2>3 DEF PortFor
    <2>5. KernelFor(h) => KernelFor(h)' \/ PortFor(h)'
      BY <2>1, <2>2, <2>3 DEF KernelFor, PortFor
    <2>6. \A q \in Procs : Keeps(q, h) => Keeps(q, h)'
      BY <2>2 DEF Keeps, KeepsIn
    <2> QED BY <2>4, <2>5, <2>6 DEF NInv
  <1> QED BY <1>1, <1>2 DEF System, Aborted, Finished

LEMMA NInvNext ==
  ASSUME LatePostsSucceed
  PROVE  IInv /\ XInv /\ NInv /\ [Next]_vars => NInv'
  <1> SUFFICES ASSUME IInv, XInv, NInv, [Next]_vars PROVE NInv'
    OBVIOUS
  <1>1. CASE UNCHANGED vars
    BY <1>1 DEF vars, NInv, Clients, PortFor, KernelFor, Keeps, KeepsIn
  <1>2. ASSUME NEW t \in Threads, IOCPWorkerThread(t) PROVE NInv'
    BY <1>2, Kinds, DequeueKeeps, LookupKeeps, InitializeKeeps, StartReadKeeps,
       WriteKeeps, ReadZeroKeeps, ReadKeeps, SendKeeps, RemovalKeeps
       DEF IOCPWorkerThread, Handler
  <1>3. CASE Accept \/ AssociateIncomingClientSocket
    BY <1>3, Kinds, AcceptorKeeps, AssociateKeeps, RemovalKeeps
       DEF AssociateIncomingClientSocket
  <1> QED BY <1>1, <1>2, <1>3, SystemKeeps DEF Next

LEMMA KeptIsAttended == IInv /\ NInv => NoStrandedClient
  <1> SUFFICES ASSUME IInv, NInv PROVE NoStrandedClient
    OBVIOUS
  <1>1. \A p \in Procs : proc[p] \in Work /\ WorkOK(proc[p])
    BY Kinds
  <1>2. \A p \in Procs, h \in Clients : Keeps(p, h) => AttendsTo(p, h)
    BY <1>1 DEF Keeps, KeepsIn, AttendsTo, Work, WorkOK
  <1> QED BY <1>2 DEF NInv, NoStrandedClient, PortFor, KernelFor

\* While a client is registered, a read of it is on the port or under way, or
\* some thread is about to start one or to remove the client: on no path of
\* the handlers, the removals or the accept thread, however they interleave,
\* is a client left whose closing and expiry nobody would notice.  The
\* condition is that of BuffersHaveOneOwner: a buffer that is released under
\* its owner may be another client's next read.
THEOREM NobodyStranded ==
  ASSUME LatePostsSucceed
  PROVE  Spec => []NoStrandedClient
  <1> DEFINE J == IInv /\ NoBufferLeak /\ XInv /\ NInv
  <1>1. Init => J
    BY InitOK, XInvInit DEF Init, NInv, Clients
  <1>2. J /\ [Next]_vars => J'
    BY NextOK, XInvNext, NInvNext
  <1>3. J => NoStrandedClient
    BY KeptIsAttended
  <1> QED BY <1>1, <1>2, <1>3, PTL DEF Spec

-----------------------------------------------------------------------------
(* The life of a connection. *)

\* A connection is registered under one handle and open on one handle, and
\* only a connection already accepted is; the one still to be decided upon is
\* not registered.
ClientOnce == \A h, k \in Handles : client[h] = client[k] /\ client[h] # NoConn
                                    => h = k
OpenOnce   == \A h, k \in Handles : sock[h] = sock[k] /\ sock[h] # NoConn
                                    => h = k
OnlyTaken  == \A h \in Handles : client[h] <= conns /\ sock[h] <= conns
NotYet     == Undecided => \A h \in Handles : client[h] # conns

MInv == ClientOnce /\ OpenOnce /\ OnlyTaken /\ NotYet

LEMMA Types ==
  ASSUME IInv
  PROVE  /\ sock \in [Handles -> Conns \cup {NoConn}]
         /\ client \in [Handles -> Conns \cup {NoConn}]
         /\ proc \in [Procs -> Work] /\ DOMAIN proc = Procs
         /\ conns \in Nat /\ conns <= MaxConns
         /\ Acceptor \in Procs /\ Acceptor \notin Threads
         /\ \A p \in Procs : proc[p] \in Work /\ WorkOK(proc[p])
  BY ConstantsAssumption DEF IInv, TypeOK, Procs

-----------------------------------------------------------------------------
(* What a step may do to the tables and to the accept thread. *)

\* The accept thread decides nothing and does not crash.
Stays == (Undecided' <=> Undecided) /\ (Running' <=> Running)

\* Nothing the mapping looks at.
Apart == UNCHANGED <<sock, client, conns>> /\ Stays

\* It closes a handle.
ClosesOne ==
    /\ \E h \in Handles : sock' = [sock EXCEPT ![h] = NoConn]
    /\ UNCHANGED <<client, conns>> /\ Stays

\* It takes a client out of the table.
DropsOne ==
    /\ \E h \in Handles : client[h] # NoConn
                          /\ client' = [client EXCEPT ![h] = NoConn]
    /\ UNCHANGED <<sock, conns>> /\ Stays

\* The accept thread gives up the connection it took last.
GivesUp ==
    /\ Undecided /\ ~ Undecided'
    /\ Running /\ Running'
    /\ UNCHANGED <<sock, client, conns>>

\* It looks up the client it has just added in vain.
Crashes ==
    /\ Running /\ ~ Running'
    /\ (Undecided' <=> Undecided) /\ UNCHANGED <<sock, client, conns>>

\* It accepts a connection.
TakesOne ==
    /\ ~ Undecided /\ Undecided'
    /\ conns < MaxConns /\ conns' = conns + 1
    /\ \E h \in Handles : sock[h] = NoConn
                          /\ sock' = [sock EXCEPT ![h] = conns']
    /\ Running /\ Running'
    /\ UNCHANGED client

\* It registers a client for the connection it took last.
AdmitsOne ==
    /\ Undecided /\ ~ Undecided'
    /\ Cardinality(Clients) <= MaxClients
    /\ \E h \in Handles : client[h] = NoConn
                          /\ client' = [client EXCEPT ![h] = conns]
    /\ Running /\ Running'
    /\ UNCHANGED <<sock, conns>>

\* A thread of the pool leaves the accept thread where it is.
LEMMA PoolApart ==
  ASSUME IInv, NEW t \in Threads, NEW w, Become(t, w)
  PROVE  Stays
  BY Types DEF Become, Stays, Undecided, Running, Procs

\* The accept thread between two places where it has decided.
LEMMA AcceptorApart ==
  ASSUME IInv, NEW w, Become(Acceptor, w),
         proc[Acceptor].pc \notin {"IsAccept", "AddClient", "Crashed"},
         w.pc \notin {"IsAccept", "AddClient", "Crashed"}
  PROVE  Stays
  BY Types DEF Become, Stays, Undecided, Running

\* RemoveClient and what follows it, in whatever thread.
LEMMA RemovalMaps ==
  ASSUME IInv, NEW p \in Procs, Removal(p)
  PROVE  Apart \/ ClosesOne \/ DropsOne
  <1> DEFINE w == proc[p]
  <1>1. w \in Work /\ WorkOK(w) /\ w.pc \in {"RemoveClient", "CountDown",
                                   "DisConnectClient", "ReleaseBuffer"}
    BY Types DEF Removal, RemoveClient, CountDown, DisConnectClient,
                 ReleaseBuffer
  <1>2. w.key \in Handles
    BY <1>1 DEF WorkOK
  <1>3. ASSUME NEW v, Become(p, v),
               v.pc \notin {"IsAccept", "AddClient", "Crashed"}
        PROVE  Stays
    BY <1>1, <1>3, PoolApart, AcceptorApart DEF Procs
  <1>4. Return(w).pc \in PoolLabels /\ Echo(w).pc \in PoolLabels
    BY <1>1, ReturnTo, EchoTo DEF PoolLabels
  <1>5. \A l : [w EXCEPT !.pc = l].pc = l
    BY <1>1 DEF Work
  <1>6. CASE RemoveClient(p) /\ client[w.key] = NoConn
    BY <1>3, <1>4, <1>6 DEF RemoveClient, Apart, PoolLabels
  <1>7. CASE RemoveClient(p) /\ client[w.key] # NoConn
    <2>1. Become(p, [w EXCEPT !.pc = "CountDown"])
      BY <1>7 DEF RemoveClient
    <2> QED BY <1>2, <1>3, <1>5, <1>7, <2>1 DEF RemoveClient, DropsOne
  <1>8. CASE CountDown(p)
    <2>1. Become(p, [w EXCEPT !.pc = "DisConnectClient"])
      BY <1>8 DEF CountDown
    <2> QED BY <1>3, <1>5, <1>8, <2>1 DEF CountDown, Apart
  <1>9. CASE DisConnectClient(p)
    BY <1>2, <1>3, <1>4, <1>9 DEF DisConnectClient, ClosesOne, PoolLabels
  <1>10. CASE ReleaseBuffer(p)
    <2>1. \/ Become(p, Idle) \/ Become(p, Echo(w))
          \/ Become(p, [w EXCEPT !.pc = "RejectClientConnect"])
      BY <1>10 DEF ReleaseBuffer
    <2>2. Idle.pc = "Idle"
      BY DEF Idle
    <2>3. Stays
      BY <1>3, <1>4, <1>5, <2>1, <2>2 DEF PoolLabels
    <2> QED BY <1>10, <2>3 DEF ReleaseBuffer, Apart
  <1> QED BY <1>6, <1>7, <1>8, <1>9, <1>10 DEF Removal

\* The accept thread does not go back into the admission from there.
LEMMA RemovalTo ==
  ASSUME IInv, Removal(Acceptor) \/ RejectClientConnect
  PROVE  proc'[Acceptor].pc \notin {"IsAccept", "AddClient", "CountUp",
                                    "Associate", "Crashed"}
  <1> DEFINE w == proc[Acceptor]
  <1>1. w \in Work
    BY Types
  <1>2. Return(w).pc \in PoolLabels /\ Echo(w).pc \in PoolLabels
    BY <1>1, ReturnTo, EchoTo DEF PoolLabels
  <1>3. \A l : [w EXCEPT !.pc = l].pc = l
    BY <1>1 DEF Work
  <1>4. Idle.pc = "Idle"
    BY DEF Idle
  <1>5. \/ Become(Acceptor, Return(w)) \/ Become(Acceptor, Echo(w))
        \/ Become(Acceptor, Idle)
        \/ \E l \in {"CountDown", "DisConnectClient", "RejectClientConnect"} :
              Become(Acceptor, [w EXCEPT !.pc = l])
    BY DEF Removal, RemoveClient, CountDown, DisConnectClient, ReleaseBuffer,
           RejectClientConnect
  <1>6. \A v : Become(Acceptor, v) => proc'[Acceptor] = v
    BY Types DEF Become
  <1> QED BY <1>2, <1>3, <1>4, <1>5, <1>6 DEF PoolLabels

\* The threads of the pool and the system never decide on a connection.
LEMMA PoolMaps ==
  ASSUME IInv, NEW t \in Threads, IOCPWorkerThread(t)
  PROVE  Apart \/ ClosesOne \/ DropsOne
  <1>1. CASE GetQueuedCompletionStatus(t) \/ Handler(t)
    <2>1. PICK w : Become(t, w)
      BY <1>1, HandlerPlain DEF Plain
    <2>2. UNCHANGED <<sock, client, conns>>
      BY <1>1 DEF GetQueuedCompletionStatus, Handler, ProcessIOMessage,
                  OnInitialize, OnRead, OnReadCompletedZero, OnReadCompleted,
                  AsyncSend, OnWrite, OnWriteCompleted
    <2> QED BY <2>1, <2>2, PoolApart DEF Apart
  <1> QED BY <1>1, RemovalMaps DEF IOCPWorkerThread, Procs

LEMMA SystemMaps ==
  ASSUME System \/ UNCHANGED vars
  PROVE  Apart \/ ClosesOne
  <1>1. Stays
    BY DEF System, Vistor, Aborted, Finished, Complete, vars, Stays, Undecided, Running
  <1> QED BY <1>1 DEF System, Vistor, Aborted, Finished, Complete, vars, Apart,
                      ClosesOne

\* Associate posts, posts in vain or crashes.
LEMMA AssociateTo ==
  ASSUME IInv, Associate
  PROVE  /\ proc[Acceptor].pc = "Associate"
         /\ proc'[Acceptor].pc \in {"Crashed", "Idle", "RemoveClient"}
  <1> DEFINE a == proc[Acceptor]
  <1>1. PICK b : \/ Become(Acceptor, [a EXCEPT !.pc = "Crashed"])
                 \/ Become(Acceptor, Idle)
                 \/ Become(Acceptor, [Remove(a, "ReleaseBuffer") EXCEPT
                                !.buf = b, !.after = "RejectClientConnect"])
    BY DEF Associate
  <1> DEFINE r == Remove(a, "ReleaseBuffer")
             v == [r EXCEPT !.buf = b, !.after = "RejectClientConnect"]
  <1>2. [a EXCEPT !.pc = "Crashed"].pc = "Crashed" /\ Idle.pc = "Idle"
    BY Types DEF Work, Idle
  <1>3. v.pc = "RemoveClient"
    BY Types DEF Work, Remove
  <1> HIDE DEF v
  <1>4. PICK w : Become(Acceptor, w) /\ w.pc \in {"Crashed", "Idle", "RemoveClient"}
    BY <1>1, <1>2, <1>3 DEF v
  <1> QED BY <1>4, Types DEF Become, Associate

\* What the accept thread does once it has accepted, an admission aside.
LEMMA AcceptorMaps ==
  ASSUME IInv, Running,
         \/ IsAccept \/ CountUp \/ Associate \/ RejectClientConnect
         \/ AddClient /\ client[proc[Acceptor].key] # NoConn
  PROVE  Apart \/ ClosesOne \/ GivesUp \/ Crashes
  <1> DEFINE a == proc[Acceptor]
  <1>1. a \in Work /\ WorkOK(a)
    BY Types
  <1>2. \A l : [a EXCEPT !.pc = l].pc = l
    BY <1>1 DEF Work
  <1>3. ASSUME NEW w, Become(Acceptor, w) PROVE proc'[Acceptor] = w
    BY <1>3, Types DEF Become
  <1>4. CASE IsAccept
    <2>1. PICK l \in {"AddClient", "RejectClientConnect"} :
            Become(Acceptor, [a EXCEPT !.pc = l])
      BY <1>4 DEF IsAccept
    <2>2. proc'[Acceptor].pc = l
      BY <1>2, <1>3, <2>1
    <2>3. Undecided /\ (Undecided' <=> l = "AddClient") /\ Running'
      BY <1>4, <2>1, <2>2 DEF IsAccept, Undecided, Running
    <2>4. CASE l = "AddClient"
      BY <1>4, <2>3, <2>4 DEF IsAccept, Apart, Stays
    <2>5. CASE l # "AddClient"
      BY <1>4, <2>3, <2>5 DEF IsAccept, GivesUp
    <2> QED BY <2>4, <2>5
  <1>5. CASE AddClient /\ client[a.key] # NoConn
    <2>1. Become(Acceptor, [a EXCEPT !.pc = "RejectClientConnect"])
      BY <1>5 DEF AddClient
    <2>2. proc'[Acceptor].pc = "RejectClientConnect"
      BY <1>2, <1>3, <2>1
    <2>3. Undecided /\ ~ Undecided' /\ Running'
      BY <1>5, <2>2 DEF AddClient, Undecided, Running
    <2> QED BY <1>5, <2>3 DEF AddClient, GivesUp
  <1>6. CASE CountUp
    <2>1. proc'[Acceptor].pc = "Associate"
      BY <1>2, <1>3, <1>6 DEF CountUp
    <2>2. ~ Undecided /\ ~ Undecided' /\ Running'
      BY <1>6, <2>1 DEF CountUp, Undecided, Running
    <2> QED BY <1>6, <2>2 DEF CountUp, Apart, Stays
  <1>7. CASE Associate
    <2>1. ~ Undecided /\ ~ Undecided' /\ UNCHANGED <<sock, client, conns>>
      BY <1>7, AssociateTo DEF Undecided, Associate
    <2>2. CASE Running'
      BY <2>1, <2>2 DEF Apart, Stays
    <2>3. CASE ~ Running'
      BY <2>1, <2>3 DEF Crashes
    <2> QED BY <2>2, <2>3
  <1>8. CASE RejectClientConnect
    <2>1. proc'[Acceptor].pc = "Idle"
      BY <1>3, <1>8 DEF RejectClientConnect, Idle
    <2>2. ~ Undecided /\ ~ Undecided' /\ Running'
      BY <1>8, <2>1 DEF RejectClientConnect, Undecided, Running
    <2>3. a.key \in Handles
      BY <1>1, <1>8 DEF RejectClientConnect, WorkOK
    <2> QED BY <1>8, <2>2, <2>3 DEF RejectClientConnect, ClosesOne, Stays
  <1> QED BY <1>4, <1>5, <1>6, <1>7, <1>8

\* A connection comes in, on a handle that is not open.
LEMMA AcceptMaps ==
  ASSUME IInv, Accept
  PROVE  TakesOne
  <1>1. PICK h \in Handles :
          /\ sock[h] = NoConn /\ sock' = [sock EXCEPT ![h] = conns']
          /\ Become(Acceptor, [Idle EXCEPT !.pc = "IsAccept", !.key = h])
    BY DEF Accept
  <1>2. proc'[Acceptor].pc = "IsAccept" /\ proc[Acceptor].pc = "Idle"
    BY <1>1, Types DEF Become, Accept, Idle
  <1> QED BY <1>1, <1>2 DEF Accept, TakesOne, Undecided, Running

\* The client of the connection taken last is added; there is room for it.
LEMMA AddClientMaps ==
  ASSUME IInv, CInv, AddClient, client[proc[Acceptor].key] = NoConn
  PROVE  AdmitsOne
  <1> DEFINE a == proc[Acceptor]
  <1>1. a \in Work /\ WorkOK(a)
    BY Types
  <1>2. /\ a.pc = "AddClient" /\ client' = [client EXCEPT ![a.key] = conns]
        /\ Become(Acceptor, [a EXCEPT !.pc = "CountUp"])
        /\ UNCHANGED <<sock, conns>>
    BY DEF AddClient
  <1>3. proc'[Acceptor].pc = "CountUp"
    BY <1>1, <1>2, Types DEF Become, Work
  <1>4. a.key \in Handles
    BY <1>1, <1>2 DEF WorkOK
  <1>5. Undecided /\ ~ Undecided' /\ Running /\ Running'
    BY <1>2, <1>3 DEF Undecided, Running
  <1> QED BY <1>2, <1>4, <1>5 DEF AdmitsOne, CInv, RoomForOne

\* Every step is of one of these kinds.
LEMMA NextMaps ==
  ASSUME IInv, CInv, [Next]_vars
  PROVE  \/ Apart
         \/ Running /\ (ClosesOne \/ DropsOne \/ GivesUp \/ Crashes
                                  \/ TakesOne \/ AdmitsOne)
  <1>1. CASE UNCHANGED vars
    BY <1>1 DEF vars, Apart, Stays, Undecided, Running
  <1>2. CASE Next
    <2>1. Running
      BY <1>2 DEF Next
    <2>2. CASE \E t \in Threads : IOCPWorkerThread(t)
      BY <2>1, <2>2, PoolMaps
    <2>3. CASE Accept
      BY <2>1, <2>3, AcceptMaps
    <2>4. CASE AssociateIncomingClientSocket
      BY <2>1, <2>4, RemovalMaps, AcceptorMaps, AddClientMaps
         DEF AssociateIncomingClientSocket, Procs
    <2>5. CASE System
      BY <2>1, <2>5, SystemMaps
    <2> QED BY <1>2, <2>2, <2>3, <2>4, <2>5 DEF Next
  <1> QED BY <1>1, <1>2

-----------------------------------------------------------------------------
(* The invariant of the mapping. *)

LEMMA MInvInit == Init => MInv
  BY DEF Init, MInv, ClientOnce, OpenOnce, OnlyTaken, NotYet, NoConn, Undecided,
         Idle, Procs

LEMMA MInvNext == IInv /\ CInv /\ MInv /\ Accepted /\ [Next]_vars => MInv'
  <1> SUFFICES ASSUME IInv, CInv, MInv, Accepted, [Next]_vars PROVE MInv'
    OBVIOUS
  <1>1. /\ client \in [Handles -> Nat] /\ sock \in [Handles -> Nat]
        /\ conns \in Nat /\ NoConn = 0
    BY Types, ConstantsAssumption DEF Conns, NoConn
  <1>2. CASE Apart
    BY <1>2 DEF Apart, Stays, MInv, ClientOnce, OpenOnce, OnlyTaken, NotYet
  <1>3. CASE ClosesOne
    <2>1. PICK h \in Handles : sock' = [sock EXCEPT ![h] = NoConn]
      BY <1>3 DEF ClosesOne
    <2>2. OpenOnce'
      BY <1>1, <2>1 DEF MInv, OpenOnce
    <2> QED BY <1>1, <1>3, <2>1, <2>2
            DEF ClosesOne, Stays, MInv, ClientOnce, OnlyTaken, NotYet
  <1>4. CASE DropsOne
    <2>1. PICK h \in Handles : client' = [client EXCEPT ![h] = NoConn]
      BY <1>4 DEF DropsOne
    <2>2. ClientOnce'
      BY <1>1, <2>1 DEF MInv, ClientOnce
    <2>3. Undecided => conns # NoConn
      BY <1>1 DEF Undecided, Accepted
    <2>4. NotYet'
      BY <1>1, <1>4, <2>1, <2>3 DEF DropsOne, Stays, MInv, NotYet
    <2> QED BY <1>1, <1>4, <2>1, <2>2, <2>4
            DEF DropsOne, MInv, OpenOnce, OnlyTaken
  <1>5. CASE GivesUp
    BY <1>5 DEF GivesUp, MInv, ClientOnce, OpenOnce, OnlyTaken, NotYet
  <1>6. CASE Crashes
    BY <1>6 DEF Crashes, MInv, ClientOnce, OpenOnce, OnlyTaken, NotYet
  <1>7. CASE TakesOne
    <2>1. PICK h \in Handles : sock' = [sock EXCEPT ![h] = conns']
      BY <1>7 DEF TakesOne
    <2>2. /\ conns' = conns + 1 /\ client' = client
          /\ \A k \in Handles : client[k] <= conns /\ sock[k] <= conns
      BY <1>7 DEF TakesOne, MInv, OnlyTaken
    <2>3. OpenOnce'
      BY <1>1, <2>1, <2>2 DEF MInv, OpenOnce
    <2>4. OnlyTaken' /\ NotYet'
      BY <1>1, <2>1, <2>2 DEF OnlyTaken, NotYet
    <2> QED BY <2>2, <2>3, <2>4 DEF MInv, ClientOnce
  <1>8. CASE AdmitsOne
    <2>1. PICK h \in Handles : client' = [client EXCEPT ![h] = conns]
      BY <1>8 DEF AdmitsOne
    <2>2. \A k \in Handles : client[k] # conns
      BY <1>8 DEF AdmitsOne, MInv, NotYet
    <2>3. ClientOnce'
      BY <1>1, <2>1, <2>2 DEF MInv, ClientOnce
    <2>4. OnlyTaken' /\ NotYet'
      BY <1>1, <1>8, <2>1 DEF AdmitsOne, MInv, OnlyTaken, NotYet
    <2> QED BY <1>8, <2>3, <2>4 DEF AdmitsOne, MInv, OpenOnce
  <1> QED BY <1>2, <1>3, <1>4, <1>5, <1>6, <1>7, <1>8, NextMaps

LEMMA MInvAlways == Spec => [](IInv /\ CInv /\ Accepted /\ MInv)
  BY InitOK, NextOK, CInvInit, CInvNext, AcceptedNext, MInvInit, MInvNext,
     PTL DEF Spec

-----------------------------------------------------------------------------
(* The mapping, step by step. *)

\* Life is a function of the connections, before and after.
LEMMA LifeMaps ==
  Life = [c \in Conns |-> Life[c]] /\ Life' = [c \in Conns |-> Life'[c]]
  BY DEF Life

\* Running is one of the two truth values, before and after.
LEMMA RunningMaps == Running \in BOOLEAN /\ Running' \in BOOLEAN
  BY DEF Running

\* The instance counts as this module does.
LEMMA SameCardinality == \A S : Promise!Cardinality(S) = Cardinality(S)
  BY DEF Promise!Cardinality, Cardinality

\* Closing a handle closes the connection it is open for, if any.
LEMMA ClosesMapped ==
  ASSUME IInv, MInv, Running, ClosesOne
  PROVE  [Promise!Next]_(Promise!vars)
  <1>1. PICK h \in Handles : sock' = [sock EXCEPT ![h] = NoConn]
    BY DEF ClosesOne
  <1>2. Life' = Life /\ Running' = Running
    BY DEF ClosesOne, Stays, Life
  <1>3. /\ \A k \in Handles : sock'[k] = IF k = h THEN NoConn ELSE sock[k]
        /\ \A k \in Handles : sock[k] \in Conns \cup {NoConn}
    BY <1>1, Types
  <1>4. CASE sock[h] = NoConn
    <2>1. Open' = Open
      BY <1>3, <1>4 DEF Open
    <2> QED BY <1>2, <2>1 DEF Promise!vars
  <1>5. CASE sock[h] # NoConn
    <2>1. sock[h] \in Conns /\ sock[h] \in Open
      BY <1>3, <1>5 DEF Open
    <2>2. Open' = Open \ {sock[h]}
      BY <1>3, <1>5 DEF Open, MInv, OpenOnce
    <2>3. Promise!Close(sock[h])
      BY <1>2, <2>1, <2>2 DEF Promise!Close
    <2> QED BY <1>2, <2>1, <2>3 DEF Promise!Next, Promise!Step
  <1> QED BY <1>4, <1>5

\* Taking a client out of the table drops its connection.
LEMMA DropsMapped ==
  ASSUME IInv, MInv, Running, DropsOne
  PROVE  [Promise!Next]_(Promise!vars)
  <1>1. PICK h \in Handles : client[h] # NoConn
                             /\ client' = [client EXCEPT ![h] = NoConn]
    BY DEF DropsOne
  <1> DEFINE c == client[h]
  <1>2. Open' = Open /\ Running' = Running
    BY DEF DropsOne, Stays, Open
  <1>3. /\ c \in Conns /\ conns \in Nat /\ NoConn \notin Conns
        /\ \A k \in Handles : client'[k] = IF k = h THEN NoConn ELSE client[k]
    BY <1>1, Types DEF Conns, NoConn
  <1>4. ~ (c > conns) /\ ~ (c = conns /\ Undecided)
    BY <1>3 DEF MInv, OnlyTaken, NotYet, Conns
  <1>5. Life[c] = "client"
    BY <1>3, <1>4 DEF Life
  <1>6. /\ ~ \E k \in Handles : client'[k] = c
        /\ \A d \in Conns \ {c} : (\E k \in Handles : client'[k] = d)
                                      <=> (\E k \in Handles : client[k] = d)
    BY <1>1, <1>3 DEF MInv, ClientOnce
  <1>7. conns' = conns /\ (Undecided' <=> Undecided)
    BY DEF DropsOne, Stays
  <1> HIDE DEF c
  <1>8. Life' = [Life EXCEPT ![c] = "gone"]
    <2>1. Life'[c] = "gone"
      BY <1>3, <1>4, <1>6, <1>7 DEF Life
    <2>2. \A d \in Conns \ {c} : Life'[d] = Life[d]
      BY <1>6, <1>7 DEF Life
    <2>3. /\ Life = [d \in Conns |-> Life[d]] /\ Life' = [d \in Conns |-> Life'[d]]
      BY DEF Life
    <2> QED BY <2>1, <2>2, <2>3
  <1>9. Promise!Drop(c)
    BY <1>2, <1>5, <1>8 DEF Promise!Drop, Promise!Becomes
  <1> QED BY <1>2, <1>3, <1>9 DEF Promise!Next, Promise!Step

\* Giving up the connection taken last refuses it.
LEMMA GivesUpMapped ==
  ASSUME IInv, MInv, Accepted, GivesUp
  PROVE  [Promise!Next]_(Promise!vars)
  <1>1. Open' = Open /\ Running' = Running /\ Running
    BY DEF GivesUp, Open
  <1>2. conns \in Conns /\ \A c \in Conns : c \in Nat
    BY Types DEF GivesUp, Undecided, Accepted, Conns
  <1>3. Life[conns] = "accepted"
    BY <1>2 DEF GivesUp, Life
  <1>4. ~ \E h \in Handles : client'[h] = conns
    BY DEF GivesUp, MInv, NotYet
  <1>5. Life' = [Life EXCEPT ![conns] = "gone"]
    <2>1. \A c \in Conns : Life'[c] = IF c = conns THEN "gone" ELSE Life[c]
      BY <1>2, <1>4 DEF GivesUp, Life
    <2> QED BY <1>2, <2>1, LifeMaps
  <1>6. Promise!Refuse(conns)
    BY <1>1, <1>3, <1>5 DEF Promise!Refuse, Promise!Becomes
  <1> QED BY <1>1, <1>2, <1>6 DEF Promise!Next, Promise!Step

\* A connection comes in when none waits for admission.
LEMMA TakesMapped ==
  ASSUME IInv, MInv, TakesOne
  PROVE  [Promise!Next]_(Promise!vars)
  <1>1. PICK h \in Handles : sock[h] = NoConn /\ sock' = [sock EXCEPT ![h] = conns']
    BY DEF TakesOne
  <1>2. /\ conns \in Nat /\ conns' = conns + 1 /\ conns' \in Conns
        /\ NoConn \notin Conns /\ \A c \in Conns : c \in Nat
    BY Types, ConstantsAssumption DEF TakesOne, Conns, NoConn
  <1>3. Running' = Running /\ Running
    BY DEF TakesOne
  <1>4. \A k \in Handles : sock'[k] = IF k = h THEN conns' ELSE sock[k]
    BY <1>1, Types
  <1>5. Open' = Open \cup {conns'}
    BY <1>1, <1>2, <1>4 DEF Open
  <1>6. /\ Life[conns'] = "unborn"
        /\ \A c \in Conns : Life[c] = "unborn" => conns' <= c
        /\ \A c \in Conns : Life[c] # "accepted"
    BY <1>2 DEF TakesOne, Life
  <1>7. Life' = [Life EXCEPT ![conns'] = "accepted"]
    <2>1. \A c \in Conns : Life'[c] = IF c = conns' THEN "accepted" ELSE Life[c]
      BY <1>2 DEF TakesOne, Life
    <2> QED BY <1>2, <2>1, LifeMaps
  <1>8. Promise!Connect(conns')
    BY <1>5, <1>6, <1>7 DEF Promise!Connect, Promise!Becomes, Promise!In
  <1> QED BY <1>2, <1>3, <1>8 DEF Promise!Next, Promise!Step

\* The client added is the connection taken last, and there is room for it:
\* there are no more client connections than handles with a client.
LEMMA AdmitsMapped ==
  ASSUME IInv, MInv, Accepted, AdmitsOne
  PROVE  [Promise!Next]_(Promise!vars)
  <1>1. PICK h \in Handles : client[h] = NoConn
                             /\ client' = [client EXCEPT ![h] = conns]
    BY DEF AdmitsOne
  <1>2. Open' = Open /\ Running' = Running /\ Running
    BY DEF AdmitsOne, Open
  <1>3. conns \in Conns /\ NoConn \notin Conns /\ \A c \in Conns : c \in Nat
    BY Types DEF AdmitsOne, Undecided, Accepted, Conns, NoConn
  <1>4. Life[conns] = "accepted"
    BY <1>3 DEF AdmitsOne, Life
  <1>5. \A k \in Handles : client'[k] = IF k = h THEN conns ELSE client[k]
    BY <1>1, Types
  <1>6. \A d \in Conns \ {conns} : (\E k \in Handles : client'[k] = d)
                                      <=> (\E k \in Handles : client[k] = d)
    BY <1>1, <1>3, <1>5
  <1>7. Life' = [Life EXCEPT ![conns] = "client"]
    <2>1. \A c \in Conns : Life'[c] = IF c = conns THEN "client" ELSE Life[c]
      BY <1>1, <1>3, <1>5, <1>6 DEF AdmitsOne, Life
    <2> QED BY <1>3, <2>1, LifeMaps
  <1>8. Cardinality(Promise!In("client")) <= MaxClients
    <2> DEFINE image == {client[k] : k \in Clients}
               f == [k \in Clients |-> client[k]]
    <2> f \in Surjection(Clients, image)
      BY Fun_IsSurj
    <2>1. IsFiniteSet(image) /\ Cardinality(image) <= Cardinality(Clients)
      BY Counted, FS_Surjection
    <2>2. Promise!In("client") \subseteq image
      BY <1>3 DEF Promise!In, Life, Clients
    <2>3. Cardinality(Promise!In("client")) <= Cardinality(image)
      BY <2>1, <2>2, FS_Subset
    <2>4. /\ Cardinality(image) \in Nat /\ Cardinality(Clients) \in Nat
          /\ Cardinality(Promise!In("client")) \in Nat /\ MaxClients \in Nat
      BY <2>1, <2>2, Counted, FS_Subset, FS_CardinalityType, ConstantsAssumption
    <2> QED BY <2>1, <2>3, <2>4 DEF AdmitsOne
  <1>9. Promise!Admit(conns)
    BY <1>2, <1>4, <1>7, <1>8, SameCardinality
       DEF Promise!Admit, Promise!Becomes
  <1> QED BY <1>2, <1>3, <1>9 DEF Promise!Next, Promise!Step

\* The initial states map to the initial state of Connections.
LEMMA InitMapped == Init => Promise!Init
  <1> SUFFICES ASSUME Init PROVE Promise!Init
    OBVIOUS
  <1>1. Running = TRUE
    BY DEF Init, Running, Idle, Procs
  <1>2. Life = [c \in Conns |-> "unborn"]
    BY DEF Init, Life, Conns
  <1>3. Open = {}
    BY DEF Init, Open
  <1> QED BY <1>1, <1>2, <1>3 DEF Promise!Init

\* Every step maps to a step of Connections or to none.
LEMMA NextMapped ==
  IInv /\ CInv /\ Accepted /\ MInv /\ [Next]_vars
      => [Promise!Next]_(Promise!vars)
  <1> SUFFICES ASSUME IInv, CInv, Accepted, MInv, [Next]_vars
               PROVE  [Promise!Next]_(Promise!vars)
    OBVIOUS
  <1>1. CASE Apart
    <2>1. Life' = Life
      BY <1>1 DEF Apart, Stays, Life
    <2>2. Open' = Open
      BY <1>1 DEF Apart, Open
    <2>3. Running' = Running
      BY <1>1, RunningMaps DEF Apart, Stays
    <2> QED BY <2>1, <2>2, <2>3 DEF Promise!vars
  <1>2. CASE Crashes
    <2>1. Life' = Life /\ Open' = Open /\ Running' = FALSE /\ Running
      BY <1>2 DEF Crashes, Life, Open
    <2> QED BY <2>1 DEF Promise!Next, Promise!Crash
  <1> QED BY <1>1, <1>2, NextMaps, ClosesMapped, DropsMapped, GivesUpMapped,
             TakesMapped, AdmitsMapped

\* CTCPServer, CTCPWorker and their tables implement Connections: each
\* connection is admitted at most once and dropped at most once, and nothing
\* left over from it or from another one on its SOCKET value brings it back,
\* whatever fails and however often handles are reissued.
THEOREM TcpImplementsConnections == Spec => ImplementsConnections
  BY InitMapped, NextMapped, MInvAlways, PTL
     DEF Spec, ImplementsConnections, Promise!Spec

-----------------------------------------------------------------------------
(* The first connection. *)

\* Until OP_IOInitialize is posted for the first connection, no completion and
\* no handler exists that could take its client away.
FirstOnItsWay ==
    \/ conns = 0
    \/ /\ conns = 1
       /\ proc[Acceptor].pc \in {"IsAccept", "AddClient", "CountUp", "Associate"}
Untouched ==
    /\ port = <<>> /\ kernel = {}
    /\ \A t \in Threads : proc[t].pc = "Idle"
    /\ proc[Acceptor].pc \in {"CountUp", "Associate"}
           => client[proc[Acceptor].key] # NoConn

QInv == CrashNeedsReissue /\ (FirstOnItsWay => Untouched)

LEMMA QInvInit == Init => QInv
  BY DEF Init, QInv, CrashNeedsReissue, Running, Untouched, Idle, Procs

\* While the first connection is on its way, the pool and the system rest.
LEMMA NobodyElse ==
  ASSUME QInv, FirstOnItsWay, NEW t \in Threads
  PROVE  /\ ~ IOCPWorkerThread(t)
         /\ ~ \E k \in kernel : Aborted(k) \/ Finished(k)
  BY DEF QInv, Untouched, IOCPWorkerThread, GetQueuedCompletionStatus, Handler,
         ProcessIOMessage, Dispatched, OnInitialize, OnRead,
         OnReadCompletedZero, OnReadCompleted, AsyncSend, OnWrite,
         OnWriteCompleted, Removal, RemoveClient, CountDown, DisConnectClient,
         ReleaseBuffer

\* The accept thread brings the first client as far as Associate.
LEMMA FirstAdmitted ==
  ASSUME IInv, Accepted, QInv, IsAccept \/ AddClient \/ CountUp
  PROVE  QInv'
  <1> DEFINE a == proc[Acceptor]
  <1>1. /\ a \in Work /\ WorkOK(a) /\ conns \in Nat /\ conns' = conns
        /\ conns # 0 /\ NoConn = 0 /\ port' = port /\ kernel' = kernel
    BY Types DEF IsAccept, AddClient, CountUp, Accepted, NoConn
  <1>2. a.key \in Handles
    BY <1>1 DEF WorkOK, IsAccept, AddClient, CountUp
  <1>3. PICK l : /\ Become(Acceptor, [a EXCEPT !.pc = l])
                 /\ l \in {"AddClient", "CountUp", "Associate",
                           "RejectClientConnect"}
                 /\ l = "CountUp" => client' = [client EXCEPT ![a.key] = conns]
                 /\ l = "Associate" => a.pc = "CountUp" /\ client' = client
    <2>1. CASE IsAccept
      <3>1. PICK m \in {"AddClient", "RejectClientConnect"} :
              Become(Acceptor, [a EXCEPT !.pc = m])
        BY <2>1 DEF IsAccept
      <3> QED BY <3>1
    <2>2. CASE AddClient
      BY <2>2 DEF AddClient
    <2>3. CASE CountUp
      BY <2>3 DEF CountUp
    <2> QED BY <2>1, <2>2, <2>3
  <1>4. [a EXCEPT !.pc = l].pc = l /\ [a EXCEPT !.pc = l].key = a.key
    BY <1>1 DEF Work
  <1>5. /\ proc'[Acceptor].pc = l /\ proc'[Acceptor].key = a.key
        /\ \A t \in Threads : proc'[t] = proc[t]
    BY <1>3, <1>4, Types DEF Become, Procs
  <1>6. CrashNeedsReissue'
    BY <1>3, <1>5 DEF CrashNeedsReissue, Running
  <1>7. FirstOnItsWay' => FirstOnItsWay
    BY <1>1 DEF FirstOnItsWay, IsAccept, AddClient, CountUp
  <1>8. l \in {"CountUp", "Associate"} /\ FirstOnItsWay => client'[a.key] # NoConn
    BY <1>1, <1>2, <1>3, Types DEF QInv, Untouched
  <1> QED BY <1>1, <1>5, <1>6, <1>7, <1>8 DEF QInv, Untouched

LEMMA QInvNext == IInv /\ CInv /\ Accepted /\ QInv /\ [Next]_vars => QInv'
  <1> SUFFICES ASSUME IInv, CInv, Accepted, QInv, [Next]_vars PROVE QInv'
    OBVIOUS
  <1>1. conns \in Nat
    BY Types
  <1>2. ASSUME NEW t \in Threads, IOCPWorkerThread(t) PROVE QInv'
    <2>1. PICK w : Become(t, w)
      BY <1>2, HandlerPlain DEF IOCPWorkerThread, Removal, RemoveClient,
         CountDown, DisConnectClient, ReleaseBuffer, Plain
    <2>2. conns' = conns
      BY <1>2 DEF IOCPWorkerThread, GetQueuedCompletionStatus, Handler,
         ProcessIOMessage, OnInitialize, OnRead, OnReadCompletedZero,
         OnReadCompleted, AsyncSend, OnWrite, OnWriteCompleted, Removal,
         RemoveClient, CountDown, DisConnectClient, ReleaseBuffer
    <2>3. proc'[Acceptor] = proc[Acceptor]
      BY <2>1, Types DEF Become
    <2>4. ~ FirstOnItsWay'
      BY <1>2, <2>2, <2>3, NobodyElse DEF FirstOnItsWay
    <2> QED BY <2>2, <2>3, <2>4 DEF QInv, CrashNeedsReissue, Running
  <1>3. CASE Accept
    <2>1. PICK h \in Handles :
            Become(Acceptor, [Idle EXCEPT !.pc = "IsAccept", !.key = h])
      BY <1>3 DEF Accept
    <2>2. /\ proc'[Acceptor].pc = "IsAccept"
          /\ \A t \in Threads : proc'[t] = proc[t]
      BY <2>1, Types DEF Become, Idle, Procs
    <2>3. conns' = conns + 1 /\ port' = port /\ kernel' = kernel
      BY <1>3 DEF Accept
    <2>4. FirstOnItsWay' => FirstOnItsWay
      <3>1. FirstOnItsWay' => conns' \in {0, 1}
        BY DEF FirstOnItsWay
      <3>2. conns' \in {0, 1} => conns = 0
        BY <1>1, <2>3
      <3> QED BY <3>1, <3>2 DEF FirstOnItsWay
    <2> QED BY <2>2, <2>3, <2>4 DEF QInv, CrashNeedsReissue, Running, Untouched
  <1>4. CASE IsAccept \/ AddClient \/ CountUp
    BY <1>4, FirstAdmitted
  <1>5. CASE Associate
    <2>1. conns' = conns /\ proc[Acceptor].pc # "Idle"
      BY <1>5 DEF Associate
    <2>2. conns # 0
      BY <1>1, <2>1 DEF Accepted
    <2>3. proc'[Acceptor].pc \in {"Crashed", "Idle", "RemoveClient"}
      BY <1>5, AssociateTo
    <2>4. proc'[Acceptor].pc = "Crashed" => conns > 1
      <3> SUFFICES ASSUME conns = 1, proc'[Acceptor].pc = "Crashed" PROVE FALSE
        BY <1>1, <2>2
      <3>1. client[proc[Acceptor].key] # NoConn
        BY <1>5 DEF Associate, QInv, FirstOnItsWay, Untouched
      <3>2. PICK b : \/ Become(Acceptor, Idle)
                     \/ Become(Acceptor,
                               [Remove(proc[Acceptor], "ReleaseBuffer") EXCEPT
                                    !.buf = b, !.after = "RejectClientConnect"])
        BY <1>5, <3>1 DEF Associate
      <3> DEFINE r == Remove(proc[Acceptor], "ReleaseBuffer")
                 v == [r EXCEPT !.buf = b, !.after = "RejectClientConnect"]
      <3>3. Idle.pc = "Idle" /\ v.pc = "RemoveClient"
        BY Types DEF Remove, Work, Idle
      <3>4. PICK w : Become(Acceptor, w) /\ w.pc \in {"Idle", "RemoveClient"}
        BY <3>2, <3>3
      <3> QED BY <3>4, Types DEF Become
    <2>5. ~ FirstOnItsWay'
      BY <2>1, <2>2, <2>3 DEF FirstOnItsWay
    <2> QED BY <2>1, <2>4, <2>5 DEF QInv, CrashNeedsReissue, Running
  <1>6. CASE Removal(Acceptor) \/ RejectClientConnect
    <2>1. conns' = conns /\ conns # 0
      BY <1>6 DEF Removal, RemoveClient, CountDown, DisConnectClient,
                  ReleaseBuffer, RejectClientConnect, Accepted
    <2>2. proc'[Acceptor].pc \notin {"IsAccept", "AddClient", "CountUp",
                                     "Associate", "Crashed"}
      BY <1>6, RemovalTo DEF RejectClientConnect
    <2> QED BY <2>1, <2>2
            DEF QInv, CrashNeedsReissue, Running, FirstOnItsWay
  <1>7. CASE System
    <2>1. UNCHANGED <<proc, client, conns>>
      BY <1>7 DEF System, Vistor, Aborted, Finished, Complete
    <2>2. CASE \E h \in Handles : Vistor(h)
      BY <2>1, <2>2 DEF Vistor, QInv, CrashNeedsReissue, Running,
                        FirstOnItsWay, Untouched
    <2>3. CASE \E k \in kernel : Aborted(k) \/ Finished(k)
      <3>1. ~ FirstOnItsWay'
        BY <2>1, <2>3 DEF QInv, Untouched, FirstOnItsWay
      <3> QED BY <2>1, <3>1 DEF QInv, CrashNeedsReissue, Running
    <2> QED BY <1>7, <2>2, <2>3 DEF System
  <1>8. CASE UNCHANGED vars
    BY <1>8 DEF vars, QInv, CrashNeedsReissue, Running, FirstOnItsWay, Untouched
  <1> QED BY <1>2, <1>3, <1>4, <1>5, <1>6, <1>7, <1>8
          DEF Next, AssociateIncomingClientSocket

\* The accept thread never loses the client it has just added, and the process
\* with it, on the first connection: only what is left of an earlier one, on a
\* handle issued again, can take the client away before it is looked up.
THEOREM FirstConnectionIsSafe == Spec => []CrashNeedsReissue
  <1>1. QInv => CrashNeedsReissue
    BY DEF QInv
  <1> QED BY <1>1, QInvInit, QInvNext, MInvAlways, PTL DEF Spec
=============================================================================
