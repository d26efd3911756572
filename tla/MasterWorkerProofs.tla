------------------------- MODULE MasterWorkerProofs -------------------------
(***************************************************************************)
(* Theorems of MasterWorker, for any number of workers, tries and crashes  *)
(* and any length of the queues.                                           *)
(***************************************************************************)
EXTENDS MasterWorker, FiniteSetTheorems, SequenceTheorems, TLAPS

-----------------------------------------------------------------------------
(* The inductive invariant: what is in the two queues of a worker. *)

Starting == {"Listen", "Create", "Wait", "Ping", "Pong"}

ToWorker(w) == messages[MASTER(w)]
ToMaster(w) == messages[WORKER(w)]

\* Nothing is owed to the master; the socket may not have been taken yet.
Quiet(w) == /\ ToWorker(w) \in {<<>>, <<"WSASOCKET">>}
            /\ ToMaster(w) = <<>> /\ ~W(w, "Pong")

\* One ping is on its way to the worker or taken by it, or its answer is on
\* its way back, or the worker ended with it.
Pinged(w) ==
    \/ /\ ToWorker(w) \in {<<"PING">>, <<"WSASOCKET", "PING">>}
       /\ ToMaster(w) = <<>> /\ ~W(w, "Pong")
    \/ /\ ToWorker(w) = <<>>
       /\ ToMaster(w) = <<>> \/ (ToMaster(w) = <<"PONG">> /\ ~W(w, "Pong"))

Listed(w) ==
    /\ IF Awaits(w) THEN Pinged(w) ELSE Quiet(w)
    /\ master.pc \in Starting \/ (master.pc = "Share" /\ master.w <= w)
          => ToWorker(w) = <<>>

Unlisted(w) ==
    /\ w \notin serving /\ ToWorker(w) \in {<<>>, <<"PING">>}
    /\ \/ worker[w].pc \in {"none", "ended"}
       \/ w = master.w /\ master.pc \in {"Wait", "Ping", "Pong"}
       \/ w \in spared
    /\ IF Awaits(w) THEN Pinged(w) ELSE master.pc \in Starting => Quiet(w)

Pair(w) == IF w <= listed THEN Listed(w) ELSE Unlisted(w)

\* The worker that the master is at, by where it is; in Run every worker of
\* the list has answered so far.
MasterPlace ==
    /\ master.pc \in {"Wait", "Ping", "Pong"} => master.w = listed + 1
    /\ master.pc = "Share" => master.w <= listed + 1
    /\ master.pc \in {"RunPing", "RunPong"} =>
          master.w <= listed /\ master.n = listed

InCharge == MasterAlive => MasterPlace /\ \A w \in Workers : Pair(w)

\* A worker that is not on the list never gets the socket.
Untold(w) == w \notin serving /\ ToWorker(w) \in {<<>>, <<"PING">>}

UnlistedUntold == \A w \in Workers : w <= listed \/ Untold(w)

Core == TypeOK /\ InCharge /\ EndsWithoutWorkers
MInv == Core /\ UnlistedUntold

-----------------------------------------------------------------------------
(* The queues. *)

LEMMA QueuesApart ==
  /\ \A w \in Workers : MASTER(w) \in Queues /\ WORKER(w) \in Queues
  /\ \A v, w \in Workers : /\ MASTER(v) # WORKER(w)
                           /\ v # w => MASTER(v) # MASTER(w)
                           /\ v # w => WORKER(v) # WORKER(w)
  BY DEF MASTER, WORKER, Queues

LEMMA Sent ==
  ASSUME TypeOK, NEW q \in Queues, NEW m \in E_IPC_PACKET_TYPE, Send(q, m)
  PROVE  /\ messages' \in [Queues -> Seq(E_IPC_PACKET_TYPE)]
         /\ messages'[q] = Append(messages[q], m)
         /\ \A r \in Queues : r # q => messages'[r] = messages[r]
  <1>1. messages[q] \in Seq(E_IPC_PACKET_TYPE)
    BY DEF TypeOK
  <1>2. Append(messages[q], m) \in Seq(E_IPC_PACKET_TYPE)
    BY <1>1
  <1> QED BY <1>2 DEF TypeOK, Send

LEMMA Received ==
  ASSUME TypeOK, NEW q \in Queues, Receive(q)
  PROVE  /\ messages' \in [Queues -> Seq(E_IPC_PACKET_TYPE)]
         /\ messages[q] # <<>>
         /\ messages'[q] = Tail(messages[q])
         /\ \A r \in Queues : r # q => messages'[r] = messages[r]
  <1>1. messages[q] \in Seq(E_IPC_PACKET_TYPE) /\ messages[q] # <<>>
    BY DEF TypeOK, Receive
  <1>2. Tail(messages[q]) \in Seq(E_IPC_PACKET_TYPE)
    BY <1>1
  <1> QED BY <1>1, <1>2 DEF TypeOK, Receive

\* A second message is behind the first.
LEMMA Second ==
  ASSUME NEW a, NEW b
  PROVE  Append(<<a>>, b) = <<a, b>>
  <1> DEFINE S == {a, b}
             s == Append(<<a>>, b)
             t == <<a, b>>
  <1>1. <<a>> \in Seq(S) /\ t \in Seq(S) /\ b \in S
    OBVIOUS
  <1>2. s \in Seq(S) /\ Len(s) = 2 /\ s[1] = a /\ s[2] = b
    BY <1>1
  <1>3. Len(t) = 2 /\ t[1] = a /\ t[2] = b
    OBVIOUS
  <1>4. \A i \in 1 .. Len(s) : i = 1 \/ i = 2
    BY <1>2
  <1>5. \A i \in 1 .. Len(s) : s[i] = t[i]
    BY <1>2, <1>3, <1>4
  <1>6. t \in Seq(S) /\ Len(s) = Len(t)
    BY <1>1, <1>2, <1>3
  <1> HIDE DEF s, t, S
  <1>7. s = t
    BY <1>2, <1>5, <1>6, SeqEqual
  <1> QED BY <1>7 DEF s, t

\* What the operations make of the queues that the invariant has.
LEMMA Short ==
  /\ Append(<<>>, "PING") = <<"PING">>
  /\ Append(<<>>, "PONG") = <<"PONG">>
  /\ Append(<<>>, "WSASOCKET") = <<"WSASOCKET">>
  /\ Append(<<"WSASOCKET">>, "PING") = <<"WSASOCKET", "PING">>
  /\ Tail(<<"PING">>) = <<>> /\ Tail(<<"PONG">>) = <<>>
  /\ Tail(<<"WSASOCKET">>) = <<>>
  /\ Tail(<<"WSASOCKET", "PING">>) = <<"PING">>
  /\ Head(<<"PING">>) = "PING" /\ Head(<<"PONG">>) = "PONG"
  /\ Head(<<"WSASOCKET">>) = "WSASOCKET"
  /\ Head(<<"WSASOCKET", "PING">>) = "WSASOCKET"
  /\ <<>> # <<"PING">> /\ <<>> # <<"PONG">> /\ <<>> # <<"WSASOCKET">>
  /\ <<>> # <<"WSASOCKET", "PING">>
  <1>1. /\ Append(<<>>, "PING") = <<"PING">>
        /\ Append(<<>>, "PONG") = <<"PONG">>
        /\ Append(<<>>, "WSASOCKET") = <<"WSASOCKET">>
    OBVIOUS
  <1>2. Append(<<"WSASOCKET">>, "PING") = <<"WSASOCKET", "PING">>
    BY Second
  <1>3. /\ Tail(<<"PING">>) = <<>> /\ Tail(<<"PONG">>) = <<>>
        /\ Tail(<<"WSASOCKET">>) = <<>>
    OBVIOUS
  <1>4. Tail(<<"WSASOCKET", "PING">>) = <<"PING">>
    OBVIOUS
  <1>5. /\ Head(<<"PING">>) = "PING" /\ Head(<<"PONG">>) = "PONG"
        /\ Head(<<"WSASOCKET">>) = "WSASOCKET"
        /\ Head(<<"WSASOCKET", "PING">>) = "WSASOCKET"
    OBVIOUS
  <1>6. /\ <<>> # <<"PING">> /\ <<>> # <<"PONG">> /\ <<>> # <<"WSASOCKET">>
        /\ <<>> # <<"WSASOCKET", "PING">>
    OBVIOUS
  <1> QED BY <1>1, <1>2, <1>3, <1>4, <1>5, <1>6

-----------------------------------------------------------------------------
(* Types. *)

MasterType ==
    [pc : {"Listen", "Create", "Wait", "Ping", "Pong", "Share",
           "Run", "RunPing", "RunPong", "UnInit", "Exited", "Crashed"},
     w : 1 .. Count + 1, tries : 0 .. Tries, n : 0 .. Count]
WorkerType == [pc : {"none", "Main", "Wait", "Ping", "Pong", "Loop", "Stop",
                     "ended"},
               tries : 0 .. Tries]
PlaceOK == master.pc \in {"Wait", "Ping", "Pong", "RunPing", "RunPong"} =>
              master.w \in Workers
IPCTyped == /\ created \subseteq Queues /\ opened \subseteq created
            /\ messages \in [Queues -> Seq(E_IPC_PACKET_TYPE)]

LEMMA TypeParts ==
  /\ TypeOK <=> /\ mayFail \in BOOLEAN /\ master \in MasterType
                /\ listed \in 0 .. Count /\ worker \in [Workers -> WorkerType]
                /\ IPCTyped /\ serving \subseteq Workers
                /\ spared \subseteq Workers
                /\ crashes \in 0 .. MaxCrashes /\ PlaceOK
  /\ TypeOK' <=> /\ mayFail' \in BOOLEAN /\ master' \in MasterType
                 /\ listed' \in 0 .. Count /\ worker' \in [Workers -> WorkerType]
                 /\ IPCTyped' /\ serving' \subseteq Workers
                 /\ spared' \subseteq Workers
                 /\ crashes' \in 0 .. MaxCrashes /\ PlaceOK'
  BY DEF TypeOK, MasterType, WorkerType, IPCTyped, PlaceOK

\* An operation on the queues keeps their types.
LEMMA IPCStep ==
  ASSUME TypeOK, NEW w \in Workers,
         \/ \E q \in Queues, m \in E_IPC_PACKET_TYPE : Send(q, m)
         \/ \E q \in Queues : Receive(q)
         \/ ReInit(MASTER(w), WORKER(w)) \/ ReInit(WORKER(w), MASTER(w))
         \/ UNCHANGED ipcVars
  PROVE  IPCTyped'
  <1>1. ASSUME NEW q \in Queues, NEW m \in E_IPC_PACKET_TYPE, Send(q, m)
        PROVE  IPCTyped'
    BY <1>1, Sent DEF TypeOK, IPCTyped, Send
  <1>2. ASSUME NEW q \in Queues, Receive(q) PROVE IPCTyped'
    BY <1>2, Received DEF TypeOK, IPCTyped, Receive
  <1>3. ASSUME NEW q \in Queues, NEW r, ReInit(q, r) PROVE IPCTyped'
    BY <1>3 DEF TypeOK, IPCTyped, ReInit, InitSender, InitReceiver
  <1>4. CASE UNCHANGED ipcVars
    BY <1>4 DEF TypeOK, IPCTyped, ipcVars
  <1> QED BY <1>1, <1>2, <1>3, <1>4, QueuesApart

\* A worker goes to a step, or counts a try.
LEMMA WorkerTyped ==
  ASSUME worker \in [Workers -> WorkerType], NEW w \in Workers
  PROVE  /\ \A l \in {"none", "Main", "Wait", "Ping", "Pong", "Loop", "Stop",
                  "ended"} :
               [worker EXCEPT ![w].pc = l] \in [Workers -> WorkerType]
         /\ \A k \in 0 .. Tries :
               [worker EXCEPT ![w].tries = k] \in [Workers -> WorkerType]
  <1>1. \A l \in {"none", "Main", "Wait", "Ping", "Pong", "Loop", "Stop",
                  "ended"} :
           [worker[w] EXCEPT !.pc = l] \in WorkerType
    BY DEF WorkerType
  <1>2. \A k \in 0 .. Tries : [worker[w] EXCEPT !.tries = k] \in WorkerType
    BY DEF WorkerType
  <1> QED BY <1>1, <1>2

\* A worker goes to a step; the others and its tries stay.
LEMMA WorkerMoves ==
  ASSUME worker \in [Workers -> WorkerType], NEW w \in Workers, NEW l,
         WorkerGoto(w, l)
  PROVE  worker'[w].pc = l /\ \A v \in Workers : v # w => worker'[v] = worker[v]
  <1>1. worker' = [worker EXCEPT ![w] = [worker[w] EXCEPT !.pc = l]]
    BY DEF WorkerGoto
  <1>2. worker[w] \in WorkerType
    OBVIOUS
  <1>3. [worker[w] EXCEPT !.pc = l].pc = l
    BY <1>2 DEF WorkerType
  <1> QED BY <1>1, <1>3

-----------------------------------------------------------------------------
(* The steps of a worker. *)

\* The parts of a pair that its other processes leave alone.
LEMMA PairStays ==
  ASSUME NEW w \in Workers, Pair(w), UNCHANGED <<master, listed, spared>>,
         worker'[w] = worker[w], ToWorker(w)' = ToWorker(w),
         ToMaster(w)' = ToMaster(w), w \in serving' => w \in serving
  PROVE  Pair(w)'
  BY DEF Pair, Listed, Unlisted, Awaits, Pinged, Quiet, W

\* The worker goes on, and has said or taken nothing.
LEMMA WorkerGoesOnOK ==
  ASSUME NEW w \in Workers, MasterAlive, MasterPlace, Pair(w), TypeOK,
         UNCHANGED <<master, listed, serving, spared, messages>>,
         worker[w].pc \notin {"none", "ended"}, worker'[w].pc # "Pong"
  PROVE  Pair(w)'
  <1>1. ToWorker(w)' = ToWorker(w) /\ ToMaster(w)' = ToMaster(w)
    BY DEF ToWorker, ToMaster
  <1>2. (Pinged(w) => Pinged(w)') /\ (Quiet(w) => Quiet(w)')
    BY <1>1 DEF Pinged, Quiet, W
  <1> QED BY <1>1, <1>2 DEF Pair, Listed, Unlisted, Awaits

\* It takes a message.
LEMMA WorkerTakes ==
  ASSUME NEW w \in Workers, MasterAlive, MasterPlace, Pair(w), TypeOK,
         UNCHANGED <<master, listed, spared>>, Receive(MASTER(w)),
         worker[w].pc \notin {"none", "ended", "Pong"},
         worker'[w].pc = "Pong" <=> Head(ToWorker(w)) = "PING",
         w \in serving' => w \in serving \/ Head(ToWorker(w)) = "WSASOCKET"
  PROVE  Pair(w)'
  <1>1. /\ ToWorker(w) # <<>> /\ ToWorker(w)' = Tail(ToWorker(w))
        /\ ToMaster(w)' = ToMaster(w)
    BY Received, QueuesApart DEF ToWorker, ToMaster
  <1>2. Quiet(w) => Quiet(w)' /\ ToWorker(w)' = <<>> /\ Head(ToWorker(w)) # "PING"
    BY <1>1, Short DEF Quiet, W
  <1>3. Pinged(w) => Pinged(w)' /\ ToWorker(w)' \in {<<>>, <<"PING">>}
    BY <1>1, Short DEF Pinged, W
  <1>4. CASE w <= listed
    BY <1>1, <1>2, <1>3, <1>4 DEF Pair, Listed, Awaits
  <1>5. CASE ~ w <= listed
    <2>1. Head(ToWorker(w)) = "PING" /\ ToWorker(w)' = <<>>
      BY <1>1, <1>5, Short DEF Pair, Unlisted
    <2> QED BY <1>2, <1>3, <1>5, <2>1, Short DEF Pair, Unlisted, Awaits
  <1> QED BY <1>4, <1>5

\* It answers.
LEMMA WorkerAnswers ==
  ASSUME NEW w \in Workers, MasterAlive, MasterPlace, Pair(w), TypeOK,
         UNCHANGED <<master, listed, serving, spared>>, Send(WORKER(w), "PONG"),
         worker[w].pc = "Pong", worker'[w].pc = "Loop"
  PROVE  Pair(w)'
  <1>1. /\ ToMaster(w)' = Append(ToMaster(w), "PONG")
        /\ ToWorker(w)' = ToWorker(w)
    BY Sent, QueuesApart DEF ToWorker, ToMaster, E_IPC_PACKET_TYPE
  <1>2. ~Quiet(w)
    BY DEF Quiet, W
  <1>3. Pinged(w) => Pinged(w)'
    BY <1>1, Short DEF Pinged, W
  <1>4. CASE Awaits(w)
    <2>1. Pinged(w)
      BY <1>4 DEF Pair, Listed, Unlisted
    <2> QED BY <1>1, <1>3, <1>4, <2>1 DEF Pair, Listed, Unlisted, Awaits
  <1>5. CASE ~Awaits(w)
    <2>1. ~ w <= listed /\ master.pc \notin Starting /\ w \in spared
      BY <1>2, <1>5 DEF Pair, Listed, Unlisted, Starting
    <2> QED BY <1>1, <1>5, <2>1 DEF Pair, Unlisted, Awaits
  <1> QED BY <1>4, <1>5

LEMMA WorkerKeeps ==
  ASSUME NEW w \in Workers, TypeOK, InCharge, MasterAlive,
         WorkerStep(w) \/ ServerStops(w) \/ WorkerCrashes(w)
  PROVE  InCharge'
  <1>1. /\ UNCHANGED <<master, listed, spared>>
        /\ \A v \in Workers : v # w => worker'[v] = worker[v]
        /\ \A v \in Workers : v # w => (v \in serving' => v \in serving)
    <2>1. worker \in [Workers -> WorkerType]
      BY TypeParts
    <2> QED BY <2>1 DEF WorkerStep, ServerStops, WorkerCrashes, WorkerMain, WorkerRetries,
              WorkerWaits, WorkerPings, WorkerPongs, WorkerTakesPing,
              WorkerTakesSocket, WorkerTimesOut, WorkerGoto
  <1>2. \A v \in Workers : v # w => ToWorker(v)' = ToWorker(v)
                                  /\ ToMaster(v)' = ToMaster(v)
    <2>1. \/ UNCHANGED messages
          \/ \E q \in {MASTER(w), WORKER(w)} :
                Receive(q) \/ Send(q, "PONG")
      BY DEF WorkerStep, ServerStops, WorkerCrashes, WorkerMain, WorkerRetries, ReInit,
             WorkerWaits, WorkerPings, WorkerPongs, WorkerTakesPing,
             WorkerTakesSocket, WorkerTimesOut, ipcVars
    <2>2. CASE UNCHANGED messages
      BY <2>2 DEF ToWorker, ToMaster
    <2>3. ASSUME NEW q \in {MASTER(w), WORKER(w)}, Receive(q) \/ Send(q, "PONG")
          PROVE  \A r \in Queues : r # q => messages'[r] = messages[r]
      BY <2>3, Sent, Received, QueuesApart DEF E_IPC_PACKET_TYPE
    <2> QED BY <2>1, <2>2, <2>3, QueuesApart DEF ToWorker, ToMaster
  <1>3. /\ MasterPlace /\ \A v \in Workers : Pair(v)
        /\ worker \in [Workers -> WorkerType]
    BY TypeParts DEF InCharge
  <1>4. MasterPlace'
    BY <1>1, <1>3 DEF MasterPlace
  <1>5. \A v \in Workers : v # w => Pair(v)'
    BY <1>1, <1>2, <1>3, PairStays
  <1>6. Pair(w)'
    <2>1. CASE WorkerMain(w)
      BY <1>3, <2>1, WorkerGoesOnOK, WorkerMoves DEF WorkerMain, W, ReInit, ipcVars
    <2>2. CASE WorkerRetries(w)
      <3>1. worker'[w].pc = "Wait"
        BY <1>3, <2>2 DEF WorkerRetries, W, WorkerType
      <3> QED BY <1>3, <2>2, <3>1, WorkerGoesOnOK DEF WorkerRetries, W, ReInit
    <2>3. CASE WorkerWaits(w)
      BY <1>3, <2>3, WorkerGoesOnOK, WorkerMoves DEF WorkerWaits, W, ipcVars
    <2>4. CASE WorkerPings(w)
      <3>1. CASE CanReceive(MASTER(w))
        <4>1. worker'[w].pc = "Pong" <=> Head(ToWorker(w)) = "PING"
          BY <1>3, <2>4, <3>1, WorkerMoves DEF WorkerPings, ToWorker
        <4> QED BY <1>3, <2>4, <3>1, <4>1, WorkerTakes DEF WorkerPings, W
      <3>2. CASE ~CanReceive(MASTER(w))
        BY <1>3, <2>4, <3>2, WorkerGoesOnOK, WorkerMoves
           DEF WorkerPings, W, ipcVars
      <3> QED BY <3>1, <3>2
    <2>5. CASE WorkerPongs(w)
      <3>1. CASE CanSend(WORKER(w))
        BY <1>3, <2>5, <3>1, WorkerAnswers, WorkerMoves DEF WorkerPongs, W
      <3>2. CASE ~CanSend(WORKER(w))
        BY <1>3, <2>5, <3>2, WorkerGoesOnOK, WorkerMoves
           DEF WorkerPongs, W, ipcVars
      <3> QED BY <3>1, <3>2
    <2>6. CASE WorkerTakesPing(w)
      BY <1>3, <2>6, WorkerTakes, WorkerMoves DEF WorkerTakesPing, W, ToWorker
    <2>7. CASE WorkerTakesSocket(w)
      BY <1>3, <2>7, WorkerTakes DEF WorkerTakesSocket, W, ToWorker
    <2>8. CASE WorkerTimesOut(w)
      BY <1>3, <2>8, WorkerGoesOnOK, WorkerMoves DEF WorkerTimesOut, W, ipcVars
    <2>10. CASE ServerStops(w)
      BY <1>3, <2>10, WorkerGoesOnOK, WorkerMoves DEF ServerStops, W, ipcVars
    <2>9. CASE WorkerCrashes(w)
      BY <1>3, <2>9, WorkerGoesOnOK, WorkerMoves DEF WorkerCrashes, ipcVars
    <2> QED BY <2>1, <2>2, <2>3, <2>4, <2>5, <2>6, <2>7, <2>8, <2>9, <2>10 DEF WorkerStep
  <1> QED BY <1>4, <1>5, <1>6 DEF InCharge

-----------------------------------------------------------------------------
(* The steps of the master. *)

\* It goes on without a message, and creates, lists and awaits nobody.
LEMMA MasterGoesOn ==
  ASSUME TypeOK, InCharge, MasterAlive, MasterPlace',
         UNCHANGED <<listed, worker, messages, serving, spared>>,
         {master.pc, master'.pc} \cap {"Pong", "RunPong"} = {},
         master'.pc \in Starting => master.pc \in Starting,
         master'.pc = "Share" => master.pc \in Starting,
         master.pc \in {"Wait", "Ping"} =>
             master'.pc \in {"Wait", "Ping"} /\ master'.w = master.w
  PROVE  InCharge'
  <1> SUFFICES ASSUME NEW w \in Workers PROVE Pair(w)'
    BY DEF InCharge
  <1>1. Pair(w) /\ ~Awaits(w) /\ ~Awaits(w)'
    BY DEF InCharge, Awaits
  <1>2. ToWorker(w)' = ToWorker(w) /\ (Quiet(w) => Quiet(w)')
    BY DEF ToWorker, ToMaster, Quiet, W
  <1> QED BY <1>1, <1>2 DEF Pair, Listed, Unlisted

\* It gives up on the worker it is starting.
LEMMA KillKeeps ==
  ASSUME TypeOK, InCharge, MasterAlive, Kill(master.w),
         master.pc \in {"Ping", "Pong"}, UNCHANGED <<ipcVars, serving>>
  PROVE  InCharge'
  <1>1. /\ master.w = listed + 1 /\ master.w \in Workers /\ listed \in Nat
        /\ worker \in [Workers -> WorkerType] /\ master \in MasterType
    BY TypeParts, ConstantsAssumption DEF InCharge, MasterPlace, PlaceOK
  <1>2. /\ worker'[master.w].pc = "ended" \/ master.w \in spared'
        /\ listed' = listed /\ spared \subseteq spared'
        /\ \A v \in Workers : v # master.w => worker'[v] = worker[v]
        /\ master'.pc = "Share" /\ master'.w = 1
    BY <1>1 DEF Kill, InitEnds, WorkerType, MasterType
  <1>3. MasterPlace'
    BY <1>1, <1>2 DEF MasterPlace
  <1>4. ASSUME NEW w \in Workers PROVE Pair(w)'
    <2>1. Pair(w) /\ ~Awaits(w)' /\ master.pc \in Starting
      BY <1>2 DEF InCharge, Awaits, Starting
    <2>2. ToWorker(w)' = ToWorker(w) /\ ToMaster(w)' = ToMaster(w)
      BY DEF ToWorker, ToMaster, ipcVars
    <2>3. CASE w <= listed
      <3>1. w # master.w /\ worker'[w] = worker[w]
        BY <1>1, <1>2, <2>3 DEF Workers
      <3> QED BY <1>2, <2>1, <2>2, <2>3, <3>1
            DEF Pair, Listed, Awaits, Quiet, W, Starting
    <2>4. CASE ~ w <= listed
      <3>1. worker'[w].pc \in {"none", "ended"} \/ w \in spared'
        BY <1>2, <2>1, <2>4 DEF Pair, Unlisted
      <3> QED BY <1>2, <2>1, <2>2, <2>4, <3>1 DEF Pair, Unlisted, Starting
    <2> QED BY <2>3, <2>4
  <1> QED BY <1>3, <1>4 DEF InCharge

LEMMA CreateKeeps ==
  ASSUME TypeOK, InCharge, MasterAlive, ICreateProcess
  PROVE  InCharge'
  <1> DEFINE w == listed + 1
  <1>1. /\ w \in Workers /\ listed \in Nat /\ master.pc = "Create"
        /\ worker \in [Workers -> WorkerType] /\ master \in MasterType
    BY TypeParts, ConstantsAssumption DEF ICreateProcess, Workers, M
  <1>2. /\ worker'[w].pc = "Main" /\ UNCHANGED <<listed, serving, spared, messages>>
        /\ \A v \in Workers : v # w => worker'[v] = worker[v]
        /\ master'.pc = "Wait" /\ master'.w = w
    BY <1>1 DEF ICreateProcess, ReInit, WorkerType, MasterType
  <1>3. MasterPlace'
    BY <1>2 DEF MasterPlace
  <1>4. ASSUME NEW v \in Workers PROVE Pair(v)'
    <2>1. /\ Pair(v) /\ ~Awaits(v) /\ ~Awaits(v)'
      BY <1>1, <1>2 DEF InCharge, Awaits
    <2>2. /\ ToWorker(v)' = ToWorker(v) /\ ToMaster(v)' = ToMaster(v)
          /\ Quiet(v) => Quiet(v)'
      BY <1>2 DEF ToWorker, ToMaster, Quiet, W
    <2>3. worker[v].pc \in {"none", "ended"} => v = w \/ worker'[v].pc \in {"none", "ended"}
      BY <1>2
    <2> QED BY <1>1, <1>2, <2>1, <2>2, <2>3 DEF Pair, Listed, Unlisted, Starting
  <1> QED BY <1>3, <1>4 DEF InCharge

\* A ping to a worker that owes nothing.
LEMMA PingOf ==
  ASSUME TypeOK, NEW w \in Workers, Send(MASTER(w), "PING"), Quiet(w),
         UNCHANGED worker
  PROVE  /\ Pinged(w)'
         /\ ToWorker(w) = <<>> => ToWorker(w)' = <<"PING">>
         /\ \A v \in Workers : v # w => /\ ToWorker(v)' = ToWorker(v)
                                       /\ ToMaster(v)' = ToMaster(v)
  <1>1. /\ ToWorker(w)' = Append(ToWorker(w), "PING")
        /\ \A v \in Workers : ToMaster(v)' = ToMaster(v)
        /\ \A v \in Workers : v # w => ToWorker(v)' = ToWorker(v)
    BY Sent, QueuesApart DEF ToWorker, ToMaster, E_IPC_PACKET_TYPE
  <1> QED BY <1>1, Short DEF Quiet, Pinged, W

LEMMA PingKeeps ==
  ASSUME TypeOK, InCharge, MasterAlive, MasterPings
  PROVE  InCharge'
  <1>1. /\ master.w = listed + 1 /\ master.w \in Workers /\ listed \in Nat
        /\ master \in MasterType /\ master.pc = "Ping"
    BY TypeParts, ConstantsAssumption
       DEF InCharge, MasterPlace, PlaceOK, MasterPings, M
  <1>2. CASE CanSend(MASTER(master.w))
    <2>1. /\ Send(MASTER(master.w), "PING")
          /\ UNCHANGED <<listed, worker, serving, spared>>
          /\ master'.pc = "Pong" /\ master'.w = master.w
      BY <1>1, <1>2 DEF MasterPings, Goto, MasterType
    <2>2. MasterPlace'
      BY <1>1, <2>1 DEF MasterPlace
    <2>3. Pair(master.w) /\ ~ master.w <= listed /\ Quiet(master.w)
      BY <1>1 DEF InCharge, Pair, Unlisted, Awaits, Starting
    <2>4. ToWorker(master.w) = <<>>
      BY <2>3, Short DEF Pair, Unlisted, Quiet
    <2>5. ASSUME NEW w \in Workers, w # master.w PROVE Pair(w)'
      <3>1. Pair(w) /\ ~Awaits(w) /\ ~Awaits(w)'
        BY <1>1, <2>1, <2>5 DEF InCharge, Awaits
      <3>2. /\ ToWorker(w)' = ToWorker(w)
            /\ Quiet(w) => Quiet(w)'
        BY <1>1, <2>1, <2>3, <2>5, PingOf DEF Quiet, W
      <3> QED BY <1>1, <2>1, <2>5, <3>1, <3>2 DEF Pair, Listed, Unlisted, Starting
    <2>6. ASSUME NEW w \in Workers, w = master.w PROVE Pair(w)'
      <3>1. Pinged(w)' /\ ToWorker(w)' = <<"PING">>
        BY <1>1, <2>1, <2>3, <2>4, <2>6, PingOf
      <3>2. Awaits(w)' /\ w = master'.w /\ ~ (w <= listed')
        BY <1>1, <2>1, <2>6 DEF Awaits
      <3> QED BY <2>1, <2>3, <2>6, <3>1, <3>2 DEF Pair, Unlisted
    <2> QED BY <2>2, <2>5, <2>6 DEF InCharge
  <1>3. CASE ~CanSend(MASTER(master.w))
    BY <1>1, <1>3, KillKeeps DEF MasterPings
  <1> QED BY <1>2, <1>3

\* The answer that the master takes is the one to its ping.
LEMMA AnswerOf ==
  ASSUME TypeOK, NEW w \in Workers, Receive(WORKER(w)), Pinged(w),
         UNCHANGED worker
  PROVE  /\ Head(messages[WORKER(w)]) = "PONG" /\ Quiet(w)'
         /\ ToWorker(w)' = <<>>
         /\ \A v \in Workers : v # w => /\ ToWorker(v)' = ToWorker(v)
                                       /\ ToMaster(v)' = ToMaster(v)
  <1>1. /\ ToMaster(w) # <<>> /\ ToMaster(w)' = Tail(ToMaster(w))
        /\ \A v \in Workers : ToWorker(v)' = ToWorker(v)
        /\ \A v \in Workers : v # w => ToMaster(v)' = ToMaster(v)
    BY Received, QueuesApart DEF ToWorker, ToMaster
  <1>2. ToWorker(w) = <<>> /\ ToMaster(w) = <<"PONG">> /\ ~W(w, "Pong")
    BY <1>1 DEF Pinged
  <1> QED BY <1>1, <1>2, Short DEF Quiet, W, ToMaster

LEMMA PongKeeps ==
  ASSUME TypeOK, InCharge, MasterAlive, MasterPongs
  PROVE  InCharge' /\ (listed' = listed \/ listed' = master.w)
  <1>1. /\ master.w = listed + 1 /\ master.w \in Workers /\ listed \in Nat
        /\ master \in MasterType /\ master.pc = "Pong"
    BY TypeParts, ConstantsAssumption
       DEF InCharge, MasterPlace, PlaceOK, MasterPongs, M
  <1>2. CASE CanReceive(WORKER(master.w))
    <2>1. Pinged(master.w)
      BY <1>1 DEF InCharge, Pair, Unlisted, Awaits
    <2>2. /\ Receive(WORKER(master.w)) /\ UNCHANGED serving
          /\ IF Head(messages[WORKER(master.w)]) = "PONG"
             THEN /\ Goto("Create") /\ listed' = master.w
                  /\ UNCHANGED <<worker, spared>>
             ELSE Kill(master.w)
      BY <1>2 DEF MasterPongs
    <2>3. Head(messages[WORKER(master.w)]) = "PONG"
      <3>1. ToMaster(master.w) # <<>>
        BY <2>2 DEF Receive, ToMaster
      <3> QED BY <2>1, <3>1, Short DEF Pinged, ToMaster
    <2>4. /\ UNCHANGED <<worker, serving, spared>> /\ listed' = master.w
          /\ master'.pc = "Create" /\ master'.w = master.w
      BY <1>1, <2>2, <2>3 DEF Goto, MasterType
    <2>5. MasterPlace'
      BY <2>4 DEF MasterPlace
    <2>6. ASSUME NEW w \in Workers, w # master.w PROVE Pair(w)'
      <3>1. Pair(w) /\ ~Awaits(w) /\ ~Awaits(w)'
        BY <1>1, <2>4, <2>6 DEF InCharge, Awaits
      <3>2. /\ ToWorker(w)' = ToWorker(w) /\ (Quiet(w) => Quiet(w)')
        BY <1>1, <2>1, <2>2, <2>4, <2>6, AnswerOf DEF Quiet, W
      <3>3. w <= listed <=> w <= listed'
        BY <1>1, <2>4, <2>6 DEF Workers
      <3> QED BY <1>1, <2>4, <2>6, <3>1, <3>2, <3>3
            DEF Pair, Listed, Unlisted, Starting
    <2>7. ASSUME NEW w \in Workers, w = master.w PROVE Pair(w)'
      <3>1. Quiet(w)' /\ ToWorker(w)' = <<>>
        BY <2>1, <2>2, <2>4, <2>7, AnswerOf
      <3>2. ~Awaits(w)' /\ w <= listed'
        BY <1>1, <2>4, <2>7 DEF Awaits
      <3> QED BY <3>1, <3>2 DEF Pair, Listed
    <2> QED BY <2>4, <2>5, <2>6, <2>7 DEF InCharge
  <1>3. CASE ~CanReceive(WORKER(master.w))
    BY <1>1, <1>3, KillKeeps DEF MasterPongs, Kill
  <1> QED BY <1>2, <1>3

LEMMA ShareKeeps ==
  ASSUME TypeOK, InCharge, MasterAlive, Share
  PROVE  InCharge' /\ master'.w \in 1 .. Count + 1
  <1>1. /\ master.w <= listed + 1 /\ listed \in 0 .. Count /\ Count \in Nat
        /\ master \in MasterType /\ master.pc = "Share"
        /\ master.w \in 1 .. Count + 1
    BY TypeParts, ConstantsAssumption
       DEF InCharge, MasterPlace, Share, M, MasterType
  <1>2. CASE Goto("Run") /\ UNCHANGED ipcVars
    <2>1. /\ UNCHANGED <<listed, worker, messages, serving, spared>>
          /\ master'.pc = "Run" /\ master'.w = master.w
      BY <1>1, <1>2 DEF Goto, MasterType, ipcVars, Share
    <2>2. MasterPlace'
      BY <2>1 DEF MasterPlace
    <2> QED BY <1>1, <2>1, <2>2, MasterGoesOn DEF Starting
  <1>3. CASE ~ (Goto("Run") /\ UNCHANGED ipcVars)
    <2>1. /\ master.w <= listed /\ Send(MASTER(master.w), "WSASOCKET")
          /\ master' = [master EXCEPT !.w = @ + 1]
          /\ UNCHANGED <<listed, worker, serving, spared>>
      BY <1>3 DEF Share
    <2>2. /\ master'.pc = "Share" /\ master'.w = master.w + 1
          /\ master.w \in Workers
      BY <1>1, <2>1 DEF MasterType, Workers
    <2>3. MasterPlace'
      BY <1>1, <2>1, <2>2 DEF MasterPlace
    <2>4. /\ \A v \in Workers : ToMaster(v)' = ToMaster(v)
          /\ \A v \in Workers : v # master.w => ToWorker(v)' = ToWorker(v)
          /\ \A v \in Workers : v = master.w =>
                 ToWorker(v)' = Append(ToWorker(v), "WSASOCKET")
      BY <2>1, <2>2, Sent, QueuesApart DEF ToWorker, ToMaster, E_IPC_PACKET_TYPE
    <2>5. ASSUME NEW w \in Workers PROVE Pair(w)'
      <3>1. Pair(w) /\ ~Awaits(w) /\ ~Awaits(w)'
        BY <1>1, <2>2 DEF InCharge, Awaits
      <3>2. CASE w # master.w
        <4>1. ToWorker(w)' = ToWorker(w) /\ (Quiet(w) => Quiet(w)')
          BY <2>1, <2>4, <3>2 DEF Quiet, W
        <4>2. master'.w <= w => master.w <= w
          BY <1>1, <2>2 DEF Workers
        <4> QED BY <1>1, <2>1, <2>2, <3>1, <4>1, <4>2
              DEF Pair, Listed, Unlisted, Starting
      <3>3. CASE w = master.w
        <4>1. w <= listed /\ ToWorker(w) = <<>> /\ Quiet(w)
          BY <1>1, <2>1, <3>1, <3>3 DEF Pair, Listed, Workers
        <4>2. Quiet(w)'
          BY <2>1, <2>4, <3>3, <4>1, Short DEF Quiet, W
        <4>3. ~ (master'.w <= w)
          BY <2>2, <3>3 DEF Workers
        <4> QED BY <1>1, <2>1, <2>2, <3>1, <4>1, <4>2, <4>3
              DEF Pair, Listed, Starting
      <3> QED BY <3>2, <3>3
    <2> QED BY <1>1, <2>1, <2>2, <2>3, <2>5 DEF InCharge
  <1> QED BY <1>2, <1>3

LEMMA RunPingKeeps ==
  ASSUME TypeOK, InCharge, MasterAlive, RunPings
  PROVE  InCharge'
  <1>1. /\ master.w <= listed /\ master.n = listed /\ master.w \in Workers
        /\ master \in MasterType /\ master.pc = "RunPing" /\ listed \in Nat
    BY TypeParts, ConstantsAssumption
       DEF InCharge, MasterPlace, PlaceOK, RunPings, M
  <1>2. /\ Send(MASTER(master.w), "PING")
        /\ UNCHANGED <<listed, worker, serving, spared>>
        /\ master'.pc = "RunPong" /\ master'.w = master.w
        /\ master'.n = master.n
    BY <1>1 DEF RunPings, Goto, MasterType
  <1>3. MasterPlace'
    BY <1>1, <1>2 DEF MasterPlace
  <1>4. Quiet(master.w)
    BY <1>1 DEF InCharge, Pair, Listed, Awaits
  <1>5. ASSUME NEW w \in Workers PROVE Pair(w)'
    <2>1. Pair(w) /\ ~Awaits(w) /\ (Awaits(w)' <=> w = master.w)
      BY <1>1, <1>2, <1>5 DEF InCharge, Awaits
    <2>2. w # master.w => ToWorker(w)' = ToWorker(w) /\ (Quiet(w) => Quiet(w)')
      BY <1>1, <1>2, <1>4, PingOf DEF Quiet, W
    <2>3. w = master.w => Pinged(w)'
      BY <1>1, <1>2, <1>4, PingOf
    <2> QED BY <1>1, <1>2, <2>1, <2>2, <2>3 DEF Pair, Listed, Unlisted, Starting
  <1> QED BY <1>3, <1>5 DEF InCharge

LEMMA RunPongKeeps ==
  ASSUME TypeOK, InCharge, MasterAlive, RunPongs
  PROVE  /\ InCharge' /\ RunNext(master.n) /\ master.n = listed
         /\ master.w <= listed /\ master'.pc # "UnInit"
  <1>1. /\ master.w <= listed /\ master.n = listed /\ master.w \in Workers
        /\ master \in MasterType /\ master.pc = "RunPong" /\ listed \in Nat
    BY TypeParts, ConstantsAssumption
       DEF InCharge, MasterPlace, PlaceOK, RunPongs, M
  <1>2. Pinged(master.w)
    BY <1>1 DEF InCharge, Pair, Listed, Awaits
  <1>3. /\ Receive(WORKER(master.w)) /\ UNCHANGED <<listed, worker, serving, spared>>
        /\ RunNext(IF Head(messages[WORKER(master.w)]) = "PONG"
                   THEN master.n ELSE master.n - 1)
    BY DEF RunPongs
  <1>4. RunNext(master.n)
    BY <1>1, <1>2, <1>3, AnswerOf
  <1>5. \/ master.w < listed /\ master'.pc = "RunPing" /\ master'.w = master.w + 1
           /\ master'.n = listed
        \/ master'.pc = "Run"
    <2>1. master.n # 0 /\ master.w \in Nat
      BY <1>1, ConstantsAssumption DEF Workers
    <2>2. CASE master.w < listed
      BY <1>1, <1>4, <2>2 DEF RunNext, MasterType
    <2>3. CASE ~ master.w < listed
      BY <1>1, <1>4, <2>1, <2>3 DEF RunNext, MasterType
    <2> QED BY <2>2, <2>3
  <1>6. MasterPlace'
    BY <1>1, <1>3, <1>5, ConstantsAssumption DEF MasterPlace, Workers
  <1>7. ASSUME NEW w \in Workers PROVE Pair(w)'
    <2>1. Pair(w) /\ (Awaits(w) <=> w = master.w) /\ ~Awaits(w)'
      BY <1>1, <1>5 DEF InCharge, Awaits
    <2>2. w # master.w => ToWorker(w)' = ToWorker(w) /\ (Quiet(w) => Quiet(w)')
      BY <1>1, <1>2, <1>3, AnswerOf DEF Quiet, W
    <2>3. w = master.w => Quiet(w)'
      BY <1>1, <1>2, <1>3, AnswerOf
    <2> QED BY <1>1, <1>3, <1>5, <2>1, <2>2, <2>3
          DEF Pair, Listed, Unlisted, Starting
  <1> QED BY <1>1, <1>4, <1>5, <1>6, <1>7 DEF InCharge

\* A step of the master that moves it and nothing else.
LEMMA MasterOnly ==
  ASSUME TypeOK, InCharge, MasterAlive, EndsWithoutWorkers,
         UNCHANGED <<mayFail, listed, worker, messages, serving, spared, crashes>>,
         IPCTyped', master' \in MasterType, PlaceOK',
         MasterPlace', master'.pc = "UnInit" => listed = 0,
         master'.pc = "Exited" => master.pc = "UnInit",
         {master.pc, master'.pc} \cap {"Pong", "RunPong"} = {},
         master'.pc \in Starting => master.pc \in Starting,
         master'.pc = "Share" => master.pc \in Starting,
         master.pc \in {"Wait", "Ping"} =>
             master'.pc \in {"Wait", "Ping"} /\ master'.w = master.w
  PROVE  Core'
  <1>1. TypeOK'
    BY TypeParts
  <1>2. InCharge'
    BY MasterGoesOn
  <1>3. EndsWithoutWorkers'
    BY DEF EndsWithoutWorkers
  <1> QED BY <1>1, <1>2, <1>3 DEF Core

LEMMA MasterKeeps ==
  ASSUME Core, MasterAlive, MasterStep
  PROVE  Core'
  <1> USE ConstantsAssumption DEF Core
  <1>1. /\ master \in MasterType /\ worker \in [Workers -> WorkerType]
        /\ listed \in 0 .. Count /\ MasterPlace /\ PlaceOK
        /\ master.n \in 0 .. Count /\ master.tries \in 0 .. Tries
        /\ master.w \in 1 .. Count + 1 /\ IPCTyped
        /\ serving \subseteq Workers
    BY TypeParts DEF InCharge, MasterType
  <1>2. UNCHANGED <<mayFail, serving, crashes>> /\ spared' \subseteq Workers
    <2>1. /\ UNCHANGED <<mayFail, serving, crashes>>
          /\ \/ UNCHANGED spared
             \/ master.pc \in {"Ping", "Pong"} /\ spared' = spared \cup {master.w}
      BY DEF Kill, MasterStep, Listen, ICreateProcess, CreateEnds, MasterRetries,
             MasterWaits, MasterPings, MasterPongs, Share, RunStarts, RunPings,
             RunPongs, UnInit, M
    <2>2. spared \subseteq Workers
      BY TypeParts
    <2> QED BY <1>1, <2>1, <2>2 DEF PlaceOK
  <1>3. UNCHANGED ipcVars => IPCTyped'
    BY <1>1 DEF IPCTyped, ipcVars
  <1>4. ASSUME master' \in MasterType, PlaceOK', IPCTyped', InCharge',
               worker' \in [Workers -> WorkerType], listed' \in 0 .. Count,
               master'.pc \notin {"UnInit", "Exited"}
        PROVE  Core'
    BY <1>2, <1>4, TypeParts DEF EndsWithoutWorkers
  <1>5. CASE Listen
    <2>1. /\ master.pc = "Listen" /\ master' \in MasterType
          /\ master'.pc \in {"Create", "Run"}
      BY <1>1, <1>5 DEF Listen, M, Goto, MasterType
    <2>2. MasterPlace' /\ PlaceOK'
      BY <2>1 DEF MasterPlace, PlaceOK
    <2> QED BY <1>2, <1>3, <1>5, <2>1, <2>2, MasterOnly DEF Listen, Starting, ipcVars
  <1>6. CASE ICreateProcess
    <2>1. /\ listed + 1 \in Workers /\ listed + 1 \in 1 .. Count + 1
          /\ 0 \in 0 .. Tries
      BY <1>1, <1>6 DEF ICreateProcess, Workers
    <2>2. worker' \in [Workers -> WorkerType]
      BY <1>1, <1>6, <2>1, WorkerTyped DEF ICreateProcess
    <2>3. /\ master' \in MasterType
          /\ master'.w = listed + 1 /\ master'.pc = "Wait"
      BY <2>1, <1>1, <1>6 DEF ICreateProcess, MasterType
    <2>4. IPCTyped'
      BY <1>6, <2>1, IPCStep DEF ICreateProcess
    <2> QED BY <1>1, <1>4, <1>6, <2>1, <2>2, <2>3, <2>4, CreateKeeps
          DEF ICreateProcess, PlaceOK
  <1>7. CASE CreateEnds
    <2>1. /\ master.pc = "Create" /\ master' \in MasterType
          /\ master'.pc = "Share" /\ master'.w = 1
      <3>1. 1 \in 1 .. Count + 1
        OBVIOUS
      <3> QED BY <1>1, <1>7, <3>1 DEF CreateEnds, M, InitEnds, MasterType
    <2>2. MasterPlace' /\ PlaceOK'
      BY <1>1, <1>7, <2>1 DEF MasterPlace, PlaceOK, CreateEnds
    <2> QED BY <1>2, <1>3, <1>7, <2>1, <2>2, MasterOnly
          DEF CreateEnds, Starting, ipcVars
  <1>8. CASE MasterRetries
    <2>1. /\ master.pc = "Wait" /\ master' \in MasterType
          /\ master'.pc = "Wait" /\ master'.w = master.w
          /\ master.w \in Workers
      BY <1>1, <1>8 DEF MasterRetries, M, MasterType, PlaceOK
    <2>2. MasterPlace' /\ PlaceOK' /\ IPCTyped'
      BY <1>1, <1>8, <2>1, IPCStep DEF MasterPlace, PlaceOK, MasterRetries
    <2> QED BY <1>2, <1>8, <2>1, <2>2, MasterOnly
          DEF MasterRetries, ReInit, Starting
  <1>9. CASE MasterWaits
    <2>1. /\ master.pc = "Wait" /\ master' \in MasterType
          /\ master'.pc = "Ping" /\ master'.w = master.w
      BY <1>1, <1>9 DEF MasterWaits, M, Goto, MasterType
    <2>2. MasterPlace' /\ PlaceOK'
      BY <1>1, <1>9, <2>1 DEF MasterPlace, PlaceOK, MasterWaits
    <2> QED BY <1>2, <1>3, <1>9, <2>1, <2>2, MasterOnly
          DEF MasterWaits, Starting, ipcVars
  <1>10. CASE MasterPings \/ MasterPongs
    <2>1. /\ master.w \in Workers /\ master.pc \in {"Ping", "Pong"}
          /\ InCharge' /\ 1 \in 1 .. Count + 1
      BY <1>1, <1>10, PingKeeps, PongKeeps
         DEF MasterPings, MasterPongs, M, PlaceOK
    <2>2. IPCTyped'
      BY <1>10, <2>1, IPCStep, QueuesApart
         DEF MasterPings, MasterPongs, E_IPC_PACKET_TYPE
    <2>3. CASE Kill(master.w)
      <3>1. worker' \in [Workers -> WorkerType] /\ listed' = listed
        <4>1. [worker EXCEPT ![master.w].pc = "ended"] \in [Workers -> WorkerType]
          BY <1>1, <2>1, WorkerTyped
        <4> QED BY <1>1, <2>3, <4>1 DEF Kill
      <3>2. master' \in MasterType /\ master'.pc = "Share"
        BY <1>1, <2>1, <2>3 DEF Kill, InitEnds, MasterType
      <3> QED BY <1>1, <1>4, <2>1, <2>2, <3>1, <3>2 DEF PlaceOK
    <2>4. CASE ~Kill(master.w)
      <3>1. \/ Goto("Pong") /\ UNCHANGED <<listed, worker>>
            \/ Goto("Create") /\ listed' = master.w /\ UNCHANGED worker
        BY <1>10, <2>4 DEF MasterPings, MasterPongs
      <3>2. /\ master' \in MasterType /\ master'.pc \in {"Pong", "Create"}
            /\ master'.w = master.w
        BY <1>1, <3>1 DEF Goto, MasterType
      <3>3. listed' \in 0 .. Count /\ PlaceOK'
        BY <1>1, <2>1, <3>1, <3>2 DEF PlaceOK, Workers
      <3> QED BY <1>1, <1>4, <2>1, <2>2, <3>1, <3>2, <3>3
    <2> QED BY <2>3, <2>4
  <1>11. CASE Share
    <2>1. InCharge' /\ master'.w \in 1 .. Count + 1 /\ master.pc = "Share"
      BY <1>11, ShareKeeps DEF Share, M
    <2>2. /\ UNCHANGED <<listed, worker>>
          /\ \/ Send(MASTER(master.w), "WSASOCKET") /\ master.w <= listed
                /\ master' = [master EXCEPT !.w = @ + 1]
             \/ Goto("Run") /\ UNCHANGED ipcVars
      BY <1>11 DEF Share
    <2>3. master' \in MasterType /\ master'.pc \in {"Share", "Run"}
      BY <1>1, <2>1, <2>2 DEF Goto, MasterType
    <2>4. IPCTyped'
      <3>1. CASE master.w <= listed /\ Send(MASTER(master.w), "WSASOCKET")
        <4>1. master.w \in Workers
          BY <1>1, <3>1 DEF Workers
        <4> QED BY <3>1, <4>1, IPCStep, QueuesApart DEF E_IPC_PACKET_TYPE
      <3> QED BY <1>3, <2>2, <3>1
    <2> QED BY <1>1, <1>4, <2>1, <2>2, <2>3, <2>4 DEF PlaceOK
  <1>12. CASE RunStarts
    <2>1. CASE listed = 0
      <3>1. /\ master.pc = "Run" /\ master' \in MasterType
            /\ master'.pc = "UnInit"
        BY <1>1, <1>12, <2>1 DEF RunStarts, M, Goto, MasterType
      <3>2. MasterPlace' /\ PlaceOK'
        BY <3>1 DEF MasterPlace, PlaceOK
      <3> QED BY <1>2, <1>3, <1>12, <2>1, <3>1, <3>2, MasterOnly
            DEF RunStarts, Starting, ipcVars
    <2>2. CASE listed # 0
      <3>1. 1 \in Workers /\ 1 \in 1 .. Count + 1
        BY <1>1, <2>2 DEF Workers
      <3>2. /\ master.pc = "Run" /\ master' \in MasterType
            /\ master'.pc = "RunPing" /\ master'.w = 1 /\ master'.n = listed
        BY <1>1, <1>12, <2>2, <3>1 DEF RunStarts, M, MasterType
      <3>3. MasterPlace' /\ PlaceOK'
        BY <1>1, <1>12, <2>2, <3>1, <3>2 DEF MasterPlace, PlaceOK, RunStarts
      <3> QED BY <1>2, <1>3, <1>12, <2>2, <3>2, <3>3, MasterOnly
            DEF RunStarts, Starting, ipcVars
    <2> QED BY <2>1, <2>2
  <1>13. CASE RunPings
    <2>1. /\ master.pc = "RunPing" /\ master' \in MasterType
          /\ master'.pc = "RunPong" /\ master'.w = master.w
          /\ master.w \in Workers /\ UNCHANGED <<worker, listed>>
      BY <1>1, <1>13 DEF RunPings, M, Goto, MasterType, PlaceOK
    <2>2. PlaceOK'
      BY <2>1 DEF PlaceOK
    <2>3. IPCTyped'
      BY <1>13, <2>1, IPCStep, QueuesApart DEF RunPings, E_IPC_PACKET_TYPE
    <2> QED BY <1>1, <1>4, <1>13, <2>1, <2>2, <2>3, RunPingKeeps
  <1>14. CASE RunPongs
    <2>1. /\ master.pc = "RunPong" /\ master.w \in Workers
          /\ UNCHANGED <<worker, listed>> /\ Receive(WORKER(master.w))
      BY <1>1, <1>14 DEF RunPongs, M, PlaceOK
    <2>2. /\ InCharge' /\ RunNext(master.n) /\ master.n = listed
          /\ master.w <= listed /\ master'.pc # "UnInit"
      BY <1>14, RunPongKeeps
    <2>3. IPCTyped'
      BY <2>1, IPCStep, QueuesApart
    <2>4. CASE master.w < listed
      <3>1. master.w + 1 \in Workers /\ master.w + 1 \in 1 .. Count + 1
        BY <1>1, <2>1, <2>4 DEF Workers
      <3>2. /\ master' \in MasterType /\ master'.pc = "RunPing"
            /\ master'.w = master.w + 1
        BY <1>1, <2>2, <2>4, <3>1 DEF RunNext, MasterType
      <3> QED BY <1>1, <1>4, <2>1, <2>2, <2>3, <3>1, <3>2 DEF PlaceOK
    <2>5. CASE ~ master.w < listed
      <3>1. master' \in MasterType /\ master'.pc = "Run"
        BY <1>1, <2>2, <2>5 DEF RunNext, MasterType
      <3> QED BY <1>1, <1>4, <2>1, <2>2, <2>3, <3>1 DEF PlaceOK
    <2> QED BY <2>4, <2>5
  <1>15. CASE UnInit
    <2>1. /\ master.pc = "UnInit" /\ master' \in MasterType
          /\ master'.pc = "Exited"
      BY <1>1, <1>15 DEF UnInit, M, Goto, MasterType
    <2>2. MasterPlace' /\ PlaceOK'
      BY <2>1 DEF MasterPlace, PlaceOK
    <2> QED BY <1>2, <1>3, <1>15, <2>1, <2>2, MasterOnly
          DEF UnInit, Starting, ipcVars
  <1> QED BY <1>5, <1>6, <1>7, <1>8, <1>9, <1>10, <1>11, <1>12, <1>13,
             <1>14, <1>15 DEF MasterStep

-----------------------------------------------------------------------------
(* The theorems. *)

LEMMA MInvInit == Init => MInv
  <1> SUFFICES ASSUME Init PROVE MInv
    OBVIOUS
  <1>1. TypeOK
    BY ConstantsAssumption DEF Init, TypeOK
  <1>2. ASSUME NEW w \in Workers PROVE Pair(w) /\ Untold(w)
    <2>1. ToWorker(w) = <<>> /\ ToMaster(w) = <<>> /\ worker[w].pc = "none"
      BY QueuesApart DEF Init, ToWorker, ToMaster
    <2>2. listed = 0 /\ master.pc = "Listen" /\ serving = {} /\ ~ w <= 0
      BY ConstantsAssumption DEF Init, Workers
    <2> QED BY <2>1, <2>2 DEF Pair, Unlisted, Untold, Awaits, Quiet, W
  <1>3. MasterPlace /\ EndsWithoutWorkers
    BY DEF Init, MasterPlace, EndsWithoutWorkers
  <1> QED BY <1>1, <1>2, <1>3 DEF MInv, Core, InCharge, UnlistedUntold

\* A worker's step keeps the types, whether the master lives or not.
LEMMA WorkerStepTyped ==
  ASSUME TypeOK, NEW w \in Workers, WorkerStep(w) \/ ServerStops(w) \/ WorkerCrashes(w)
  PROVE  TypeOK' /\ UNCHANGED <<master, listed>>
  <1> USE ConstantsAssumption
  <1>1. /\ worker \in [Workers -> WorkerType] /\ worker[w].tries \in 0 .. Tries
        /\ serving \subseteq Workers
    BY TypeParts DEF WorkerType
  <1>2. UNCHANGED <<master, listed, mayFail>>
    BY DEF WorkerStep, ServerStops, WorkerCrashes, WorkerMain, WorkerRetries, WorkerWaits,
           WorkerPings, WorkerPongs, WorkerTakesPing, WorkerTakesSocket,
           WorkerTimesOut
  <1>3. serving' \subseteq Workers /\ spared' \subseteq Workers
        /\ crashes' \in 0 .. MaxCrashes
    <2>1. crashes \in 0 .. MaxCrashes /\ spared \subseteq Workers
      BY TypeParts
    <2> QED BY <1>1, <2>1
          DEF WorkerStep, ServerStops, WorkerCrashes, WorkerMain, WorkerRetries, WorkerWaits,
              WorkerPings, WorkerPongs, WorkerTakesPing, WorkerTakesSocket,
              WorkerTimesOut
  <1>4. worker' \in [Workers -> WorkerType]
    <2>1. \/ worker' = worker
          \/ \E l \in {"Wait", "Ping", "Pong", "Loop", "Stop",
                  "ended"} : WorkerGoto(w, l)
          \/ /\ worker' = [worker EXCEPT ![w].tries = @ + 1]
             /\ worker[w].tries < Tries
      BY DEF WorkerStep, ServerStops, WorkerCrashes, WorkerMain, WorkerRetries, WorkerWaits,
             WorkerPings, WorkerPongs, WorkerTakesPing, WorkerTakesSocket,
             WorkerTimesOut
    <2>2. worker[w].tries < Tries => worker[w].tries + 1 \in 0 .. Tries
      BY <1>1
    <2>3. ASSUME worker' = [worker EXCEPT ![w].tries = @ + 1],
                 worker[w].tries < Tries
          PROVE  worker' \in [Workers -> WorkerType]
      <3> DEFINE k == worker[w].tries + 1
      <3>1. k \in 0 .. Tries /\ worker' = [worker EXCEPT ![w].tries = k]
        BY <2>2, <2>3
      <3>2. [worker EXCEPT ![w].tries = k] \in [Workers -> WorkerType]
        BY <1>1, <3>1, WorkerTyped
      <3> QED BY <3>1, <3>2
    <2>4. ASSUME NEW l \in {"Wait", "Ping", "Pong", "Loop", "Stop", "ended"},
                 WorkerGoto(w, l)
          PROVE  worker' \in [Workers -> WorkerType]
      BY <1>1, <2>4, WorkerTyped DEF WorkerGoto
    <2> QED BY <1>1, <2>1, <2>3, <2>4
  <1>5. IPCTyped'
    <2>1. \/ \E q \in Queues, m \in E_IPC_PACKET_TYPE : Send(q, m)
          \/ \E q \in Queues : Receive(q)
          \/ ReInit(WORKER(w), MASTER(w)) \/ UNCHANGED ipcVars
      BY QueuesApart
         DEF WorkerStep, ServerStops, WorkerCrashes, WorkerMain, WorkerRetries, WorkerWaits,
             WorkerPings, WorkerPongs, WorkerTakesPing, WorkerTakesSocket,
             WorkerTimesOut, E_IPC_PACKET_TYPE
    <2> QED BY <2>1, IPCStep
  <1> QED BY <1>2, <1>3, <1>4, <1>5, TypeParts DEF PlaceOK

\* A crash of the master.
LEMMA MasterCrashKeeps ==
  ASSUME Core, MasterCrashes
  PROVE  Core'
  <1> USE ConstantsAssumption DEF Core
  <1>1. master \in MasterType /\ crashes \in 0 .. MaxCrashes /\ IPCTyped
    BY TypeParts
  <1>2. /\ master' \in MasterType /\ master'.pc = "Crashed"
        /\ crashes' \in 0 .. MaxCrashes
    BY <1>1 DEF MasterCrashes, Goto, MasterType
  <1>3. IPCTyped' /\ PlaceOK' /\ UNCHANGED <<mayFail, listed, worker, serving, spared>>
    BY <1>1, <1>2 DEF MasterCrashes, IPCTyped, ipcVars, PlaceOK
  <1>4. TypeOK'
    BY <1>2, <1>3, TypeParts
  <1> QED BY <1>2, <1>4 DEF InCharge, MasterAlive, EndsWithoutWorkers

LEMMA CoreNext == Core /\ [Next]_vars => Core'
  <1> SUFFICES ASSUME Core, [Next]_vars PROVE Core'
    OBVIOUS
  <1>1. CASE MasterStep
    <2>1. MasterAlive
      BY <1>1 DEF MasterStep, Listen, ICreateProcess, CreateEnds, MasterRetries,
           MasterWaits, MasterPings, MasterPongs, Share, RunStarts, RunPings,
           RunPongs, UnInit, M, MasterAlive
    <2> QED BY <1>1, <2>1, MasterKeeps
  <1>2. CASE MasterCrashes
    BY <1>2, MasterCrashKeeps
  <1>3. ASSUME NEW w \in Workers,
               WorkerStep(w) \/ ServerStops(w) \/ WorkerCrashes(w)
        PROVE  Core'
    <2>1. TypeOK' /\ UNCHANGED <<master, listed>>
      BY <1>3, WorkerStepTyped DEF Core
    <2>2. InCharge'
      BY <1>3, <2>1, WorkerKeeps DEF Core, InCharge, MasterAlive
    <2> QED BY <2>1, <2>2 DEF Core, EndsWithoutWorkers
  <1>4. CASE UNCHANGED vars
    BY <1>4 DEF vars, ipcVars, Core, TypeOK, InCharge, EndsWithoutWorkers,
           MasterAlive, MasterPlace, Pair, Listed, Unlisted, Awaits, Pinged,
           Quiet, ToWorker, ToMaster, W
  <1> QED BY <1>1, <1>2, <1>3, <1>4 DEF Next

\* A worker takes a message, leaves its queue alone, or another one is at work.
LEMMA WorkerUntold ==
  ASSUME TypeOK, NEW v \in Workers, NEW w \in Workers, Untold(v),
         WorkerStep(w) \/ ServerStops(w) \/ WorkerCrashes(w)
  PROVE  Untold(v)'
  <1>1. \/ UNCHANGED <<messages, serving>>
        \/ Send(WORKER(w), "PONG") /\ UNCHANGED serving
        \/ Receive(MASTER(w)) /\ UNCHANGED serving
        \/ /\ Receive(MASTER(w)) /\ Head(ToWorker(w)) = "WSASOCKET"
           /\ serving' \subseteq serving \cup {w}
    BY DEF WorkerStep, ServerStops, WorkerCrashes, WorkerMain, WorkerRetries,
           ReInit, WorkerWaits, WorkerPings, WorkerPongs, WorkerTakesPing,
           WorkerTakesSocket, WorkerTimesOut, ipcVars, ToWorker
  <1>2. CASE UNCHANGED <<messages, serving>>
    BY <1>2 DEF Untold, ToWorker
  <1>3. CASE Send(WORKER(w), "PONG") /\ UNCHANGED serving
    <2>1. ToWorker(v)' = ToWorker(v)
      BY <1>3, Sent, QueuesApart DEF ToWorker, E_IPC_PACKET_TYPE
    <2> QED BY <1>3, <2>1 DEF Untold
  <1>4. CASE /\ Receive(MASTER(w)) /\ serving' \subseteq serving \cup {w}
             /\ UNCHANGED serving \/ Head(ToWorker(w)) = "WSASOCKET"
    <2>1. CASE v # w
      <3>1. ToWorker(v)' = ToWorker(v)
        BY <1>4, <2>1, Received, QueuesApart DEF ToWorker
      <3> QED BY <1>4, <2>1, <3>1 DEF Untold
    <2>2. CASE v = w
      <3>1. ToWorker(w) # <<>> /\ ToWorker(w)' = Tail(ToWorker(w))
        BY <1>4, Received, QueuesApart DEF ToWorker
      <3>2. ToWorker(w)' = <<>> /\ Head(ToWorker(w)) # "WSASOCKET"
        BY <2>2, <3>1, Short DEF Untold
      <3> QED BY <1>4, <2>2, <3>2 DEF Untold
    <2> QED BY <2>1, <2>2
  <1> QED BY <1>1, <1>2, <1>3, <1>4

LEMMA MInvNext == MInv /\ [Next]_vars => MInv'
  <1> SUFFICES ASSUME MInv, [Next]_vars PROVE MInv'
    OBVIOUS
  <1>1. Core'
    BY CoreNext DEF MInv
  <1>2. CASE MasterAlive'
    BY <1>1, <1>2 DEF MInv, Core, InCharge, Pair, Unlisted, UnlistedUntold, Untold
  <1>3. CASE ~MasterAlive'
    <2>1. CASE MasterStep \/ MasterCrashes \/ UNCHANGED vars
      <3>1. UNCHANGED <<listed, messages, serving>>
        <4>1. MasterStep => UnInit
          BY <1>3, TypeParts DEF MInv, Core, MasterStep, Listen, ICreateProcess,
             CreateEnds, InitEnds, MasterRetries, MasterWaits, MasterPings,
             MasterPongs, Kill, Share, RunStarts, RunPings, RunPongs, RunNext, M,
             Goto, MasterAlive, MasterType
        <4> QED BY <2>1, <4>1 DEF UnInit, MasterCrashes, vars, ipcVars
      <3> QED BY <1>1, <3>1 DEF MInv, UnlistedUntold, Untold, ToWorker
    <2>2. ASSUME NEW w \in Workers,
                 WorkerStep(w) \/ ServerStops(w) \/ WorkerCrashes(w)
          PROVE  UnlistedUntold'
      <3>1. UNCHANGED listed
        BY <2>2, WorkerStepTyped DEF MInv, Core
      <3> QED BY <2>2, <3>1, WorkerUntold DEF MInv, Core, UnlistedUntold
    <2> QED BY <1>1, <2>1, <2>2 DEF Next, MInv
  <1> QED BY <1>2, <1>3

LEMMA MInvAlways == Spec => []MInv
  BY MInvInit, MInvNext, PTL DEF Spec

\* The master is in charge of its workers whatever crashes and fails
\* (Master.cpp:55-61): who serves is on its list, and as long as it lives every
\* worker process that runs is listed, being started, or one that it failed to
\* kill; no send of it ever waits (MessageQuene.cpp:46), and its loop ends only
\* when it has no workers (Master.cpp:102).
THEOREM MasterInCharge == Spec => []MasterOK
  <1>1. MInv => MasterOK
    <2> SUFFICES ASSUME MInv PROVE MasterOK
      OBVIOUS
    <2>1. ASSUME MasterAlive, NEW w \in Workers
          PROVE  Pair(w) /\ (w <= listed \/ ~ w <= listed)
      BY <2>1 DEF MInv, Core, InCharge
    <2>2. NoStrayWorker
      <3>1. \A w \in serving : w <= listed
        BY TypeParts DEF MInv, Core, UnlistedUntold, Untold
      <3> QED BY <2>1, <3>1 DEF NoStrayWorker, Pair, Unlisted
    <2>3. SendNeverBlocks
      <3> SUFFICES ASSUME MasterAlive, NEW w \in Workers
                   PROVE  Len(messages[MASTER(w)]) <= 2
        BY DEF SendNeverBlocks
      <3>1. ToWorker(w) \in {<<>>, <<"WSASOCKET">>, <<"PING">>,
                             <<"WSASOCKET", "PING">>}
        BY <2>1 DEF Pair, Listed, Unlisted, Quiet, Pinged
      <3>2. /\ Len(<<>>) = 0 /\ Len(<<"WSASOCKET">>) = 1 /\ Len(<<"PING">>) = 1
            /\ Len(<<"WSASOCKET", "PING">>) = 2
        OBVIOUS
      <3>3. Len(ToWorker(w)) \in {0, 1, 2}
        BY <3>1, <3>2, Zenon
      <3>4. \A n \in {0, 1, 2} : n <= 2
        OBVIOUS
      <3> QED BY <3>3, <3>4, Zenon DEF ToWorker
    <2> QED BY <2>2, <2>3 DEF MInv, Core, MasterOK
  <1> QED BY <1>1, MInvAlways, PTL

PingsOf(s) == Cardinality({i \in DOMAIN s : s[i] = "PING"})

\* The pings in each queue that the invariant has.
LEMMA PingsIn ==
  /\ PingsOf(<<>>) = 0 /\ PingsOf(<<"WSASOCKET">>) = 0
  /\ PingsOf(<<"PING">>) = 1 /\ PingsOf(<<"WSASOCKET", "PING">>) = 1
  <1> DEFINE Pings(s) == {i \in DOMAIN s : s[i] = "PING"}
  <1>1. Pings(<<>>) = {} /\ Pings(<<"WSASOCKET">>) = {}
    OBVIOUS
  <1>2. Pings(<<"PING">>) = {1}
    OBVIOUS
  <1>3. Pings(<<"WSASOCKET", "PING">>) = {2}
    OBVIOUS
  <1> QED BY <1>1, <1>2, <1>3, FS_EmptySet, FS_Singleton DEF PingsOf

\* For every worker on the list the messages under way, the ping it is at and
\* its answer come to one while the master waits for an answer of it, and to
\* none else (MasterIPC.cpp:88-103): no answer is ever taken for another's.
THEOREM PingsArePaired == Spec => []AnswersArePaired
  <1>1. MInv => AnswersArePaired
    <2> SUFFICES ASSUME MInv, MasterAlive, NEW w \in 1 .. listed
                 PROVE  Unanswered(w) <= IF Awaits(w) THEN 1 ELSE 0
      BY DEF AnswersArePaired
    <2>1. w \in Workers /\ w <= listed
      BY ConstantsAssumption DEF MInv, Core, TypeOK, Workers
    <2>2. IF Awaits(w) THEN Pinged(w) ELSE Quiet(w)
      BY <2>1 DEF MInv, Core, InCharge, Pair, Listed
    <2>3. /\ Unanswered(w) = PingsOf(ToWorker(w)) + Len(ToMaster(w))
                            + IF W(w, "Pong") THEN 1 ELSE 0
          /\ Len(<<>>) = 0 /\ Len(<<"PONG">>) = 1
      BY DEF Unanswered, PingsOf, ToWorker, ToMaster
    <2>4. CASE Quiet(w)
      <3>1. Unanswered(w) = 0 + 0 + 0
        BY <2>3, <2>4, PingsIn, Zenon DEF Quiet
      <3> QED BY <3>1
    <2>5. CASE Pinged(w)
      <3>1. \/ Unanswered(w) = 1 + 0 + 0
            \/ Unanswered(w) = 0 + 0 + IF W(w, "Pong") THEN 1 ELSE 0
            \/ Unanswered(w) = 0 + 1 + 0
        BY <2>3, <2>5, PingsIn, Zenon DEF Pinged
      <3>2. Unanswered(w) <= 1
        BY <3>1
      <3> QED BY <2>2, <2>4, <3>2
    <2> QED BY <2>2, <2>4, <2>5
  <1> QED BY <1>1, MInvAlways, PTL
=============================================================================
