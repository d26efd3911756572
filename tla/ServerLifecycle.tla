--------------------------- MODULE ServerLifecycle ---------------------------
(***************************************************************************)
(* Starting and stopping a CTCPServer: the thread that calls Start, Stop   *)
(* and Wait, the accept thread (CAccept, or CLockAccept in process mode),  *)
(* the thread of CConnectionCheck and the threads of CIOPool, with the     *)
(* events, flags, handles and exit completions they stop each other by.    *)
(*                                                                         *)
(* Both CWorker threads are detached and say that they ended by their exit *)
(* event; the pool's threads are joined.  What a completion does is        *)
(* TcpWorker's subject: here it is work that may lead to more work.        *)
(***************************************************************************)
EXTENDS Integers, FiniteSets, Sequences

CONSTANTS
    Threads,     \* the threads the pool may ever create
    IOWorkers,   \* m_dwIOWorker
    Addresses,   \* the peers' addresses
    SameBucket,  \* the owner's and the accept thread's ids agree modulo 24
    MaxStarts,   \* bound: calls of Start
    MaxStops,    \* bound: calls of Stop
    MaxToggles,  \* bound: calls of SetAcceptConnections
    MaxWorks,    \* bound: completions queued on a port
    NoPeer       \* no accepted connection

ASSUME ConstantsAssumption ==
    /\ IsFiniteSet(Threads)
    /\ IOWorkers \in Nat
    /\ SameBucket \in BOOLEAN
    /\ MaxStarts \in Nat
    /\ MaxStops \in Nat
    /\ MaxToggles \in Nat
    /\ MaxWorks \in Nat
    /\ NoPeer \notin Addresses

VARIABLES
    bProcessMode, \* the constructor's choice of CLockAccept over CAccept
    ctl,        \* the thread that owns the server: its next step, its result
    accept,     \* m_pAcceptConnect, a CWorker
    check,      \* m_pConnectCheck, a CWorker
    peer,       \* hClientSocket of the accept thread
    initResult, \* m_bInitResult of the pool's CInitSocket
    listening,  \* m_hListenSocket is a socket
    hEvent,     \* m_hWSAEvent is open
    fd,         \* the network events of the listening socket
    backlog,    \* connections waiting in the listening socket, oldest first
    allow,      \* m_bAcceptConnections
    banned,     \* m_BanIPHashMAP, in the bucket of the thread that bans
    current,    \* m_hCompletionPort
    ports,      \* the completion ports ever created
    thread,     \* what each pool thread does, and on which port
    pool,       \* m_vIOWorkerThread
    calls       \* calls of Start, Stop and SetAcceptConnections so far

setupVars  == <<bProcessMode, initResult>>
serverVars == <<setupVars, current, ports, thread, pool>>
socketVars == <<listening, hEvent, fd, backlog, peer>>
adminVars  == <<allow, banned, calls>>
vars == <<ctl, accept, check, serverVars, socketVars, adminVars>>

NoPort == 0
Ports  == 1 .. MaxStarts

\* event      m_ExitEvent is signalled, runStatus m_bRunStatus of its CThread
\* running    m_bRunning, pc where the thread's Run is
Worker == [event : BOOLEAN, runStatus : BOOLEAN, running : BOOLEAN,
           pc : {"none", "Wait", "TestTimeout", "TestEvent", "Enum", "Allow",
                 "OpenMutex", "WSAAccept", "Associate", "While", "Test",
                 "Vistor", "SetEvent", "ended"}]

Exits == {"AcceptExit", "StopWaitEvent", "AcceptWait", "CheckExit",
          "CheckWait", "Destroy", "Join"}
Control == [pc : Exits \cup {"Idle", "AcceptStart", "CheckStart", "Wait"},
            last : {"none", "starting", "started", "failed", "stopping",
                    "stopped"}]

TypeOK ==
    /\ ctl \in Control
    /\ accept \in Worker
    /\ check \in Worker
    /\ peer \in Addresses \cup {NoPeer}
    /\ bProcessMode \in BOOLEAN
    /\ initResult \in BOOLEAN
    /\ listening \in BOOLEAN
    /\ hEvent \in BOOLEAN
    /\ fd \in [accept : BOOLEAN, close : BOOLEAN, armed : BOOLEAN]
    /\ backlog \in Seq(Addresses)
    /\ allow \in BOOLEAN
    /\ banned \subseteq Addresses
    /\ current \in Ports \cup {NoPort}
    /\ ports \in [Ports -> [open : BOOLEAN, exits : Nat, works : 0 .. MaxWorks]]
    /\ thread \in [Threads -> [pc : {"none", "Get", "Work", "ended"},
                               port : Ports \cup {NoPort}]]
    /\ pool \subseteq Threads
    /\ calls \in [start : 0 .. MaxStarts, stop : 0 .. MaxStops,
                  toggle : 0 .. MaxToggles]

NotStarted == [event |-> TRUE, runStatus |-> FALSE, running |-> FALSE,
               pc |-> "none"]

Init ==
    /\ ctl = [pc |-> "Idle", last |-> "none"]
    /\ accept = NotStarted
    /\ check = NotStarted
    /\ peer = NoPeer
    /\ bProcessMode \in BOOLEAN
    /\ initResult \in BOOLEAN
    /\ listening \in BOOLEAN
    /\ hEvent = FALSE
    /\ fd = [accept |-> FALSE, close |-> FALSE, armed |-> FALSE]
    /\ backlog = <<>>
    /\ allow = TRUE
    /\ banned = {}
    /\ current = NoPort
    /\ ports = [p \in Ports |-> [open |-> FALSE, exits |-> 0, works |-> 0]]
    /\ thread = [t \in Threads |-> [pc |-> "none", port |-> NoPort]]
    /\ pool = {}
    /\ calls = [start |-> 0, stop |-> 0, toggle |-> 0]

-----------------------------------------------------------------------------
(* CWorker and CThread. *)

\* CKernelEvent, a manual-reset event.
SetEvent(w)   == [w EXCEPT !.event = TRUE]
ResetEvent(w) == [w EXCEPT !.event = FALSE]
IsRuning(w)   == ~w.event

\* CThread::Run creates a thread unless this CThread ever created one.
Run(w, first) ==
    IF w.runStatus THEN w ELSE [w EXCEPT !.runStatus = TRUE, !.pc = first]

\* Start of a worker: m_bRunning, then CWorker::Start.
Start(w, first) == Run(ResetEvent([w EXCEPT !.running = TRUE]), first)

\* What CWorker::Start returns.
Starts(w) == ~w.runStatus

\* CWorker::Run, the last thing a worker's Run does.
RunEnds(w) == SetEvent([w EXCEPT !.pc = "ended"])

Alive(w) == w.pc \notin {"none", "ended"}

-----------------------------------------------------------------------------
(* The thread that owns the server. *)

At(label) == ctl.pc = label
Goto(label) == ctl' = [ctl EXCEPT !.pc = label]

\* CInitSocket::GetInitResult.
GetInitResult == initResult

\* CTCPServer::Start begins: CIOPool::Start makes a port and its threads, unless
\* Winsock was not initialised or CreateIoCompletionPort fails.
PoolStart ==
    /\ At("Idle")
    /\ calls.start < MaxStarts
    /\ calls' = [calls EXCEPT !.start = @ + 1]
    /\ \/ /\ ctl' = [pc |-> "AcceptExit", last |-> "starting"]
          /\ UNCHANGED serverVars
       \/ \E T \in SUBSET {t \in Threads : thread[t].pc = "none"} :
             /\ GetInitResult
             /\ Cardinality(T) = 2 * IOWorkers
             /\ current' = calls.start + 1
             /\ ports' = [ports EXCEPT ![calls.start + 1].open = TRUE]
             /\ thread' = [t \in Threads |->
                             IF t \in T
                             THEN [pc |-> "Get", port |-> calls.start + 1]
                             ELSE thread[t]]
             /\ pool' = pool \cup T
             /\ ctl' = [pc |-> "AcceptStart", last |-> "starting"]
             /\ UNCHANGED setupVars
    /\ UNCHANGED <<accept, check, socketVars, allow, banned>>

\* CLockAccept::Start.
LockAcceptStart ==
    /\ At("AcceptStart") /\ bProcessMode
    /\ IF IsRuning(accept) \/ ~listening
       THEN Goto("AcceptExit") /\ UNCHANGED accept
       ELSE /\ accept' = Start(accept, "OpenMutex")
            /\ Goto(IF Starts(accept) THEN "CheckStart" ELSE "AcceptExit")
    /\ UNCHANGED <<check, socketVars, serverVars, adminVars>>

\* CAccept::Start; WSACreateEvent or WSAEventSelect may fail.
AcceptStart ==
    /\ At("AcceptStart") /\ ~bProcessMode
    /\ \/ /\ IsRuning(accept) \/ ~listening
          /\ Goto("AcceptExit")
          /\ UNCHANGED <<accept, hEvent, fd>>
       \/ /\ ~IsRuning(accept) /\ listening
          /\ Goto("AcceptExit")
          /\ hEvent' = FALSE
          /\ UNCHANGED <<accept, fd>>
       \/ /\ ~IsRuning(accept) /\ listening
          /\ accept' = Start(accept, "Wait")
          /\ hEvent' = TRUE
          /\ fd' = [fd EXCEPT !.armed = TRUE]
          /\ Goto(IF Starts(accept) THEN "CheckStart" ELSE "AcceptExit")
    /\ UNCHANGED <<check, peer, listening, backlog, serverVars, adminVars>>

\* CConnectionCheck::Start, whose result is the result of CTCPServer::Start.
CheckStart ==
    /\ At("CheckStart")
    /\ check' = Start(check, "Test")
    /\ ctl' = [pc |-> "Idle",
               last |-> IF Starts(check) THEN "started" ELSE "failed"]
    /\ UNCHANGED <<accept, socketVars, serverVars, adminVars>>

\* CTCPServer::Stop, called by the owner or by ~CTCPServer.
Stop ==
    /\ At("Idle")
    /\ calls.stop < MaxStops
    /\ calls' = [calls EXCEPT !.stop = @ + 1]
    /\ ctl' = [pc |-> "AcceptExit", last |-> "stopping"]
    /\ UNCHANGED <<accept, check, socketVars, serverVars, allow, banned>>

\* Exit of the accept worker clears the flag its loop tests.
AcceptExit ==
    /\ At("AcceptExit")
    /\ accept' = [accept EXCEPT !.running = FALSE]
    /\ Goto(IF bProcessMode THEN "AcceptWait" ELSE "StopWaitEvent")
    /\ UNCHANGED <<check, socketVars, serverVars, adminVars>>

\* CAccept closes the network event, which its thread may be waiting for.
StopWaitEvent ==
    /\ At("StopWaitEvent")
    /\ hEvent' = FALSE
    /\ fd' = [accept |-> FALSE, close |-> FALSE, armed |-> FALSE]
    /\ Goto("AcceptWait")
    /\ UNCHANGED <<accept, check, peer, listening, backlog, serverVars,
                   adminVars>>

\* Mutant of AcceptWait: Exit does not wait for the thread.
AcceptWaitSkips ==
    /\ At("AcceptWait")
    /\ Goto("CheckExit")
    /\ UNCHANGED <<accept, check, socketVars, serverVars, adminVars>>

\* CWorker::Exit: wait for the exit event unless it is already signalled.
AcceptWait ==
    /\ At("AcceptWait")
    /\ ~IsRuning(accept)
    /\ Goto("CheckExit")
    /\ UNCHANGED <<accept, check, socketVars, serverVars, adminVars>>

CheckExit ==
    /\ At("CheckExit")
    /\ check' = [check EXCEPT !.running = FALSE]
    /\ Goto("CheckWait")
    /\ UNCHANGED <<accept, socketVars, serverVars, adminVars>>

CheckWait ==
    /\ At("CheckWait")
    /\ ~IsRuning(check)
    /\ Goto("Destroy")
    /\ UNCHANGED <<accept, check, socketVars, serverVars, adminVars>>

\* Mutant of Destroy: one exit completion for a processor, not for a thread.
DestroyPostsHalf ==
    /\ At("Destroy")
    /\ ports' = IF current = NoPort THEN ports
                ELSE [ports EXCEPT ![current].exits = Cardinality(pool) \div 2]
    /\ Goto("Join")
    /\ UNCHANGED <<accept, check, socketVars, setupVars, current, thread, pool,
                   adminVars>>

\* CIOPool::Destroy posts an exit completion for each thread of the vector.
Destroy ==
    /\ At("Destroy")
    /\ ports' = IF current = NoPort THEN ports
                ELSE [ports EXCEPT ![current].exits = @ + Cardinality(pool)]
    /\ Goto("Join")
    /\ UNCHANGED <<accept, check, socketVars, setupVars, current, thread, pool,
                   adminVars>>

\* Mutant of Join: the threads are detached.
JoinDetaches ==
    /\ At("Join")
    /\ ports' = IF current = NoPort THEN ports
                ELSE [ports EXCEPT ![current].open = FALSE]
    /\ pool' = {}
    /\ current' = NoPort
    /\ ctl' = [pc |-> "Idle",
               last |-> IF ctl.last = "starting" THEN "failed" ELSE "stopped"]
    /\ UNCHANGED <<accept, check, socketVars, setupVars, thread, adminVars>>

\* It joins them all and closes the port.
Join ==
    /\ At("Join")
    /\ \A t \in pool : thread[t].pc = "ended"
    /\ ports' = IF current = NoPort THEN ports
                ELSE [ports EXCEPT ![current].open = FALSE]
    /\ pool' = {}
    /\ current' = NoPort
    /\ ctl' = [pc |-> "Idle",
               last |-> IF ctl.last = "starting" THEN "failed" ELSE "stopped"]
    /\ UNCHANGED <<accept, check, socketVars, setupVars, thread, adminVars>>

\* CTCPServer::Wait(INFINITE) waits for the accept thread to end.
CallWait ==
    /\ At("Idle") /\ ctl.last \in {"started", "failed"}
    /\ Goto("Wait")
    /\ UNCHANGED <<accept, check, socketVars, serverVars, adminVars>>

WaitReturns ==
    /\ At("Wait")
    /\ ~IsRuning(accept)
    /\ Goto("Idle")
    /\ UNCHANGED <<accept, check, socketVars, serverVars, adminVars>>

\* SetAcceptConnections, AddBannedIP and RemoveBannedIP.
SetAcceptConnections ==
    /\ calls.toggle < MaxToggles
    /\ calls' = [calls EXCEPT !.toggle = @ + 1]
    /\ allow' = ~allow
    /\ UNCHANGED <<ctl, accept, check, socketVars, serverVars, banned>>

SetBannedIPs ==
    /\ At("Idle")
    /\ \E a \in Addresses : banned' \in {banned \cup {a}, banned \ {a}}
    /\ UNCHANGED <<ctl, accept, check, socketVars, serverVars, allow, calls>>

Owner ==
    \/ LockAcceptStart \/ AcceptStart \/ CheckStart \/ AcceptExit
    \/ StopWaitEvent \/ AcceptWait \/ CheckExit \/ CheckWait
    \/ Destroy \/ Join
Calls == \/ PoolStart \/ Stop \/ CallWait \/ WaitReturns
         \/ SetAcceptConnections \/ SetBannedIPs

-----------------------------------------------------------------------------
(* The accept thread: CAccept::Run. *)

AcceptAt(label) == accept.pc = label
AcceptGoto(label) == accept' = [accept EXCEPT !.pc = label]

\* m_hWSAEvent is open and signalled.
Signalled == hEvent /\ (fd.accept \/ fd.close)

\* WaitForSingleObject(m_hWSAEvent, 500) times out only if the event is not
\* signalled.  A wait that began before the handle was closed still times out;
\* one on the closed handle fails.
WaitEvent ==
    /\ AcceptAt("Wait")
    /\ \/ Signalled /\ AcceptGoto("TestEvent")
       \/ ~Signalled /\ AcceptGoto("TestTimeout")
       \/ ~hEvent /\ AcceptGoto("SetEvent")
    /\ UNCHANGED <<ctl, check, socketVars, serverVars, adminVars>>

TestRunning ==
    /\ \/ AcceptAt("TestTimeout")
          /\ AcceptGoto(IF accept.running THEN "Wait" ELSE "SetEvent")
       \/ AcceptAt("TestEvent")
          /\ AcceptGoto(IF accept.running THEN "Enum" ELSE "SetEvent")
    /\ UNCHANGED <<ctl, check, socketVars, serverVars, adminVars>>

\* WSAEnumNetworkEvents takes the recorded events; on a closed handle it fails.
EnumNetworkEvents ==
    /\ AcceptAt("Enum")
    /\ AcceptGoto(IF ~hEvent \/ fd.close THEN "SetEvent"
                  ELSE IF fd.accept THEN "Allow" ELSE "Wait")
    /\ fd' = IF hEvent THEN [fd EXCEPT !.accept = FALSE, !.close = FALSE]
             ELSE fd
    /\ UNCHANGED <<ctl, check, listening, hEvent, backlog, peer, serverVars,
                   adminVars>>

\* The test of m_bAcceptConnections.
IsAllowed ==
    /\ AcceptAt("Allow")
    /\ AcceptGoto(IF allow THEN "WSAAccept" ELSE "Wait")
    /\ UNCHANGED <<ctl, check, socketVars, serverVars, adminVars>>

\* Where the loop goes on: CAccept waits again, CLockAccept tests m_bRunning.
NextTurn == IF bProcessMode THEN "While" ELSE "Wait"

\* ConnectAcceptCondition: IsInBannedList.  The hash table has no hash function,
\* so the accept thread looks in the bucket of its own thread id.
IsInBannedList(a) == SameBucket /\ a \in banned

\* Mutant of Accept: the socket is not armed for its next event.
AcceptDisarms ==
    /\ AcceptAt("WSAAccept")
    /\ backlog # <<>>
    /\ backlog' = Tail(backlog)
    /\ peer' = Head(backlog)
    /\ AcceptGoto("Associate")
    /\ UNCHANGED <<ctl, check, listening, hEvent, fd, serverVars, adminVars>>

\* WSAAccept: the condition function rejects a banned address; in thread mode
\* an empty backlog is WSAEWOULDBLOCK, in process mode the call blocks.
Accept ==
    /\ AcceptAt("WSAAccept")
    /\ \/ /\ backlog # <<>>
          /\ backlog' = Tail(backlog)
          /\ LET a == Head(backlog) IN
               IF IsInBannedList(a)
               THEN peer' = NoPeer /\ AcceptGoto(NextTurn)
               ELSE peer' = a /\ AcceptGoto("Associate")
       \/ /\ backlog = <<>> /\ ~bProcessMode
          /\ AcceptGoto(NextTurn)
          /\ UNCHANGED <<backlog, peer>>
    /\ fd' = [fd EXCEPT !.armed = hEvent]
    /\ UNCHANGED <<ctl, check, listening, hEvent, serverVars, adminVars>>

\* m_pFuncAssociateIncomingClientSocket: the socket is bound to the port and its
\* first completion posted, or RejectClientConnect closes it.
AssociateClient ==
    /\ AcceptAt("Associate")
    /\ \/ UNCHANGED ports
       \/ /\ current # NoPort /\ ports[current].works < MaxWorks
          /\ ports' = [ports EXCEPT ![current].works = @ + 1]
    /\ peer' = NoPeer
    /\ AcceptGoto(NextTurn)
    /\ UNCHANGED <<ctl, check, listening, hEvent, fd, backlog, setupVars,
                   current, thread, pool, adminVars>>

\* CLockAccept::Run: OpenMutexA finds the master's mutex, or waits a turn.
OpenMutex ==
    /\ AcceptAt("OpenMutex")
    /\ AcceptGoto("WSAAccept") \/ AcceptGoto("While")
    /\ UNCHANGED <<ctl, check, socketVars, serverVars, adminVars>>

While ==
    /\ AcceptAt("While")
    /\ AcceptGoto(IF accept.running THEN "OpenMutex" ELSE "SetEvent")
    /\ UNCHANGED <<ctl, check, socketVars, serverVars, adminVars>>

AcceptEnds ==
    /\ AcceptAt("SetEvent")
    /\ accept' = RunEnds(accept)
    /\ UNCHANGED <<ctl, check, socketVars, serverVars, adminVars>>

AcceptThread == \/ WaitEvent \/ TestRunning \/ EnumNetworkEvents \/ IsAllowed
                \/ Accept \/ AssociateClient \/ OpenMutex \/ While
                \/ AcceptEnds

-----------------------------------------------------------------------------
(* The thread of CConnectionCheck. *)

\* Mutant of CheckRun: the flag is tested only before a visit.
CheckRunForgets ==
    /\ \/ check.pc = "Test" /\ check' = [check EXCEPT !.pc = "Vistor"]
       \/ check.pc = "Vistor" /\ check' = [check EXCEPT !.pc = "Test"]
    /\ UNCHANGED <<ctl, accept, socketVars, serverVars, adminVars>>

\* CConnectionCheck::Run: every turn tests m_bRunning, then sleeps or visits.
CheckRun ==
    /\ \/ check.pc = "Test"
          /\ \/ ~check.running /\ check' = [check EXCEPT !.pc = "SetEvent"]
             \/ check.running /\ check' = [check EXCEPT !.pc = "Vistor"]
             \/ check.running /\ check' = check
       \/ check.pc = "Vistor" /\ check' = [check EXCEPT !.pc = "Test"]
       \/ check.pc = "SetEvent" /\ check' = RunEnds(check)
    /\ UNCHANGED <<ctl, accept, socketVars, serverVars, adminVars>>

-----------------------------------------------------------------------------
(* The pool's threads: IOCPWorkerThread. *)

\* NOTIFY_EXIT_COMPLETIONKEY ends the thread that takes it.
GetExit(t) ==
    /\ thread[t].pc = "Get"
    /\ ports[thread[t].port].exits > 0
    /\ ports' = [ports EXCEPT ![thread[t].port].exits = @ - 1]
    /\ thread' = [thread EXCEPT ![t].pc = "ended"]
    /\ UNCHANGED <<ctl, accept, check, socketVars, setupVars, current, pool,
                   adminVars>>

GetWork(t) ==
    /\ thread[t].pc = "Get"
    /\ ports[thread[t].port].works > 0
    /\ ports' = [ports EXCEPT ![thread[t].port].works = @ - 1]
    /\ thread' = [thread EXCEPT ![t].pc = "Work"]
    /\ UNCHANGED <<ctl, accept, check, socketVars, setupVars, current, pool,
                   adminVars>>

\* OnOperationCompleted or OnOperationCanceled, which may post another one.
Executor(t) ==
    /\ thread[t].pc = "Work"
    /\ thread' = [thread EXCEPT ![t].pc = "Get"]
    /\ LET p == thread[t].port IN
         \/ UNCHANGED ports
         \/ /\ ports[p].works < MaxWorks
            /\ ports' = [ports EXCEPT ![p].works = @ + 1]
    /\ UNCHANGED <<ctl, accept, check, socketVars, setupVars, current, pool,
                   adminVars>>

PoolThread(t) == GetExit(t) \/ GetWork(t) \/ Executor(t)

-----------------------------------------------------------------------------
(* The peers and Winsock. *)

Waiting == {backlog[i] : i \in DOMAIN backlog}

\* A connection arrives in the backlog of the listening socket.
Connect ==
    /\ listening
    /\ \E a \in Addresses \ Waiting : backlog' = Append(backlog, a)
    /\ UNCHANGED <<ctl, accept, check, listening, hEvent, fd, peer, serverVars,
                   adminVars>>

\* FD_ACCEPT is recorded once, and again only after the next call of accept.
Signal ==
    /\ hEvent /\ fd.armed /\ backlog # <<>>
    /\ fd' = [fd EXCEPT !.accept = TRUE, !.armed = FALSE]
    /\ UNCHANGED <<ctl, accept, check, listening, hEvent, backlog, peer,
                   serverVars, adminVars>>

\* FD_CLOSE on the listening socket.
NetworkClose ==
    /\ hEvent /\ ~fd.close
    /\ fd' = [fd EXCEPT !.close = TRUE]
    /\ UNCHANGED <<ctl, accept, check, listening, hEvent, backlog, peer,
                   serverVars, adminVars>>

Next == \/ Owner \/ Calls \/ AcceptThread \/ CheckRun
        \/ \E t \in Threads : PoolThread(t)
        \/ Connect \/ Signal \/ NetworkClose

Spec == Init /\ [][Next]_vars

-----------------------------------------------------------------------------
(* Safety. *)

\* The exit event of a worker is signalled exactly while its thread does not run
\* (Worker.h:41): IsRuning and Wait tell the truth, and CWorker::Exit never waits
\* for a thread that is not there to set the event.
EventTellsThread ==
    /\ accept.event <=> ~Alive(accept)
    /\ check.event <=> ~Alive(check)

\* A server whose Start failed or that was stopped has no thread left and no
\* open port, whatever its threads were doing when Stop came.
QuietWhenStopped ==
    At("Idle") /\ ctl.last \in {"failed", "stopped"} =>
        /\ ~Alive(accept) /\ ~Alive(check)
        /\ \A t \in Threads : thread[t].pc \in {"none", "ended"}
        /\ \A p \in Ports : ~ports[p].open

\* The accept thread and the pool's threads only ever use an open port: Destroy
\* closes it after the last of them is gone (TCPServer.cpp:75-77).
PortInUseIsOpen ==
    /\ AcceptAt("Associate") => current # NoPort /\ ports[current].open
    /\ \A t \in Threads : thread[t].pc \in {"Get", "Work"} =>
                             ports[thread[t].port].open

LiveThreads(p) ==
    {t \in Threads : thread[t].pc \in {"Get", "Work"} /\ thread[t].port = p}

\* Once the exit completions are posted there is one for every thread that has
\* not ended, on the port that thread waits on, and none is left over: no
\* thread takes two (IOPool.cpp:56-67).
OneExitPerThread ==
    \A p \in Ports : ports[p].exits = IF At("Join") /\ p = current
                                      THEN Cardinality(LiveThreads(p)) ELSE 0

-----------------------------------------------------------------------------
(* Liveness. *)

\* Every thread of the process goes on and Winsock signals what it recorded.  A
\* completion port is a FIFO queue: an exit completion is reached in the end,
\* however many completions are posted behind it.  No peer has to connect, and
\* nothing but a connection wakes CLockAccept out of WSAAccept.
FairSpec ==
    /\ Spec
    /\ WF_vars(Owner) /\ WF_vars(AcceptThread) /\ WF_vars(CheckRun)
    /\ \A t \in Threads : WF_vars(Executor(t)) /\ SF_vars(GetExit(t))
    /\ WF_vars(Signal)

\* Stop returns (TCPServer.cpp:73), each of its waits ends, with one exception: in
\* process mode its wait for the accept thread, which may sit in WSAAccept until
\* a peer connects (LockAccept.cpp:51).
StopReturns ==
    \/ ctl.last = "stopping" ~> ctl.last = "stopped"
    \/ <>[](bProcessMode /\ At("AcceptWait") /\ AcceptAt("WSAAccept")
            /\ backlog = <<>>)

\* The accept thread waits for an FD_ACCEPT that Winsock will not record: it took
\* one while accepting was switched off, and did not accept (Accept.cpp:88,109).
Deaf ==
    /\ calls.toggle > 0 /\ ~fd.accept /\ ~fd.armed
    /\ accept.pc \in {"Wait", "TestTimeout", "TestEvent", "Enum"}

\* A waiting connection is taken in the end, or the accept thread leaves
\* (AcceptBase.h:89), unless it was made deaf by switching accepting off: it stays
\* so when accepting is switched on again.  CLockAccept depends on the master,
\* which holds the mutex it looks for.
PendingIsAccepted ==
    \A a \in Addresses :
        a \in Waiting /\ Alive(accept) /\ ~bProcessMode ~>
            a \notin Waiting \/ ~Alive(accept) \/ ~accept.running \/ Deaf

\* Workers and ports are consistent, whatever call the owner is in: exit events
\* tell of threads that run (Worker.h:41) and no thread uses a port that Stop
\* closed (TCPServer.cpp:75).
WorkersOK == TypeOK /\ EventTellsThread /\ PortInUseIsOpen
=============================================================================
