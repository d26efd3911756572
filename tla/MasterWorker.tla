---------------------------- MODULE MasterWorker ----------------------------
(***************************************************************************)
(* The master process and its worker processes.  The master listens,       *)
(* creates the workers one by one, waits until each answers, gives all of  *)
(* them the listening socket and then pings them for good; a worker serves *)
(* the socket, answers, and ends when its master is gone.                  *)
(*                                                                         *)
(* Each pair has two message queues, created by the side that sends, opened *)
(* by the other one, which retries until they exist.  The queues outlive   *)
(* the processes.  Either side may crash at any point.                     *)
(***************************************************************************)
EXTENDS Integers, Sequences, FiniteSets

CONSTANTS
    Count,      \* m_nCount
    Tries,      \* how often WaitInitFinish tries, 1025
    MaxMsg,     \* nMaxMsg, 1024
    MaxCrashes  \* bound: processes that crash

ASSUME ConstantsAssumption ==
    /\ Count \in Nat
    /\ Tries \in Nat
    /\ MaxMsg \in Nat \ {0}
    /\ MaxCrashes \in Nat

Workers == 1 .. Count

\* The queue of each direction, named by its sender.
MASTER(w) == <<w, "MASTER">>
WORKER(w) == <<w, "WORKER">>
Queues == Workers \X {"MASTER", "WORKER"}

E_IPC_PACKET_TYPE == {"PING", "PONG", "WSASOCKET"}

VARIABLES
    mayFail,  \* the surroundings: calls of the system may fail
    master,   \* the step, the worker it is at, its tries, and nCount of Run
    listed,   \* m_WorkerProcess.size(): workers 1 to listed
    worker,   \* the step of each worker process, and its tries
    created,  \* the queues that exist
    opened,   \* the queues that their receiver has opened
    messages, \* what is in each queue
    serving,  \* workers whose server was started with the socket
    spared,   \* history: workers that KillProcessByPID did not end
    crashes   \* crashes so far

ipcVars == <<created, opened, messages>>
vars == <<mayFail, master, listed, worker, ipcVars, serving, spared, crashes>>

TypeOK ==
    /\ mayFail \in BOOLEAN
    /\ master \in [pc : {"Listen", "Create", "Wait", "Ping", "Pong", "Share",
                         "Run", "RunPing", "RunPong", "UnInit", "Exited",
                         "Crashed"},
                   w : 1 .. Count + 1, tries : 0 .. Tries, n : 0 .. Count]
    /\ listed \in 0 .. Count
    /\ worker \in [Workers -> [pc : {"none", "Main", "Wait", "Ping", "Pong",
                                     "Loop", "Stop", "ended"},
                               tries : 0 .. Tries]]
    /\ created \subseteq Queues
    /\ opened \subseteq created
    /\ messages \in [Queues -> Seq(E_IPC_PACKET_TYPE)]
    /\ serving \subseteq Workers
    /\ spared \subseteq Workers
    /\ crashes \in 0 .. MaxCrashes
    /\ master.pc \in {"Wait", "Ping", "Pong", "RunPing", "RunPong"} =>
          master.w \in Workers

Init ==
    /\ mayFail \in BOOLEAN
    /\ master = [pc |-> "Listen", w |-> 1, tries |-> 0, n |-> 0]
    /\ listed = 0
    /\ worker = [w \in Workers |-> [pc |-> "none", tries |-> 0]]
    /\ created = {}
    /\ opened = {}
    /\ messages = [q \in Queues |-> <<>>]
    /\ serving = {}
    /\ spared = {}
    /\ crashes = 0

-----------------------------------------------------------------------------
(* IPCModule over CMessageQuene. *)

\* The sender's InitIPC, create_only.
InitSender(q) ==
    \/ created' = created \cup {q}
    \/ mayFail /\ created' = created

\* The receiver's InitIPC, open_only.
InitReceiver(q) == opened' = opened \cup ({q} \cap created)

\* m_bInitResult of the sender's and of the receiver's module, without which Send
\* and Receive return false at once.
CanSend(q)    == q \in created
CanReceive(q) == q \in opened

\* GetStatus of both modules of a side.
GetIPCStatus(own, other) == CanSend(own) /\ CanReceive(other)

\* The constructor, and ReInit.
ReInit(own, other) ==
    InitSender(own) /\ InitReceiver(other) /\ UNCHANGED messages

\* send waits while the queue is full.
Send(q, m) ==
    /\ Len(messages[q]) < MaxMsg
    /\ messages' = [messages EXCEPT ![q] = Append(@, m)]
    /\ UNCHANGED <<created, opened>>

\* receive waits for a message.
Receive(q) ==
    /\ messages[q] # <<>>
    /\ messages' = [messages EXCEPT ![q] = Tail(@)]
    /\ UNCHANGED <<created, opened>>

-----------------------------------------------------------------------------
(* The master: CMaster::Init. *)

M(label) == master.pc = label
Goto(label) == master' = [master EXCEPT !.pc = label]

\* There is a process with the master's name and id.
MasterAlive == master.pc \notin {"Exited", "Crashed"}

\* Listen; Run is called whatever Init returned.
Listen ==
    /\ M("Listen")
    /\ \/ Goto("Create")
       \/ mayFail /\ Goto("Run")
    /\ UNCHANGED <<listed, worker, ipcVars, serving, spared, crashes>>

\* The loop over nIndex ends with a failure of any kind.
InitEnds == master' = [master EXCEPT !.pc = "Share", !.w = 1]

\* The process, then the queues of its CWorkerProcessData.
ICreateProcess ==
    /\ M("Create") /\ listed < Count
    /\ LET w == listed + 1 IN
          /\ worker' = [worker EXCEPT ![w].pc = "Main"]
          /\ master' = [master EXCEPT !.pc = "Wait", !.w = w, !.tries = 0]
          /\ ReInit(MASTER(w), WORKER(w))
    /\ UNCHANGED <<listed, serving, spared, crashes>>

\* All of them are there, or CreateProcess fails.
CreateEnds ==
    /\ M("Create") /\ (listed = Count \/ mayFail)
    /\ InitEnds
    /\ UNCHANGED <<listed, worker, ipcVars, serving, spared, crashes>>

\* WaitInitFinish: Sleep(50), ReInit.
MasterRetries ==
    /\ M("Wait") /\ master.tries < Tries
    /\ ~GetIPCStatus(MASTER(master.w), WORKER(master.w))
    /\ ReInit(MASTER(master.w), WORKER(master.w))
    /\ master' = [master EXCEPT !.tries = @ + 1]
    /\ UNCHANGED <<listed, worker, serving, spared, crashes>>

MasterWaits ==
    /\ M("Wait")
    /\ \/ GetIPCStatus(MASTER(master.w), WORKER(master.w))
       \/ master.tries = Tries
    /\ Goto("Ping")
    /\ UNCHANGED <<listed, worker, ipcVars, serving, spared, crashes>>

\* Mutant of Kill: the process is left alone.
KillForgets(w) == InitEnds /\ UNCHANGED <<worker, listed, spared>>

\* KillProcessByPID of the worker that does not answer.  It may fail, and its
\* result is not looked at: the worker goes on.
Kill(w) ==
    /\ \/ worker' = [worker EXCEPT ![w].pc = "ended"] /\ UNCHANGED spared
       \/ mayFail /\ spared' = spared \cup {w} /\ UNCHANGED worker
    /\ InitEnds
    /\ UNCHANGED listed

\* Ping and Pong of CMasterIPC::Init.
MasterPings ==
    /\ M("Ping")
    /\ IF CanSend(MASTER(master.w))
       THEN Send(MASTER(master.w), "PING") /\ Goto("Pong")
            /\ UNCHANGED <<listed, worker, spared>>
       ELSE Kill(master.w) /\ UNCHANGED ipcVars
    /\ UNCHANGED <<serving, crashes>>

MasterPongs ==
    /\ M("Pong")
    /\ IF CanReceive(WORKER(master.w))
       THEN /\ Receive(WORKER(master.w))
            /\ IF Head(messages[WORKER(master.w)]) = "PONG"
               THEN /\ Goto("Create") /\ listed' = master.w
                    /\ UNCHANGED <<worker, spared>>
               ELSE Kill(master.w)
       ELSE Kill(master.w) /\ UNCHANGED ipcVars
    /\ UNCHANGED <<serving, crashes>>

\* Mutant of Share: the loop ends with the first worker.
ShareOnce ==
    /\ M("Share")
    /\ IF listed > 0 /\ worker[1].pc # "ended"
       THEN Send(MASTER(1), "WSASOCKET") ELSE UNCHANGED ipcVars
    /\ Goto("Run")
    /\ UNCHANGED <<listed, worker, serving, spared, crashes>>

\* WSADuplicateSocket, which fails for a process that is gone, and SendData; the
\* first failure ends the loop.
Share ==
    /\ M("Share")
    /\ \/ /\ master.w <= listed /\ worker[master.w].pc # "ended"
          /\ Send(MASTER(master.w), "WSASOCKET")
          /\ master' = [master EXCEPT !.w = @ + 1]
       \/ /\ master.w <= listed =>
                mayFail \/ worker[master.w].pc = "ended"
          /\ Goto("Run")
          /\ UNCHANGED ipcVars
    /\ UNCHANGED <<listed, worker, serving, spared, crashes>>

-----------------------------------------------------------------------------
(* CMaster::Run and UnInit. *)

\* A round starts, every 5 seconds.
RunStarts ==
    /\ M("Run")
    /\ IF listed = 0 THEN Goto("UnInit")
       ELSE master' = [master EXCEPT !.pc = "RunPing", !.w = 1, !.n = listed]
    /\ UNCHANGED <<listed, worker, ipcVars, serving, spared, crashes>>

RunPings ==
    /\ M("RunPing")
    /\ Send(MASTER(master.w), "PING")
    /\ Goto("RunPong")
    /\ UNCHANGED <<listed, worker, serving, spared, crashes>>

\* The next worker of the round, or its end.
RunNext(n) ==
    master' = IF master.w < listed
              THEN [master EXCEPT !.pc = "RunPing", !.w = @ + 1, !.n = n]
              ELSE [master EXCEPT !.pc = IF n = 0 THEN "UnInit" ELSE "Run",
                                  !.n = n]

\* Mutant of RunPongs: Pong gives up after its timeout.
RunPongsOrGivesUp ==
    /\ M("RunPong")
    /\ \/ Receive(WORKER(master.w)) /\ RunNext(master.n)
       \/ /\ messages[WORKER(master.w)] = <<>>
          /\ RunNext(master.n - 1) /\ UNCHANGED ipcVars
    /\ UNCHANGED <<listed, worker, serving, spared, crashes>>

\* Pong: without an answer it waits for good, its timeout is not used.
RunPongs ==
    /\ M("RunPong")
    /\ Receive(WORKER(master.w))
    /\ RunNext(IF Head(messages[WORKER(master.w)]) = "PONG"
               THEN master.n ELSE master.n - 1)
    /\ UNCHANGED <<listed, worker, serving, spared, crashes>>

\* The listening socket is closed, and the workers of the list, which is empty
\* here (EndsWithoutWorkers), would be told to exit.
UnInit ==
    /\ M("UnInit")
    /\ Goto("Exited")
    /\ UNCHANGED <<listed, worker, ipcVars, serving, spared, crashes>>

MasterStep ==
    /\ UNCHANGED mayFail
    /\ \/ Listen \/ ICreateProcess \/ CreateEnds
       \/ MasterRetries \/ MasterWaits \/ MasterPings \/ MasterPongs \/ Share
       \/ RunStarts \/ RunPings \/ RunPongs \/ UnInit

-----------------------------------------------------------------------------
(* A worker process: main, CWorkerTaskCommand::Run, CWorkerIPC. *)

W(w, label) == worker[w].pc = label
WorkerGoto(w, label) == worker' = [worker EXCEPT ![w].pc = label]

\* The master is gone, or the list of processes cannot be had.
FindsNoMaster == ~MasterAlive \/ mayFail

\* main looks for its master by name and id, then makes its queues.
WorkerMain(w) ==
    /\ W(w, "Main")
    /\ \/ MasterAlive /\ WorkerGoto(w, "Wait") /\ ReInit(WORKER(w), MASTER(w))
       \/ FindsNoMaster /\ WorkerGoto(w, "ended") /\ UNCHANGED ipcVars
    /\ UNCHANGED <<master, listed, serving, spared, crashes>>

WorkerRetries(w) ==
    /\ W(w, "Wait") /\ worker[w].tries < Tries
    /\ ~GetIPCStatus(WORKER(w), MASTER(w))
    /\ ReInit(WORKER(w), MASTER(w))
    /\ worker' = [worker EXCEPT ![w].tries = @ + 1]
    /\ UNCHANGED <<master, listed, serving, spared, crashes>>

WorkerWaits(w) ==
    /\ W(w, "Wait")
    /\ GetIPCStatus(WORKER(w), MASTER(w)) \/ worker[w].tries = Tries
    /\ WorkerGoto(w, "Ping")
    /\ UNCHANGED <<master, listed, ipcVars, serving, spared, crashes>>

\* Ping of CWorkerIPC::Init waits for the master's first message.
WorkerPings(w) ==
    /\ W(w, "Ping")
    /\ IF CanReceive(MASTER(w))
       THEN /\ Receive(MASTER(w))
            /\ WorkerGoto(w, IF Head(messages[MASTER(w)]) = "PING"
                             THEN "Pong" ELSE "ended")
       ELSE WorkerGoto(w, "ended") /\ UNCHANGED ipcVars
    /\ UNCHANGED <<master, listed, serving, spared, crashes>>

\* Pong, of Init and of the loop.
WorkerPongs(w) ==
    /\ W(w, "Pong")
    /\ IF CanSend(WORKER(w))
       THEN Send(WORKER(w), "PONG") /\ WorkerGoto(w, "Loop")
       ELSE WorkerGoto(w, "ended") /\ UNCHANGED ipcVars
    /\ UNCHANGED <<master, listed, serving, spared, crashes>>

\* Mutant of WorkerTakesPing: it is not answered.
WorkerTakesPingOnly(w) ==
    /\ W(w, "Loop") /\ Receive(MASTER(w))
    /\ Head(messages[MASTER(w)]) = "PING"
    /\ UNCHANGED <<master, listed, worker, serving, spared, crashes>>

\* TimeReceiveData of the loop takes a message.
WorkerTakesPing(w) ==
    /\ W(w, "Loop") /\ Receive(MASTER(w))
    /\ Head(messages[MASTER(w)]) = "PING"
    /\ WorkerGoto(w, "Pong")
    /\ UNCHANGED <<master, listed, serving, spared, crashes>>

\* The server gets the listening socket and is started; nobody looks whether it
\* was.
WorkerTakesSocket(w) ==
    /\ W(w, "Loop") /\ Receive(MASTER(w))
    /\ Head(messages[MASTER(w)]) = "WSASOCKET"
    /\ serving' = serving \cup {w} \/ (mayFail /\ UNCHANGED serving)
    /\ UNCHANGED <<master, listed, worker, spared, crashes>>

\* Mutant of WorkerTimesOut: the worker goes on without its master.
WorkerGoesOn(w) ==
    /\ W(w, "Loop") /\ messages[MASTER(w)] = <<>>
    /\ FindsNoMaster /\ WorkerGoto(w, "Loop")
    /\ UNCHANGED <<master, listed, ipcVars, serving, spared, crashes>>

\* It times out and CheckMasterExist finds no master; else the loop goes on.  The
\* server is destroyed: a started one is stopped first.
WorkerTimesOut(w) ==
    /\ W(w, "Loop") /\ messages[MASTER(w)] = <<>>
    /\ FindsNoMaster /\ WorkerGoto(w, IF w \in serving THEN "Stop" ELSE "ended")
    /\ UNCHANGED <<master, listed, ipcVars, serving, spared, crashes>>

WorkerStep(w) ==
    /\ UNCHANGED mayFail
    /\ \/ WorkerMain(w) \/ WorkerRetries(w) \/ WorkerWaits(w)
       \/ WorkerPings(w) \/ WorkerPongs(w)
       \/ WorkerTakesPing(w) \/ WorkerTakesSocket(w) \/ WorkerTimesOut(w)

\* Stop waits for the accept thread, which sits in WSAAccept until a peer comes;
\* nothing in this program makes one come.
ServerStops(w) ==
    /\ W(w, "Stop") /\ WorkerGoto(w, "ended")
    /\ UNCHANGED <<mayFail, master, listed, ipcVars, serving, spared, crashes>>

-----------------------------------------------------------------------------
(* Crashes. *)

MasterCrashes ==
    /\ MasterAlive /\ crashes < MaxCrashes
    /\ Goto("Crashed") /\ crashes' = crashes + 1
    /\ UNCHANGED <<mayFail, listed, worker, ipcVars, serving, spared>>

WorkerCrashes(w) ==
    /\ worker[w].pc \notin {"none", "ended"} /\ crashes < MaxCrashes
    /\ WorkerGoto(w, "ended") /\ crashes' = crashes + 1
    /\ UNCHANGED <<mayFail, master, listed, ipcVars, serving, spared>>

Next ==
    \/ MasterStep \/ MasterCrashes
    \/ \E w \in Workers : WorkerStep(w) \/ ServerStops(w) \/ WorkerCrashes(w)

Spec == Init /\ [][Next]_vars

\* Processes go on; none has to crash, and no peer has to come.
FairSpec ==
    Spec /\ WF_vars(MasterStep) /\ \A w \in Workers : WF_vars(WorkerStep(w))

-----------------------------------------------------------------------------
(* Properties. *)

\* The master waits for an answer of w.
Awaits(w) == master.w = w /\ master.pc \in {"Pong", "RunPong"}

\* Pings to w that no answer was taken for.
Unanswered(w) ==
    Cardinality({i \in DOMAIN messages[MASTER(w)] :
                    messages[MASTER(w)][i] = "PING"})
    + Len(messages[WORKER(w)]) + IF W(w, "Pong") THEN 1 ELSE 0

\* An answer belongs to the ping that the master waits for (MasterIPC.cpp:88-103):
\* no answer is left over that the next Pong would take for its own.
AnswersArePaired ==
    MasterAlive => \A w \in 1 .. listed :
        Unanswered(w) <= IF Awaits(w) THEN 1 ELSE 0

\* The master never waits to send, the queues hold two messages at most
\* (MessageQuene.cpp:46): the socket and one ping.
SendNeverBlocks ==
    MasterAlive => \A w \in Workers : Len(messages[MASTER(w)]) <= 2

\* A worker that serves is on the master's list, and no other worker process
\* runs but the one that the master is just starting and one that
\* KillProcessByPID failed to end (Master.cpp:55-61).
NoStrayWorker ==
    /\ \A w \in serving : w <= listed
    /\ MasterAlive => \A w \in Workers : worker[w].pc \notin {"none", "ended"} =>
         \/ w <= listed
         \/ w = master.w /\ master.pc \in {"Wait", "Ping", "Pong"}
         \/ w \in spared

\* CMaster::Run ends only if there are no workers (Master.cpp:102): no answer is
\* ever missing or wrong, so the exit command of UnInit is sent to nobody.
EndsWithoutWorkers == master.pc \in {"UnInit", "Exited"} => listed = 0

\* While nothing fails and nobody crashes, every worker on the list serves in the
\* end (Master.cpp:64-77): the loop reaches them all.
EveryListedServes ==
    \A w \in Workers : (listed >= w) ~> (w \in serving \/ mayFail \/ crashes > 0)

\* A ping is answered in the end unless the worker has left its loop.
PingIsAnswered ==
    \A w \in Workers : Awaits(w) ~> (~Awaits(w) \/ worker[w].pc \in {"Stop", "ended"})

\* A worker that has said Pong once leaves its loop when its master is gone
\* (WorkerTaskCommand.cpp:45): it ends, or it has served and waits in ~CTCPServer
\* for its accept thread (TCPServer.cpp:27-30, LockAccept.cpp:51).
OrphansEnd ==
    \A w \in Workers :
        (~MasterAlive /\ W(w, "Loop")) ~>
            (worker[w].pc = "ended" \/ (W(w, "Stop") /\ w \in serving))

\* The master is in charge of its workers: it manages all that serve and all that
\* run but those it could not kill, is never stuck in a send, and leaves its loop
\* only when it has none.
MasterOK == TypeOK /\ NoStrayWorker /\ SendNeverBlocks /\ EndsWithoutWorkers
=============================================================================
