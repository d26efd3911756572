----------------------- MODULE ServerLifecycleProofs -----------------------
(***************************************************************************)
(* Theorems of ServerLifecycle, for any number of threads, addresses,      *)
(* completions and calls of Stop, and of ConnectionCheck, the thread that  *)
(* the server starts beside its workers.                                   *)
(***************************************************************************)
EXTENDS ServerLifecycle, ConnectionCheck, FiniteSetTheorems, TLAPS

-----------------------------------------------------------------------------
(* Type correctness. *)

LEMMA PoolFinite ==
  ASSUME TypeOK
  PROVE  IsFiniteSet(pool) /\ Cardinality(pool) \in Nat
  BY FS_Subset, FS_CardinalityType, ConstantsAssumption DEF TypeOK

LEMMA TypeInit == Init => TypeOK
  <1> SUFFICES ASSUME Init PROVE TypeOK
    OBVIOUS
  <1>1. ctl \in Control /\ accept \in Worker /\ check \in Worker
    BY DEF Init, Control, Exits, Worker, NotStarted
  <1>2. /\ ports \in [Ports -> [open : BOOLEAN, exits : Nat, works : 0 .. MaxWorks]]
        /\ calls \in [start : 0 .. MaxStarts, stop : 0 .. MaxStops,
                      toggle : 0 .. MaxToggles]
    BY ConstantsAssumption DEF Init
  <1>3. /\ fd \in [accept : BOOLEAN, close : BOOLEAN, armed : BOOLEAN]
        /\ bProcessMode \in BOOLEAN /\ initResult \in BOOLEAN
        /\ listening \in BOOLEAN /\ hEvent \in BOOLEAN /\ allow \in BOOLEAN
    BY DEF Init
  <1> QED BY <1>1, <1>2, <1>3 DEF Init, TypeOK

WorkerPlaces == {"none", "Wait", "TestTimeout", "TestEvent", "Enum", "Allow",
                 "OpenMutex", "WSAAccept", "Associate", "While", "Test",
                 "Vistor", "SetEvent", "ended"}
ControlPlaces == Exits \cup {"Idle", "AcceptStart", "CheckStart", "Wait"}

\* What the operations on a worker make of it.
LEMMA WorkerTyped ==
  ASSUME NEW w \in Worker
  PROVE  /\ \A l \in WorkerPlaces : [w EXCEPT !.pc = l] \in Worker
         /\ \A l \in WorkerPlaces : Start(w, l) \in Worker
         /\ [w EXCEPT !.running = FALSE] \in Worker
         /\ RunEnds(w) \in Worker
  <1>1. \A l \in WorkerPlaces : [w EXCEPT !.pc = l] \in Worker
    BY DEF Worker, WorkerPlaces
  <1>2. [w EXCEPT !.running = FALSE] \in Worker
    BY DEF Worker
  <1>3. RunEnds(w) \in Worker
    BY DEF Worker, RunEnds, SetEvent
  <1>4. ASSUME NEW l \in WorkerPlaces PROVE Start(w, l) \in Worker
    <2> DEFINE x == [w EXCEPT !.running = TRUE]
               y == [x EXCEPT !.event = FALSE]
    <2>1. x \in Worker
      BY DEF Worker
    <2> HIDE DEF x
    <2>2. y \in Worker
      BY <2>1 DEF Worker
    <2>3. Start(w, l) = Run(y, l)
      BY DEF Start, ResetEvent, x
    <2> HIDE DEF y
    <2>4. [y EXCEPT !.runStatus = TRUE, !.pc = l] \in Worker
      BY <2>2 DEF Worker, WorkerPlaces
    <2> QED BY <2>2, <2>3, <2>4 DEF Run
  <1> QED BY <1>1, <1>2, <1>3, <1>4

LEMMA GotoTyped ==
  ASSUME TypeOK, NEW l \in ControlPlaces, Goto(l)
  PROVE  ctl' \in Control
  BY DEF TypeOK, Goto, Control, ControlPlaces

\* The parts of the state that most steps leave alone.
SocketsTyped ==
    /\ peer \in Addresses \cup {NoPeer}
    /\ listening \in BOOLEAN
    /\ hEvent \in BOOLEAN
    /\ fd \in [accept : BOOLEAN, close : BOOLEAN, armed : BOOLEAN]
    /\ backlog \in Seq(Addresses)
ServerTyped ==
    /\ bProcessMode \in BOOLEAN
    /\ initResult \in BOOLEAN
    /\ current \in Ports \cup {NoPort}
    /\ ports \in [Ports -> [open : BOOLEAN, exits : Nat, works : 0 .. MaxWorks]]
    /\ thread \in [Threads -> [pc : {"none", "Get", "Work", "ended"},
                               port : Ports \cup {NoPort}]]
    /\ pool \subseteq Threads
AdminTyped ==
    /\ allow \in BOOLEAN
    /\ banned \subseteq Addresses
    /\ calls \in [start : 0 .. MaxStarts, stop : 0 .. MaxStops,
                  toggle : 0 .. MaxToggles]
ThreadsTyped == ctl \in Control /\ accept \in Worker /\ check \in Worker

LEMMA TypeParts ==
  /\ TypeOK => ThreadsTyped /\ SocketsTyped /\ ServerTyped /\ AdminTyped
  /\ ThreadsTyped' /\ SocketsTyped' /\ ServerTyped' /\ AdminTyped' => TypeOK'
  /\ SocketsTyped /\ UNCHANGED socketVars => SocketsTyped'
  /\ ServerTyped /\ UNCHANGED serverVars => ServerTyped'
  /\ AdminTyped /\ UNCHANGED adminVars => AdminTyped'
  <1>1. /\ TypeOK => ThreadsTyped /\ SocketsTyped /\ ServerTyped /\ AdminTyped
        /\ ThreadsTyped' /\ SocketsTyped' /\ ServerTyped' /\ AdminTyped' => TypeOK'
    BY DEF TypeOK, ThreadsTyped, SocketsTyped, ServerTyped, AdminTyped
  <1>2. /\ SocketsTyped /\ UNCHANGED socketVars => SocketsTyped'
        /\ ServerTyped /\ UNCHANGED serverVars => ServerTyped'
        /\ AdminTyped /\ UNCHANGED adminVars => AdminTyped'
    BY DEF SocketsTyped, ServerTyped, AdminTyped, socketVars, serverVars,
           setupVars, adminVars
  <1> QED BY <1>1, <1>2

\* The steps of the owner that touch its workers.
LEMMA TypeOwner ==
  ASSUME TypeOK,
         \/ LockAcceptStart \/ AcceptStart \/ CheckStart \/ AcceptExit
         \/ StopWaitEvent \/ AcceptWait \/ CheckExit \/ CheckWait
  PROVE  TypeOK'
  <1>1. /\ ThreadsTyped /\ SocketsTyped /\ ServerTyped /\ AdminTyped
        /\ accept \in Worker /\ check \in Worker
    BY TypeParts DEF ThreadsTyped
  <1>2. ServerTyped' /\ AdminTyped'
    BY <1>1, TypeParts
       DEF LockAcceptStart, AcceptStart, CheckStart, AcceptExit, StopWaitEvent,
           AcceptWait, CheckExit, CheckWait
  <1>3. SocketsTyped'
    <2>1. CASE UNCHANGED socketVars
      BY <1>1, <2>1, TypeParts
    <2>2. CASE AcceptStart
      BY <1>1, <2>2 DEF AcceptStart, SocketsTyped
    <2>3. CASE StopWaitEvent
      BY <1>1, <2>3 DEF StopWaitEvent, SocketsTyped
    <2> QED BY <2>1, <2>2, <2>3 DEF LockAcceptStart, CheckStart, AcceptExit,
                                    AcceptWait, CheckExit, CheckWait
  <1>4. ctl' \in Control
    <2>1. CASE CheckStart
      BY <2>1 DEF CheckStart, Control
    <2>2. CASE \E l \in ControlPlaces : Goto(l)
      BY <2>2, GotoTyped
    <2> QED BY <2>1, <2>2
            DEF LockAcceptStart, AcceptStart, AcceptExit, StopWaitEvent,
                AcceptWait, CheckExit, CheckWait, ControlPlaces, Exits
  <1>5. accept' \in Worker /\ check' \in Worker
    BY <1>1, WorkerTyped
       DEF LockAcceptStart, AcceptStart, CheckStart, AcceptExit, StopWaitEvent,
           AcceptWait, CheckExit, CheckWait, WorkerPlaces
  <1> QED BY <1>2, <1>3, <1>4, <1>5, TypeParts DEF ThreadsTyped

\* Opening or closing a port leaves the ports' type.
LEMMA PortTyped ==
  ASSUME NEW S, NEW R, NEW ps \in [S -> [open : BOOLEAN, exits : Nat, works : R]],
         NEW x \in S, NEW b \in BOOLEAN
  PROVE  [ps EXCEPT ![x].open = b] \in [S -> [open : BOOLEAN, exits : Nat, works : R]]
  <1> DEFINE q == [ps[x] EXCEPT !.open = b]
  <1>1. ps[x] \in [open : BOOLEAN, exits : Nat, works : R]
    OBVIOUS
  <1>2. q \in [open : BOOLEAN, exits : Nat, works : R]
    BY ONLY <1>1, b \in BOOLEAN
  <1>3. [ps EXCEPT ![x].open = b] = [ps EXCEPT ![x] = q]
    OBVIOUS
  <1> HIDE DEF q
  <1>4. [ps EXCEPT ![x] = q] \in [S -> [open : BOOLEAN, exits : Nat, works : R]]
    BY ONLY <1>2, ps \in [S -> [open : BOOLEAN, exits : Nat, works : R]]
  <1> QED BY <1>3, <1>4

\* Its steps that touch the pool, and its calls.
LEMMA TypePool ==
  ASSUME TypeOK, PoolStart \/ Destroy \/ Join
  PROVE  TypeOK'
  <1>1. /\ current \in Ports \cup {NoPort} /\ pool \subseteq Threads
        /\ ports \in [Ports -> [open : BOOLEAN, exits : Nat, works : 0 .. MaxWorks]]
        /\ thread \in [Threads -> [pc : {"none", "Get", "Work", "ended"},
                                   port : Ports \cup {NoPort}]]
        /\ calls \in [start : 0 .. MaxStarts, stop : 0 .. MaxStops,
                      toggle : 0 .. MaxToggles]
        /\ MaxStarts \in Nat /\ ctl \in Control
    BY ConstantsAssumption DEF TypeOK
  <1>2. CASE PoolStart
    <2>1. /\ calls' \in [start : 0 .. MaxStarts, stop : 0 .. MaxStops,
                         toggle : 0 .. MaxToggles]
          /\ calls.start + 1 \in Ports
      <3>1. calls.start \in Nat /\ calls.start < MaxStarts
            /\ calls' = [calls EXCEPT !.start = @ + 1]
        BY <1>1, <1>2 DEF PoolStart
      <3>2. calls.start + 1 \in 0 .. MaxStarts /\ calls.start + 1 \in 1 .. MaxStarts
        BY ONLY <1>1, <3>1
      <3>3. calls' \in [start : 0 .. MaxStarts, stop : 0 .. MaxStops,
                        toggle : 0 .. MaxToggles]
        BY ONLY <1>1, <3>1, <3>2
      <3> QED BY <3>2, <3>3 DEF Ports
    <2>2. CASE UNCHANGED serverVars
      BY <1>2, <2>1, <2>2
         DEF PoolStart, TypeOK, serverVars, setupVars, socketVars, Control, Exits
    <2>3. ASSUME NEW T \in SUBSET {t \in Threads : thread[t].pc = "none"},
                 current' = calls.start + 1,
                 ports' = [ports EXCEPT ![calls.start + 1].open = TRUE],
                 thread' = [t \in Threads |->
                              IF t \in T
                              THEN [pc |-> "Get", port |-> calls.start + 1]
                              ELSE thread[t]],
                 pool' = pool \cup T,
                 ctl' = [pc |-> "AcceptStart", last |-> "starting"],
                 UNCHANGED setupVars
          PROVE  TypeOK'
      <3>1. ports' \in [Ports -> [open : BOOLEAN, exits : Nat,
                                  works : 0 .. MaxWorks]]
        BY <1>1, <2>1, <2>3, PortTyped
      <3>2. thread' \in [Threads -> [pc : {"none", "Get", "Work", "ended"},
                                     port : Ports \cup {NoPort}]]
        BY <1>1, <2>1, <2>3
      <3>3. ctl' \in Control
        BY <2>3 DEF Control
      <3>4. current' \in Ports \cup {NoPort} /\ pool' \subseteq Threads
        BY <1>1, <2>1, <2>3
      <3>5. UNCHANGED <<setupVars, socketVars, accept, check, allow, banned>>
        BY <1>2, <2>3 DEF PoolStart
      <3> QED BY <2>1, <3>1, <3>2, <3>3, <3>4, <3>5
              DEF TypeOK, setupVars, socketVars
    <2> QED BY <1>2, <2>2, <2>3 DEF PoolStart
  <1>3. CASE Destroy
    <2>1. ports' \in [Ports -> [open : BOOLEAN, exits : Nat,
                                works : 0 .. MaxWorks]]
      BY <1>1, <1>3, PoolFinite DEF Destroy
    <2>2. ctl' \in Control
      BY <1>1, <1>3 DEF Destroy, Goto, Control, Exits
    <2> QED BY <1>3, <2>1, <2>2
            DEF Destroy, TypeOK, setupVars, socketVars, adminVars
  <1>4. CASE Join
    <2>1. ports' \in [Ports -> [open : BOOLEAN, exits : Nat,
                                works : 0 .. MaxWorks]]
      <3>1. CASE current = NoPort
        BY <1>1, <1>4, <3>1 DEF Join
      <3>2. CASE current # NoPort
        BY <1>1, <1>4, <3>2, PortTyped DEF Join
      <3> QED BY <3>1, <3>2
    <2>2. ctl' \in Control
      BY <1>4 DEF Join, Control
    <2> QED BY <1>4, <2>1, <2>2
            DEF Join, TypeOK, setupVars, socketVars, adminVars
  <1> QED BY <1>2, <1>3, <1>4

LEMMA TypeCalls ==
  ASSUME TypeOK,
         Stop \/ CallWait \/ WaitReturns \/ SetAcceptConnections \/ SetBannedIPs
  PROVE  TypeOK'
  <1>1. /\ ctl \in Control
        /\ calls \in [start : 0 .. MaxStarts, stop : 0 .. MaxStops,
                      toggle : 0 .. MaxToggles]
        /\ MaxStops \in Nat /\ MaxToggles \in Nat
    BY ConstantsAssumption DEF TypeOK
  <1>2. CASE Stop
    <2>1. /\ calls' \in [start : 0 .. MaxStarts, stop : 0 .. MaxStops,
                         toggle : 0 .. MaxToggles]
          /\ ctl' \in Control
      BY <1>1, <1>2 DEF Stop, Control, Exits
    <2> QED BY <1>2, <2>1 DEF Stop, TypeOK, serverVars, setupVars, socketVars
  <1>3. CASE CallWait \/ WaitReturns
    BY <1>1, <1>3 DEF CallWait, WaitReturns, Goto, TypeOK, serverVars, setupVars,
                      socketVars, adminVars, Control
  <1>4. CASE SetAcceptConnections
    <2>1. /\ calls' \in [start : 0 .. MaxStarts, stop : 0 .. MaxStops,
                         toggle : 0 .. MaxToggles]
          /\ allow' \in BOOLEAN
      BY <1>1, <1>4 DEF SetAcceptConnections
    <2> QED BY <1>4, <2>1 DEF SetAcceptConnections, TypeOK, serverVars, setupVars,
                              socketVars
  <1>5. CASE SetBannedIPs
    BY <1>5 DEF SetBannedIPs, TypeOK, serverVars, setupVars, socketVars
  <1> QED BY <1>2, <1>3, <1>4, <1>5

AcceptPlaces == {"Wait", "TestTimeout", "TestEvent", "Enum", "Allow", "OpenMutex",
                 "WSAAccept", "Associate", "While", "SetEvent"}

\* The accept thread goes from one place of its run to another, and changes
\* nothing that the owner or the pool sees.
LEMMA AcceptGoesOn ==
  ASSUME TypeOK,
         \/ WaitEvent \/ TestRunning \/ EnumNetworkEvents \/ IsAllowed \/ Accept
         \/ AssociateClient \/ OpenMutex \/ While
  PROVE  /\ accept.pc \in AcceptPlaces \ {"SetEvent"}
         /\ \E l \in AcceptPlaces : accept' = [accept EXCEPT !.pc = l]
         /\ UNCHANGED <<ctl, check, setupVars, current, thread, pool, adminVars,
                        listening, hEvent>>
         /\ fd' \in [accept : BOOLEAN, close : BOOLEAN, armed : BOOLEAN]
         /\ backlog' \in Seq(Addresses) /\ peer' \in Addresses \cup {NoPeer}
         /\ \/ UNCHANGED ports
            \/ /\ AcceptAt("Associate") /\ current # NoPort
               /\ ports[current].works < MaxWorks
               /\ ports' = [ports EXCEPT ![current].works = @ + 1]
  <1> USE DEF AcceptAt, AcceptGoto, AcceptPlaces, serverVars, setupVars,
              socketVars, adminVars
  <1>1. /\ fd \in [accept : BOOLEAN, close : BOOLEAN, armed : BOOLEAN]
        /\ backlog \in Seq(Addresses) /\ peer \in Addresses \cup {NoPeer}
        /\ hEvent \in BOOLEAN
    BY DEF TypeOK
  <1>2. CASE WaitEvent
    BY <1>1, <1>2 DEF WaitEvent
  <1>3. CASE TestRunning
    BY <1>1, <1>3 DEF TestRunning
  <1>4. CASE EnumNetworkEvents
    BY <1>1, <1>4 DEF EnumNetworkEvents
  <1>5. CASE IsAllowed
    BY <1>1, <1>5 DEF IsAllowed
  <1>6. CASE Accept
    <2>1. backlog # <<>> => Tail(backlog) \in Seq(Addresses) /\ Head(backlog) \in Addresses
      BY <1>1
    <2>2. fd' \in [accept : BOOLEAN, close : BOOLEAN, armed : BOOLEAN]
      BY <1>1, <1>6 DEF Accept
    <2> QED BY <1>1, <1>6, <2>1, <2>2 DEF Accept, NextTurn
  <1>7. CASE AssociateClient
    BY <1>1, <1>7 DEF AssociateClient, NextTurn
  <1>8. CASE OpenMutex \/ While
    BY <1>1, <1>8 DEF OpenMutex, While
  <1> QED BY <1>2, <1>3, <1>4, <1>5, <1>6, <1>7, <1>8

LEMMA TypeAccept ==
  ASSUME TypeOK, AcceptThread
  PROVE  TypeOK'
  <1>1. /\ ThreadsTyped /\ SocketsTyped /\ ServerTyped /\ AdminTyped
        /\ accept \in Worker /\ check \in Worker /\ ctl \in Control
    BY TypeParts DEF ThreadsTyped
  <1>2. CASE AcceptEnds
    <2>1. ThreadsTyped'
      BY <1>1, <1>2, WorkerTyped DEF AcceptEnds, ThreadsTyped
    <2> QED BY <1>1, <1>2, <2>1, TypeParts DEF AcceptEnds
  <1>3. CASE \/ WaitEvent \/ TestRunning \/ EnumNetworkEvents \/ IsAllowed \/ Accept
             \/ AssociateClient \/ OpenMutex \/ While
    <2>1. ThreadsTyped'
      <3>1. PICK l \in AcceptPlaces : accept' = [accept EXCEPT !.pc = l]
        BY <1>3, AcceptGoesOn
      <3>2. l \in WorkerPlaces
        BY DEF AcceptPlaces, WorkerPlaces
      <3>3. accept' \in Worker
        BY <1>1, <3>1, <3>2, WorkerTyped
      <3>4. UNCHANGED <<ctl, check>>
        BY <1>3, AcceptGoesOn
      <3> QED BY <1>1, <3>3, <3>4 DEF ThreadsTyped
    <2>2. ports' \in [Ports -> [open : BOOLEAN, exits : Nat, works : 0 .. MaxWorks]]
      <3>1. /\ ports \in [Ports -> [open : BOOLEAN, exits : Nat, works : 0 .. MaxWorks]]
            /\ MaxWorks \in Nat /\ current \in Ports \cup {NoPort}
        BY <1>1, ConstantsAssumption DEF ServerTyped
      <3>2. CASE UNCHANGED ports
        BY <3>1, <3>2
      <3>3. CASE /\ current # NoPort /\ ports[current].works < MaxWorks
                 /\ ports' = [ports EXCEPT ![current].works = @ + 1]
        <4>1. [ports[current] EXCEPT !.works = @ + 1] \in
                 [open : BOOLEAN, exits : Nat, works : 0 .. MaxWorks]
          BY <3>1, <3>3
        <4> QED BY <3>1, <3>3, <4>1
      <3> QED BY <1>3, <3>2, <3>3, AcceptGoesOn
    <2>3. ServerTyped' /\ AdminTyped'
      BY <1>1, <1>3, <2>2, AcceptGoesOn
         DEF ServerTyped, AdminTyped, setupVars, adminVars
    <2>4. SocketsTyped'
      BY <1>1, <1>3, AcceptGoesOn DEF SocketsTyped
    <2> QED BY <2>1, <2>3, <2>4, TypeParts
  <1> QED BY <1>2, <1>3 DEF AcceptThread

LEMMA TypeOthers ==
  ASSUME TypeOK, CheckRun \/ (\E t \in Threads : PoolThread(t))
                 \/ Connect \/ Signal \/ NetworkClose
  PROVE  TypeOK'
  <1>1. /\ ThreadsTyped /\ SocketsTyped /\ ServerTyped /\ AdminTyped
        /\ accept \in Worker /\ check \in Worker /\ ctl \in Control
    BY TypeParts DEF ThreadsTyped
  <1>2. CASE CheckRun
    <2>1. check' \in Worker
      BY <1>1, <1>2, WorkerTyped DEF CheckRun, WorkerPlaces
    <2> QED BY <1>1, <1>2, <2>1, TypeParts DEF CheckRun, ThreadsTyped
  <1>3. ASSUME NEW t \in Threads, PoolThread(t) PROVE TypeOK'
    <2> DEFINE P == [open : BOOLEAN, exits : Nat, works : 0 .. MaxWorks]
               T == [pc : {"none", "Get", "Work", "ended"},
                     port : Ports \cup {NoPort}]
               p == thread[t].port
    <2>1. /\ ports \in [Ports -> P] /\ thread \in [Threads -> T] /\ MaxWorks \in Nat
          /\ p \in Ports \cup {NoPort}
      BY <1>1, ConstantsAssumption DEF ServerTyped
    <2>2. thread' \in [Threads -> T]
      <3>1. PICK l \in {"Get", "Work", "ended"} : thread' = [thread EXCEPT ![t].pc = l]
        BY <1>3 DEF PoolThread, GetExit, GetWork, Executor
      <3> QED BY <2>1, <3>1
    <2>3. ports' \in [Ports -> P]
      <3> SUFFICES ASSUME p \in Ports PROVE ports' \in [Ports -> P]
        BY <1>3, <2>1 DEF PoolThread, GetExit, GetWork, Executor
      <3>1. CASE GetExit(t)
        <4>1. ports[p].exits > 0 /\ ports' = [ports EXCEPT ![p].exits = @ - 1]
          BY <3>1 DEF GetExit
        <4>2. [ports[p] EXCEPT !.exits = @ - 1] \in P
          BY <2>1, <4>1
        <4> HIDE DEF P
        <4> QED BY <2>1, <4>1, <4>2
      <3>2. CASE GetWork(t)
        <4>1. ports[p].works > 0 /\ ports' = [ports EXCEPT ![p].works = @ - 1]
          BY <3>2 DEF GetWork
        <4>2. [ports[p] EXCEPT !.works = @ - 1] \in P
          BY <2>1, <4>1
        <4> HIDE DEF P
        <4> QED BY <2>1, <4>1, <4>2
      <3>3. CASE Executor(t) /\ ~ UNCHANGED ports
        <4>1. /\ ports[p].works < MaxWorks
              /\ ports' = [ports EXCEPT ![p].works = @ + 1]
          BY <3>3 DEF Executor
        <4>2. [ports[p] EXCEPT !.works = @ + 1] \in P
          BY <2>1, <4>1
        <4> HIDE DEF P
        <4> QED BY <2>1, <4>1, <4>2
      <3> QED BY <1>3, <2>1, <3>1, <3>2, <3>3 DEF PoolThread
    <2>4. ServerTyped' /\ UNCHANGED <<ctl, accept, check, socketVars, adminVars>>
      BY <1>1, <1>3, <2>2, <2>3
         DEF PoolThread, GetExit, GetWork, Executor, ServerTyped, setupVars
    <2> QED BY <1>1, <2>4, TypeParts DEF ThreadsTyped
  <1>4. CASE Connect \/ Signal \/ NetworkClose
    <2>1. SocketsTyped'
      <3>1. CASE Connect
        <4>1. backlog' \in Seq(Addresses)
          BY <1>1, <3>1 DEF Connect, SocketsTyped
        <4> QED BY <1>1, <3>1, <4>1 DEF Connect, SocketsTyped
      <3>2. CASE Signal
        BY <1>1, <3>2 DEF Signal, SocketsTyped
      <3>3. CASE NetworkClose
        BY <1>1, <3>3 DEF NetworkClose, SocketsTyped
      <3> QED BY <1>4, <3>1, <3>2, <3>3
    <2> QED BY <1>1, <1>4, <2>1, TypeParts
            DEF Connect, Signal, NetworkClose, ThreadsTyped
  <1> QED BY <1>2, <1>3, <1>4

LEMMA TypeNext == TypeOK /\ [Next]_vars => TypeOK'
  <1>1. TypeOK /\ UNCHANGED vars => TypeOK'
    BY DEF TypeOK, vars, serverVars, setupVars, socketVars, adminVars
  <1> QED BY <1>1, TypeOwner, TypePool, TypeCalls, TypeAccept, TypeOthers
          DEF Next, Owner, Calls

LEMMA TypeAlways == Spec => []TypeOK
  BY TypeInit, TypeNext, PTL DEF Spec

-----------------------------------------------------------------------------
(* The inductive invariant, for a server that is started once: a CThread     *)
(* creates a thread once (Thread.cpp), so a second Start of a server that    *)
(* was stopped would leave its workers without one.                          *)

\* A worker's event and flag tell where its thread is.
WorkerOK(w) == /\ w.event <=> ~Alive(w)
               /\ w.runStatus <=> w.pc # "none"

\* Nothing was ever started.
Fresh == calls.start = 0 =>
    /\ accept.pc = "none" /\ check.pc = "none" /\ current = NoPort /\ pool = {}
    /\ ctl.pc \notin {"AcceptStart", "CheckStart"}
    /\ \A t \in Threads : thread[t].pc = "none"

\* What the owner has started or ended, by where it is.
OwnerOK ==
    /\ At("AcceptStart") => accept.pc = "none" /\ check.pc = "none"
    /\ At("CheckStart") => check.pc = "none"
    /\ ctl.pc \in {"AcceptStart", "CheckStart"} => current # NoPort
    /\ ctl.pc \in {"CheckExit", "CheckWait", "Destroy", "Join"} => ~Alive(accept)
    /\ ctl.pc \in {"Destroy", "Join"} => ~Alive(check)
    /\ ctl.pc \in {"Idle", "Wait"} /\ ctl.last \in {"failed", "stopped"} =>
          ~Alive(accept) /\ ~Alive(check) /\ current = NoPort

\* One port is open, the server's, as long as a thread may use it.
PortsOK ==
    /\ \A p \in Ports : ports[p].open <=> p = current
    /\ Alive(accept) => current # NoPort

\* The pool's threads, until Destroy sends each of them away.
PoolThreadsOK ==
    /\ \A t \in Threads : thread[t].pc \in {"Get", "Work"} =>
          t \in pool /\ thread[t].port = current /\ current # NoPort
    /\ \A t \in pool : /\ thread[t].pc # "none"
                       /\ ~At("Join") => thread[t].pc # "ended"

SInv == /\ WorkerOK(accept) /\ WorkerOK(check) /\ Fresh /\ OwnerOK
        /\ PortsOK /\ PoolThreadsOK /\ OneExitPerThread

LEMMA SInvInit == Init => SInv
  <1> SUFFICES ASSUME Init PROVE SInv
    OBVIOUS
  <1>1. WorkerOK(accept) /\ WorkerOK(check) /\ Fresh /\ OwnerOK
    BY DEF Init, WorkerOK, Alive, NotStarted, Fresh, OwnerOK, At
  <1>2. PortsOK /\ PoolThreadsOK
    BY DEF Init, PortsOK, PoolThreadsOK, Alive, NotStarted, Ports, NoPort
  <1>3. OneExitPerThread
    BY DEF Init, OneExitPerThread, At
  <1> QED BY <1>1, <1>2, <1>3 DEF SInv

\* The steps of the threads that are no business of the owner's.
LEMMA ThreadsGoOn ==
  ASSUME TypeOK, SInv, UNCHANGED <<ctl, current, pool>>, calls'.start = calls.start,
         WorkerOK(accept)', WorkerOK(check)',
         accept'.pc = "none" <=> accept.pc = "none",
         check'.pc = "none" <=> check.pc = "none",
         Alive(accept)' => Alive(accept), Alive(check)' => Alive(check),
         \A p \in Ports : /\ ports'[p].open <=> ports[p].open
                          /\ ports'[p].exits = ports[p].exits,
         \A t \in Threads :
            /\ thread'[t].port = thread[t].port
            /\ \/ thread'[t].pc = thread[t].pc
               \/ thread[t].pc \in {"Get", "Work"} /\ thread'[t].pc \in {"Get", "Work"}
  PROVE  SInv'
  <1>1. Fresh' /\ OwnerOK'
    <2>1. Fresh'
      BY DEF SInv, Fresh
    <2>2. OwnerOK'
      BY DEF SInv, OwnerOK, At
    <2> QED BY <2>1, <2>2
  <1>2. PortsOK' /\ PoolThreadsOK'
    <2>1. PortsOK'
      BY DEF SInv, PortsOK
    <2>2. \A t \in Threads : thread'[t].pc \in {"Get", "Work"} =>
            t \in pool /\ thread'[t].port = current /\ current # NoPort
      BY DEF SInv, PoolThreadsOK
    <2>3. \A t \in pool : /\ thread'[t].pc # "none"
                          /\ ~At("Join") => thread'[t].pc # "ended"
      <3>1. \A t \in pool : t \in Threads
        BY DEF TypeOK
      <3> QED BY <3>1 DEF SInv, PoolThreadsOK
    <2> QED BY <2>1, <2>2, <2>3 DEF PoolThreadsOK, At
  <1>3. OneExitPerThread'
    <2>1. \A p \in Ports : LiveThreads(p)' = LiveThreads(p)
      BY DEF LiveThreads
    <2> QED BY <2>1 DEF SInv, OneExitPerThread, At
  <1> QED BY <1>1, <1>2, <1>3 DEF SInv

LEMMA AcceptStep ==
  ASSUME TypeOK, SInv, AcceptThread
  PROVE  SInv'
  <1>1. accept \in Worker
    BY DEF TypeOK
  <1>2. CASE AcceptEnds
    <2>1. /\ accept.pc = "SetEvent" /\ accept' = RunEnds(accept)
          /\ UNCHANGED <<ctl, check, current, pool, thread, ports, calls>>
      BY <1>2 DEF AcceptEnds, AcceptAt, serverVars, adminVars
    <2>2. accept'.event /\ accept'.pc = "ended" /\ accept'.runStatus = accept.runStatus
      BY <1>1, <2>1 DEF RunEnds, SetEvent, Worker
    <2>3. WorkerOK(accept)' /\ WorkerOK(check)' /\ ~Alive(accept)' /\ Alive(accept)
      BY <2>1, <2>2 DEF SInv, WorkerOK, Alive
    <2> QED BY <2>1, <2>2, <2>3, ThreadsGoOn DEF Alive
  <1>3. CASE \/ WaitEvent \/ TestRunning \/ EnumNetworkEvents \/ IsAllowed \/ Accept
             \/ AssociateClient \/ OpenMutex \/ While
    <2>1. PICK l \in AcceptPlaces : accept' = [accept EXCEPT !.pc = l]
      BY <1>3, AcceptGoesOn
    <2>2. /\ accept'.pc = l /\ accept'.event = accept.event
          /\ accept'.runStatus = accept.runStatus /\ accept.pc \in AcceptPlaces
          /\ UNCHANGED <<ctl, check, current, pool, thread, calls>>
      BY <1>1, <1>3, <2>1, AcceptGoesOn DEF Worker, adminVars
    <2>3. WorkerOK(accept)' /\ WorkerOK(check)' /\ Alive(accept)
      BY <2>1, <2>2 DEF SInv, WorkerOK, Alive, AcceptPlaces
    <2>4. \A p \in Ports : /\ ports'[p].open <=> ports[p].open
                           /\ ports'[p].exits = ports[p].exits
      <3>1. /\ ports \in [Ports -> [open : BOOLEAN, exits : Nat, works : 0 .. MaxWorks]]
            /\ current \in Ports \cup {NoPort}
        BY DEF TypeOK
      <3>2. CASE UNCHANGED ports
        BY <3>2
      <3>3. CASE /\ current # NoPort
                 /\ ports' = [ports EXCEPT ![current].works = @ + 1]
        BY <3>1, <3>3
      <3> QED BY <1>3, <3>2, <3>3, AcceptGoesOn
    <2> QED BY <2>1, <2>2, <2>3, <2>4, ThreadsGoOn DEF AcceptPlaces, Alive
  <1> QED BY <1>2, <1>3 DEF AcceptThread

LEMMA ExitCheckStep ==
  ASSUME TypeOK, SInv, CheckRun
  PROVE  SInv'
  <1>1. /\ check \in Worker
        /\ UNCHANGED <<ctl, accept, current, pool, thread, ports, calls>>
    BY DEF TypeOK, CheckRun, serverVars, adminVars
  <1>2. /\ check.pc \in {"Test", "Vistor", "SetEvent"}
        /\ check'.runStatus = check.runStatus
        /\ \/ check'.event = check.event /\ check'.pc \in {"Test", "Vistor", "SetEvent"}
           \/ check'.event /\ check'.pc = "ended"
    BY <1>1 DEF CheckRun, RunEnds, SetEvent, Worker
  <1>3. /\ WorkerOK(accept)' /\ WorkerOK(check)' /\ Alive(check)
        /\ Alive(accept)' => Alive(accept)
    BY <1>1, <1>2 DEF SInv, WorkerOK, Alive
  <1> QED BY <1>1, <1>2, <1>3, ThreadsGoOn DEF Alive

LEMMA OutsideStep ==
  ASSUME TypeOK, SInv,
         \/ Connect \/ Signal \/ NetworkClose \/ SetAcceptConnections \/ SetBannedIPs
         \/ UNCHANGED vars
  PROVE  SInv'
  <1>1. /\ UNCHANGED <<ctl, accept, check, current, pool, thread, ports>>
        /\ calls'.start = calls.start
    BY DEF TypeOK, Connect, Signal, NetworkClose, SetAcceptConnections,
           SetBannedIPs, vars, serverVars, adminVars
  <1>2. WorkerOK(accept)' /\ WorkerOK(check)'
    BY <1>1 DEF SInv, WorkerOK, Alive
  <1> QED BY <1>1, <1>2, ThreadsGoOn DEF Alive

\* A pool thread takes work, does it, or takes an exit, its own.
LEMMA PoolThreadStep ==
  ASSUME TypeOK, SInv, NEW t \in Threads, PoolThread(t)
  PROVE  SInv'
  <1> DEFINE P == [open : BOOLEAN, exits : Nat, works : 0 .. MaxWorks]
             T == [pc : {"none", "Get", "Work", "ended"},
                   port : Ports \cup {NoPort}]
  <1>1. /\ ports \in [Ports -> P] /\ thread \in [Threads -> T]
        /\ thread[t].pc \in {"Get", "Work"}
        /\ UNCHANGED <<ctl, accept, check, current, pool, calls>>
    BY DEF TypeOK, PoolThread, GetExit, GetWork, Executor, adminVars
  <1>2. PICK p \in Ports : p = thread[t].port /\ p = current /\ t \in pool
    BY <1>1 DEF SInv, PoolThreadsOK, TypeOK
  <1>3. WorkerOK(accept)' /\ WorkerOK(check)'
    BY <1>1 DEF SInv, WorkerOK, Alive
  <1>4. CASE GetWork(t) \/ Executor(t)
    <2>1. PICK l \in {"Get", "Work"} : thread' = [thread EXCEPT ![t].pc = l]
      BY <1>4 DEF GetWork, Executor
    <2>2. \A u \in Threads :
            /\ thread'[u].port = thread[u].port
            /\ \/ thread'[u].pc = thread[u].pc
               \/ thread[u].pc \in {"Get", "Work"} /\ thread'[u].pc \in {"Get", "Work"}
      BY <1>1, <2>1
    <2>3. \/ UNCHANGED ports
          \/ \E n \in Nat : ports' = [ports EXCEPT ![p].works = n]
      <3>1. ports[p].works \in Nat
        BY <1>1, <1>2
      <3>2. CASE GetWork(t)
        <4>1. ports[p].works - 1 \in Nat
          BY <1>2, <3>1, <3>2 DEF GetWork
        <4> QED BY <1>2, <3>2, <4>1 DEF GetWork
      <3>3. CASE Executor(t)
        <4>1. ports[p].works + 1 \in Nat
          BY <3>1
        <4> QED BY <1>2, <3>3, <4>1 DEF Executor
      <3> QED BY <1>4, <3>2, <3>3
    <2>4. \A q \in Ports : /\ ports'[q].open <=> ports[q].open
                           /\ ports'[q].exits = ports[q].exits
      BY <1>1, <1>2, <2>3
    <2> QED BY <1>1, <1>3, <2>2, <2>4, ThreadsGoOn DEF Alive
  <1>5. CASE GetExit(t)
    <2>1. /\ ports[p].exits > 0 /\ ports' = [ports EXCEPT ![p].exits = @ - 1]
          /\ thread' = [thread EXCEPT ![t].pc = "ended"]
      BY <1>2, <1>5 DEF GetExit
    <2>2. /\ ports'[p].exits = ports[p].exits - 1
          /\ \A q \in Ports : /\ ports'[q].open <=> ports[q].open
                              /\ q # p => ports'[q].exits = ports[q].exits
      BY <1>1, <1>2, <2>1
    <2>3. /\ thread'[t].pc = "ended" /\ thread'[t].port = thread[t].port
          /\ \A u \in Threads : u # t => thread'[u] = thread[u]
      BY <1>1, <2>1
    <2>4. At("Join")
      BY <1>2, <2>1 DEF SInv, OneExitPerThread
    <2>5. Fresh' /\ OwnerOK' /\ PortsOK'
      <3>1. Fresh'
        BY <1>1, <1>2 DEF SInv, Fresh
      <3>2. OwnerOK'
        BY <1>1 DEF SInv, OwnerOK, At, Alive
      <3>3. PortsOK'
        BY <1>1, <2>2 DEF SInv, PortsOK, Alive
      <3> QED BY <3>1, <3>2, <3>3
    <2>6. PoolThreadsOK'
      <3>1. pool \subseteq Threads
        BY DEF TypeOK
      <3> QED BY <1>1, <2>3, <2>4, <3>1 DEF SInv, PoolThreadsOK, At
    <2>7. OneExitPerThread'
      <3>1. LiveThreads(p)' = LiveThreads(p) \ {t} /\ t \in LiveThreads(p)
        BY <1>1, <1>2, <2>3 DEF LiveThreads
      <3>2. IsFiniteSet(LiveThreads(p))
        BY FS_Subset, ConstantsAssumption DEF LiveThreads
      <3>3. Cardinality(LiveThreads(p)') = Cardinality(LiveThreads(p)) - 1
        BY <3>1, <3>2, FS_RemoveElement
      <3>4. \A q \in Ports : /\ q = p => ports[q].exits = Cardinality(LiveThreads(q))
                             /\ q # p => ports[q].exits = 0
        BY <1>2, <2>4 DEF SInv, OneExitPerThread
      <3>5. \A q \in Ports : /\ q = p => ports'[q].exits = Cardinality(LiveThreads(q)')
                             /\ q # p => ports'[q].exits = 0
        BY <2>2, <3>3, <3>4
      <3>6. \A q, r \in Ports : q = r => LiveThreads(q)' = LiveThreads(r)'
        BY DEF LiveThreads
      <3> QED BY <1>1, <1>2, <2>4, <3>5, <3>6 DEF OneExitPerThread, At
    <2> QED BY <1>3, <2>5, <2>6, <2>7 DEF SInv
  <1> QED BY <1>4, <1>5 DEF PoolThread

\* The owner goes from one place to another and starts or ends nothing.
LEMMA OwnerGoesOn ==
  ASSUME TypeOK, SInv, NEW l \in ControlPlaces \ {"Join", "AcceptStart", "CheckStart"},
         ctl'.pc = l, ctl.pc # "Join",
         UNCHANGED <<check, current, pool, thread, ports>>,
         calls'.start = calls.start \/ (calls'.start > 0 /\ calls.start \in Nat),
         accept'.pc = accept.pc, accept'.event <=> accept.event,
         accept'.runStatus <=> accept.runStatus,
         OwnerOK'
  PROVE  SInv'
  <1>1. WorkerOK(accept)' /\ WorkerOK(check)'
    BY DEF SInv, WorkerOK, Alive
  <1>2. Fresh'
    BY DEF SInv, Fresh, ControlPlaces, Exits
  <1>3. PortsOK' /\ PoolThreadsOK'
    BY DEF SInv, PortsOK, PoolThreadsOK, At, Alive
  <1>4. OneExitPerThread'
    <2>1. \A p \in Ports : LiveThreads(p)' = LiveThreads(p)
      BY DEF LiveThreads
    <2> QED BY <2>1 DEF SInv, OneExitPerThread, At
  <1> QED BY <1>1, <1>2, <1>3, <1>4 DEF SInv

LEMMA GotoFacts ==
  ASSUME TypeOK, NEW l, Goto(l)
  PROVE  ctl'.pc = l /\ ctl'.last = ctl.last
  BY DEF TypeOK, Goto, Control

\* Stop, on its way to Destroy; Wait.
LEMMA StoppingStep ==
  ASSUME TypeOK, SInv,
         \/ Stop \/ AcceptExit \/ StopWaitEvent \/ AcceptWait \/ CheckWait
         \/ CallWait \/ WaitReturns
  PROVE  SInv'
  <1>1. /\ accept \in Worker /\ check \in Worker /\ ctl \in Control
        /\ calls \in [start : 0 .. MaxStarts, stop : 0 .. MaxStops,
                      toggle : 0 .. MaxToggles]
    BY DEF TypeOK
  <1>2. /\ accept.event <=> ~Alive(accept)
        /\ check.event <=> ~Alive(check)
    BY DEF SInv, WorkerOK
  <1>3. CASE Stop
    <2>1. /\ ctl.pc = "Idle" /\ ctl'.pc = "AcceptExit" /\ calls'.start = calls.start
          /\ UNCHANGED <<accept, check, current, pool, thread, ports>>
      BY <1>1, <1>3 DEF Stop, At, serverVars
    <2>2. OwnerOK'
      BY <2>1 DEF OwnerOK, At
    <2> QED BY <2>1, <2>2, OwnerGoesOn DEF ControlPlaces, Exits
  <1>4. CASE AcceptExit
    <2>1. PICK l \in {"AcceptWait", "StopWaitEvent"} :
            /\ Goto(l) /\ ctl.pc = "AcceptExit"
            /\ UNCHANGED <<check, current, pool, thread, ports, calls>>
            /\ accept' = [accept EXCEPT !.running = FALSE]
      BY <1>4 DEF AcceptExit, At, serverVars, adminVars
    <2>2. /\ accept'.pc = accept.pc /\ accept'.event = accept.event
          /\ accept'.runStatus = accept.runStatus /\ ctl'.pc = l
      BY <1>1, <2>1, GotoFacts DEF Worker
    <2>3. OwnerOK'
      BY <2>1, <2>2 DEF OwnerOK, At
    <2> QED BY <2>1, <2>2, <2>3, OwnerGoesOn DEF ControlPlaces, Exits
  <1>5. CASE \/ StopWaitEvent \/ AcceptWait \/ CheckWait \/ CallWait \/ WaitReturns
    <2>1. PICK l \in {"AcceptWait", "CheckExit", "Destroy", "Wait", "Idle"} :
            /\ Goto(l)
            /\ UNCHANGED <<accept, check, current, pool, thread, ports, calls>>
            /\ \/ l = "AcceptWait" /\ ctl.pc = "StopWaitEvent"
               \/ l = "CheckExit" /\ ctl.pc = "AcceptWait" /\ accept.event
               \/ l = "Destroy" /\ ctl.pc = "CheckWait" /\ check.event
               \/ l = "Wait" /\ ctl.pc = "Idle"
               \/ l = "Idle" /\ ctl.pc = "Wait"
      BY <1>5 DEF StopWaitEvent, AcceptWait, CheckWait, CallWait, WaitReturns, At,
                  IsRuning, serverVars, adminVars
    <2>2. ctl'.pc = l /\ ctl'.last = ctl.last
      BY <2>1, GotoFacts
    <2>3. OwnerOK'
      BY <1>2, <2>1, <2>2 DEF SInv, OwnerOK, At, Alive
    <2> QED BY <2>1, <2>2, <2>3, OwnerGoesOn DEF ControlPlaces, Exits
  <1> QED BY <1>3, <1>4, <1>5

\* CWorker::Start of a worker that was never started.
LEMMA StartsOnce ==
  ASSUME NEW w \in Worker, w.pc = "none", WorkerOK(w),
         NEW l \in WorkerPlaces \ {"none", "ended"}
  PROVE  /\ Starts(w) /\ ~IsRuning(w) /\ Start(w, l).pc = l
         /\ WorkerOK(Start(w, l)) /\ Alive(Start(w, l))
  <1>1. ~ w.runStatus /\ w.event
    BY DEF WorkerOK, Alive
  <1> DEFINE x == [w EXCEPT !.running = TRUE]
             y == [x EXCEPT !.event = FALSE]
             z == [y EXCEPT !.runStatus = TRUE]
             v == [z EXCEPT !.pc = l]
  <1>2. x \in Worker /\ ~x.runStatus
    BY <1>1 DEF Worker
  <1> HIDE DEF x
  <1>3. y \in Worker /\ ~y.runStatus /\ ~y.event
    BY <1>2 DEF Worker
  <1>4. Start(w, l) = Run(y, l)
    BY DEF Start, ResetEvent, x
  <1> HIDE DEF y
  <1>5. Run(y, l) = v
    BY <1>3 DEF Run
  <1>6. z \in Worker /\ z.runStatus /\ ~z.event
    BY <1>3 DEF Worker
  <1> HIDE DEF z
  <1>7. v.pc = l /\ v.runStatus /\ ~v.event
    BY <1>6 DEF Worker
  <1> HIDE DEF v
  <1> QED BY <1>1, <1>4, <1>5, <1>7
          DEF Starts, IsRuning, WorkerOK, Alive, WorkerPlaces

\* The owner starts a worker, or clears its flag.
LEMMA WorkerStep ==
  ASSUME TypeOK, SInv, UNCHANGED <<current, pool, thread, ports, calls>>,
         ctl.pc # "Join", ctl'.pc # "Join",
         WorkerOK(accept)', WorkerOK(check)', Fresh', OwnerOK',
         Alive(accept)' => Alive(accept) \/ current # NoPort
  PROVE  SInv'
  <1>1. PortsOK'
    BY DEF SInv, PortsOK
  <1>2. PoolThreadsOK'
    BY DEF SInv, PoolThreadsOK, At
  <1>3. OneExitPerThread'
    <2>1. \A p \in Ports : LiveThreads(p)' = LiveThreads(p)
      BY DEF LiveThreads
    <2> QED BY <2>1 DEF SInv, OneExitPerThread, At
  <1> QED BY <1>1, <1>2, <1>3 DEF SInv

LEMMA StartStep ==
  ASSUME TypeOK, SInv, LockAcceptStart \/ AcceptStart \/ CheckStart
  PROVE  SInv'
  <1>1. /\ accept \in Worker /\ check \in Worker /\ ctl \in Control
        /\ WorkerOK(accept) /\ WorkerOK(check)
        /\ UNCHANGED <<current, pool, thread, ports, calls>>
        /\ ctl.pc \in {"AcceptStart", "CheckStart"} /\ current # NoPort
        /\ calls.start # 0
    BY DEF TypeOK, SInv, OwnerOK, Fresh, LockAcceptStart, AcceptStart, CheckStart, At,
           serverVars, adminVars
  <1>2. Fresh'
    BY <1>1 DEF Fresh
  <1>3. CASE LockAcceptStart \/ AcceptStart
    <2>1. PICK l \in {"OpenMutex", "Wait"} :
            /\ ctl.pc = "AcceptStart" /\ UNCHANGED check
            /\ \/ Goto("AcceptExit") /\ UNCHANGED accept
               \/ /\ accept' = Start(accept, l)
                  /\ Goto(IF Starts(accept) THEN "CheckStart" ELSE "AcceptExit")
      BY <1>3 DEF LockAcceptStart, AcceptStart, At
    <2>2. accept.pc = "none" /\ check.pc = "none"
      BY <2>1 DEF SInv, OwnerOK, At
    <2>3. CASE Goto("AcceptExit") /\ UNCHANGED accept
      <3>1. ctl'.pc = "AcceptExit"
        BY <2>3, GotoFacts
      <3>2. WorkerOK(accept)' /\ WorkerOK(check)' /\ OwnerOK'
        BY <1>1, <2>1, <2>3, <3>1 DEF WorkerOK, Alive, OwnerOK, At
      <3> QED BY <1>1, <1>2, <3>1, <3>2, WorkerStep
    <2>4. CASE /\ accept' = Start(accept, l)
               /\ Goto(IF Starts(accept) THEN "CheckStart" ELSE "AcceptExit")
      <3>1. Starts(accept) /\ WorkerOK(Start(accept, l)) /\ Alive(Start(accept, l))
        BY <1>1, <2>2, StartsOnce DEF WorkerPlaces
      <3>2. ctl'.pc = "CheckStart" /\ WorkerOK(accept)' /\ WorkerOK(check)'
        BY <1>1, <2>1, <2>4, <3>1, GotoFacts DEF WorkerOK, Alive
      <3>3. OwnerOK'
        BY <1>1, <2>1, <2>2, <3>2 DEF OwnerOK, At
      <3> QED BY <1>1, <1>2, <3>2, <3>3, WorkerStep
    <2> QED BY <2>1, <2>3, <2>4
  <1>4. CASE CheckStart
    <2>1. /\ ctl.pc = "CheckStart" /\ UNCHANGED accept /\ check' = Start(check, "Test")
          /\ ctl' = [pc |-> "Idle",
                     last |-> IF Starts(check) THEN "started" ELSE "failed"]
      BY <1>4 DEF CheckStart, At
    <2>2. check.pc = "none"
      BY <2>1 DEF SInv, OwnerOK, At
    <2>3. Starts(check) /\ WorkerOK(Start(check, "Test"))
      BY <1>1, <2>2, StartsOnce DEF WorkerPlaces
    <2>4. /\ ctl'.pc = "Idle" /\ ctl'.last = "started" /\ WorkerOK(accept)'
          /\ WorkerOK(check)'
      BY <1>1, <2>1, <2>3 DEF WorkerOK, Alive
    <2>5. OwnerOK'
      BY <2>4 DEF OwnerOK, At
    <2> QED BY <1>1, <1>2, <2>1, <2>4, <2>5, WorkerStep
  <1> QED BY <1>3, <1>4

LEMMA CheckExitStep ==
  ASSUME TypeOK, SInv, CheckExit
  PROVE  SInv'
  <1>1. /\ check \in Worker /\ check' = [check EXCEPT !.running = FALSE]
        /\ ctl.pc = "CheckExit" /\ Goto("CheckWait")
        /\ UNCHANGED <<accept, current, pool, thread, ports, calls>>
    BY DEF TypeOK, CheckExit, At, serverVars, adminVars
  <1>2. /\ check'.pc = check.pc /\ check'.event = check.event
        /\ check'.runStatus = check.runStatus /\ ctl'.pc = "CheckWait"
    BY <1>1, GotoFacts DEF Worker
  <1>3. WorkerOK(accept)' /\ WorkerOK(check)' /\ Fresh' /\ OwnerOK'
    BY <1>1, <1>2 DEF SInv, WorkerOK, Alive, Fresh, OwnerOK, At
  <1> QED BY <1>1, <1>2, <1>3, WorkerStep DEF Alive

\* The exits are as many as the threads, all of which are on the port.
LEMMA DestroyStep ==
  ASSUME TypeOK, SInv, Destroy
  PROVE  SInv'
  <1>1. /\ ports \in [Ports -> [open : BOOLEAN, exits : Nat, works : 0 .. MaxWorks]]
        /\ current \in Ports \cup {NoPort} /\ pool \subseteq Threads
        /\ ctl.pc = "Destroy" /\ ctl'.pc = "Join"
        /\ UNCHANGED <<accept, check, current, pool, thread, calls>>
        /\ ports' = IF current = NoPort THEN ports
                    ELSE [ports EXCEPT ![current].exits = @ + Cardinality(pool)]
    BY GotoFacts DEF TypeOK, Destroy, At, adminVars
  <1>2. \A p \in Ports : ports[p].exits = 0
    BY <1>1 DEF SInv, OneExitPerThread, At
  <1>3. \A p \in Ports : /\ ports'[p].open <=> ports[p].open
                         /\ p = current => ports'[p].exits = Cardinality(pool)
                         /\ p # current => ports'[p].exits = 0
    <2>1. CASE current = NoPort
      BY <1>1, <1>2, <2>1 DEF Ports, NoPort
    <2>2. CASE current # NoPort
      <3>1. \A p \in Ports :
              /\ ports'[p].open <=> ports[p].open
              /\ p = current => ports'[p].exits = ports[p].exits + Cardinality(pool)
              /\ p # current => ports'[p].exits = ports[p].exits
        BY <1>1, <2>2
      <3> QED BY <1>2, <3>1, PoolFinite
    <2> QED BY <2>1, <2>2
  <1>4. WorkerOK(accept)' /\ WorkerOK(check)' /\ Fresh' /\ OwnerOK'
    BY <1>1 DEF SInv, WorkerOK, Alive, Fresh, OwnerOK, At
  <1>5. PortsOK' /\ PoolThreadsOK'
    BY <1>1, <1>3 DEF SInv, PortsOK, PoolThreadsOK, Alive, At
  <1>6. OneExitPerThread'
    <2>1. \A t \in pool : thread[t].pc \in {"Get", "Work"}
      BY <1>1 DEF SInv, PoolThreadsOK, At, TypeOK
    <2>2. \A p \in Ports : p = current => LiveThreads(p)' = pool
      BY <1>1, <2>1 DEF SInv, PoolThreadsOK, LiveThreads
    <2> QED BY <1>1, <1>3, <2>2 DEF OneExitPerThread, At
  <1> QED BY <1>4, <1>5, <1>6 DEF SInv

\* No thread is left on the port that is closed.
LEMMA JoinStep ==
  ASSUME TypeOK, SInv, Join
  PROVE  SInv'
  <1>1. /\ ports \in [Ports -> [open : BOOLEAN, exits : Nat, works : 0 .. MaxWorks]]
        /\ current \in Ports \cup {NoPort} /\ ctl.pc = "Join"
        /\ current' = NoPort /\ pool' = {} /\ ctl'.pc = "Idle"
        /\ UNCHANGED <<accept, check, thread, calls>>
        /\ ports' = IF current = NoPort THEN ports
                    ELSE [ports EXCEPT ![current].open = FALSE]
        /\ \A t \in pool : thread[t].pc = "ended"
    BY DEF TypeOK, Join, At, adminVars
  <1>2. \A t \in Threads : thread[t].pc \notin {"Get", "Work"}
    BY <1>1 DEF SInv, PoolThreadsOK
  <1>3. \A p \in Ports : LiveThreads(p) = {} /\ LiveThreads(p)' = {}
    BY <1>1, <1>2 DEF LiveThreads
  <1>4. \A p \in Ports : ports[p].exits = 0
    BY <1>3, FS_EmptySet DEF SInv, OneExitPerThread
  <1>5. \A p \in Ports : ~ ports'[p].open /\ ports'[p].exits = 0
    <2>1. \A p \in Ports : ports[p].open => p = current
      BY DEF SInv, PortsOK
    <2>2. CASE current = NoPort
      BY <1>1, <1>4, <2>1, <2>2 DEF Ports, NoPort
    <2>3. CASE current # NoPort
      BY <1>1, <1>4, <2>1, <2>3
    <2> QED BY <2>2, <2>3
  <1>6. /\ WorkerOK(accept)' /\ WorkerOK(check)' /\ OwnerOK' /\ Fresh'
        /\ ~ Alive(accept)
    BY <1>1 DEF SInv, WorkerOK, Alive, OwnerOK, Fresh, At
  <1>7. PortsOK' /\ PoolThreadsOK'
    BY <1>1, <1>2, <1>5, <1>6 DEF PortsOK, PoolThreadsOK, Alive, Ports, NoPort
  <1>8. OneExitPerThread'
    BY <1>1, <1>5 DEF OneExitPerThread, At
  <1> QED BY <1>6, <1>7, <1>8 DEF SInv

\* The only start: no thread was ever there.
LEMMA PoolStartStep ==
  ASSUME TypeOK, SInv, MaxStarts <= 1, PoolStart
  PROVE  SInv'
  <1>1. /\ calls \in [start : 0 .. MaxStarts, stop : 0 .. MaxStops,
                      toggle : 0 .. MaxToggles]
        /\ MaxStarts \in Nat /\ ctl.pc = "Idle" /\ calls.start < MaxStarts
        /\ UNCHANGED <<accept, check>> /\ calls' = [calls EXCEPT !.start = @ + 1]
        /\ ports \in [Ports -> [open : BOOLEAN, exits : Nat, works : 0 .. MaxWorks]]
    BY ConstantsAssumption DEF TypeOK, PoolStart, At
  <1>2. calls.start = 0 /\ calls'.start = 1 /\ 1 \in Ports
    BY <1>1 DEF Ports
  <1>3. /\ accept.pc = "none" /\ check.pc = "none" /\ current = NoPort /\ pool = {}
        /\ \A t \in Threads : thread[t].pc = "none"
    BY <1>2 DEF SInv, Fresh
  <1>4. WorkerOK(accept)' /\ WorkerOK(check)' /\ Fresh'
    BY <1>1, <1>2 DEF SInv, WorkerOK, Alive, Fresh
  <1>5. CASE UNCHANGED serverVars
    <2>1. /\ UNCHANGED <<current, pool, thread, ports>>
          /\ ctl'.pc \in {"AcceptExit", "AcceptStart"}
      BY <1>5 DEF PoolStart, serverVars
    <2>2. ctl'.pc = "AcceptExit"
      <3> SUFFICES ASSUME current' = calls.start + 1 PROVE FALSE
        BY DEF PoolStart
      <3> QED BY <1>2, <1>3, <2>1 DEF NoPort
    <2>3. OwnerOK'
      BY <2>2 DEF OwnerOK, At
    <2>4. PortsOK' /\ PoolThreadsOK'
      BY <1>1, <1>3, <2>1 DEF SInv, PortsOK, PoolThreadsOK, Alive
    <2>5. OneExitPerThread'
      <3>1. \A p \in Ports : LiveThreads(p)' = LiveThreads(p)
        BY <2>1 DEF LiveThreads
      <3> QED BY <1>1, <2>1, <2>2, <3>1 DEF SInv, OneExitPerThread, At
    <2> QED BY <1>4, <2>3, <2>4, <2>5 DEF SInv
  <1>6. ASSUME NEW T \in SUBSET Threads,
               current' = 1, ports' = [ports EXCEPT ![1].open = TRUE],
               thread' = [t \in Threads |->
                            IF t \in T THEN [pc |-> "Get", port |-> 1] ELSE thread[t]],
               pool' = T, ctl'.pc = "AcceptStart"
        PROVE  SInv'
    <2>1. OwnerOK'
      BY <1>1, <1>3, <1>6 DEF OwnerOK, At, NoPort
    <2>2. \A p \in Ports : ports'[p].open <=> p = 1
      BY <1>1, <1>2, <1>3, <1>6 DEF SInv, PortsOK, Ports, NoPort
    <2>3. PortsOK'
      BY <1>1, <1>3, <1>6, <2>2 DEF PortsOK, Alive
    <2>4. PoolThreadsOK'
      <3>1. \A t \in Threads : \/ t \in T /\ thread'[t].pc = "Get" /\ thread'[t].port = 1
                               \/ t \notin T /\ thread'[t].pc = "none"
        BY <1>3, <1>6
      <3> QED BY <1>6, <3>1 DEF PoolThreadsOK, NoPort
    <2>5. OneExitPerThread'
      <3>1. \A p \in Ports : ports[p].exits = 0 /\ ports'[p].exits = ports[p].exits
        BY <1>1, <1>2, <1>6 DEF SInv, OneExitPerThread, At
      <3> QED BY <1>6, <3>1 DEF OneExitPerThread, At
    <2> QED BY <1>4, <2>1, <2>3, <2>4, <2>5 DEF SInv
  <1>7. CASE ~ UNCHANGED serverVars
    <2>1. PICK T \in SUBSET {t \in Threads : thread[t].pc = "none"} :
             /\ current' = calls.start + 1
             /\ ports' = [ports EXCEPT ![calls.start + 1].open = TRUE]
             /\ thread' = [t \in Threads |->
                             IF t \in T
                             THEN [pc |-> "Get", port |-> calls.start + 1]
                             ELSE thread[t]]
             /\ pool' = pool \cup T
             /\ ctl' = [pc |-> "AcceptStart", last |-> "starting"]
      BY <1>7 DEF PoolStart
    <2>2. calls.start + 1 = 1 /\ pool \cup T = T /\ ctl'.pc = "AcceptStart"
      BY <1>2, <1>3, <2>1
    <2> QED BY <1>6, <2>1, <2>2
  <1> QED BY <1>5, <1>7

LEMMA SInvNext ==
  ASSUME MaxStarts <= 1
  PROVE  TypeOK /\ SInv /\ [Next]_vars => SInv'
  BY PoolStartStep, StartStep, StoppingStep, CheckExitStep, DestroyStep, JoinStep,
     AcceptStep, ExitCheckStep, PoolThreadStep, OutsideStep
     DEF Next, Owner, Calls

LEMMA SInvAlways ==
  ASSUME MaxStarts <= 1
  PROVE  Spec => [](TypeOK /\ SInv)
  BY TypeInit, TypeNext, SInvInit, SInvNext, PTL DEF Spec

-----------------------------------------------------------------------------
(* The theorems. *)

\* In a server that is started at most once, whatever its threads do and
\* however often Stop is called: the exit event of each worker is signalled
\* exactly while its thread does not run (Worker.h:41), and every thread that
\* uses a completion port uses one that is open (TCPServer.cpp:75-77).
THEOREM WorkersConsistent ==
  ASSUME MaxStarts <= 1
  PROVE  Spec => []WorkersOK
  <1>1. TypeOK /\ SInv => WorkersOK
    <2> SUFFICES ASSUME TypeOK, SInv PROVE WorkersOK
      OBVIOUS
    <2>1. EventTellsThread
      BY DEF SInv, WorkerOK, EventTellsThread
    <2>2. current \in Ports \cup {NoPort}
      BY DEF TypeOK
    <2>3. AcceptAt("Associate") => current # NoPort /\ ports[current].open
      BY <2>2 DEF SInv, PortsOK, AcceptAt, Alive
    <2>4. \A t \in Threads : thread[t].pc \in {"Get", "Work"} =>
                                 ports[thread[t].port].open
      BY <2>2 DEF SInv, PortsOK, PoolThreadsOK
    <2> QED BY <2>1, <2>3, <2>4 DEF WorkersOK, PortInUseIsOpen
  <1> QED BY <1>1, SInvAlways, PTL

\* Its Stop, and a Start that failed, leave no thread and no open port behind,
\* however far the threads were.
THEOREM NothingRunsWhenStopped ==
  ASSUME MaxStarts <= 1
  PROVE  Spec => []QuietWhenStopped
  <1>1. TypeOK /\ SInv => QuietWhenStopped
    <2> SUFFICES ASSUME TypeOK, SInv, At("Idle"), ctl.last \in {"failed", "stopped"}
                 PROVE  /\ ~Alive(accept) /\ ~Alive(check)
                        /\ \A t \in Threads : thread[t].pc \in {"none", "ended"}
                        /\ \A p \in Ports : ~ports[p].open
      BY DEF QuietWhenStopped
    <2>1. ~Alive(accept) /\ ~Alive(check) /\ current = NoPort
      BY DEF SInv, OwnerOK, At
    <2>2. \A t \in Threads : thread[t].pc \in {"none", "Get", "Work", "ended"}
      BY DEF TypeOK
    <2> QED BY <2>1, <2>2 DEF SInv, PortsOK, PoolThreadsOK, Ports, NoPort
  <1> QED BY <1>1, SInvAlways, PTL

\* Destroy posts one exit completion for each thread that still waits, on its
\* port, and each thread takes one (IOPool.cpp:56-67).
THEOREM ExitsMatchThreads ==
  ASSUME MaxStarts <= 1
  PROVE  Spec => []OneExitPerThread
  <1>1. SInv => OneExitPerThread
    BY DEF SInv
  <1> QED BY <1>1, SInvAlways, PTL
-----------------------------------------------------------------------------
(* The thread that CheckExit stops: ConnectionCheck for any clients, limits    *)
(* and pauses, either order of the two reads and any reissue of SOCKET values. *)

\* The client visited was accepted.
CurAccepted ==
    /\ pc \in {"Read", "Test", "Close"} => cur \in Clients /\ sock[cur] # "new"
    /\ \A c \in todo \cup registered : sock[c] # "new"

\* While a client is in the table nobody else has its SOCKET value.
HandleIsItsOwn ==
    \A c \in registered, d \in Clients :
        d # c /\ d \in SameHandle(c) => sock[d] # "open"

\* What the check knows of the time of the client it visits.
TimeIsKnown ==
    /\ pc = "Test" /\ ~tickFirst => lastRead = seen
    /\ pc = "Test" /\ tickFirst /\ ~raced => age[cur] >= tickAge
    /\ pc = "Close" => seen + MaxPause >= Threshold \/ (tickFirst /\ raced)

VisitOK == CurAccepted /\ HandleIsItsOwn /\ TimeIsKnown

LEMMA Bounds ==
  /\ Threshold \in Nat \ {0} /\ Cap \in Nat
  /\ Cap = Threshold + MaxPause /\ TickSize > Cap + MaxPause
  <1>1. Limit + 1 \in Nat \ {0} /\ Second \in Nat \ {0}
    BY CheckAssumption
  <1>2. Threshold \in Nat \ {0}
    BY <1>1 DEF Threshold
  <1> QED
    BY <1>2, CheckAssumption DEF Cap

\* More than q whole divisors are q + 1 of them at least.
LEMMA Quotient ==
  ASSUME NEW x \in Nat, NEW d \in Nat \ {0}, NEW q \in Nat, x \div d > q
  PROVE  x >= (q + 1) * d
  <1>1. x \div d \in Nat /\ d * (x \div d) <= x
    OBVIOUS
  <1>2. d * (q + 1) <= d * (x \div d)
    BY <1>1
  <1> QED
    BY <1>1, <1>2

LEMMA InitTypes ==
  ASSUME CheckInit
  PROVE  CheckTypeOK /\ VisitOK
  <1>1. CheckTypeOK
    <2>1. running \in BOOLEAN /\ slept \in BOOLEAN /\ tickFirst \in BOOLEAN
          /\ raced \in BOOLEAN
      BY Zenon DEF CheckInit
    <2>2. /\ sock \in [Clients -> {"new", "open", "closed"}]
          /\ age \in [Clients -> 0 .. Cap]
          /\ waits \in 0 .. Waits /\ tickAge \in 0 .. MaxPause
          /\ lastRead \in 0 .. Cap /\ seen \in 0 .. Cap
      BY Bounds, CheckAssumption DEF CheckInit
    <2>3. /\ registered \subseteq Clients /\ todo \subseteq Clients
          /\ cur \in Clients \cup {None}
          /\ pc \in {"Loop", "Visit", "Read", "Test", "Close", "Done"}
      BY Zenon DEF CheckInit
    <2> QED
      BY <2>1, <2>2, <2>3, Zenon DEF CheckTypeOK
  <1>2. VisitOK
    BY DEF CheckInit, VisitOK, CurAccepted, HandleIsItsOwn, TimeIsKnown
  <1> QED
    BY <1>1, <1>2

LEMMA StepTypes ==
  ASSUME CheckTypeOK, VisitOK, [CheckNext]_checkVars
  PROVE  CheckTypeOK'
  <1> USE Bounds, CheckAssumption DEF CheckTypeOK, clientVars, loopVars,
                     visitVars
  <1>1. CASE Tick
    BY <1>1 DEF Tick, Older
  <1>2. ASSUME NEW c \in Clients, ConnectClient(c) PROVE CheckTypeOK'
    BY <1>2 DEF ConnectClient
  <1>3. ASSUME NEW c \in Clients, UpdateTime(c) PROVE CheckTypeOK'
    BY <1>3 DEF UpdateTime
  <1>4. ASSUME NEW c \in Clients, RemoveClient(c) PROVE CheckTypeOK'
    BY <1>4 DEF RemoveClient, Closed
  <1>5. CASE Loop
    <2>1. \/ pc' = "Done" /\ UNCHANGED <<waits, todo>>
          \/ waits < Waits /\ waits' = waits + 1 /\ UNCHANGED <<pc, todo>>
          \/ waits' = 0 /\ todo' = registered /\ pc' = "Visit"
      BY <1>5, Zenon DEF Loop
    <2>2. slept' \in BOOLEAN /\ UNCHANGED <<clientVars, running, visitVars,
                                            tickFirst>>
      BY <1>5 DEF Loop
    <2> QED
      BY <2>1, <2>2
  <1>6. CASE Visit
    <2>1. /\ todo' \subseteq Clients /\ cur' \in Clients \cup {None}
          /\ pc' \in {"Loop", "Visit", "Read", "Test", "Close", "Done"}
      BY <1>6, Zenon DEF Visit
    <2>2. seen' = 0 /\ raced' = FALSE
      BY <1>6, Zenon DEF Visit
    <2>3. UNCHANGED <<clientVars, running, waits, slept, tickAge, lastRead,
                      tickFirst>>
      BY <1>6, Zenon DEF Visit
    <2>4. 0 \in 0 .. Cap /\ FALSE \in BOOLEAN
      BY Bounds
    <2> QED
      BY <2>1, <2>2, <2>3, <2>4, Zenon
  <1>7. CASE Read
    <2>1. age[cur] \in 0 .. Cap
      BY <1>7 DEF Read, VisitOK, CurAccepted
    <2>2. /\ tickAge' = 0 /\ lastRead' \in {0, age[cur]}
          /\ seen' = age[cur] /\ raced' = FALSE /\ pc' = "Test"
      BY <1>7, Zenon DEF Read
    <2>3. UNCHANGED <<clientVars, running, waits, slept, todo, cur, tickFirst>>
      BY <1>7, Zenon DEF Read
    <2>4. 0 \in 0 .. Cap /\ 0 \in 0 .. MaxPause /\ FALSE \in BOOLEAN
      BY Bounds, CheckAssumption
    <2>5. lastRead' \in 0 .. Cap /\ seen' \in 0 .. Cap
      BY <2>1, <2>2, <2>4, Zenon
    <2> QED
      BY <2>2, <2>3, <2>4, <2>5, Zenon
  <1>8. CASE Test
    BY <1>8 DEF Test, VisitOK, CurAccepted
  <1>9. CASE Close
    BY <1>9 DEF Close, Closed
  <1>10. CASE Exit
    BY <1>10 DEF Exit
  <1>11. CASE UNCHANGED checkVars
    BY <1>11 DEF checkVars
  <1> QED
    BY <1>1, <1>2, <1>3, <1>4, <1>5, <1>6, <1>7, <1>8, <1>9, <1>10, <1>11
       DEF CheckNext, CheckStep

\* Closing a SOCKET value opens no socket, and closes those that have it only.
LEMMA ClosingOpens ==
  ASSUME CheckTypeOK, NEW c, NEW d \in Clients
  PROVE  /\ Closed(c)[d] = "new" <=> sock[d] = "new"
         /\ Closed(c)[d] = "open" => sock[d] = "open"
         /\ Closed(c)[d] # sock[d] => d \in SameHandle(c) /\ sock[d] = "open"
  BY DEF CheckTypeOK, Closed

LEMMA StepAccepted ==
  ASSUME CheckTypeOK, VisitOK, [CheckNext]_checkVars
  PROVE  CurAccepted'
  <1> USE DEF CheckTypeOK, VisitOK, CurAccepted, clientVars, loopVars, visitVars
  <1>1. ASSUME NEW c \in Clients, ConnectClient(c) PROVE CurAccepted'
    <2>1. sock' \in [Clients -> {"open", "closed", "new"}]
          /\ \A d \in Clients : sock[d] # "new" => sock'[d] # "new"
      BY <1>1 DEF ConnectClient
    <2>2. sock'[c] # "new" /\ registered' \subseteq registered \cup {c}
          /\ UNCHANGED <<pc, cur, todo>>
      BY <1>1 DEF ConnectClient
    <2> QED
      BY <2>1, <2>2
  <1>2. ASSUME NEW c \in Clients, RemoveClient(c) PROVE CurAccepted'
    BY <1>2, ClosingOpens DEF RemoveClient
  <1>3. CASE Close
    BY <1>3, ClosingOpens DEF Close
  <1>4. ASSUME NEW c \in Clients, UpdateTime(c) PROVE CurAccepted'
    BY <1>4 DEF UpdateTime
  <1>5. CASE Tick \/ Loop \/ Exit
    BY <1>5 DEF Tick, Loop, Exit
  <1>6. CASE Visit \/ Read \/ Test
    BY <1>6 DEF Visit, Read, Test
  <1>7. CASE UNCHANGED checkVars
    BY <1>7 DEF checkVars
  <1> QED
    BY <1>1, <1>2, <1>3, <1>4, <1>5, <1>6, <1>7 DEF CheckNext, CheckStep

LEMMA StepHandles ==
  ASSUME CheckTypeOK, VisitOK, [CheckNext]_checkVars
  PROVE  HandleIsItsOwn'
  <1> USE DEF CheckTypeOK, VisitOK, HandleIsItsOwn, clientVars, loopVars
  <1>1. ASSUME NEW c \in Clients, ConnectClient(c) PROVE HandleIsItsOwn'
    <2>1. CASE SameHandle(c) \cap registered = {}
      BY <1>1, <2>1 DEF ConnectClient, SameHandle
    <2>2. CASE SameHandle(c) \cap registered # {}
      BY <1>1, <2>2 DEF ConnectClient, SameHandle
    <2> QED
      BY <2>1, <2>2
  <1>2. ASSUME NEW c \in Clients, RemoveClient(c) PROVE HandleIsItsOwn'
    <2>1. registered' \subseteq registered /\ sock' = Closed(c)
      BY <1>2 DEF RemoveClient
    <2> QED
      BY <2>1, ClosingOpens DEF SameHandle
  <1>3. CASE Close
    <2>1. registered' = registered /\ sock' = Closed(cur)
      BY <1>3 DEF Close
    <2> QED
      BY <2>1, ClosingOpens DEF SameHandle
  <1>4. ASSUME \/ Tick \/ Loop \/ Visit \/ Read \/ Test \/ Exit
               \/ UNCHANGED checkVars
               \/ \E c \in Clients : UpdateTime(c)
        PROVE  HandleIsItsOwn'
    <2>1. UNCHANGED <<sock, registered>>
      BY <1>4 DEF Tick, Loop, Visit, Read, Test, Exit, UpdateTime, checkVars
    <2> QED
      BY <2>1 DEF SameHandle
  <1> QED
    BY <1>1, <1>2, <1>3, <1>4 DEF CheckNext, CheckStep

\* Where the clock is read second, or the client's time was left alone, the
\* difference of the two tick counts does not wrap.
LEMMA ElapsedIsTime ==
  ASSUME CheckTypeOK, VisitOK, pc = "Test", ~(tickFirst /\ raced)
  PROVE  Elapsed = IF tickFirst THEN age[cur] - tickAge ELSE seen + tickAge
  <1>1. CASE tickFirst
    <2>1. age[cur] \in 0 .. Cap /\ age[cur] - tickAge \in 0 .. Cap
      BY <1>1, Bounds DEF CheckTypeOK, VisitOK, CurAccepted, TimeIsKnown
    <2> QED
      BY <1>1, <2>1, Bounds, CheckAssumption DEF Elapsed
  <1>2. CASE ~tickFirst
    BY <1>2, Bounds, CheckAssumption
       DEF CheckTypeOK, VisitOK, TimeIsKnown, Elapsed
  <1> QED
    BY <1>1, <1>2

LEMMA StepTime ==
  ASSUME CheckTypeOK, VisitOK, [CheckNext]_checkVars
  PROVE  TimeIsKnown'
  <1> USE Bounds, CheckAssumption DEF CheckTypeOK, VisitOK, CurAccepted,
                     TimeIsKnown, clientVars, loopVars, visitVars
  <1>1. CASE Tick
    <2>1. pc = "Test" => tickAge + 1 <= MaxPause /\ tickAge' = tickAge + 1
      BY <1>1 DEF Tick
    <2>2. UNCHANGED <<pc, cur, lastRead, seen, raced, tickFirst>>
      BY <1>1 DEF Tick
    <2>3. pc = "Test" => age'[cur] = Older(age[cur]) /\ age[cur] \in 0 .. Cap
      BY <1>1 DEF Tick
    <2> QED
      BY <2>1, <2>2, <2>3 DEF Older
  <1>2. ASSUME NEW c \in Clients, ConnectClient(c) PROVE TimeIsKnown'
    <2>1. pc = "Test" => cur # c /\ age'[cur] = age[cur]
      BY <1>2 DEF ConnectClient
    <2> QED
      BY <1>2, <2>1 DEF ConnectClient
  <1>3. ASSUME NEW c \in Clients, UpdateTime(c) PROVE TimeIsKnown'
    BY <1>3 DEF UpdateTime
  <1>4. ASSUME NEW c \in Clients, RemoveClient(c) PROVE TimeIsKnown'
    BY <1>4 DEF RemoveClient
  <1>5. CASE Loop
    BY <1>5 DEF Loop
  <1>6. CASE Visit
    BY <1>6 DEF Visit
  <1>7. CASE Read
    BY <1>7 DEF Read
  <1>8. CASE Test
    <2>1. CASE IsExpired /\ ~(tickFirst /\ raced)
      <3>1. Elapsed \in Nat
        <4>1. CASE tickFirst
          <5>1. Elapsed = age[cur] - tickAge
            BY <1>8, <2>1, <4>1, ElapsedIsTime, Zenon DEF Test
          <5>2. age[cur] \in Nat /\ age[cur] >= tickAge
            BY <1>8, <2>1, <4>1 DEF Test
          <5> QED
            BY <5>1, <5>2
        <4>2. CASE ~tickFirst
          <5>1. Elapsed = seen + tickAge
            BY <1>8, <2>1, <4>2, ElapsedIsTime, Zenon DEF Test
          <5> QED
            BY <5>1
        <4> QED
          BY <4>1, <4>2
      <3>2. Elapsed >= Threshold
        BY <2>1, <3>1, Quotient DEF IsExpired, Threshold
      <3>3. seen' >= seen /\ seen' >= age[cur] /\ seen' \in Nat
            /\ age[cur] \in Nat
        BY <1>8 DEF Test
      <3>4. seen' + MaxPause >= Threshold
        BY <1>8, <2>1, <3>2, <3>3, ElapsedIsTime DEF Test
      <3> QED
        BY <1>8, <3>4 DEF Test
    <2>2. CASE ~(IsExpired /\ ~(tickFirst /\ raced))
      BY <1>8, <2>2 DEF Test
    <2> QED
      BY <2>1, <2>2
  <1>9. CASE Close
    BY <1>9 DEF Close
  <1>10. CASE Exit
    BY <1>10 DEF Exit
  <1>11. CASE UNCHANGED checkVars
    BY <1>11 DEF checkVars
  <1> QED
    BY <1>1, <1>2, <1>3, <1>4, <1>5, <1>6, <1>7, <1>8, <1>9, <1>10, <1>11
       DEF CheckNext, CheckStep

LEMMA VisitsHold ==
  CheckSpec => [](CheckTypeOK /\ VisitOK)
  <1>1. CheckTypeOK /\ VisitOK /\ [CheckNext]_checkVars => CheckTypeOK' /\ VisitOK'
    BY StepTypes, StepAccepted, StepHandles, StepTime DEF VisitOK
  <1> QED
    BY <1>1, InitTypes, PTL DEF CheckSpec

\* The check's state and the clients' times keep their types and bounds.
THEOREM ChecksTypeCorrect ==
  CheckSpec => []CheckTypeOK
  BY VisitsHold, PTL

\* The client that the check cuts was idle for the limit, less the time between
\* the two reads (ConnectionCheck.cpp:50-62, ClientManager.h:160-163), unless
\* the build reads the clock first and the client's time was set in between;
\* and another connection loses its socket only if the client visited has left
\* the table and the connection has its SOCKET value.
THEOREM NobodyElseIsCut ==
  CheckSpec => OnlyIdleIsCut
  <1> DEFINE Cut == /\ seen + MaxPause >= Threshold \/ (tickFirst /\ raced)
                    /\ \A c \in Clients \ {cur} :
                         sock'[c] # sock[c] =>
                             c \in SameHandle(cur) /\ cur \notin registered
  <1>1. ASSUME CheckTypeOK, VisitOK, Close
        PROVE  Cut
    <2>1. seen + MaxPause >= Threshold \/ (tickFirst /\ raced)
      BY <1>1 DEF Close, VisitOK, TimeIsKnown
    <2>2. ASSUME NEW c \in Clients \ {cur}, sock'[c] # sock[c]
          PROVE  c \in SameHandle(cur) /\ cur \notin registered
      <3>1. c \in SameHandle(cur) /\ sock[c] = "open"
        BY <1>1, <2>2, ClosingOpens DEF Close
      <3> QED
        BY <1>1, <3>1 DEF VisitOK, HandleIsItsOwn
    <2> QED
      BY <2>1, <2>2
  <1>2. CheckTypeOK /\ VisitOK => [Close => Cut]_checkVars
    BY <1>1
  <1> QED
    BY <1>2, VisitsHold, PTL DEF OnlyIdleIsCut
=============================================================================
