-------------------------- MODULE ConnectionCheck --------------------------
(***************************************************************************)
(* CConnectionCheck: a thread that visits the registered clients now and   *)
(* then and closes the sockets of those that neither sent nor received for *)
(* long, while the IO threads note each operation (UpdateTime), remove     *)
(* clients and accept new ones.                                            *)
(*                                                                         *)
(* GetTickCount64() - m_dwLastTime reads the clock and the client's time   *)
(* in an order that C++ leaves to the compiler: a build has one of the two *)
(* (tickFirst).  Time is kept relative to now: how long ago each was read  *)
(* or set.  A client closed by the check stays registered until its        *)
(* cancelled read comes back.                                              *)
(***************************************************************************)
EXTENDS Integers, FiniteSets

CONSTANTS
    Clients,     \* the connections, each with a CClientContext
    HandleOf,    \* their SOCKET values; a value is reissued after its closing
    Second,      \* ticks in a second
    Limit,       \* CONNECT_NOREQUEST_EXPIRED_TIME
    Waits,       \* sleeps of 500 ms between two visits
    TickSize,    \* 2^w: ticks are unsigned
    MaxPause     \* bound: ticks between the two reads

Threshold == (Limit + 1) * Second   \* ticks after which a client is expired
Cap == Threshold + MaxPause   \* longer times are told apart no more

ASSUME CheckAssumption ==
    /\ Second \in Nat \ {0} /\ Limit \in Nat /\ Waits \in Nat
    /\ MaxPause \in Nat
    /\ TickSize \in Nat /\ TickSize > 2 * Cap

VARIABLES
    sock,       \* each connection's socket
    registered, \* the clients in the table
    age,        \* ticks since m_dwLastTime, for each client
    running,    \* m_bRunning
    pc,         \* where the check's thread is
    waits,      \* nWaitCount
    slept,      \* its Sleep is over
    todo,       \* clients not yet visited
    cur,        \* the client visited, or None
    tickAge,    \* ticks since its first read of the two
    lastRead,   \* m_dwLastTime as read, likewise relative to that time
    tickFirst,  \* the clock is read before m_dwLastTime; fixed by the build
    seen,       \* history: the age the client visited had when it was read
    raced       \* history: its time was set between the two reads

None == "none"

clientVars == <<sock, registered, age>>
visitVars  == <<cur, tickAge, lastRead, seen, raced>>
loopVars   == <<running, pc, waits, slept, todo>>
checkVars  == <<clientVars, loopVars, visitVars, tickFirst>>

CheckTypeOK ==
    /\ sock \in [Clients -> {"new", "open", "closed"}]
    /\ registered \subseteq Clients
    /\ age \in [Clients -> 0 .. Cap]
    /\ running \in BOOLEAN
    /\ pc \in {"Loop", "Visit", "Read", "Test", "Close", "Done"}
    /\ waits \in 0 .. Waits /\ slept \in BOOLEAN
    /\ todo \subseteq Clients /\ cur \in Clients \cup {None}
    /\ tickAge \in 0 .. MaxPause
    /\ lastRead \in 0 .. Cap /\ seen \in 0 .. Cap
    /\ tickFirst \in BOOLEAN /\ raced \in BOOLEAN

CheckInit ==
    /\ sock = [c \in Clients |-> "new"]
    /\ registered = {}
    /\ age = [c \in Clients |-> 0]
    /\ running = TRUE
    /\ pc = "Loop" /\ waits = 0 /\ slept = TRUE
    /\ todo = {} /\ cur = None
    /\ tickAge = 0 /\ lastRead = 0 /\ seen = 0
    /\ tickFirst \in BOOLEAN /\ raced = FALSE

-----------------------------------------------------------------------------
(* Time, the clients and the other threads. *)

Older(n) == IF n < Cap THEN n + 1 ELSE n

Tick ==
    /\ pc = "Test" => tickAge < MaxPause
    /\ age' = [c \in Clients |-> Older(age[c])]
    /\ tickAge' = IF pc = "Test" THEN tickAge + 1 ELSE tickAge
    /\ slept' = TRUE
    /\ UNCHANGED <<sock, registered, running, pc, waits, todo, cur, lastRead,
                   seen, raced, tickFirst>>

SameHandle(c) == {d \in Clients : HandleOf[d] = HandleOf[c]}

\* A connection is accepted: its SOCKET value is no open one.  AddClient
\* refuses it, and it is closed, if a client is still registered with that
\* value.
ConnectClient(c) ==
    /\ sock[c] = "new"
    /\ \A d \in SameHandle(c) : sock[d] # "open"
    /\ \/ /\ SameHandle(c) \cap registered = {}
          /\ sock' = [sock EXCEPT ![c] = "open"]
          /\ registered' = registered \cup {c}
       \/ /\ SameHandle(c) \cap registered # {}
          /\ sock' = [sock EXCEPT ![c] = "closed"]
          /\ UNCHANGED registered
    /\ age' = [age EXCEPT ![c] = 0]
    /\ UNCHANGED <<loopVars, visitVars, tickFirst>>

\* UpdateTime, by ProcessIOMessage on each operation.
UpdateTime(c) ==
    /\ c \in registered /\ sock[c] = "open"
    /\ age' = [age EXCEPT ![c] = 0]
    /\ raced' = (raced \/ (pc = "Test" /\ c = cur))
    /\ UNCHANGED <<sock, registered, loopVars, cur, tickAge, lastRead, seen,
                   tickFirst>>

\* closesocket(handle): whoever has the SOCKET value now is closed.
Closed(c) == [d \in Clients |->
                IF d \in SameHandle(c) /\ sock[d] = "open"
                THEN "closed" ELSE sock[d]]

\* RemoveClient by a thread of the IO pool: the peer went away, or the read
\* that the check's closing has cancelled came back.
RemoveClient(c) ==
    /\ c \in registered
    /\ registered' = registered \ {c}
    /\ sock' = Closed(c)
    /\ UNCHANGED <<age, loopVars, visitVars, tickFirst>>

-----------------------------------------------------------------------------
(* The check's thread. *)

\* The head of the loop in Run.
Loop ==
    /\ pc = "Loop" /\ slept
    /\ \/ /\ ~running
          /\ pc' = "Done"
          /\ UNCHANGED <<waits, slept, todo>>
       \/ /\ running /\ waits < Waits
          /\ waits' = waits + 1 /\ slept' = FALSE
          /\ UNCHANGED <<pc, todo>>
       \/ /\ running /\ waits = Waits
          /\ waits' = 0 /\ todo' = registered /\ pc' = "Visit"
          /\ UNCHANGED slept
    /\ UNCHANGED <<clientVars, running, visitVars, tickFirst>>

\* Mutant of Visit: the visit ends with the first client.
VisitOne ==
    /\ pc = "Visit"
    /\ \/ \E c \in todo : cur' = c /\ pc' = "Read" /\ todo' = {}
       \/ /\ todo = {}
          /\ pc' = "Loop"
          /\ UNCHANGED <<todo, cur>>
    /\ seen' = 0 /\ raced' = FALSE
    /\ UNCHANGED <<clientVars, running, waits, slept, tickAge, lastRead,
                   tickFirst>>

\* VistorNode hands out one client after the other; one that left the table
\* meanwhile may or may not be met.
Visit ==
    /\ pc = "Visit"
    /\ \/ \E c \in todo :
            /\ todo' = todo \ {c}
            /\ \/ cur' = c /\ pc' = "Read"
               \/ c \notin registered /\ UNCHANGED <<cur, pc>>
       \/ /\ todo = {}
          /\ pc' = "Loop" /\ cur' = None
          /\ UNCHANGED todo
    /\ seen' = 0 /\ raced' = FALSE
    /\ UNCHANGED <<clientVars, running, waits, slept, tickAge, lastRead,
                   tickFirst>>

\* IsExpired, its first read: the clock, or m_dwLastTime.
Read ==
    /\ pc = "Read"
    /\ tickAge' = 0
    /\ lastRead' = IF tickFirst THEN 0 ELSE age[cur]
    /\ seen' = age[cur] /\ raced' = FALSE
    /\ pc' = "Test"
    /\ UNCHANGED <<clientVars, running, waits, slept, todo, cur, tickFirst>>

\* Its second read, and the difference: unsigned.
Elapsed == (IF tickFirst THEN age[cur] - tickAge ELSE lastRead + tickAge)
           % TickSize

\* Mutant of IsExpired: the limit itself is enough.
IsExpiredSoon == Elapsed \div Second >= Limit

IsExpired == Elapsed \div Second > Limit

Test ==
    /\ pc = "Test"
    /\ seen' = IF age[cur] > seen THEN age[cur] ELSE seen
    /\ pc' = IF IsExpired THEN "Close" ELSE "Visit"
    /\ tickAge' = 0 /\ lastRead' = 0
    /\ UNCHANGED <<clientVars, running, waits, slept, todo, cur, raced,
                   tickFirst>>

\* DisconnectClientContext closes the client's SOCKET value, whoever has it;
\* the client stays in the table.
Close ==
    /\ pc = "Close"
    /\ sock' = Closed(cur)
    /\ pc' = "Visit"
    /\ UNCHANGED <<registered, age, running, waits, slept, todo, visitVars,
                   tickFirst>>

\* Exit, by the server's owner.
Exit ==
    /\ running
    /\ running' = FALSE
    /\ UNCHANGED <<clientVars, pc, waits, slept, todo, visitVars, tickFirst>>

CheckStep == Loop \/ Visit \/ Read \/ Test \/ Close

CheckNext ==
    \/ Tick
    \/ \E c \in Clients : ConnectClient(c) \/ UpdateTime(c) \/ RemoveClient(c)
    \/ CheckStep
    \/ Exit

CheckSpec == CheckInit /\ [][CheckNext]_checkVars

\* Time passes and the check's thread runs.
FairCheckSpec == CheckSpec /\ WF_checkVars(Tick) /\ WF_checkVars(CheckStep)

-----------------------------------------------------------------------------
(* Properties. *)

\* The client that the check cuts was idle for the whole limit, less the time
\* between the two reads; in a build that reads the clock first it may also be
\* one whose time was set between them.  Another connection loses its socket
\* only if it has the SOCKET value of a client that left the table while it
\* was visited.
OnlyIdleIsCut ==
    [][Close =>
         /\ seen + MaxPause >= Threshold \/ (tickFirst /\ raced)
         /\ \A c \in Clients \ {cur} :
              sock'[c] # sock[c] => c \in SameHandle(cur) /\ cur \notin registered
      ]_checkVars

\* A client that stays idle is cut as long as the check runs.
IdleIsCut ==
    \A c \in Clients :
        (sock[c] = "open" /\ age[c] = Cap) ~>
            (sock[c] = "closed" \/ age[c] < Cap \/ ~running)

=============================================================================
