--------------------------- MODULE BlockingQueue ---------------------------
(***************************************************************************)
(* BlockingQueue<T>: a list under a mutex with a condition variable.  Put  *)
(* notifies after it has unlocked; Take waits until there is an element or *)
(* the queue is interrupted; Interrupt sets m_bInterrupt and notifies all  *)
(* without taking the mutex.                                               *)
(***************************************************************************)
EXTENDS Integers, FiniteSets

CONSTANTS
    Producers,  \* threads that call Put
    Consumers,  \* threads that call Take
    MaxPuts,    \* bound: calls of Put
    MaxSpurious \* bound: wake-ups without a notification

Threads == Producers \cup Consumers
Interrupter == "interrupter"
Nobody == "nobody"

ASSUME ConstantsAssumption ==
    /\ IsFiniteSet(Producers) /\ IsFiniteSet(Consumers)
    /\ Producers \cap Consumers = {}
    /\ Interrupter \notin Threads /\ Nobody \notin Threads
    /\ MaxPuts \in Nat /\ MaxSpurious \in Nat

VARIABLES
    size,      \* m_ListQuene: how many elements it has
    interrupt, \* m_bInterrupt
    mutex,     \* the holder of m_Mutex
    waiters,   \* the consumers that wait on m_ConditionVariable
    pc,        \* where each thread is
    puts,      \* calls of Put so far
    spurious,  \* wake-ups without a notification so far
    late       \* history: consumers about to wait when m_bInterrupt was set

vars == <<size, interrupt, mutex, waiters, pc, puts, spurious, late>>

TypeOK ==
    /\ size \in Nat
    /\ interrupt \in BOOLEAN
    /\ mutex \in Threads \cup {Nobody}
    /\ waiters \subseteq Consumers /\ late \subseteq Consumers
    /\ pc \in [Threads \cup {Interrupter} ->
                 {"out", "lock", "push", "unlock", "notify", "test", "wait",
                  "asleep", "pop", "all", "done"}]
    /\ puts \in 0 .. MaxPuts /\ spurious \in 0 .. MaxSpurious
    /\ \A t \in Threads :
          mutex = t <=> pc[t] \in {"push", "unlock", "test", "wait", "pop"}
    /\ \A c \in Consumers : c \in waiters => pc[c] = "asleep"

Init ==
    /\ size = 0
    /\ interrupt = FALSE
    /\ mutex = Nobody
    /\ waiters = {} /\ late = {}
    /\ pc = [t \in Threads \cup {Interrupter} |-> "out"]
    /\ puts = 0 /\ spurious = 0

Goto(t, from, to) == pc[t] = from /\ pc' = [pc EXCEPT ![t] = to]

\* A thread calls Put or Take.
Call(t) ==
    /\ Goto(t, "out", "lock")
    /\ t \in Producers => puts < MaxPuts
    /\ puts' = IF t \in Producers THEN puts + 1 ELSE puts
    /\ UNCHANGED <<size, interrupt, mutex, waiters, spurious, late>>

Lock(t) ==
    /\ Goto(t, "lock", IF t \in Producers THEN "push" ELSE "test")
    /\ mutex = Nobody
    /\ mutex' = t
    /\ UNCHANGED <<size, interrupt, waiters, puts, spurious, late>>

-----------------------------------------------------------------------------
(* Put. *)

Push(p) ==
    /\ Goto(p, "push", "unlock")
    /\ size' = size + 1
    /\ UNCHANGED <<interrupt, mutex, waiters, puts, spurious, late>>

Unlock(p) ==
    /\ Goto(p, "unlock", "notify")
    /\ mutex' = Nobody
    /\ UNCHANGED <<size, interrupt, waiters, puts, spurious, late>>

\* Mutant of NotifyOne: only for the first element.
NotifyFirst(p) ==
    /\ Goto(p, "notify", "out")
    /\ IF size > 1 THEN UNCHANGED waiters
       ELSE \/ waiters = {} /\ UNCHANGED waiters
            \/ \E c \in waiters : waiters' = waiters \ {c}
    /\ UNCHANGED <<size, interrupt, mutex, puts, spurious, late>>

\* notify_one, without the mutex: any waiting consumer, if there is one.
NotifyOne(p) ==
    /\ Goto(p, "notify", "out")
    /\ \/ waiters = {} /\ UNCHANGED waiters
       \/ \E c \in waiters : waiters' = waiters \ {c}
    /\ UNCHANGED <<size, interrupt, mutex, puts, spurious, late>>

-----------------------------------------------------------------------------
(* Take. *)

\* The predicate of wait, under the mutex.
Test(c) ==
    /\ pc[c] = "test"
    /\ pc' = [pc EXCEPT ![c] = IF interrupt \/ size > 0 THEN "pop"
                               ELSE "wait"]
    /\ UNCHANGED <<size, interrupt, mutex, waiters, puts, spurious, late>>

\* The mutex is released and the consumer waits, in one step.
Wait(c) ==
    /\ Goto(c, "wait", "asleep")
    /\ waiters' = waiters \cup {c}
    /\ mutex' = Nobody
    /\ UNCHANGED <<size, interrupt, puts, spurious, late>>

\* Mutant of Wake: after its waking the consumer takes what there is.
WakeTakes(c) ==
    /\ c \notin waiters /\ Goto(c, "asleep", "pop")
    /\ mutex = Nobody /\ mutex' = c
    /\ UNCHANGED <<size, interrupt, waiters, puts, spurious, late>>

\* It was notified, and tests the predicate again under the mutex.
Wake(c) ==
    /\ c \notin waiters /\ Goto(c, "asleep", "test")
    /\ mutex = Nobody /\ mutex' = c
    /\ UNCHANGED <<size, interrupt, waiters, puts, spurious, late>>

\* A condition variable may wake a waiting thread at any time.
Spurious(c) ==
    /\ c \in waiters /\ spurious < MaxSpurious
    /\ waiters' = waiters \ {c}
    /\ spurious' = spurious + 1
    /\ UNCHANGED <<size, interrupt, mutex, pc, puts, late>>

\* An interrupted Take returns a default element, another the first one.
Pop(c) ==
    /\ Goto(c, "pop", IF interrupt THEN "done" ELSE "out")
    /\ size' = IF interrupt THEN size ELSE size - 1
    /\ mutex' = Nobody
    /\ UNCHANGED <<interrupt, waiters, puts, spurious, late>>

-----------------------------------------------------------------------------
(* Interrupt. *)

SetInterrupt ==
    /\ Goto(Interrupter, "out", "all")
    /\ interrupt' = TRUE
    /\ late' = {c \in Consumers : pc[c] = "wait"}
    /\ UNCHANGED <<size, mutex, waiters, puts, spurious>>

\* Mutant of NotifyAll: one is woken.
NotifyAny ==
    /\ Goto(Interrupter, "all", "done")
    /\ \/ waiters = {} /\ UNCHANGED waiters
       \/ \E c \in waiters : waiters' = waiters \ {c}
    /\ UNCHANGED <<size, interrupt, mutex, puts, spurious, late>>

NotifyAll ==
    /\ Goto(Interrupter, "all", "done")
    /\ waiters' = {}
    /\ UNCHANGED <<size, interrupt, mutex, puts, spurious, late>>

PutStep(p)  == Lock(p) \/ Push(p) \/ Unlock(p) \/ NotifyOne(p)
TakeStep(c) == Lock(c) \/ Test(c) \/ Wait(c) \/ Wake(c) \/ Pop(c)

Next ==
    \/ \E t \in Threads : Call(t)
    \/ \E p \in Producers : PutStep(p)
    \/ \E c \in Consumers : TakeStep(c) \/ Spurious(c)
    \/ SetInterrupt
    \/ NotifyAll

Spec == Init /\ [][Next]_vars

\* A thread in a call goes on (a mutex asked for again and again is given in
\* the end); calls and interruptions come as they like.
FairSpec == /\ Spec
            /\ \A p \in Producers : SF_vars(PutStep(p))
            /\ \A c \in Consumers : SF_vars(TakeStep(c))
            /\ WF_vars(NotifyAll)

-----------------------------------------------------------------------------
(* Properties. *)

\* No wake-up is lost: while elements and waiting consumers are there, each
\* of the elements has a Put still to notify or a consumer already awake.
NoLostWakeup ==
    (waiters # {} /\ ~interrupt) =>
        size <= Cardinality({p \in Producers : pc[p] \in {"unlock", "notify"}})
                      + Cardinality({c \in Consumers \ waiters : pc[c] # "out"})

\* front() and pop_front() find an element, however many consumers were woken
\* or woke by themselves.
NeverPopsEmpty ==
    \A c \in Consumers : (pc[c] = "pop" /\ ~interrupt) => size > 0

\* After Interrupt only a consumer that had tested m_bInterrupt before it was
\* set, and had not begun to wait, can go on waiting: its wake-up is lost.
InterruptWakes == pc[Interrupter] = "done" => waiters \subseteq late

\* A waiting consumer does not stay so while there are elements.
ElementIsTaken ==
    \A c \in Consumers :
        (c \in waiters /\ size > 0) ~> (c \notin waiters \/ size = 0)
=============================================================================
