------------------------- MODULE BlockingQueueProofs -------------------------
(***************************************************************************)
(* BlockingQueue for any number of producers and consumers: nothing is     *)
(* popped from an empty list, no wake-up of a Put is lost, and an          *)
(* interruption misses only those about to wait.                           *)
(***************************************************************************)
EXTENDS BlockingQueue, FiniteSetTheorems, TLAPS

Places == {"out", "lock", "push", "unlock", "notify", "test", "wait",
           "asleep", "pop", "all", "done"}
Held == {"push", "unlock", "test", "wait", "pop"}

\* Types, and which thread holds the mutex: a part of TypeOK.
MutexOK ==
    /\ size \in Int
    /\ interrupt \in BOOLEAN
    /\ mutex \in Threads \cup {Nobody}
    /\ waiters \subseteq Consumers
    /\ pc \in [Threads \cup {Interrupter} -> Places]
    /\ \A t \in Threads : mutex = t <=> pc[t] \in Held
    /\ \A c \in Consumers : c \in waiters => pc[c] = "asleep"
    /\ \A p \in Producers : pc[p] \in {"out", "lock", "push", "unlock", "notify"}

\* What the holder of the mutex knows of the list.
SizeOK ==
    /\ size >= 0
    /\ ~interrupt => \A c \in Consumers : /\ pc[c] = "pop"  => size > 0
                                          /\ pc[c] = "wait" => size = 0
                                          /\ pc[c] # "done"

\* Who was about to wait when the interruption came.
LateOK ==
    /\ pc[Interrupter] = "out" <=> ~interrupt
    /\ interrupt => \A c \in Consumers : pc[c] = "wait" => c \in late
    /\ pc[Interrupter] = "done" => waiters \subseteq late

LEMMA InitMutex ==
  ASSUME Init
  PROVE  MutexOK /\ SizeOK /\ LateOK
  <1>1. \A t \in Threads \cup {Interrupter} : pc[t] = "out"
    BY DEF Init
  <1>2. MutexOK
    <2>1. pc \in [Threads \cup {Interrupter} -> Places]
      BY DEF Init, Places
    <2>2. \A t \in Threads : mutex # t /\ pc[t] \notin Held
      BY <1>1, ConstantsAssumption DEF Init, Held
    <2>3. \A t \in Threads : mutex = t <=> pc[t] \in Held
      BY <2>2
    <2>4. interrupt \in BOOLEAN /\ mutex = Nobody /\ waiters = {}
      BY DEF Init
    <2>5. size \in Int
      BY DEF Init
    <2>6. \A p \in Producers : pc[p] = "out"
      BY <1>1 DEF Threads
    <2> QED
      BY <2>1, <2>3, <2>4, <2>5, <2>6 DEF MutexOK
  <1>3. SizeOK
    BY <1>1 DEF Init, SizeOK, Threads
  <1>4. LateOK
    BY <1>1 DEF Init, LateOK, Threads
  <1> QED
    BY <1>2, <1>3, <1>4

LEMMA StepMutex ==
  ASSUME MutexOK, [Next]_vars
  PROVE  MutexOK'
  <1> USE ConstantsAssumption DEF MutexOK, Held, Places, Threads
  <1>1. ASSUME NEW t \in Threads, Call(t) PROVE MutexOK'
    BY <1>1 DEF Call, Goto
  <1>2. ASSUME NEW p \in Producers, PutStep(p) PROVE MutexOK'
    <2>1. CASE Lock(p)
      BY <2>1 DEF Lock, Goto
    <2>2. CASE Push(p)
      BY <2>2 DEF Push, Goto
    <2>3. CASE Unlock(p)
      BY <2>3 DEF Unlock, Goto
    <2>4. CASE NotifyOne(p)
      BY <2>4 DEF NotifyOne, Goto
    <2> QED
      BY <1>2, <2>1, <2>2, <2>3, <2>4 DEF PutStep
  <1>3. ASSUME NEW c \in Consumers, TakeStep(c) \/ Spurious(c) PROVE MutexOK'
    <2>1. CASE Lock(c)
      BY <2>1 DEF Lock, Goto
    <2>2. CASE Test(c)
      BY <2>2 DEF Test
    <2>3. CASE Wait(c)
      BY <2>3 DEF Wait, Goto
    <2>4. CASE Wake(c)
      BY <2>4 DEF Wake, Goto
    <2>5. CASE Pop(c)
      BY <2>5 DEF Pop, Goto
    <2>6. CASE Spurious(c)
      BY <2>6 DEF Spurious
    <2> QED
      BY <1>3, <2>1, <2>2, <2>3, <2>4, <2>5, <2>6 DEF TakeStep
  <1>4. CASE SetInterrupt
    BY <1>4 DEF SetInterrupt, Goto
  <1>5. CASE NotifyAll
    BY <1>5 DEF NotifyAll, Goto
  <1>6. CASE UNCHANGED vars
    BY <1>6 DEF vars
  <1> QED
    BY <1>1, <1>2, <1>3, <1>4, <1>5, <1>6 DEF Next

LEMMA StepSize ==
  ASSUME MutexOK, SizeOK, [Next]_vars
  PROVE  SizeOK'
  <1> USE ConstantsAssumption DEF MutexOK, SizeOK, Held, Threads
  <1>1. ASSUME NEW t \in Threads, Call(t) PROVE SizeOK'
    BY <1>1 DEF Call, Goto
  <1>2. ASSUME NEW p \in Producers, PutStep(p) PROVE SizeOK'
    <2>1. CASE Lock(p)
      BY <2>1 DEF Lock, Goto
    <2>2. CASE Push(p)
      BY <2>2 DEF Push, Goto
    <2>3. CASE Unlock(p)
      BY <2>3 DEF Unlock, Goto
    <2>4. CASE NotifyOne(p)
      BY <2>4 DEF NotifyOne, Goto
    <2> QED
      BY <1>2, <2>1, <2>2, <2>3, <2>4 DEF PutStep
  <1>3. ASSUME NEW c \in Consumers, TakeStep(c) \/ Spurious(c) PROVE SizeOK'
    <2>1. CASE Lock(c)
      BY <2>1 DEF Lock, Goto
    <2>2. CASE Test(c)
      BY <2>2 DEF Test
    <2>3. CASE Wait(c)
      BY <2>3 DEF Wait, Goto
    <2>4. CASE Wake(c)
      BY <2>4 DEF Wake, Goto
    <2>5. CASE Pop(c)
      BY <2>5 DEF Pop, Goto
    <2>6. CASE Spurious(c)
      BY <2>6 DEF Spurious
    <2> QED
      BY <1>3, <2>1, <2>2, <2>3, <2>4, <2>5, <2>6 DEF TakeStep
  <1>4. CASE SetInterrupt
    BY <1>4 DEF SetInterrupt, Goto
  <1>5. CASE NotifyAll
    BY <1>5 DEF NotifyAll, Goto
  <1>6. CASE UNCHANGED vars
    BY <1>6 DEF vars
  <1> QED
    BY <1>1, <1>2, <1>3, <1>4, <1>5, <1>6 DEF Next

LEMMA StepLate ==
  ASSUME MutexOK, LateOK, [Next]_vars
  PROVE  LateOK'
  <1> USE ConstantsAssumption DEF MutexOK, LateOK, Threads
  <1>1. ASSUME NEW t \in Threads, Call(t) PROVE LateOK'
    BY <1>1 DEF Call, Goto
  <1>2. ASSUME NEW p \in Producers, PutStep(p) PROVE LateOK'
    BY <1>2 DEF PutStep, Lock, Push, Unlock, NotifyOne, Goto
  <1>3. ASSUME NEW c \in Consumers, TakeStep(c) \/ Spurious(c) PROVE LateOK'
    <2>1. CASE Lock(c) \/ Wake(c) \/ Pop(c) \/ Spurious(c)
      BY <2>1 DEF Lock, Wake, Pop, Spurious, Goto
    <2>2. CASE Test(c)
      BY <2>2 DEF Test
    <2>3. CASE Wait(c)
      BY <2>3 DEF Wait, Goto
    <2> QED
      BY <1>3, <2>1, <2>2, <2>3 DEF TakeStep
  <1>4. CASE SetInterrupt
    BY <1>4 DEF SetInterrupt, Goto
  <1>5. CASE NotifyAll
    BY <1>5 DEF NotifyAll, Goto
  <1>6. CASE UNCHANGED vars
    BY <1>6 DEF vars
  <1> QED
    BY <1>1, <1>2, <1>3, <1>4, <1>5, <1>6 DEF Next

Base == MutexOK /\ SizeOK /\ LateOK

LEMMA BaseHolds == Spec => []Base
  <1>1. Init => Base
    BY InitMutex DEF Base
  <1>2. Base /\ [Next]_vars => Base'
    BY StepMutex, StepSize, StepLate DEF Base
  <1> QED
    BY <1>1, <1>2, PTL DEF Spec

\* The bounds that belong to TypeOK and to none of the above.
BoundsOK ==
    /\ late \subseteq Consumers
    /\ puts \in 0 .. MaxPuts /\ spurious \in 0 .. MaxSpurious

LEMMA StepBounds ==
  ASSUME BoundsOK, [Next]_vars
  PROVE  BoundsOK'
  <1> USE ConstantsAssumption DEF BoundsOK
  <1>1. ASSUME NEW t \in Threads, Call(t) PROVE BoundsOK'
    BY <1>1 DEF Call
  <1>2. ASSUME NEW p \in Producers, PutStep(p) PROVE BoundsOK'
    BY <1>2 DEF PutStep, Lock, Push, Unlock, NotifyOne
  <1>3. ASSUME NEW c \in Consumers, TakeStep(c) PROVE BoundsOK'
    BY <1>3 DEF TakeStep, Lock, Test, Wait, Wake, Pop
  <1>4. ASSUME NEW c \in Consumers, Spurious(c) PROVE BoundsOK'
    BY <1>4 DEF Spurious
  <1>5. CASE SetInterrupt
    BY <1>5 DEF SetInterrupt
  <1>6. CASE NotifyAll \/ UNCHANGED vars
    BY <1>6 DEF NotifyAll, vars
  <1> QED
    BY <1>1, <1>2, <1>3, <1>4, <1>5, <1>6 DEF Next

\* The queue's state keeps its types: the mutex has the holder its threads'
\* places tell, and who waits is asleep (BlockQueue.h:46-71).
THEOREM TypeCorrect == Spec => []TypeOK
  <1>1. Init => BoundsOK
    BY ConstantsAssumption DEF Init, BoundsOK
  <1>2. BoundsOK /\ [Next]_vars => BoundsOK'
    BY StepBounds
  <1>3. Base /\ BoundsOK => TypeOK
    BY DEF Base, MutexOK, SizeOK, BoundsOK, TypeOK, Places, Held
  <1> QED
    BY <1>1, <1>2, <1>3, BaseHolds, PTL DEF Spec

\* A consumer that is to pop finds an element, unless it was interrupted
\* (BlockQueue.h:59-67).
THEOREM PopsAnElement == Spec => []NeverPopsEmpty
  <1>1. Base => NeverPopsEmpty
    BY DEF Base, SizeOK, NeverPopsEmpty
  <1> QED
    BY <1>1, BaseHolds, PTL

\* After Interrupt nobody waits but those that were about to (BlockQueue.h:75).
THEOREM InterruptReaches == Spec => []InterruptWakes
  <1>1. Base => InterruptWakes
    BY DEF Base, LateOK, InterruptWakes
  <1> QED
    BY <1>1, BaseHolds, PTL

-----------------------------------------------------------------------------
(* No wake-up is lost. *)

Putting == {p \in Producers : pc[p] \in {"unlock", "notify"}}
Awake   == {c \in Consumers \ waiters : pc[c] # "out"}
Enough  == size <= Cardinality(Putting) + Cardinality(Awake)
WakeOK  == (waiters # {} /\ ~interrupt) => Enough

LEMMA Finite ==
  ASSUME MutexOK
  PROVE  /\ IsFiniteSet(Putting) /\ IsFiniteSet(Awake)
         /\ IsFiniteSet(Putting') /\ IsFiniteSet(Awake')
         /\ Cardinality(Putting) \in Nat /\ Cardinality(Awake) \in Nat
         /\ Cardinality(Putting') \in Nat /\ Cardinality(Awake') \in Nat
  <1>1. /\ Putting \subseteq Producers /\ Awake \subseteq Consumers
        /\ Putting' \subseteq Producers /\ Awake' \subseteq Consumers
    BY DEF Putting, Awake
  <1>2. /\ IsFiniteSet(Putting) /\ IsFiniteSet(Awake)
        /\ IsFiniteSet(Putting') /\ IsFiniteSet(Awake')
    BY <1>1, FS_Subset, ConstantsAssumption
  <1> QED
    BY <1>2, FS_CardinalityType

\* A step that takes nobody out of either set and adds no element.
LEMMA MoreIsEnough ==
  ASSUME MutexOK, Enough, size' = size,
         Putting \subseteq Putting', Awake \subseteq Awake'
  PROVE  Enough'
  <1>1. /\ Cardinality(Putting) <= Cardinality(Putting')
        /\ Cardinality(Awake) <= Cardinality(Awake')
    BY Finite, FS_Subset
  <1> QED
    BY <1>1, Finite DEF Enough, MutexOK

LEMMA EmptyIsEnough ==
  ASSUME MutexOK, size' = 0
  PROVE  Enough'
  BY Finite DEF Enough

LEMMA PushEnough ==
  ASSUME MutexOK, Enough, NEW p \in Producers, Push(p)
  PROVE  Enough'
  <1>1. p \notin Putting /\ Putting' = Putting \cup {p}
    BY DEF Push, Goto, Putting, MutexOK, Threads
  <1>2. Awake' = Awake
    BY ConstantsAssumption DEF Push, Goto, Awake, MutexOK, Threads
  <1>3. Cardinality(Putting') = Cardinality(Putting) + 1
    BY <1>1, Finite, FS_AddElement
  <1> QED
    BY <1>2, <1>3, Finite DEF Enough, Push, MutexOK

LEMMA NotifyEnough ==
  ASSUME MutexOK, Enough, waiters # {}, NEW p \in Producers, NotifyOne(p)
  PROVE  Enough'
  <1>1. p \in Putting /\ Putting' = Putting \ {p}
    BY DEF NotifyOne, Goto, Putting, MutexOK, Threads
  <1>2. PICK c \in waiters : waiters' = waiters \ {c}
    BY DEF NotifyOne
  <1>3. c \in Consumers /\ pc[c] = "asleep" /\ pc'[c] = "asleep"
    BY <1>2, ConstantsAssumption DEF NotifyOne, Goto, MutexOK, Threads
  <1>4. \A d \in Consumers : pc'[d] = pc[d]
    BY ConstantsAssumption DEF NotifyOne, Goto, MutexOK, Threads
  <1>5. c \notin Awake /\ Awake' = Awake \cup {c}
    BY <1>2, <1>3, <1>4 DEF Awake, MutexOK
  <1>6. Cardinality(Awake') = Cardinality(Awake) + 1
    BY <1>5, Finite, FS_AddElement
  <1>7. Cardinality(Putting') = Cardinality(Putting) - 1
    BY <1>1, Finite, FS_RemoveElement
  <1> QED
    BY <1>6, <1>7, Finite DEF Enough, NotifyOne, MutexOK

LEMMA PopEnough ==
  ASSUME MutexOK, Enough, ~interrupt, NEW c \in Consumers, Pop(c)
  PROVE  Enough'
  <1>1. pc[c] = "pop" /\ pc' = [pc EXCEPT ![c] = "out"] /\ size' = size - 1
    BY DEF Pop, Goto
  <1>2. c \in Awake /\ Awake' = Awake \ {c}
    BY <1>1 DEF Pop, Awake, MutexOK, Threads
  <1>3. Putting' = Putting
    BY <1>1, ConstantsAssumption DEF Putting, MutexOK, Threads
  <1>4. Cardinality(Awake') = Cardinality(Awake) - 1
    BY <1>2, Finite, FS_RemoveElement
  <1> QED
    BY <1>1, <1>3, <1>4, Finite DEF Enough, MutexOK

LEMMA StepWake ==
  ASSUME Base, WakeOK, [Next]_vars
  PROVE  WakeOK'
  <1> SUFFICES ASSUME waiters' # {}, ~interrupt' PROVE Enough'
    BY DEF WakeOK
  <1> USE ConstantsAssumption
  <1>0. MutexOK /\ SizeOK
    BY DEF Base
  <1>1. ASSUME NEW t \in Threads, Call(t) PROVE Enough'
    <2>1. Enough /\ size' = size
      BY <1>1 DEF Call, WakeOK
    <2>2. Putting \subseteq Putting' /\ Awake \subseteq Awake'
      BY <1>0, <1>1 DEF Call, Goto, Putting, Awake, MutexOK, Threads
    <2> QED
      BY <1>0, <2>1, <2>2, MoreIsEnough
  <1>2. ASSUME NEW p \in Producers, PutStep(p) PROVE Enough'
    <2>1. interrupt' = interrupt /\ waiters' \subseteq waiters
      BY <1>2 DEF PutStep, Lock, Push, Unlock, NotifyOne
    <2>2. waiters # {} /\ Enough
      BY <2>1 DEF WakeOK
    <2>3. CASE Lock(p) \/ Unlock(p)
      <3>1. size' = size
        BY <2>3 DEF Lock, Unlock
      <3>2. Putting \subseteq Putting' /\ Awake \subseteq Awake'
        BY <1>0, <2>3 DEF Lock, Unlock, Goto, Putting, Awake, MutexOK, Threads
      <3> QED
        BY <1>0, <2>2, <3>1, <3>2, MoreIsEnough
    <2> QED
      BY <1>0, <1>2, <2>2, <2>3, PushEnough, NotifyEnough DEF PutStep
  <1>3. ASSUME NEW c \in Consumers, TakeStep(c) \/ Spurious(c) PROVE Enough'
    <2>1. interrupt' = interrupt
      BY <1>3 DEF TakeStep, Lock, Test, Wait, Wake, Pop, Spurious
    <2>2. CASE Wait(c)
      <3>1. size' = 0
        BY <1>0, <2>1, <2>2 DEF Wait, Goto, SizeOK
      <3> QED
        BY <1>0, <3>1, EmptyIsEnough
    <2>3. CASE Lock(c) \/ Test(c) \/ Wake(c) \/ Spurious(c)
      <3>1. size' = size /\ waiters' \subseteq waiters
        BY <2>3 DEF Lock, Test, Wake, Spurious
      <3>2. Enough
        BY <2>1, <3>1 DEF WakeOK
      <3>3. Putting \subseteq Putting' /\ Awake \subseteq Awake'
        BY <1>0, <2>3 DEF Lock, Test, Wake, Spurious, Goto, Putting, Awake,
                          MutexOK, Threads
      <3> QED
        BY <1>0, <3>1, <3>2, <3>3, MoreIsEnough
    <2>4. CASE Pop(c)
      <3>1. Enough
        BY <2>1, <2>4 DEF Pop, WakeOK
      <3> QED
        BY <1>0, <2>1, <2>4, <3>1, PopEnough
    <2> QED
      BY <1>3, <2>2, <2>3, <2>4 DEF TakeStep
  <1>4. ~ SetInterrupt /\ ~ NotifyAll
    BY DEF SetInterrupt, NotifyAll
  <1>5. CASE UNCHANGED vars
    BY <1>5 DEF vars, WakeOK, Enough, Putting, Awake
  <1> QED
    BY <1>1, <1>2, <1>3, <1>4, <1>5 DEF Next

\* Put notifies after it has unlocked, and any consumer may have the element
\* by then; still each element has a Put about to notify or a consumer awake
\* as long as somebody waits (BlockQueue.h:47-53).
THEOREM WakeupsSuffice == Spec => []NoLostWakeup
  <1>1. Init => WakeOK
    BY DEF Init, WakeOK
  <1>2. Base /\ WakeOK /\ [Next]_vars => WakeOK'
    BY StepWake
  <1>3. WakeOK => NoLostWakeup
    BY DEF WakeOK, NoLostWakeup, Enough, Putting, Awake
  <1> QED
    BY <1>1, <1>2, <1>3, BaseHolds, PTL DEF Spec
=============================================================================
