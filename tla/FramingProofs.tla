---------------------------- MODULE FramingProofs ----------------------------
(***************************************************************************)
(* Theorems of Framing, for all streams of frames, however long, all sizes *)
(* and any number of executors, and of IOPack, the packs the frames are    *)
(* read with, for all sizes and values.                                    *)
(***************************************************************************)
EXTENDS Framing, IOPack, SequenceTheorems, WellFoundedInduction, TLAPS

-----------------------------------------------------------------------------
(* Induction over the frames of a stream.  The library's induction rules   *)
(* take a predicate; these take a set.                                     *)

\* A set of naturals that is not empty has a least element.
LEMMA LeastNatural ==
  ASSUME NEW T \in SUBSET Nat, T # {}
  PROVE  \E n \in T : \A m \in T : n <= m
  <1> DEFINE R == {ss \in Nat \X Nat : ss[1] < ss[2]}
  <1>1. R = OpToRel(<, Nat)
    BY DEF OpToRel
  <1>2. IsWellFoundedOn(R, Nat)
    BY <1>1, NatLessThanWellFounded
  <1>3. \A a, b \in Nat : a < b => <<a, b>> \in R
    OBVIOUS
  <1> HIDE DEF R
  <1>4. PICK x \in T : \A y \in T : ~ (<<y, x>> \in R)
    BY <1>2, WFMin
  <1>5. \A y \in T : ~ (y < x) /\ y \in Nat /\ x \in Nat
    BY <1>3, <1>4
  <1> QED BY <1>5

LEMMA NaturalsBySet ==
  ASSUME NEW S, 0 \in S, \A n \in Nat : n \in S => n + 1 \in S
  PROVE  \A n \in Nat : n \in S
  <1> DEFINE T == {n \in Nat : n \notin S}
  <1> SUFFICES ASSUME T # {} PROVE FALSE
    OBVIOUS
  <1>1. PICK x \in T : \A m \in T : x <= m
    BY LeastNatural
  <1>2. x # 0 /\ x \in Nat
    OBVIOUS
  <1>3. x - 1 \in Nat /\ x - 1 < x /\ x = (x - 1) + 1
    BY <1>2
  <1>4. x - 1 \in S
    BY <1>1, <1>3
  <1> QED BY <1>1, <1>3, <1>4

\* What a frame of a stream is.
LEMMA Frames ==
  ASSUME NEW s \in Streams, NEW i \in 1 .. Len(s)
  PROVE  /\ s \in Seq(Frame) /\ Len(s) \in Nat
         /\ s[i].at \in Nat /\ s[i].body \in Nat
         /\ Size(s[i]) = HeaderSize + s[i].body
         /\ Size(s[i]) \in Nat /\ Size(s[i]) > 0
  <1>1. s \in Seq(Frame) /\ HeaderSize \in Nat \ {0}
    BY ConstantsAssumption
  <1>2. s[i] \in Frame
    BY <1>1
  <1>3. s[i].at \in Nat /\ s[i].body \in Nat
    BY <1>2 DEF Frame
  <1> QED BY <1>1, <1>3 DEF Size

\* No frame begins before one in front of it has ended.
LEMMA InOrder ==
  ASSUME NEW s \in Streams, NEW i \in 1 .. Len(s), NEW j \in 1 .. Len(s), i < j
  PROVE  s[i].at + Size(s[i]) <= s[j].at
  <1> DEFINE S == {n \in Nat : n \in 1 .. Len(s) =>
                     \A k \in 1 .. Len(s) : k < n =>
                        s[k].at + Size(s[k]) <= s[n].at}
  <1>1. Len(s) \in Nat
    BY ConstantsAssumption
  <1>2. 0 \in S
    OBVIOUS
  <1>3. ASSUME NEW n \in Nat, n \in S PROVE n + 1 \in S
    <2> SUFFICES ASSUME n + 1 \in 1 .. Len(s), NEW k \in 1 .. Len(s), k < n + 1
                 PROVE  s[k].at + Size(s[k]) <= s[n + 1].at
      OBVIOUS
    <2>1. n \in 1 .. Len(s) /\ n + 1 # 1 /\ (n + 1) - 1 = n
      BY <1>1
    <2>2. s[n + 1].at = s[n].at + Size(s[n])
      BY <2>1, ConstantsAssumption
    <2>3. CASE k = n
      BY <2>1, <2>2, <2>3, Frames
    <2>4. CASE k # n
      <3>1. s[k].at + Size(s[k]) <= s[n].at
        BY <1>1, <1>3, <2>1, <2>4
      <3>2. /\ s[k].at \in Nat /\ Size(s[k]) \in Nat
            /\ s[n].at \in Nat /\ Size(s[n]) \in Nat
        BY <2>1, Frames
      <3> DEFINE a == s[k].at
                 b == s[n].at
                 d == s[n + 1].at
                 x == Size(s[k])
                 y == Size(s[n])
      <3>3. /\ a \in Nat /\ x \in Nat /\ b \in Nat /\ y \in Nat
            /\ a + x <= b /\ d = b + y
        BY <2>2, <3>1, <3>2
      <3> HIDE DEF a, b, d, x, y
      <3>4. a + x <= d
        BY ONLY <3>3
      <3> QED BY <3>4 DEF a, d, x
    <2> QED BY <2>3, <2>4
  <1> HIDE DEF S
  <1>4. \A n \in Nat : n \in S
    BY <1>2, <1>3, NaturalsBySet
  <1> QED BY <1>1, <1>4 DEF S

-----------------------------------------------------------------------------
(* The inductive invariant. *)

Typed == TypeOK /\ stream \in Streams

\* Where the first n frames end.
End(n) == IF n = 0 THEN 0 ELSE stream[n].at + Size(stream[n])

\* The parser stands where the frames taken so far end; the buffer holds what
\* was received behind base.
PlaceOK ==
    /\ \A i \in 1 .. Len(parsed) : parsed[i] = i
    /\ base + pos = End(Len(parsed))
    /\ base + used = received
    /\ pc \in {"Post", "Recv"} => pos = 0 /\ list = <<>>
    /\ pos <= used

\* No frame that begins at the parser or behind it is there in whole.
NotLate == \A i \in 1 .. Len(stream) :
    stream[i].at >= base + pos => received < stream[i].at + Size(stream[i])

LoopOK ==
    /\ pc \in {"Post", "Recv"} => NotLate
    /\ pc = "Flush" => end # "none"
    /\ pc = "Flush" /\ end # "failed" =>
          NotLate /\ used - pos < HeaderSize + MaxPacket

RoomOK ==
    /\ length >= DataLength
    /\ used <= length
    /\ pc \in {"Post", "Recv"} => wsa > 0 /\ used + wsa = length

\* A list that threads work on has packets in it.
NoneEmpty == \A b \in batches : b # <<>>

BufferInv == PlaceOK /\ LoopOK /\ RoomOK /\ BufferIsBounded /\ NoneEmpty

LEMMA Parameters ==
  /\ HeaderSize \in Nat /\ HeaderSize > 0 /\ MaxPacket \in Nat /\ MaxPacket > 0
  /\ DataLength \in Nat /\ DataLength > 1 /\ DoubleBelow \in Nat
  /\ DoubleBelow >= DataLength
  BY ConstantsAssumption

\* The lengths, in and out of a step.
LEMMA LengthsAre ==
  ASSUME Typed
  PROVE  /\ received \in Nat /\ base \in Nat /\ used \in Nat /\ length \in Nat
         /\ wsa \in Nat /\ pos \in Nat /\ stream \in Streams
         /\ stream \in Seq(Frame) /\ Len(stream) \in Nat
         /\ parsed \in Seq(1 .. Len(stream)) /\ Len(parsed) \in Nat
         /\ list \in Seq(1 .. Len(stream))
  BY ConstantsAssumption DEF Typed, TypeOK

LEMMA Endings ==
  ASSUME Typed, PlaceOK
  PROVE  /\ Len(parsed) <= Len(stream)
         /\ \A i \in 1 .. Len(stream) : /\ stream[i].at \in Nat
                                        /\ stream[i].body \in Nat
                                        /\ Size(stream[i]) \in Nat
                                        /\ Size(stream[i]) = HeaderSize + stream[i].body
  <1>1. \A i \in 1 .. Len(stream) : /\ stream[i].at \in Nat
                                    /\ stream[i].body \in Nat
                                    /\ Size(stream[i]) \in Nat
                                    /\ Size(stream[i]) = HeaderSize + stream[i].body
    BY Frames, LengthsAre
  <1>2. Len(parsed) <= Len(stream)
    <2>1. CASE Len(parsed) = 0
      BY <2>1, LengthsAre
    <2>2. CASE Len(parsed) # 0
      <3>1. Len(parsed) \in 1 .. Len(parsed)
        BY <2>2, LengthsAre
      <3>2. parsed[Len(parsed)] = Len(parsed)
        BY <3>1 DEF PlaceOK
      <3>3. parsed[Len(parsed)] \in 1 .. Len(stream)
        BY <3>1, LengthsAre
      <3> QED BY <3>2, <3>3, LengthsAre
    <2> QED BY <2>1, <2>2
  <1> QED BY <1>1, <1>2

\* The frame whose header is read is the next one.
LEMMA HereIsNext ==
  ASSUME Typed, PlaceOK, NEW i \in Here
  PROVE  i = Len(parsed) + 1
  <1> DEFINE n == Len(parsed)
  <1>1. i \in 1 .. Len(stream) /\ stream[i].at = End(n)
    BY DEF Here, PlaceOK
  <1>2. n \in Nat /\ n <= Len(stream) /\ Len(stream) \in Nat
    BY LengthsAre, Endings
  <1>3. \A j \in 1 .. Len(stream) : /\ stream[j].at \in Nat
                                    /\ Size(stream[j]) \in Nat /\ Size(stream[j]) > 0
    BY LengthsAre, Frames
  <1>4. \A j, k \in 1 .. Len(stream) : j < k =>
           stream[j].at + Size(stream[j]) <= stream[k].at
    BY LengthsAre, InOrder
  <1> HIDE DEF n
  <1>5. CASE n = 0
    <2>1. CASE i # 1
      <3>1. 1 \in 1 .. Len(stream) /\ 1 < i
        BY <1>1, <1>2, <2>1
      <3> QED BY <1>1, <1>3, <1>4, <1>5, <3>1 DEF End
    <2> QED BY <1>5, <2>1 DEF n
  <1>6. CASE n # 0
    <2>1. n \in 1 .. Len(stream) /\ stream[i].at = stream[n].at + Size(stream[n])
      BY <1>1, <1>2, <1>6 DEF End
    <2>2. CASE i < n
      BY <1>1, <1>3, <1>4, <2>1, <2>2
    <2>3. CASE i = n
      BY <1>3, <2>1, <2>3
    <2>4. CASE i > n + 1
      <3>1. n + 1 \in 1 .. Len(stream) /\ n < n + 1 /\ n + 1 < i
        BY <1>1, <1>2, <2>4
      <3>2. /\ stream[n].at + Size(stream[n]) <= stream[n + 1].at
            /\ stream[n + 1].at + Size(stream[n + 1]) <= stream[i].at
        BY <1>1, <1>4, <2>1, <3>1
      <3> QED BY <1>1, <1>3, <2>1, <3>1, <3>2
    <2> QED BY <1>1, <1>2, <2>2, <2>3, <2>4 DEF n
  <1> QED BY <1>5, <1>6

-----------------------------------------------------------------------------
(* The steps. *)

\* Where the frames end is a matter of the stream alone.
LEMMA EndStays == stream' = stream => \A n : End(n)' = End(n)
  BY DEF End

LEMMA InitBuffer == Init => Typed /\ BufferInv
  <1> SUFFICES ASSUME Init PROVE Typed /\ BufferInv
    OBVIOUS
  <1>1. Typed
    <2>1. stream \in Streams /\ stream \in Seq(Frame)
      BY ConstantsAssumption DEF Init
    <2> DEFINE S == 1 .. Len(stream)
    <2>2. <<>> \in Seq(S) /\ {} \subseteq Seq(S) /\ {} \subseteq S
      OBVIOUS
    <2> HIDE DEF S
    <2>3. /\ list \in Seq(S) /\ parsed \in Seq(S) /\ batches \subseteq Seq(S)
          /\ handed \in Seq(S) /\ lost \subseteq S
      BY <2>2 DEF Init
    <2>4. TypeOK
      BY <2>1, <2>3, Parameters DEF Init, TypeOK, S
    <2> QED BY <2>1, <2>4 DEF Typed
  <1>2. Len(parsed) = 0 /\ Len(list) = 0
    BY DEF Init
  <1>3. PlaceOK
    BY <1>2 DEF Init, PlaceOK, End
  <1>4. LoopOK
    <2>1. \A i \in 1 .. Len(stream) : stream[i].at \in Nat /\ Size(stream[i]) \in Nat
                                      /\ Size(stream[i]) > 0
      BY <1>1, LengthsAre, Frames
    <2> QED BY <2>1 DEF Init, LoopOK, NotLate
  <1>5. RoomOK /\ BufferIsBounded
    BY Parameters DEF Init, RoomOK, BufferIsBounded
  <1>6. NoneEmpty
    BY DEF Init, NoneEmpty
  <1> QED BY <1>1, <1>3, <1>4, <1>5, <1>6 DEF BufferInv

LEMMA ReadStep ==
  ASSUME Typed, BufferInv,
         OnRead \/ OnReadCompletedZero \/ RemoveClient \/ ClientGone
  PROVE  Typed' /\ BufferInv'
  <1>1. /\ UNCHANGED <<stream, hasCallBack, received, base, used, length, wsa, pos,
                       list, end, parsed, batches, handed, lost>>
        /\ \/ pc' = pc
           \/ pc \in {"Post", "Recv"} /\ pc' \in {"Recv", "Closed"}
        /\ gone' \in BOOLEAN
    BY DEF Typed, TypeOK, OnRead, OnReadCompletedZero, RemoveClient, ClientGone,
           setupVars, readVars, loopVars, workVars
  <1>2. Typed'
    BY <1>1 DEF Typed, TypeOK
  <1>3. BufferInv'
    BY <1>1, EndStays DEF BufferInv, PlaceOK, LoopOK, NotLate, RoomOK, BufferIsBounded,
               NoneEmpty
  <1> QED BY <1>2, <1>3

LEMMA CompletedStep ==
  ASSUME Typed, BufferInv, OnReadCompleted
  PROVE  Typed' /\ BufferInv'
  <1>1. PICK n \in 1 .. wsa : received' = received + n /\ used' = used + n
    BY DEF OnReadCompleted
  <1>2. /\ pc = "Recv" /\ pc' = "Parse" /\ pos' = 0 /\ list' = <<>> /\ end' = "none"
        /\ UNCHANGED <<stream, hasCallBack, base, length, wsa, parsed, batches,
                       gone, handed, lost>>
        /\ pos = 0
    BY DEF OnReadCompleted, setupVars, workVars, BufferInv, PlaceOK
  <1>3. n \in Nat /\ n <= wsa
    BY LengthsAre
  <1>4. received' \in Nat /\ used' \in Nat
    BY <1>1, <1>3, LengthsAre
  <1>5. Typed'
    BY <1>2, <1>4 DEF Typed, TypeOK
  <1>6. PlaceOK'
    BY <1>1, <1>2, <1>3, LengthsAre, EndStays DEF BufferInv, PlaceOK
  <1>7. LoopOK' /\ RoomOK' /\ BufferIsBounded' /\ NoneEmpty'
    BY <1>1, <1>2, <1>3, LengthsAre
       DEF BufferInv, LoopOK, RoomOK, BufferIsBounded, NoneEmpty
  <1> QED BY <1>5, <1>6, <1>7 DEF BufferInv

\* The loop ends with the parser where it was.
LEMMA LoopEndsStep ==
  ASSUME Typed, BufferInv, NEW how \in {"unfinished", "failed"}, LoopEnds(how),
         UNCHANGED <<setupVars, readVars, pos, list, parsed, gone, workVars>>,
         how # "failed" => NotLate /\ used - pos < HeaderSize + MaxPacket
  PROVE  Typed' /\ BufferInv'
  <1>1. /\ pc' = "Flush" /\ end' = how
        /\ UNCHANGED <<stream, hasCallBack, received, base, used, length, wsa, pos,
                       list, parsed, gone, batches, handed, lost>>
    BY DEF LoopEnds, setupVars, readVars, workVars
  <1>2. Typed'
    BY <1>1 DEF Typed, TypeOK
  <1>3. BufferInv'
    BY <1>1, EndStays DEF BufferInv, PlaceOK, LoopOK, NotLate, RoomOK, BufferIsBounded,
               NoneEmpty
  <1> QED BY <1>2, <1>3

\* Less than the length of a frame is left: it ends behind what is received.
LEMMA TooShort ==
  ASSUME NEW a \in Nat, NEW z \in Nat, NEW b \in Nat, NEW p \in Nat, NEW u \in Nat,
         a >= b + p, p <= u, u - p < z
  PROVE  b + u < a + z
  OBVIOUS

LEMMA IncompleteStep ==
  ASSUME Typed, BufferInv, HeaderIncomplete \/ Unparsable \/ BodyIncomplete
  PROVE  Typed' /\ BufferInv'
  <1>0. \A i \in 1 .. Len(stream) : /\ stream[i].at \in Nat /\ stream[i].body \in Nat
                                    /\ Size(stream[i]) \in Nat
                                    /\ Size(stream[i]) = HeaderSize + stream[i].body
    BY Endings DEF BufferInv
  <1>1. base + used = received /\ pos <= used
    BY DEF BufferInv, PlaceOK
  <1>2. CASE HeaderIncomplete
    <2>1. used - pos < HeaderSize
      BY <1>2 DEF HeaderIncomplete, Remainder
    <2>0. base \in Nat /\ used \in Nat /\ pos \in Nat
      BY LengthsAre
    <2>2. NotLate
      <3> SUFFICES ASSUME NEW j \in 1 .. Len(stream), stream[j].at >= base + pos
                   PROVE  received < stream[j].at + Size(stream[j])
        BY DEF NotLate
      <3> DEFINE a == stream[j].at
                 z == Size(stream[j])
                 b == stream[j].body
      <3>1. a \in Nat /\ z \in Nat /\ b \in Nat /\ z = HeaderSize + b /\ a >= base + pos
        BY <1>0
      <3> HIDE DEF a, z, b
      <3>2. used - pos < z
        BY <2>0, <2>1, <3>1, Parameters
      <3>3. base + used < a + z
        BY <1>1, <2>0, <3>1, <3>2, TooShort
      <3> QED BY <1>1, <3>3 DEF a, z
    <2>3. used - pos < HeaderSize + MaxPacket
      BY <2>0, <2>1, Parameters
    <2> QED BY <1>2, <2>2, <2>3, LoopEndsStep DEF HeaderIncomplete
  <1>3. CASE Unparsable
    BY <1>3, LoopEndsStep DEF Unparsable
  <1>4. CASE BodyIncomplete
    <2>1. PICK i \in Here : /\ stream[i].body < MaxPacket
                            /\ Remainder - HeaderSize < stream[i].body
      BY <1>4 DEF BodyIncomplete
    <2>2. i \in 1 .. Len(stream) /\ stream[i].at = base + pos
      BY DEF Here
    <2>0. base \in Nat /\ used \in Nat /\ pos \in Nat
      BY LengthsAre
    <2>8. /\ stream[i].at \in Nat /\ stream[i].body \in Nat /\ Size(stream[i]) \in Nat
          /\ Size(stream[i]) = HeaderSize + stream[i].body
      BY <1>0, <2>2
    <2>3. used - pos < Size(stream[i]) /\ used - pos < HeaderSize + MaxPacket
      <3> DEFINE b == stream[i].body
      <3>1. b \in Nat /\ b < MaxPacket /\ used - pos - HeaderSize < b
        BY <2>1, <2>8 DEF Remainder
      <3>2. Size(stream[i]) = HeaderSize + b
        BY <2>8
      <3> HIDE DEF b
      <3>3. used - pos < HeaderSize + b /\ used - pos < HeaderSize + MaxPacket
        BY <2>0, <3>1, Parameters
      <3> QED BY <3>2, <3>3
    <2>4. received < stream[i].at + Size(stream[i])
      BY <1>1, <2>0, <2>2, <2>3, <2>8, TooShort
    <2>5. NotLate
      <3> SUFFICES ASSUME NEW j \in 1 .. Len(stream), stream[j].at >= base + pos
                   PROVE  received < stream[j].at + Size(stream[j])
        BY DEF NotLate
      <3>1. CASE i < j
        <4>1. stream[i].at + Size(stream[i]) <= stream[j].at
          BY <2>2, <3>1, InOrder, LengthsAre
        <4> DEFINE e == stream[i].at + Size(stream[i])
                   x == stream[j].at
                   z == Size(stream[j])
        <4>2. x \in Nat /\ z \in Nat
          BY <1>0
        <4>3. e \in Nat /\ received \in Nat
          <5>1. \A m, n \in Nat : m + n \in Nat
            OBVIOUS
          <5>2. stream[i].at \in Nat /\ Size(stream[i]) \in Nat
            BY <2>8
          <5>3. e \in Nat
            BY ONLY <5>1, <5>2
          <5> QED BY <5>3, LengthsAre
        <4>4. received < e /\ e <= x
          BY <2>4, <4>1
        <4> HIDE DEF e, x, z
        <4>5. received < x + z
          BY ONLY <4>2, <4>3, <4>4
        <4> QED BY <4>5 DEF x, z
      <3>2. CASE j < i
        <4>1. stream[j].at + Size(stream[j]) <= stream[i].at /\ Size(stream[j]) > 0
          BY <2>2, <3>2, InOrder, LengthsAre, Frames
        <4>2. stream[j].at \in Nat /\ Size(stream[j]) \in Nat
          BY <1>0
        <4>3. stream[j].at < stream[i].at
          BY <2>8, <4>1, <4>2
        <4> QED BY <2>0, <2>2, <4>2, <4>3, <2>8
      <3> QED BY <2>2, <2>4, <3>1, <3>2
    <2> QED BY <1>4, <2>3, <2>5, LoopEndsStep DEF BodyIncomplete
  <1> QED BY <1>2, <1>3, <1>4

LEMMA PacketStep ==
  ASSUME Typed, BufferInv, Packet
  PROVE  Typed' /\ BufferInv'
  <1>1. PICK i \in Here :
          /\ Remainder >= Size(stream[i])
          /\ pos' = pos + Size(stream[i])
          /\ list' = Append(list, i)
          /\ parsed' = Append(parsed, i)
          /\ IF Remainder = Size(stream[i]) THEN LoopEnds("finished")
             ELSE UNCHANGED <<pc, end>>
    BY DEF Packet
  <1>2. /\ pc = "Parse"
        /\ UNCHANGED <<stream, hasCallBack, received, base, used, length, wsa,
                       gone, batches, handed, lost>>
    BY DEF Packet, setupVars, readVars, workVars
  <1> DEFINE n == Len(parsed)
  <1>3. i \in 1 .. Len(stream) /\ stream[i].at = base + pos /\ i = n + 1
    BY HereIsNext DEF Here, BufferInv
  <1>4. /\ stream[i].at \in Nat /\ Size(stream[i]) \in Nat /\ Size(stream[i]) > 0
    BY <1>3, Frames, LengthsAre
  <1>0. pos \in Nat /\ used \in Nat /\ base \in Nat /\ Len(stream) \in Nat
        /\ parsed \in Seq(1 .. Len(stream)) /\ list \in Seq(1 .. Len(stream))
    BY LengthsAre
  <1>5. pos + Size(stream[i]) <= used /\ pos' \in Nat
    BY <1>0, <1>1, <1>4 DEF Remainder
  <1>6. pc' \in {"Parse", "Flush"} /\ end' \in {end, "finished"}
    BY <1>1, <1>2 DEF LoopEnds
  <1>7. /\ list' \in Seq(1 .. Len(stream)) /\ parsed' \in Seq(1 .. Len(stream))
        /\ Len(parsed') = n + 1 /\ parsed'[n + 1] = i
        /\ \A k \in 1 .. n : parsed'[k] = parsed[k]
    BY <1>0, <1>1, <1>3
  <1>8. Typed'
    BY <1>2, <1>5, <1>6, <1>7 DEF Typed, TypeOK
  <1>9. n \in Nat /\ base + pos' = stream[i].at + Size(stream[i])
    BY <1>0, <1>1, <1>3, <1>4
  <1>10. PlaceOK'
    <2>1. \A k \in 1 .. Len(parsed') : parsed'[k] = k
      <3>1. \A k \in 1 .. n : parsed'[k] = k
        BY <1>7 DEF BufferInv, PlaceOK
      <3>2. parsed'[n + 1] = n + 1 /\ Len(parsed') = n + 1
        BY <1>3, <1>7
      <3> HIDE DEF n
      <3>3. 1 .. (n + 1) = (1 .. n) \cup {n + 1}
        BY <1>9
      <3> QED BY <3>1, <3>2, <3>3
    <2>2. ASSUME NEW m, m = Len(parsed') PROVE End(m)' = stream[i].at + Size(stream[i])
      BY <1>2, <1>3, <1>7, <1>9, <2>2 DEF End
    <2>3. base' + pos' = stream[i].at + Size(stream[i]) /\ pos' <= used'
      BY <1>1, <1>2, <1>5, <1>9
    <2>4. base' + used' = received' /\ pc' \notin {"Post", "Recv"}
      BY <1>2, <1>6 DEF BufferInv, PlaceOK
    <2> QED BY <2>1, <2>2, <2>3, <2>4 DEF PlaceOK
  <1>11. LoopOK'
    <2>1. CASE Remainder = Size(stream[i])
      <3>1. pc' = "Flush" /\ end' = "finished" /\ used = pos'
        BY <1>1, <1>4, <2>1, LengthsAre DEF LoopEnds, Remainder
      <3>2. \A j \in 1 .. Len(stream) : /\ stream[j].at \in Nat
               /\ Size(stream[j]) \in Nat /\ Size(stream[j]) > 0
        BY Frames, LengthsAre
      <3>3. received = base + pos'
        BY <3>1 DEF BufferInv, PlaceOK
      <3>4. NotLate'
        <4> SUFFICES ASSUME NEW j \in 1 .. Len(stream), stream[j].at >= base + pos'
                     PROVE  received < stream[j].at + Size(stream[j])
          BY <1>2 DEF NotLate
        <4> QED BY <1>0, <1>5, <3>2, <3>3
      <3> QED BY <1>2, <3>1, <3>4, LengthsAre, Parameters DEF LoopOK
    <2>2. CASE Remainder # Size(stream[i])
      BY <1>1, <1>2, <2>2 DEF LoopOK
    <2> QED BY <2>1, <2>2
  <1>12. RoomOK' /\ BufferIsBounded' /\ NoneEmpty'
    BY <1>2, <1>6 DEF BufferInv, RoomOK, BufferIsBounded, NoneEmpty
  <1> QED BY <1>8, <1>10, <1>11, <1>12 DEF BufferInv

\* What the buffer grows to: more than it was and at most twice that.
LEMMA Growth ==
  ASSUME NEW n \in Nat, n >= 2
  PROVE  /\ GetNewLength(n) \in Nat
         /\ GetNewLength(n) > n /\ GetNewLength(n) <= 2 * n
  BY Parameters DEF GetNewLength

\* The lists that are handed on, of a list of packets.
LEMMA WorkedOn ==
  ASSUME NEW ok \in BOOLEAN
  PROVE  Work(list, ok) \subseteq batches \cup ({list} \ {<<>>})
  BY DEF Work

LEMMA CallBackStep ==
  ASSUME Typed, BufferInv, ReadCompletedCallBack
  PROVE  Typed' /\ BufferInv'
  <1>1. /\ pc = "Flush" /\ end # "failed" /\ pos <= used /\ pos <= length
        /\ base' = base + pos /\ used' = used - pos
        /\ length' = Grown(length, used - pos) /\ wsa' = length' - used'
        /\ pc' = "Post" /\ batches' = Work(list, TRUE)
        /\ pos' = 0 /\ list' = <<>> /\ end' = "none"
        /\ UNCHANGED <<stream, hasCallBack, received, parsed, gone, handed, lost>>
    BY DEF ReadCompletedCallBack, Flushed, setupVars
  <1>2. /\ base \in Nat /\ used \in Nat /\ pos \in Nat /\ length \in Nat
        /\ received \in Nat
    BY LengthsAre
  <1>3. /\ NotLate /\ used - pos < HeaderSize + MaxPacket
        /\ length >= DataLength /\ used <= length /\ base + used = received
    BY <1>1 DEF BufferInv, LoopOK, RoomOK, PlaceOK
  <1>4. used' \in Nat /\ used' <= length /\ base' \in Nat /\ base' + used' = received'
    BY <1>1, <1>2, <1>3
  <1>5. /\ length' \in Nat /\ length' >= length /\ length' > used'
        /\ length' # length => length < HeaderSize + MaxPacket /\ length' <= 2 * length
    <2>1. CASE used - pos = length
      <3>1. length' = GetNewLength(length)
        BY <1>1, <2>1 DEF Grown
      <3>2. length < HeaderSize + MaxPacket /\ used' = length
        BY <1>1, <1>3, <2>1
      <3>3. length >= 2
        BY <1>2, <1>3, Parameters
      <3>4. length' \in Nat /\ length' > length /\ length' <= 2 * length
        BY <1>2, <3>1, <3>3, Growth
      <3> QED BY <1>2, <3>2, <3>4
    <2>2. CASE used - pos # length
      <3>1. length' = length
        BY <1>1, <2>2 DEF Grown
      <3> QED BY <1>1, <1>2, <1>4, <2>2, <3>1
    <2> QED BY <2>1, <2>2
  <1>6. wsa' \in Nat /\ wsa' > 0 /\ used' + wsa' = length'
    BY <1>1, <1>4, <1>5
  <1>7. batches' \subseteq batches \cup ({list} \ {<<>>})
    BY <1>1, WorkedOn
  <1>8. Typed'
    <2>1. batches' \subseteq Seq(1 .. Len(stream)) /\ list' \in Seq(1 .. Len(stream))
      <3> DEFINE T == Seq(1 .. Len(stream))
      <3>1. batches \subseteq T /\ list \in T /\ <<>> \in T
        BY DEF Typed, TypeOK
      <3> HIDE DEF T
      <3>2. batches' \subseteq T /\ list' \in T
        BY <1>1, <1>7, <3>1
      <3> QED BY <3>2 DEF T
    <2>2. pos' \in Nat /\ received' \in Nat
      BY <1>1, <1>2
    <2> QED BY <1>1, <1>4, <1>5, <1>6, <2>1, <2>2 DEF Typed, TypeOK
  <1>9. PlaceOK'
    <2>1. Len(parsed)' = Len(parsed)
      BY <1>1
    <2>2. ASSUME NEW m, m = Len(parsed) PROVE End(m)' = End(m)
      BY <1>1, EndStays
    <2> QED BY <1>1, <1>2, <1>4, <2>1, <2>2 DEF BufferInv, PlaceOK
  <1>10. LoopOK'
    <2>1. base' + pos' = base + pos
      BY <1>1, <1>2
    <2>2. stream' = stream /\ received' = received
      BY <1>1
    <2>3. NotLate'
      BY <1>3, <2>1, <2>2 DEF NotLate
    <2> QED BY <1>1, <2>3 DEF LoopOK
  <1>11. RoomOK'
    <2>1. length' >= DataLength
      BY <1>2, <1>3, <1>5, Parameters
    <2>2. used' <= length'
      BY <1>4, <1>5
    <2> QED BY <1>6, <2>1, <2>2 DEF RoomOK
  <1>12. BufferIsBounded'
    <2>1. CASE length' = length
      BY <2>1 DEF BufferInv, BufferIsBounded
    <2>2. CASE length' # length
      BY <1>2, <1>5, <2>2, Parameters DEF BufferIsBounded
    <2> QED BY <2>1, <2>2
  <1>13. NoneEmpty'
    BY <1>7 DEF BufferInv, NoneEmpty
  <1> QED BY <1>8, <1>9, <1>10, <1>11, <1>12, <1>13 DEF BufferInv

LEMMA FailsStep ==
  ASSUME Typed, BufferInv, ParseFails
  PROVE  Typed' /\ BufferInv'
  <1>1. /\ pc' = "Closed" /\ batches' = Work(list, FALSE)
        /\ UNCHANGED <<stream, hasCallBack, received, base, used, length, wsa, pos,
                       list, end, parsed, handed, lost>>
        /\ gone' = TRUE
    BY DEF ParseFails, setupVars, readVars, loopVars
  <1>2. batches' \subseteq batches \cup ({list} \ {<<>>})
    BY <1>1, WorkedOn
  <1>3. Typed'
    BY <1>1, <1>2 DEF Typed, TypeOK
  <1>4. BufferInv'
    BY <1>1, <1>2, EndStays
       DEF BufferInv, PlaceOK, LoopOK, RoomOK, BufferIsBounded, NoneEmpty
  <1> QED BY <1>3, <1>4

LEMMA ExecuteStep ==
  ASSUME Typed, BufferInv, Execute
  PROVE  Typed' /\ BufferInv'
  <1>1. PICK b \in batches :
          /\ handed' = Append(handed, Head(b))
          /\ batches' = (batches \ {b}) \cup
                        (IF Len(b) = 1 THEN {} ELSE {Tail(b)})
    BY DEF Execute
  <1>2. UNCHANGED <<stream, hasCallBack, received, base, used, length, wsa, pos,
                    list, end, pc, parsed, gone, lost>>
    BY DEF Execute, setupVars, readVars, loopVars
  <1>3. b \in Seq(1 .. Len(stream)) /\ b # <<>>
    BY DEF Typed, TypeOK, BufferInv, NoneEmpty
  <1>4. /\ Head(b) \in 1 .. Len(stream) /\ Tail(b) \in Seq(1 .. Len(stream))
        /\ Len(b) # 1 => Tail(b) # <<>>
    <2> DEFINE T == 1 .. Len(stream)
    <2> HIDE DEF T
    <2>1. b \in Seq(T) /\ b # <<>>
      BY <1>3 DEF T
    <2>2. Head(b) \in T /\ Tail(b) \in Seq(T) /\ Len(Tail(b)) = Len(b) - 1
          /\ Len(b) \in Nat /\ Len(b) # 0
      BY <2>1
    <2>3. Len(b) # 1 => Len(Tail(b)) # 0
      BY <2>2
    <2>4. Len(b) # 1 => Tail(b) # <<>>
      BY <2>3
    <2> QED BY <2>2, <2>4 DEF T
  <1>5. Typed'
    <2> DEFINE T == 1 .. Len(stream)
    <2>1. batches \subseteq Seq(T) /\ handed \in Seq(T)
          /\ Head(b) \in T /\ Tail(b) \in Seq(T)
      BY <1>4 DEF Typed, TypeOK
    <2> HIDE DEF T
    <2>2. handed' \in Seq(T)
      <3>1. Append(handed, Head(b)) \in Seq(T)
        BY <2>1
      <3> QED BY <1>1, <3>1
    <2>4. batches' \subseteq Seq(T)
      <3> DEFINE B == Seq(T)
      <3>1. batches \subseteq B /\ Tail(b) \in B
        BY <2>1
      <3> HIDE DEF B
      <3>2. batches' \subseteq batches \cup {Tail(b)}
        BY <1>1
      <3>3. batches' \subseteq B
        BY <3>1, <3>2
      <3> QED BY <3>3 DEF B
    <2>3. batches' \subseteq Seq(1 .. Len(stream))' /\ handed' \in Seq(1 .. Len(stream))'
      BY <1>2, <2>2, <2>4 DEF T
    <2> QED BY <1>2, <2>3 DEF Typed, TypeOK
  <1>6. NoneEmpty'
    BY <1>1, <1>4 DEF BufferInv, NoneEmpty
  <1>7. BufferInv'
    BY <1>2, <1>6, EndStays
       DEF BufferInv, PlaceOK, LoopOK, NotLate, RoomOK, BufferIsBounded
  <1> QED BY <1>5, <1>7

LEMMA SendStep ==
  ASSUME Typed, BufferInv, SendFails
  PROVE  Typed' /\ BufferInv'
  <1>1. PICK b \in batches : batches' = batches \ {b} /\ lost' = lost \cup Members(b)
    BY DEF SendFails
  <1>2. /\ UNCHANGED <<stream, hasCallBack, received, base, used, length, wsa, pos,
                       list, end, pc, parsed, handed>>
        /\ gone' = TRUE
    BY DEF SendFails, setupVars, readVars, loopVars
  <1>3. Members(b) \subseteq 1 .. Len(stream)
    BY DEF Typed, TypeOK, Members
  <1>4. Typed'
    BY <1>1, <1>2, <1>3 DEF Typed, TypeOK
  <1>5. BufferInv'
    BY <1>1, <1>2, EndStays
       DEF BufferInv, PlaceOK, LoopOK, NotLate, RoomOK, BufferIsBounded, NoneEmpty
  <1> QED BY <1>4, <1>5

LEMMA BufferStep == Typed /\ BufferInv /\ [Next]_vars => Typed' /\ BufferInv'
  <1> SUFFICES ASSUME Typed, BufferInv, [Next]_vars PROVE Typed' /\ BufferInv'
    OBVIOUS
  <1>1. CASE Next
    BY <1>1, ReadStep, CompletedStep, IncompleteStep, PacketStep, CallBackStep,
       FailsStep, ExecuteStep, SendStep DEF Next, ParseReceivePackage
  <1>2. CASE UNCHANGED vars
    <2>1. UNCHANGED <<stream, hasCallBack, received, base, used, length, wsa, pos,
                      list, end, pc, parsed, gone, batches, handed, lost>>
      BY <1>2 DEF vars, setupVars, readVars, loopVars, workVars
    <2>2. Typed'
      BY <2>1 DEF Typed, TypeOK
    <2>3. BufferInv'
      BY <2>1, EndStays DEF BufferInv, PlaceOK, LoopOK, NotLate, RoomOK,
                            BufferIsBounded, NoneEmpty
    <2> QED BY <2>2, <2>3
  <1> QED BY <1>1, <1>2

LEMMA BufferAlways == Spec => [](Typed /\ BufferInv)
  <1>1. Init => Typed /\ BufferInv
    BY InitBuffer
  <1>2. (Typed /\ BufferInv) /\ [Next]_vars => (Typed /\ BufferInv)'
    BY BufferStep
  <1> QED BY <1>1, <1>2, PTL DEF Spec

\* The parser and its buffer agree with the stream (ParserOK): however a stream is
\* cut into pieces, the frames come out one after the other and the buffer goes on
\* where the last one ended, each read has room, and the buffer never reaches twice
\* the largest packet (CommonProtocol.cpp:35-83, IOCPBuffer.cpp:134-159, 220).
THEOREM ParserAgrees == Spec => []ParserOK
  <1>1. Typed /\ BufferInv => ParserOK
    <2> SUFFICES ASSUME Typed, BufferInv PROVE ParserOK
      OBVIOUS
    <2>1. Total(SubSeq(stream, 1, Len(parsed))) = End(Len(parsed))
      <3> DEFINE n == Len(parsed)
                 s == SubSeq(stream, 1, n)
      <3>1. n \in Nat /\ n <= Len(stream) /\ Len(stream) \in Nat /\ stream \in Seq(Frame)
        BY LengthsAre, Endings DEF BufferInv
      <3> HIDE DEF n
      <3>2. s \in Seq(Frame) /\ Len(s) = n /\ \A k \in 1 .. n : s[k] = stream[k]
        BY <3>1
      <3> HIDE DEF s
      <3>3. Total(s) = End(n)
        <4>1. CASE n = 0
          <5>1. s = <<>>
            BY <3>2, <4>1
          <5> QED BY <4>1, <5>1 DEF Total, End
        <4>2. CASE n # 0
          <5>1. s # <<>> /\ s[Len(s)] = stream[n]
            BY <3>1, <3>2, <4>2
          <5> QED BY <3>2, <4>2, <5>1 DEF Total, End
        <4> QED BY <4>1, <4>2
      <3> QED BY <3>3 DEF s, n
    <2>2. InStep
      BY <2>1 DEF BufferInv, PlaceOK, InStep
    <2>3. ReadHasRoom
      BY LengthsAre DEF BufferInv, RoomOK, ReadHasRoom
    <2> QED BY <2>2, <2>3 DEF Typed, BufferInv, ParserOK
  <1> QED BY <1>1, BufferAlways, PTL

\* No frame waits for bytes behind it: while a read is posted or pending the buffer
\* holds no frame that could have been taken out or refused (CommonProtocol.cpp:77).
THEOREM NoFrameWaits == Spec => []NothingIsHeld
  <1>1. Typed /\ BufferInv => NothingIsHeld
    <2> SUFFICES ASSUME Typed, BufferInv, pc \in {"Post", "Recv"},
                        NEW i \in 1 .. Len(stream), stream[i].at >= base
                 PROVE  received < stream[i].at + Size(stream[i])
      BY DEF NothingIsHeld
    <2>1. pos = 0 /\ NotLate /\ base \in Nat
      BY LengthsAre DEF BufferInv, PlaceOK, LoopOK
    <2>2. base + pos = base
      BY <2>1
    <2> QED BY <2>1, <2>2 DEF NotLate
  <1> QED BY <1>1, BufferAlways, PTL

-----------------------------------------------------------------------------
(* The packets on their way to the server. *)

Rising(s) == \A i, j \in 1 .. Len(s) : i < j => s[i] < s[j]
Apart(s, t) == Members(s) \cap Members(t) = {}
Once(s) == \A i, j \in 1 .. Len(s) : s[i] = s[j] => i = j

\* Of n packets, those that were handed on (h), those in the batches that threads
\* work on (B) and those in the list that is filled (l): no two threads work on the
\* same packet, and none works on one that was handed on.
Shared(n, h, B, l) ==
    /\ \A b \in B : Rising(b) /\ Members(b) \subseteq 1 .. n /\ Apart(b, h)
    /\ \A b, c \in B : b # c => Apart(b, c)
    /\ Once(h) /\ Members(h) \subseteq 1 .. n
    /\ Rising(l) /\ Members(l) \subseteq 1 .. n

\* The list is not yet any thread's.
Own(h, B, l) == Apart(l, h) /\ \A b \in B : Apart(l, b)

\* A packet that was dropped (d) is neither handed on nor any thread's.
Dropped(n, h, B, d) ==
    /\ d \subseteq 1 .. n /\ d \cap Members(h) = {}
    /\ \A b \in B : d \cap Members(b) = {}

PacketsOK ==
    /\ Shared(Len(parsed), handed, batches, list)
    /\ Dropped(Len(parsed), handed, batches, lost)
    /\ pc # "Closed" => /\ Own(handed, batches, list)
                        /\ lost \cap Members(list) = {}

LEMMA MembersOfAppend ==
  ASSUME NEW S, NEW s \in Seq(S), NEW x \in S
  PROVE  /\ Members(Append(s, x)) = Members(s) \cup {x}
         /\ x \notin Members(s) /\ Once(s) => Once(Append(s, x))
  <1> DEFINE t == Append(s, x)
             n == Len(s)
  <1>1. /\ n \in Nat /\ Len(t) = n + 1 /\ t[n + 1] = x
        /\ \A k \in 1 .. n : t[k] = s[k]
    OBVIOUS
  <1>2. 1 .. (n + 1) = (1 .. n) \cup {n + 1}
    BY <1>1
  <1> HIDE DEF t
  <1>3. Members(t) = Members(s) \cup {x}
    BY <1>1, <1>2 DEF Members
  <1>4. ASSUME x \notin Members(s), Once(s) PROVE Once(t)
    <2>1. \A k \in 1 .. n : s[k] # x
      BY <1>4 DEF Members
    <2> QED BY <1>1, <1>2, <1>4, <2>1 DEF Once
  <1> QED BY <1>3, <1>4 DEF t

LEMMA MembersOfTail ==
  ASSUME NEW S \in SUBSET Nat, NEW b \in Seq(S), b # <<>>, Rising(b)
  PROVE  /\ Members(b) = {Head(b)} \cup Members(Tail(b))
         /\ Head(b) \notin Members(Tail(b))
         /\ Rising(Tail(b))
  <1> DEFINE t == Tail(b)
             n == Len(b)
  <1>1. n \in Nat /\ n > 0 /\ Len(t) = n - 1 /\ Head(b) = b[1]
    OBVIOUS
  <1>2. \A k \in 1 .. Len(t) : t[k] = b[k + 1] /\ k + 1 \in 1 .. n
    <2>1. \A k \in 1 .. Len(t) : t[k] = b[k + 1]
      OBVIOUS
    <2> HIDE DEF t, n
    <2>2. \A k \in 1 .. Len(t) : k + 1 \in 1 .. n
      BY <1>1
    <2> QED BY <2>1, <2>2
  <1>3. \A k \in 1 .. n : b[k] \in Nat
    <2> SUFFICES ASSUME NEW k \in 1 .. n PROVE b[k] \in Nat
      OBVIOUS
    <2>1. b[k] \in S /\ S \subseteq Nat
      OBVIOUS
    <2> QED BY <2>1
  <1> HIDE DEF t
  <1>4. \A k \in 1 .. n : k = 1 \/ (k - 1 \in 1 .. Len(t) /\ t[k - 1] = b[k])
    <2> SUFFICES ASSUME NEW k \in 1 .. n, k # 1
                 PROVE  k - 1 \in 1 .. Len(t) /\ t[k - 1] = b[k]
      OBVIOUS
    <2>1. k - 1 \in 1 .. Len(t) /\ (k - 1) + 1 = k
      BY <1>1
    <2> QED BY <1>2, <2>1
  <1>5. 1 \in 1 .. n
    BY <1>1
  <1>6. Members(b) = {b[1]} \cup Members(t)
    <2>1. Members(b) \subseteq {b[1]} \cup Members(t)
      BY <1>4 DEF Members
    <2>2. {b[1]} \cup Members(t) \subseteq Members(b)
      BY <1>2, <1>5 DEF Members
    <2> QED BY <2>1, <2>2
  <1>7. b[1] \notin Members(t)
    <2> SUFFICES ASSUME NEW k \in 1 .. Len(t), t[k] = b[1] PROVE FALSE
      BY DEF Members
    <2>1. 1 < k + 1 /\ k + 1 \in 1 .. n /\ t[k] = b[k + 1]
      BY <1>2
    <2>2. b[1] < b[k + 1]
      BY <1>5, <2>1 DEF Rising
    <2> QED BY <1>3, <1>5, <2>1, <2>2
  <1>8. Rising(t)
    <2> SUFFICES ASSUME NEW i \in 1 .. Len(t), NEW j \in 1 .. Len(t), i < j
                 PROVE  t[i] < t[j]
      BY DEF Rising
    <2>1. i + 1 < j + 1 /\ i + 1 \in 1 .. n /\ j + 1 \in 1 .. n
      BY <1>2
    <2>2. b[i + 1] < b[j + 1]
      BY <2>1 DEF Rising
    <2> QED BY <1>2, <2>2
  <1> QED BY <1>1, <1>6, <1>7, <1>8 DEF t

LEMMA PacketTypes ==
  ASSUME Typed, BufferInv
  PROVE  /\ 1 .. Len(stream) \in SUBSET Nat
         /\ handed \in Seq(1 .. Len(stream)) /\ list \in Seq(1 .. Len(stream))
         /\ parsed \in Seq(1 .. Len(stream)) /\ Len(parsed) \in Nat
         /\ \A b \in batches : b \in Seq(1 .. Len(stream)) /\ b # <<>>
  BY LengthsAre DEF Typed, TypeOK, BufferInv, NoneEmpty

LEMMA NoPackets == Members(<<>>) = {} /\ Rising(<<>>) /\ Once(<<>>)
  <1>1. Len(<<>>) = 0
    OBVIOUS
  <1> QED BY <1>1 DEF Members, Rising, Once

LEMMA InitPackets == Init => PacketsOK
  BY NoPackets DEF Init, PacketsOK, Shared, Own, Apart, Dropped

\* The list is kept, or emptied; the packets are where they were.
LEMMA QuietStep ==
  ASSUME PacketsOK, UNCHANGED <<parsed, batches, handed, lost>>,
         list' = list \/ list' = <<>>, pc = "Closed" => pc' = "Closed"
  PROVE  PacketsOK'
  <1>1. CASE list' = list
    BY <1>1 DEF PacketsOK
  <1>2. CASE list' = <<>>
    BY <1>2, NoPackets DEF PacketsOK, Shared, Own, Apart
  <1> QED BY <1>1, <1>2

\* A packet joins the list: it is behind all the others.
LEMMA TakenStep ==
  ASSUME Typed, BufferInv, PacketsOK, Packet
  PROVE  PacketsOK'
  <1> DEFINE n == Len(parsed)
             l == list
             k == list'
  <1>1. PICK i \in Here : list' = Append(list, i) /\ parsed' = Append(parsed, i)
    BY DEF Packet
  <1>2. pc = "Parse" /\ UNCHANGED <<stream, batches, handed, lost>>
    BY DEF Packet, setupVars, workVars
  <1>3. i = n + 1 /\ i \in 1 .. Len(stream)
    BY HereIsNext DEF Here, BufferInv
  <1>4. Len(parsed') = n + 1 /\ n \in Nat
    <2>1. Len(Append(parsed, i)) = n + 1
      BY <1>3, PacketTypes
    <2> QED BY <1>1, <2>1, PacketTypes
  <1>5. Members(k) = Members(l) \cup {i}
    <2> DEFINE S == 1 .. Len(stream)
    <2>1. l \in Seq(S) /\ i \in S
      BY <1>3, PacketTypes
    <2> HIDE DEF l, S
    <2>2. Members(Append(l, i)) = Members(l) \cup {i}
      BY ONLY <2>1, MembersOfAppend
    <2> QED BY <1>1, <2>2 DEF l
  <1>6. Shared(n, handed, batches, l) /\ Own(handed, batches, l)
    BY <1>2 DEF PacketsOK
  <1>7. 1 .. (n + 1) = (1 .. n) \cup {i} /\ i \notin 1 .. n
    BY <1>3, <1>4
  <1>8. Rising(k)
    <2> DEFINE m == Len(l)
    <2>1. m \in Nat /\ Len(k) = m + 1 /\ k[m + 1] = i
          /\ \A j \in 1 .. m : k[j] = l[j]
      BY <1>1, <1>3, PacketTypes
    <2>2. \A j \in 1 .. m : l[j] \in 1 .. n
      BY <1>6 DEF Shared, Members
    <2>3. \A x, y \in 1 .. m : x < y => l[x] < l[y]
      BY <1>6 DEF Shared, Rising
    <2> HIDE DEF m, k, l
    <2> SUFFICES ASSUME NEW x \in 1 .. (m + 1), NEW y \in 1 .. (m + 1), x < y
                 PROVE  k[x] < k[y]
      BY <2>1 DEF Rising
    <2>4. x \in 1 .. m
      BY <2>1
    <2>5. CASE y = m + 1
      <3>1. k[x] \in 1 .. n /\ k[y] = n + 1
        BY <1>3, <2>1, <2>2, <2>4, <2>5
      <3> QED BY <1>4, <3>1
    <2>6. CASE y # m + 1
      <3>1. y \in 1 .. m
        BY <2>1, <2>6
      <3> QED BY <2>1, <2>3, <2>4, <3>1
    <2> QED BY <2>5, <2>6
  <1> HIDE DEF n, k, l
  <1>9. Shared(n + 1, handed, batches, k)
    BY <1>5, <1>6, <1>7, <1>8 DEF Shared
  <1>10. Own(handed, batches, k)
    BY <1>5, <1>6, <1>7 DEF Shared, Own, Apart
  <1>11. /\ Dropped(n, handed, batches, lost) /\ lost \cap Members(l) = {}
    BY <1>2 DEF PacketsOK, n, l
  <1>12. /\ Dropped(n + 1, handed, batches, lost) /\ lost \cap Members(k) = {}
    BY <1>5, <1>7, <1>11 DEF Dropped
  <1> QED BY <1>2, <1>4, <1>9, <1>10, <1>12 DEF PacketsOK, n, k

\* The list becomes a thread's.
LEMMA GivenStep ==
  ASSUME Typed, BufferInv, PacketsOK, ReadCompletedCallBack \/ ParseFails
  PROVE  PacketsOK'
  <1>1. /\ pc = "Flush" /\ UNCHANGED <<parsed, handed, lost>>
        /\ \/ pc' = "Post" /\ list' = <<>>
           \/ pc' = "Closed" /\ list' = list
        /\ \E ok \in BOOLEAN : batches' = Work(list, ok)
    BY DEF ReadCompletedCallBack, ParseFails, loopVars
  <1>2. batches' \subseteq batches \cup {list}
    BY <1>1, WorkedOn
  <1>3. Shared(Len(parsed), handed, batches, list) /\ Own(handed, batches, list)
    BY <1>1 DEF PacketsOK
  <1>4. Shared(Len(parsed), handed, batches', list)
    BY <1>2, <1>3 DEF Shared, Own, Apart
  <1>7. Dropped(Len(parsed), handed, batches', lost)
    BY <1>1, <1>2 DEF PacketsOK, Dropped
  <1>5. CASE pc' = "Closed" /\ list' = list
    BY <1>1, <1>4, <1>5, <1>7 DEF PacketsOK
  <1>6. CASE list' = <<>>
    BY <1>1, <1>4, <1>6, <1>7, NoPackets DEF PacketsOK, Shared, Own, Apart
  <1> QED BY <1>1, <1>5, <1>6

\* A packet is handed on.
LEMMA HandedStep ==
  ASSUME Typed, BufferInv, PacketsOK, Execute
  PROVE  PacketsOK'
  <1>1. PICK b \in batches :
          /\ handed' = Append(handed, Head(b))
          /\ batches' = (batches \ {b}) \cup
                        (IF Len(b) = 1 THEN {} ELSE {Tail(b)})
    BY DEF Execute
  <1>2. UNCHANGED <<list, pc, parsed, lost>>
    BY DEF Execute, loopVars
  <1> DEFINE n == Len(parsed)
             h == Head(b)
             t == Tail(b)
             g == Append(handed, h)
  <1>3. Shared(n, handed, batches, list)
    BY DEF PacketsOK
  <1>4. /\ Rising(b) /\ Members(b) \subseteq 1 .. n
        /\ Members(b) \cap Members(handed) = {} /\ Once(handed)
    BY <1>3 DEF Shared, Apart
  <1>5. /\ Members(b) = {h} \cup Members(t) /\ h \notin Members(t) /\ Rising(t)
    BY <1>4, MembersOfTail, PacketTypes
  <1>6. h \in 1 .. Len(stream)
    BY PacketTypes
  <1>7. Members(g) = Members(handed) \cup {h}
    BY <1>6, MembersOfAppend, PacketTypes
  <1>8. Once(g)
    BY <1>4, <1>5, <1>6, MembersOfAppend, PacketTypes
  <1>9. batches' \subseteq (batches \ {b}) \cup {t}
    BY <1>1
  <1> HIDE DEF n, h, t, g
  <1>10. \A c \in batches' : Rising(c) /\ Members(c) \subseteq 1 .. n /\ Apart(c, g)
    BY <1>3, <1>4, <1>5, <1>7, <1>9 DEF Shared, Apart
  <1>11. \A c, d \in batches' : c # d => Apart(c, d)
    BY <1>3, <1>5, <1>9 DEF Shared, Apart
  <1>12. Members(g) \subseteq 1 .. n
    BY <1>3, <1>4, <1>5, <1>7 DEF Shared
  <1>13. Shared(n, g, batches', list)
    BY <1>3, <1>8, <1>10, <1>11, <1>12 DEF Shared
  <1>14. Own(handed, batches, list) => Own(g, batches', list)
    BY <1>5, <1>7, <1>9 DEF Own, Apart
  <1>15. handed' = g /\ n' = n
    BY <1>1, <1>2 DEF n, g, h
  <1>16. Dropped(n, handed, batches, lost)
    BY DEF PacketsOK, n
  <1>17. Dropped(n, g, batches', lost)
    BY <1>5, <1>7, <1>9, <1>16 DEF Dropped
  <1> QED BY <1>2, <1>13, <1>14, <1>15, <1>17 DEF PacketsOK, n

\* The rest of a batch is dropped.
LEMMA DroppedStep ==
  ASSUME PacketsOK, SendFails
  PROVE  PacketsOK'
  <1>1. PICK b \in batches : batches' = batches \ {b} /\ lost' = lost \cup Members(b)
    BY DEF SendFails
  <1>2. UNCHANGED <<list, pc, parsed, handed>>
    BY DEF SendFails, loopVars
  <1> DEFINE n == Len(parsed)
  <1>3. Shared(n, handed, batches, list) /\ Dropped(n, handed, batches, lost)
    BY DEF PacketsOK
  <1> HIDE DEF n
  <1>4. Shared(n, handed, batches', list)
    BY <1>1, <1>3 DEF Shared
  <1>5. Dropped(n, handed, batches', lost')
    BY <1>1, <1>3 DEF Shared, Apart, Dropped
  <1>6. ASSUME Own(handed, batches, list), lost \cap Members(list) = {}
        PROVE  Own(handed, batches', list) /\ lost' \cap Members(list) = {}
    BY <1>1, <1>6 DEF Own, Apart
  <1>7. n' = n
    BY <1>2 DEF n
  <1> QED BY <1>2, <1>4, <1>5, <1>6, <1>7 DEF PacketsOK, n

LEMMA PacketsAlways == Spec => []PacketsOK
  <1>1. Init => PacketsOK
    BY InitPackets
  <1>2. (Typed /\ BufferInv) /\ PacketsOK /\ [Next]_vars => PacketsOK'
    <2> SUFFICES ASSUME Typed, BufferInv, PacketsOK, [Next]_vars PROVE PacketsOK'
      OBVIOUS
    <2>1. CASE \/ OnRead \/ OnReadCompleted \/ OnReadCompletedZero
               \/ RemoveClient \/ ClientGone
               \/ HeaderIncomplete \/ Unparsable \/ BodyIncomplete \/ UNCHANGED vars
      <3>1. /\ UNCHANGED <<parsed, batches, handed, lost>>
            /\ list' = list \/ list' = <<>>
            /\ pc = "Closed" => pc' = "Closed"
        BY <2>1 DEF OnRead, OnReadCompleted, OnReadCompletedZero, RemoveClient,
           ClientGone, HeaderIncomplete, Unparsable, BodyIncomplete, LoopEnds,
           vars, loopVars, workVars
      <3> QED BY <3>1, QuietStep
    <2>2. CASE Packet
      BY <2>2, TakenStep
    <2>3. CASE ReadCompletedCallBack \/ ParseFails
      BY <2>3, GivenStep
    <2>4. CASE Execute
      BY <2>4, HandedStep
    <2>5. CASE SendFails
      BY <2>5, DroppedStep
    <2> QED BY <2>1, <2>2, <2>3, <2>4, <2>5 DEF Next, ParseReceivePackage
  <1> QED BY <1>1, <1>2, BufferAlways, PTL DEF Spec

\* A packet is handed on once, only after it was parsed, and never behind an echo of
\* its batch that failed, though threads work on batches while another one parses on
\* (CommonProtocol.cpp:88-113).
THEOREM NoPacketTwice == Spec => []HandedOnce
  <1>1. PacketsOK => HandedOnce
    <2> SUFFICES ASSUME PacketsOK PROVE HandedOnce
      OBVIOUS
    <2>1. Shared(Len(parsed), handed, batches, list)
      BY DEF PacketsOK
    <2>2. \A i \in 1 .. Len(handed) : handed[i] \in 1 .. Len(parsed)
      BY <2>1 DEF Shared, Members
    <2>3. ASSUME NEW b \in batches, NEW i \in 1 .. Len(b), NEW j \in 1 .. Len(handed)
          PROVE  b[i] # handed[j]
      BY <2>1 DEF Shared, Apart, Members
    <2>4. \A i \in 1 .. Len(handed) : handed[i] \notin lost
      BY DEF PacketsOK, Dropped, Members
    <2> QED BY <2>1, <2>2, <2>3, <2>4 DEF Shared, Once, Rising, HandedOnce
  <1> QED BY <1>1, PacketsAlways, PTL

-----------------------------------------------------------------------------
(* What the frames are made of and read with: IOPack for any packs, values     *)
(* and sizes.                                                                  *)

PackType == [len : Nat, pos : Nat, use : Nat,
             stack : Seq(Byte), heap : Seq(Byte)]

\* A pack longer than m_szBuffer has a buffer of its length; a shorter one may
\* have any.
Packed(p) ==
    /\ p \in PackType
    /\ Len(p.stack) = StackSize
    /\ p.pos <= p.len /\ p.use <= p.len
    /\ p.len > StackSize => Len(p.heap) = p.len

\* e says where the values vs end, one behind the other.
Cuts(e, vs) ==
    /\ e \in [0 .. Len(vs) -> Nat] /\ e[0] = 0
    /\ \A i \in 1 .. Len(vs) : e[i] = e[i - 1] + Len(Bytes(vs[i], i))
    /\ \A i, j \in 0 .. Len(vs) : i <= j => e[i] <= e[j]

\* The storage s holds the values vs.
Holds(s, vs, e) ==
    \A i \in 1 .. Len(vs) : \A j \in 1 .. Len(Bytes(vs[i], i)) :
        s[e[i - 1] + j] = Bytes(vs[i], i)[j]

\* The pack p holds the values vs, which end where e says, and is read from the end
\* of number r on if it is in step (in).
Fits(p, vs, r, in, e) ==
    /\ Cuts(e, vs) /\ Holds(Storage(p), vs, e)
    /\ p.use = e[Len(vs)]
    /\ in => p.pos = e[r]

\* It does so unless it is spoilt (sp).
PackSound(p, vs, r, sp, in) ==
    /\ Packed(p) /\ vs \in Seq(Values) /\ r \in 0 .. Len(vs)
    /\ ~sp => \E e : Fits(p, vs, r, in, e)

PackInv ==
    /\ DOMAIN pack = Packs /\ DOMAIN written = Packs /\ DOMAIN read = Packs
    /\ pack = [x \in Packs |-> pack[x]]
    /\ written = [x \in Packs |-> written[x]]
    /\ read = [x \in Packs |-> read[x]]
    /\ \A x \in Packs : PackSound(pack[x], written[x], read[x],
                                  x \in spoilt, x \in instep)
    /\ spoilt \subseteq Packs /\ instep \subseteq Packs
    /\ overrun \in BOOLEAN /\ writes \in Nat

-----------------------------------------------------------------------------
(* The operators. *)

LEMMA Filled ==
  ASSUME NEW n \in Nat
  PROVE  /\ Zeros(n) \in Seq(Byte) /\ Len(Zeros(n)) = n
         /\ DOMAIN Zeros(n) = 1 .. n
  <1>1. Zero \in Byte
    BY DEF Zero, Byte
  <1> QED BY <1>1 DEF Zeros

\* What Number makes.
IsNumber(d, what, i, n, size) ==
    /\ d \in Seq(Byte) /\ Len(d) = size
    /\ \A j \in 1 .. size : d[j] = <<what, i, n, j>>

LEMMA NumberIs ==
  ASSUME NEW what \in {"str", "mem", "length", "data"}, NEW i \in Nat,
         NEW n \in Nat, NEW size \in Nat
  PROVE  IsNumber(Number(what, i, n, size), what, i, n, size)
  <1>1. \A j \in 1 .. size : <<what, i, n, j>> \in Byte
    BY DEF Byte
  <1> QED BY ONLY <1>1, size \in Nat DEF Number, IsNumber

LEMMA Overwritten ==
  ASSUME NEW s \in Seq(Byte), NEW d \in Seq(Byte), NEW k \in Nat
  PROVE  /\ Overwrite(s, k, d) \in Seq(Byte)
         /\ Len(Overwrite(s, k, d)) = Len(s)
         /\ \A i \in 1 .. Len(s) :
               Overwrite(s, k, d)[i] =
                  IF i \in k + 1 .. k + Len(d) THEN d[i - k] ELSE s[i]
  <1>1. Len(s) \in Nat /\ DOMAIN s = 1 .. Len(s) /\ Len(d) \in Nat
    OBVIOUS
  <1>2. \A i \in 1 .. Len(s) : s[i] \in Byte
    OBVIOUS
  <1>3. \A i \in k + 1 .. k + Len(d) : i - k \in 1 .. Len(d)
    BY <1>1
  <1>4. \A i \in 1 .. Len(d) : d[i] \in Byte
    OBVIOUS
  <1>5. \A i \in k + 1 .. k + Len(d) : d[i - k] \in Byte
    BY <1>3, <1>4
  <1> DEFINE w(i) == IF i \in k + 1 .. k + Len(d) THEN d[i - k] ELSE s[i]
  <1>6. Overwrite(s, k, d) = [i \in 1 .. Len(s) |-> w(i)]
    BY <1>1 DEF Overwrite
  <1>7. \A i \in 1 .. Len(s) : w(i) \in Byte
    BY <1>2, <1>5
  <1> HIDE DEF w
  <1>8. [i \in 1 .. Len(s) |-> w(i)] \in Seq(Byte)
        /\ Len([i \in 1 .. Len(s) |-> w(i)]) = Len(s)
    BY <1>1, <1>7
  <1> QED BY <1>6, <1>8 DEF w

LEMMA DataIs ==
  \A i, size \in Nat :
      LET d == Number("data", i, 0, size)
      IN  /\ d \in Seq(Byte) /\ Len(d) = size
          /\ \A j \in 1 .. size : d[j] = <<"data", i, 0, j>>
  <1> TAKE i, size \in Nat
  <1>1. IsNumber(Number("data", i, 0, size), "data", i, 0, size)
    BY NumberIs
  <1> QED BY ONLY <1>1 DEF IsNumber

LEMMA MarkIs ==
  \A kind \in {"str", "mem"}, size \in Nat :
      LET d == Number(kind, 0, 0, size)
      IN  /\ d \in Seq(Byte) /\ Len(d) = size
          /\ \A j \in 1 .. size : d[j] = <<kind, 0, 0, j>>
  <1> TAKE kind \in {"str", "mem"}, size \in Nat
  <1>1. IsNumber(Number(kind, 0, 0, size), kind, 0, 0, size)
    BY NumberIs
  <1> QED BY ONLY <1>1 DEF IsNumber

LEMMA LengthIs ==
  \A n, size \in Nat :
      LET d == Number("length", 0, n, size)
      IN  /\ d \in Seq(Byte) /\ Len(d) = size
          /\ \A j \in 1 .. size : d[j] = <<"length", 0, n, j>>
  <1> TAKE n, size \in Nat
  <1>1. IsNumber(Number("length", 0, n, size), "length", 0, n, size)
    BY NumberIs
  <1> QED BY ONLY <1>1 DEF IsNumber

\* The n elements behind the first u of a sequence.
LEMMA Piece ==
  ASSUME NEW S, NEW s \in Seq(S), NEW u \in Nat, NEW n \in Nat, u + n <= Len(s)
  PROVE  /\ SubSeq(s, u + 1, u + n) \in Seq(S)
         /\ Len(SubSeq(s, u + 1, u + n)) = n
         /\ \A j \in 1 .. n : SubSeq(s, u + 1, u + n)[j] = s[u + j]
  <1> DEFINE k == u + 1
             m == u + n
             a == SubSeq(s, k, m)
  <1>1. Len(s) \in Nat /\ \A i \in 1 .. Len(s) : s[i] \in S
    OBVIOUS
  <1>2. k \in Int /\ m \in Int /\ m - k + 1 = n
    OBVIOUS
  <1>3. (IF k <= m THEN m - k + 1 ELSE 0) = n
    OBVIOUS
  <1>4. \A i \in k .. m : i \in 1 .. Len(s)
    BY <1>1
  <1>5. \A i \in k .. m : s[i] \in S
    BY <1>1, <1>4
  <1>6. \A j \in 1 .. n : k + j - 1 = u + j
    OBVIOUS
  <1> HIDE DEF k, m
  <1>7. /\ a \in Seq(S)
        /\ Len(a) = IF k <= m THEN m - k + 1 ELSE 0
        /\ \A j \in 1 .. m - k + 1 : a[j] = s[k + j - 1]
    BY <1>2, <1>5, SubSeqProperties
  <1> HIDE DEF a
  <1>8. /\ a \in Seq(S) /\ Len(a) = n
        /\ \A j \in 1 .. n : a[j] = s[u + j]
    BY ONLY <1>2, <1>3, <1>6, <1>7
  <1> QED BY <1>8 DEF a, k, m

\* A sequence of three.
LEMMA Three ==
  ASSUME NEW S, NEW a \in Seq(S), NEW b \in Seq(S), NEW c \in Seq(S)
  PROVE  /\ a \o b \o c \in Seq(S)
         /\ Len(a \o b \o c) = Len(a) + Len(b) + Len(c)
         /\ \A i \in 1 .. Len(a) : (a \o b \o c)[i] = a[i]
         /\ \A i \in 1 .. Len(b) : (a \o b \o c)[Len(a) + i] = b[i]
         /\ \A i \in 1 .. Len(c) : (a \o b \o c)[Len(a) + Len(b) + i] = c[i]
  <1> DEFINE ab == a \o b
  <1>1. /\ ab \in Seq(S) /\ Len(ab) = Len(a) + Len(b)
        /\ \A i \in 1 .. Len(a) + Len(b) :
              ab[i] = IF i <= Len(a) THEN a[i] ELSE b[i - Len(a)]
    BY ConcatProperties
  <1>2. Len(a) \in Nat /\ Len(b) \in Nat /\ Len(c) \in Nat
    OBVIOUS
  <1> HIDE DEF ab
  <1>3. /\ ab \o c \in Seq(S) /\ Len(ab \o c) = Len(ab) + Len(c)
        /\ \A i \in 1 .. Len(ab) + Len(c) :
              (ab \o c)[i] = IF i <= Len(ab) THEN ab[i] ELSE c[i - Len(ab)]
    <2>1. ab \in Seq(S)
      BY <1>1
    <2> QED BY ONLY <2>1, c \in Seq(S), ConcatProperties
  <1>4. \A i \in 1 .. Len(a) : (ab \o c)[i] = a[i]
    BY <1>1, <1>2, <1>3
  <1>5. \A i \in 1 .. Len(b) : (ab \o c)[Len(a) + i] = b[i]
    BY <1>1, <1>2, <1>3
  <1>6. \A i \in 1 .. Len(c) : (ab \o c)[Len(a) + Len(b) + i] = c[i]
    BY <1>1, <1>2, <1>3
  <1> QED BY <1>1, <1>3, <1>4, <1>5, <1>6 DEF ab

\* The bytes of a value itself, and how many of them are read.
OwnSize(v) == CASE v.kind = "uchar"  -> 1
                [] v.kind = "int"    -> IntSize
                [] v.kind = "ushort" -> ShortSize
                [] OTHER             -> v.n

LEMMA ValueIs ==
  ASSUME NEW v \in Values
  PROVE  /\ IntSize \in Nat /\ ShortSize \in Nat /\ ShortSize <= IntSize
         /\ v.n \in Nat /\ v.kind \in Kinds
         /\ OwnSize(v) \in Nat
         /\ ValueSize(v) = IF Marked(v) THEN 2 * IntSize + v.n ELSE OwnSize(v)
         /\ Marked(v) => OwnSize(v) = v.n
         /\ ValueSize(v) \in Nat
  <1>1. /\ IntSize \in Nat /\ ShortSize \in Nat /\ ShortSize <= IntSize
        /\ v.n \in Nat /\ v.kind \in Kinds
    BY PackAssumption
  <1>2. CASE Marked(v)
    BY <1>1, <1>2 DEF Marked, OwnSize, ValueSize
  <1>3. CASE ~Marked(v)
    <2>1. v.kind \in {"uchar", "int", "ushort", "raw"}
      BY <1>1, <1>3 DEF Marked, Kinds
    <2> QED BY <1>1, <1>3, <2>1 DEF OwnSize, ValueSize
  <1> QED BY <1>1, <1>2, <1>3

LEMMA DataOf ==
  ASSUME NEW v \in Values, NEW i \in Nat
  PROVE  /\ Data(v, i) \in Seq(Byte)
         /\ OwnSize(v) <= Len(Data(v, i))
         /\ v.kind # "ushort" => Len(Data(v, i)) = OwnSize(v)
         /\ \A j \in 1 .. OwnSize(v) : Data(v, i)[j] = <<"data", i, 0, j>>
  <1> DEFINE n == OwnSize(v)
             d == Number("data", i, 0, n)
  <1>1. n \in Nat
    BY ValueIs
  <1> HIDE DEF n
  <1>2. /\ d \in Seq(Byte) /\ Len(d) = n
        /\ \A j \in 1 .. n : d[j] = <<"data", i, 0, j>>
    BY <1>1, DataIs, Zenon
  <1>3. CASE v.kind # "ushort"
    <2>1. Data(v, i) = d
      BY <1>3 DEF Data, OwnSize, n
    <2> HIDE DEF d
    <2> QED BY <1>1, <1>2, <1>3, <2>1 DEF n
  <1>4. CASE v.kind = "ushort"
    <2> DEFINE z == Zeros(IntSize - ShortSize)
    <2>1. n = ShortSize /\ Data(v, i) = d \o z
      BY <1>4 DEF Data, OwnSize, n
    <2>2. IntSize - ShortSize \in Nat
      BY ValueIs
    <2>3. z \in Seq(Byte) /\ Len(z) \in Nat
      BY <2>2, Filled
    <2> HIDE DEF d, z
    <2>4. /\ d \o z \in Seq(Byte) /\ Len(d \o z) = n + Len(z)
          /\ \A j \in 1 .. n : (d \o z)[j] = d[j]
      <3>1. /\ d \o z \in Seq(Byte) /\ Len(d \o z) = Len(d) + Len(z)
            /\ \A j \in 1 .. Len(d) + Len(z) :
                  (d \o z)[j] = IF j <= Len(d) THEN d[j] ELSE z[j - Len(d)]
        BY <1>2, <2>3, ConcatProperties
      <3> QED BY <1>1, <1>2, <2>3, <3>1
    <2> QED BY <1>1, <1>2, <1>4, <2>1, <2>3, <2>4 DEF n
  <1> QED BY <1>3, <1>4

\* The mark and the length in front of a string or of memory.
LEMMA FrontOf ==
  ASSUME NEW v \in Values
  PROVE  /\ Mark(v) \in Seq(Byte) /\ LengthField(v) \in Seq(Byte)
         /\ Marked(v) =>
              /\ Len(Mark(v)) = IntSize /\ Len(LengthField(v)) = IntSize
              /\ \A j \in 1 .. IntSize : Mark(v)[j] = <<v.kind, 0, 0, j>>
              /\ \A j \in 1 .. IntSize :
                    LengthField(v)[j] = <<"length", 0, v.n, j>>
         /\ ~Marked(v) => Len(Mark(v)) = 0 /\ Len(LengthField(v)) = 0
  <1>1. IntSize \in Nat /\ v.n \in Nat
    BY ValueIs
  <1>2. CASE Marked(v)
    <2> DEFINE a == Number(v.kind, 0, 0, IntSize)
               b == Number("length", 0, v.n, IntSize)
    <2>1. Mark(v) = a /\ LengthField(v) = b /\ v.kind \in {"str", "mem"}
      BY <1>2 DEF Mark, LengthField, Marked
    <2>2. /\ a \in Seq(Byte) /\ Len(a) = IntSize
          /\ \A j \in 1 .. IntSize : a[j] = <<v.kind, 0, 0, j>>
      BY <1>1, <2>1, MarkIs
    <2>3. /\ b \in Seq(Byte) /\ Len(b) = IntSize
          /\ \A j \in 1 .. IntSize : b[j] = <<"length", 0, v.n, j>>
      BY <1>1, LengthIs
    <2> HIDE DEF a, b
    <2> QED BY <1>2, <2>1, <2>2, <2>3
  <1>3. CASE ~Marked(v)
    <2>1. Mark(v) = <<>> /\ LengthField(v) = <<>>
      BY <1>3 DEF Mark, LengthField
    <2> QED BY <1>3, <2>1
  <1> QED BY <1>2, <1>3

\* All of a value's bytes.
LEMMA ValueBytes ==
  ASSUME NEW v \in Values, NEW i \in Nat
  PROVE  /\ Bytes(v, i) \in Seq(Byte)
         /\ ValueSize(v) \in Nat /\ ValueSize(v) <= Len(Bytes(v, i))
         /\ v.kind # "ushort" => Len(Bytes(v, i)) = ValueSize(v)
         /\ Marked(v) =>
              /\ ValueSize(v) = 2 * IntSize + v.n
              /\ \A j \in 1 .. IntSize :
                    Bytes(v, i)[j] = <<v.kind, 0, 0, j>>
              /\ \A j \in 1 .. IntSize :
                    Bytes(v, i)[IntSize + j] = <<"length", 0, v.n, j>>
              /\ \A j \in 1 .. v.n :
                    Bytes(v, i)[2 * IntSize + j] = <<"data", i, 0, j>>
         /\ ~Marked(v) => \A j \in 1 .. ValueSize(v) :
                             Bytes(v, i)[j] = <<"data", i, 0, j>>
  <1> DEFINE a == Mark(v)
             b == LengthField(v)
             c == Data(v, i)
  <1>1. /\ IntSize \in Nat /\ v.n \in Nat /\ OwnSize(v) \in Nat
        /\ ValueSize(v) = IF Marked(v) THEN 2 * IntSize + v.n ELSE OwnSize(v)
        /\ Marked(v) => OwnSize(v) = v.n
        /\ ValueSize(v) \in Nat
    BY ValueIs
  <1>2. /\ a \in Seq(Byte) /\ b \in Seq(Byte)
        /\ Marked(v) =>
             /\ Len(a) = IntSize /\ Len(b) = IntSize
             /\ \A j \in 1 .. IntSize : a[j] = <<v.kind, 0, 0, j>>
             /\ \A j \in 1 .. IntSize : b[j] = <<"length", 0, v.n, j>>
        /\ ~Marked(v) => Len(a) = 0 /\ Len(b) = 0
    BY FrontOf
  <1>3. /\ c \in Seq(Byte) /\ OwnSize(v) <= Len(c)
        /\ v.kind # "ushort" => Len(c) = OwnSize(v)
        /\ \A j \in 1 .. OwnSize(v) : c[j] = <<"data", i, 0, j>>
    BY DataOf
  <1>4. Bytes(v, i) = a \o b \o c
    BY DEF Bytes
  <1> HIDE DEF a, b, c
  <1>5. Len(c) \in Nat
    BY <1>3
  <1>6. /\ a \o b \o c \in Seq(Byte)
        /\ Len(a \o b \o c) = Len(a) + Len(b) + Len(c)
        /\ \A j \in 1 .. Len(a) : (a \o b \o c)[j] = a[j]
        /\ \A j \in 1 .. Len(b) : (a \o b \o c)[Len(a) + j] = b[j]
        /\ \A j \in 1 .. Len(c) : (a \o b \o c)[Len(a) + Len(b) + j] = c[j]
    BY ONLY <1>2, <1>3, Three
  <1>7. CASE Marked(v)
    <2>1. IntSize + IntSize = 2 * IntSize /\ v.kind # "ushort"
      BY <1>1, <1>7 DEF Marked
    <2>2. Len(a) = IntSize /\ Len(b) = IntSize /\ Len(c) = v.n
      BY <1>1, <1>2, <1>3, <1>7, <2>1
    <2>3. Len(a \o b \o c) = ValueSize(v)
      BY <1>1, <1>6, <1>7, <2>1, <2>2
    <2>4. \A j \in 1 .. v.n : (a \o b \o c)[2 * IntSize + j] = c[j]
      BY <1>6, <2>1, <2>2
    <2> DEFINE w == a \o b \o c
    <2>5. /\ \A j \in 1 .. IntSize : w[j] = <<v.kind, 0, 0, j>>
          /\ \A j \in 1 .. IntSize : w[IntSize + j] = <<"length", 0, v.n, j>>
      BY <1>2, <1>6, <1>7, <2>2
    <2>6. \A j \in 1 .. v.n : w[2 * IntSize + j] = <<"data", i, 0, j>>
      BY <1>1, <1>3, <1>7, <2>4
    <2>7. w \in Seq(Byte) /\ ValueSize(v) = 2 * IntSize + v.n
      BY <1>1, <1>6, <1>7
    <2>8. ValueSize(v) <= Len(w) /\ Len(w) = ValueSize(v)
      BY <1>1, <2>3
    <2> HIDE DEF w
    <2>9. Bytes(v, i) = w
      BY <1>4 DEF w
    <2> QED BY <1>1, <1>7, <2>5, <2>6, <2>7, <2>8, <2>9
  <1>8. CASE ~Marked(v)
    <2>1. /\ Len(a) = 0 /\ Len(b) = 0 /\ ValueSize(v) = OwnSize(v)
          /\ Len(a \o b \o c) = Len(c)
      BY <1>1, <1>2, <1>5, <1>6, <1>8
    <2>2. \A j \in 1 .. ValueSize(v) : (a \o b \o c)[j] = c[j]
      <3>1. \A j \in 1 .. ValueSize(v) : j \in 1 .. Len(c) /\ 0 + 0 + j = j
        BY <1>1, <1>3, <1>5, <2>1
      <3> QED BY <1>6, <2>1, <3>1
    <2> QED BY <1>1, <1>3, <1>4, <1>6, <1>8, <2>1, <2>2
  <1> QED BY <1>7, <1>8

-----------------------------------------------------------------------------
(* Where the values end. *)

LEMMA EndsAre ==
  ASSUME NEW vs \in Seq(Values), NEW e, Cuts(e, vs)
  PROVE  Ends(vs) = e
  <1> DEFINE Step(f, i) == IF i = 0 THEN 0
                           ELSE f[i - 1] + Len(Bytes(vs[i], i))
             IsEnds(f) == f = [i \in 0 .. Len(vs) |-> Step(f, i)]
             ends == Ends(vs)
  <1>1. ends = CHOOSE f : IsEnds(f)
    BY DEF Ends
  <1>2. e \in [0 .. Len(vs) -> Nat] /\ e[0] = 0 /\ Len(vs) \in Nat
    BY DEF Cuts
  <1>3. \A i \in 0 .. Len(vs) : e[i] = Step(e, i)
    BY <1>2 DEF Cuts
  <1>4. IsEnds(e)
    BY <1>2, <1>3
  <1>5. IsEnds(ends)
    BY <1>1, <1>4
  <1>6. \A i \in 0 .. Len(vs) : ends[i] = Step(ends, i)
    BY <1>5
  <1>7. DOMAIN ends = 0 .. Len(vs) /\ ends = [i \in 0 .. Len(vs) |-> ends[i]]
    BY <1>5
  <1> HIDE DEF ends, IsEnds
  <1> DEFINE S == {i \in Nat : i <= Len(vs) => ends[i] = e[i]}
  <1>8. 0 \in S
    BY <1>2, <1>6
  <1>9. ASSUME NEW n \in Nat, n \in S PROVE n + 1 \in S
    <2> SUFFICES ASSUME n + 1 <= Len(vs) PROVE ends[n + 1] = e[n + 1]
      OBVIOUS
    <2>1. n + 1 \in 0 .. Len(vs) /\ n + 1 # 0 /\ (n + 1) - 1 = n /\ n <= Len(vs)
      BY <1>2
    <2>2. ends[n] = e[n]
      BY <1>9, <2>1
    <2>3. ends[n + 1] = Step(ends, n + 1) /\ e[n + 1] = Step(e, n + 1)
      BY <1>3, <1>6, <2>1
    <2>4. Step(ends, n + 1) = Step(e, n + 1)
      BY <2>1, <2>2
    <2> QED BY <2>3, <2>4
  <1> HIDE DEF S
  <1>10. \A n \in Nat : n \in S
    BY <1>8, <1>9, NaturalsBySet
  <1>11. \A i \in 0 .. Len(vs) : ends[i] = e[i]
    BY <1>10, <1>2 DEF S
  <1> QED BY <1>2, <1>7, <1>11 DEF ends

\* No value written: nothing ends.
LEMMA NoneEnds == Cuts([i \in 0 .. 0 |-> 0], <<>>)
  BY DEF Cuts

\* Another value ends behind the ones before it.
LEMMA OneMoreEnds ==
  ASSUME NEW vs \in Seq(Values), NEW e, Cuts(e, vs),
         NEW v \in Values
  PROVE  LET n == Len(vs) + 1
             f == [i \in 0 .. n |->
                     IF i = n THEN e[Len(vs)] + Len(Bytes(v, n)) ELSE e[i]]
         IN  Cuts(f, Append(vs, v))
  <1> DEFINE n == Len(vs) + 1
             f == [i \in 0 .. n |->
                     IF i = n THEN e[Len(vs)] + Len(Bytes(v, n)) ELSE e[i]]
             ws == Append(vs, v)
  <1>1. /\ e \in [0 .. Len(vs) -> Nat] /\ e[0] = 0 /\ Len(vs) \in Nat
        /\ \A i \in 1 .. Len(vs) : e[i] = e[i - 1] + Len(Bytes(vs[i], i))
        /\ \A i, j \in 0 .. Len(vs) : i <= j => e[i] <= e[j]
    BY DEF Cuts
  <1>2. Len(Bytes(v, n)) \in Nat
    BY <1>1, ValueBytes
  <1>3. /\ Len(ws) = n /\ ws[n] = v /\ n \in Nat \ {0}
        /\ \A i \in 1 .. Len(vs) : ws[i] = vs[i]
    BY <1>1
  <1>4. f \in [0 .. n -> Nat] /\ f[0] = 0
        /\ f[n] = e[Len(vs)] + Len(Bytes(v, n))
        /\ \A i \in 0 .. Len(vs) : f[i] = e[i]
    <2> DEFINE l == Len(Bytes(v, n))
               m == e[Len(vs)] + l
    <2>1. /\ Len(vs) \in Nat /\ n = Len(vs) + 1 /\ m \in Nat
          /\ e \in [0 .. Len(vs) -> Nat] /\ e[0] = 0
      <3>1. l \in Nat
        BY <1>2
      <3> HIDE DEF l
      <3>2. e[Len(vs)] \in Nat
        BY ONLY <1>1
      <3> QED BY <1>1, <3>1, <3>2
    <2>2. f = [i \in 0 .. n |-> IF i = n THEN m ELSE e[i]]
      OBVIOUS
    <2> HIDE DEF m, n, f
    <2>3. f[n] = m
      BY ONLY <2>1, <2>2
    <2>4. \A i \in 0 .. Len(vs) : i # n /\ i \in 0 .. n /\ e[i] \in Nat
      BY ONLY <2>1
    <2>5. \A i \in 0 .. Len(vs) : f[i] = e[i]
      BY ONLY <2>2, <2>4
    <2>6. \A i \in 0 .. n : i = n \/ i \in 0 .. Len(vs)
      BY ONLY <2>1
    <2>7. f \in [0 .. n -> Nat]
      BY ONLY <2>1, <2>2, <2>4, <2>6
    <2> QED BY <2>1, <2>3, <2>5, <2>7 DEF m
  <1> HIDE DEF f, ws
  <1>5. ASSUME NEW i \in 1 .. n
        PROVE  f[i] = f[i - 1] + Len(Bytes(ws[i], i))
    <2>1. CASE i = n
      <3>1. i - 1 = Len(vs) /\ i - 1 \in 0 .. Len(vs)
        BY <2>1, <1>1
      <3> QED BY <1>3, <1>4, <2>1, <3>1
    <2>2. CASE i # n
      <3>1. i \in 1 .. Len(vs) /\ i - 1 \in 0 .. Len(vs) /\ i \in 0 .. Len(vs)
        BY <2>2, <1>1
      <3> QED BY <1>1, <1>3, <1>4, <3>1
    <2> QED BY <2>1, <2>2
  <1>6. ASSUME NEW i \in 0 .. n, NEW j \in 0 .. n, i <= j
        PROVE  f[i] <= f[j]
    <2>1. CASE j # n
      <3>1. i \in 0 .. Len(vs) /\ j \in 0 .. Len(vs)
        BY <2>1, <1>1, <1>6
      <3> QED BY <1>1, <1>4, <1>6, <3>1
    <2>2. CASE j = n /\ i # n
      <3>1. i \in 0 .. Len(vs) /\ i <= Len(vs) /\ Len(vs) \in 0 .. Len(vs)
        BY <2>2, <1>1
      <3>2. e[i] <= e[Len(vs)] /\ e[i] \in Nat /\ e[Len(vs)] \in Nat
        BY <1>1, <3>1
      <3> QED BY <1>2, <1>4, <2>2, <3>1, <3>2
    <2>3. CASE j = n /\ i = n
      BY <1>4, <2>3
    <2> QED BY <2>1, <2>2, <2>3
  <1>7. Cuts(f, ws)
    BY <1>3, <1>4, <1>5, <1>6 DEF Cuts
  <1> QED BY <1>7 DEF f, ws

-----------------------------------------------------------------------------
(* The storage. *)

LEMMA StorageIs ==
  ASSUME NEW p, Packed(p)
  PROVE  /\ p.len \in Nat /\ p.use \in Nat /\ p.pos \in Nat
         /\ p.use <= p.len /\ p.pos <= p.len
         /\ Storage(p) \in Seq(Byte) /\ p.len <= Len(Storage(p))
         /\ StackSize \in Nat \ {0}
         /\ p.len <= StackSize => Storage(p) = p.stack
         /\ p.len > StackSize => Storage(p) = p.heap
  <1>1. /\ p.len \in Nat /\ StackSize \in Nat \ {0} /\ p.stack \in Seq(Byte)
        /\ p.use \in Nat /\ p.pos \in Nat /\ p.heap \in Seq(Byte)
        /\ p.use <= p.len /\ p.pos <= p.len
    BY PackAssumption DEF Packed, PackType
  <1>2. CASE p.len <= StackSize
    BY <1>1, <1>2 DEF Packed, Storage, OnStack
  <1>3. CASE p.len > StackSize
    BY <1>1, <1>3 DEF Packed, Storage, OnStack
  <1> QED BY <1>1, <1>2, <1>3

LEMMA ResizedIs ==
  ASSUME NEW s \in Seq(Byte), NEW n \in Nat
  PROVE  /\ Resized(s, n) \in Seq(Byte) /\ Len(Resized(s, n)) = n
         /\ \A k \in 1 .. n : k <= Len(s) => Resized(s, n)[k] = s[k]
  <1>1. Zero \in Byte
    BY DEF Zero, Byte
  <1>2. Len(s) \in Nat /\ \A k \in 1 .. Len(s) : s[k] \in Byte
    OBVIOUS
  <1> DEFINE b(k) == IF k <= Len(s) THEN s[k] ELSE Zero
             r == [k \in 1 .. n |-> b(k)]
  <1>3. \A k \in 1 .. n : b(k) \in Byte
    BY <1>1, <1>2
  <1>4. Resized(s, n) = r
    BY DEF Resized
  <1> HIDE DEF b
  <1>5. r \in Seq(Byte) /\ Len(r) = n /\ \A k \in 1 .. n : r[k] = b(k)
    BY <1>3
  <1> QED BY <1>4, <1>5 DEF b

\* A new buffer, no shorter than the old one, holds the bytes in use, unless they
\* are in m_szBuffer and a copy of m_pBuffer takes its place.
LEMMA GrowingKeeps ==
  ASSUME NEW p, Packed(p), NEW n \in Nat, n >= p.len
  PROVE  LET g == NewPackBuffer(p, n)
         IN  /\ Packed(g) /\ g.len = n /\ g.use = p.use /\ g.pos = p.pos
             /\ ~(OnStack(p) /\ p.heap # <<>> /\ n > StackSize) =>
                   \A k \in 1 .. p.use : Storage(g)[k] = Storage(p)[k]
  <1> DEFINE old == IF p.heap # <<>> THEN Resized(p.heap, p.len) ELSE p.stack
             new == Resized(old, n)
             g == [p EXCEPT !.heap = new, !.len = n]
  <1>1. NewPackBuffer(p, n) = g
    BY DEF NewPackBuffer
  <1>2. /\ p \in PackType /\ Len(p.stack) = StackSize /\ StackSize \in Nat
        /\ p.len \in Nat /\ p.use \in Nat /\ p.pos \in Nat
        /\ p.pos <= p.len /\ p.use <= p.len
        /\ p.heap \in Seq(Byte) /\ p.stack \in Seq(Byte)
        /\ p.len > StackSize => Len(p.heap) = p.len
    BY StorageIs DEF Packed, PackType
  <1>3. /\ old \in Seq(Byte)
        /\ p.heap # <<>> => Len(old) = p.len
        /\ p.heap # <<>> => \A k \in 1 .. p.len :
                                k <= Len(p.heap) => old[k] = p.heap[k]
        /\ p.heap = <<>> => old = p.stack
    BY <1>2, ResizedIs
  <1> HIDE DEF old
  <1>4. /\ new \in Seq(Byte) /\ Len(new) = n
        /\ \A k \in 1 .. n : k <= Len(old) => new[k] = old[k]
    BY <1>3, ResizedIs
  <1> HIDE DEF new
  <1>5. /\ g \in PackType /\ g.len = n /\ g.use = p.use /\ g.pos = p.pos
        /\ g.stack = p.stack /\ g.heap = new
    BY <1>2, <1>4 DEF PackType
  <1> HIDE DEF g
  <1>6. Packed(g)
    BY <1>2, <1>4, <1>5 DEF Packed
  <1>7. ASSUME ~(OnStack(p) /\ p.heap # <<>> /\ n > StackSize),
               NEW k \in 1 .. p.use
        PROVE  Storage(g)[k] = Storage(p)[k]
    <2>1. CASE n <= StackSize
      BY <1>2, <1>5, <2>1 DEF Storage, OnStack
    <2>2. CASE n > StackSize /\ OnStack(p)
      <3>1. /\ p.heap = <<>> /\ Storage(g) = new /\ Storage(p) = p.stack
            /\ p.len <= StackSize
        BY <1>2, <1>5, <1>7, <2>2 DEF Storage, OnStack
      <3>2. k \in 1 .. n /\ k <= Len(old) /\ old = p.stack
        BY <1>2, <1>3, <3>1
      <3> QED BY <1>4, <3>1, <3>2
    <2>3. CASE n > StackSize /\ ~OnStack(p)
      <3>1. /\ Storage(g) = new /\ Storage(p) = p.heap /\ Len(p.heap) = p.len
            /\ p.len > StackSize
        BY <1>2, <1>5, <2>3 DEF Storage, OnStack
      <3>2. p.heap # <<>>
        BY <1>2, <3>1
      <3>3. k \in 1 .. n /\ k \in 1 .. p.len /\ k <= Len(old)
        BY <1>2, <1>3, <3>2
      <3>4. new[k] = old[k] /\ old[k] = p.heap[k]
        BY <1>2, <1>3, <1>4, <3>1, <3>2, <3>3
      <3> QED BY <3>1, <3>4
    <2> QED BY <1>2, <2>1, <2>2, <2>3
  <1> QED BY <1>1, <1>5, <1>6, <1>7

\* InternelAddData keeps what there was, if it does not lose it, and puts the
\* bytes d behind it.
LEMMA AddingKeeps ==
  ASSUME NEW p, Packed(p), NEW d \in Seq(Byte)
  PROVE  LET r == InternelAddData(p, d)
         IN  /\ Packed(r) /\ r.use = p.use + Len(d) /\ r.pos = p.pos
             /\ ~Loses(p, d) =>
                   \A k \in 1 .. p.use : Storage(r)[k] = Storage(p)[k]
             /\ \A k \in 1 .. Len(d) : Storage(r)[p.use + k] = d[k]
  <1> DEFINE g == IF Grows(p, d) THEN NewPackBuffer(p, NewLength(p, d)) ELSE p
             s == Overwrite(Storage(g), g.use, d)
             r == InternelAddData(p, d)
  <1>1. /\ p.len \in Nat /\ p.use \in Nat /\ p.pos \in Nat /\ p.pos <= p.len
        /\ p.use <= p.len /\ StackSize \in Nat \ {0} /\ Len(d) \in Nat
    BY StorageIs
  <1>2. /\ Packed(g) /\ g.use = p.use /\ g.pos = p.pos
        /\ g.use + Len(d) <= g.len
        /\ ~Loses(p, d) =>
              \A k \in 1 .. p.use : Storage(g)[k] = Storage(p)[k]
    <2>1. CASE Grows(p, d)
      <3> DEFINE n == NewLength(p, d)
      <3>1. n \in Nat /\ n >= p.len /\ p.use + Len(d) <= n
        <4> DEFINE l == Len(d)
        <4>1. n = (p.len + l) * 2 /\ l \in Nat
          BY <1>1 DEF NewLength
        <4> HIDE DEF n, l
        <4>2. n \in Nat /\ n >= p.len /\ p.use + l <= n
          BY ONLY <1>1, <4>1
        <4> QED BY <4>2 DEF l
      <3>2. g = NewPackBuffer(p, n)
        BY <2>1
      <3>3. ~Loses(p, d) =>
               p.use = 0 \/ ~(OnStack(p) /\ p.heap # <<>> /\ n > StackSize)
        BY <1>1, <2>1 DEF Loses
      <3> HIDE DEF n, g
      <3>4. /\ Packed(g) /\ g.len = n /\ g.use = p.use /\ g.pos = p.pos
            /\ ~(OnStack(p) /\ p.heap # <<>> /\ n > StackSize) =>
                  \A k \in 1 .. p.use : Storage(g)[k] = Storage(p)[k]
        BY <3>1, <3>2, GrowingKeeps
      <3>5. p.use = 0 => 1 .. p.use = {}
        OBVIOUS
      <3> QED BY <3>1, <3>3, <3>4, <3>5
    <2>2. CASE ~Grows(p, d)
      <3>1. g = p /\ p.use + Len(d) <= p.len
        BY <1>1, <2>2 DEF Grows
      <3> QED BY <1>1, <3>1
    <2> QED BY <2>1, <2>2
  <1>3. r = IF OnStack(g) THEN [g EXCEPT !.stack = s, !.use = @ + Len(d)]
                               ELSE [g EXCEPT !.heap = s, !.use = @ + Len(d)]
    BY DEF InternelAddData
  <1> HIDE DEF g, r
  <1>4. /\ Storage(g) \in Seq(Byte) /\ g.len <= Len(Storage(g))
        /\ g \in PackType /\ g.len \in Nat
    BY <1>2, StorageIs DEF Packed
  <1>5. /\ s \in Seq(Byte) /\ Len(s) = Len(Storage(g))
        /\ \A i \in 1 .. Len(Storage(g)) :
             s[i] = IF i \in g.use + 1 .. g.use + Len(d) THEN d[i - g.use]
                    ELSE Storage(g)[i]
    BY <1>1, <1>2, <1>4, Overwritten
  <1> HIDE DEF s
  <1>6. /\ r.use = p.use + Len(d) /\ r.pos = p.pos
        /\ Packed(r) /\ Storage(r) = s
    <2>1. CASE OnStack(g)
      <3>1. /\ r = [g EXCEPT !.stack = s, !.use = @ + Len(d)]
            /\ Storage(g) = g.stack /\ g.len <= StackSize
        BY <1>3, <2>1 DEF Storage, OnStack
      <3>2. /\ r \in PackType /\ r.len = g.len /\ r.use = p.use + Len(d)
            /\ r.pos = p.pos /\ r.heap = g.heap /\ r.stack = s
        <4>1. /\ g \in PackType /\ s \in Seq(Byte)
              /\ g.use + Len(d) \in Nat /\ g.use = p.use /\ g.pos = p.pos
          BY <1>1, <1>2, <1>4, <1>5
        <4>2. r = [g EXCEPT !.stack = s, !.use = g.use + Len(d)]
          BY <3>1
        <4> QED BY ONLY <4>1, <4>2 DEF PackType
      <3>3. Packed(r)
        BY <1>1, <1>2, <1>5, <3>1, <3>2 DEF Packed
      <3> QED BY <3>1, <3>2, <3>3 DEF Storage, OnStack
    <2>2. CASE ~OnStack(g)
      <3>1. /\ r = [g EXCEPT !.heap = s, !.use = @ + Len(d)]
            /\ Storage(g) = g.heap /\ g.len > StackSize
        BY <1>1, <1>3, <1>4, <2>2 DEF Storage, OnStack
      <3>2. /\ r \in PackType /\ r.len = g.len /\ r.use = p.use + Len(d)
            /\ r.pos = p.pos /\ r.heap = s /\ r.stack = g.stack
        <4>1. /\ g \in PackType /\ s \in Seq(Byte)
              /\ g.use + Len(d) \in Nat /\ g.use = p.use /\ g.pos = p.pos
          BY <1>1, <1>2, <1>4, <1>5
        <4>2. r = [g EXCEPT !.heap = s, !.use = g.use + Len(d)]
          BY <3>1
        <4> QED BY ONLY <4>1, <4>2 DEF PackType
      <3>3. Len(g.heap) = g.len
        BY <1>2, <3>1 DEF Packed
      <3>4. Len(s) = r.len
        BY <1>5, <3>1, <3>2, <3>3
      <3>5. Packed(r)
        BY <1>1, <1>2, <3>1, <3>2, <3>4 DEF Packed
      <3> QED BY <1>1, <3>1, <3>2, <3>5, <1>4 DEF Storage, OnStack
    <2> QED BY <2>1, <2>2
  <1>7. ~Loses(p, d) => \A k \in 1 .. p.use : s[k] = Storage(p)[k]
    <2> SUFFICES ASSUME ~Loses(p, d), NEW k \in 1 .. p.use
                 PROVE  s[k] = Storage(p)[k]
      OBVIOUS
    <2>1. k \in 1 .. Len(Storage(g)) /\ k \notin g.use + 1 .. g.use + Len(d)
      BY <1>1, <1>2, <1>4
    <2> QED BY <1>2, <1>5, <2>1
  <1>8. \A k \in 1 .. Len(d) : s[p.use + k] = d[k]
    <2> TAKE k \in 1 .. Len(d)
    <2>1. /\ p.use + k \in 1 .. Len(Storage(g))
          /\ p.use + k \in g.use + 1 .. g.use + Len(d)
          /\ (p.use + k) - g.use = k
      BY <1>1, <1>2, <1>4
    <2> QED BY <1>5, <2>1
  <1> QED BY <1>6, <1>7, <1>8 DEF r

\* w is how far the bytes d were written behind what pack p has.
Wrote(w, p, d) ==
    /\ w = [pack |-> w.pack, end |-> w.end, kept |-> w.kept]
    /\ w.end \in {"done", "thrown", "overrun"} /\ w.kept \in BOOLEAN
    /\ Packed(w.pack) /\ w.pack.pos = p.pos /\ p.use <= w.pack.use
    /\ w.kept => \A k \in 1 .. p.use : Storage(w.pack)[k] = Storage(p)[k]
    /\ w.end = "done" => w.pack.use = p.use + Len(d)
    /\ w.end = "done" /\ w.kept =>
          \A k \in 1 .. Len(d) : Storage(w.pack)[p.use + k] = d[k]

\* One more part of a value.
LEMMA WriteGoesOn ==
  ASSUME NEW p, Packed(p), NEW w, NEW d \in Seq(Byte), Wrote(w, p, d),
         NEW c \in Seq(Byte)
  PROVE  Wrote(Write(w, c), p, d \o c)
  <1> DEFINE q == w.pack
             a == InternelAddData(q, c)
             loses == Loses(q, c)
             x == Write(w, c)
             dc == d \o c
  <1>1. /\ w = [pack |-> q, end |-> w.end, kept |-> w.kept]
        /\ w.end \in {"done", "thrown", "overrun"} /\ w.kept \in BOOLEAN
        /\ Packed(q) /\ q.pos = p.pos /\ p.use <= q.use
        /\ w.kept => \A k \in 1 .. p.use : Storage(q)[k] = Storage(p)[k]
        /\ w.end = "done" => q.use = p.use + Len(d)
        /\ w.end = "done" /\ w.kept =>
              \A k \in 1 .. Len(d) : Storage(q)[p.use + k] = d[k]
    BY DEF Wrote
  <1>2. /\ Packed(a) /\ a.use = q.use + Len(c) /\ a.pos = q.pos
        /\ ~loses => \A k \in 1 .. q.use : Storage(a)[k] = Storage(q)[k]
        /\ \A k \in 1 .. Len(c) : Storage(a)[q.use + k] = c[k]
    BY <1>1, AddingKeeps
  <1>3. p.use \in Nat /\ q.use \in Nat /\ Len(c) \in Nat /\ Len(d) \in Nat
    BY <1>1, StorageIs
  <1>4. /\ dc \in Seq(Byte) /\ Len(dc) = Len(d) + Len(c)
        /\ \A k \in 1 .. Len(d) + Len(c) :
              dc[k] = IF k <= Len(d) THEN d[k] ELSE c[k - Len(d)]
    BY ConcatProperties
  <1>5. loses \in BOOLEAN
    BY DEF Loses
  <1>6. x = IF w.end # "done" THEN w
            ELSE IF Refuses(q, c) THEN [w EXCEPT !.end = "thrown"]
            ELSE IF Overruns(q, c) THEN [w EXCEPT !.end = "overrun"]
            ELSE [pack |-> a, end |-> "done", kept |-> w.kept /\ ~loses]
    BY DEF Write
  <1> HIDE DEF a, loses, x, dc, q
  <1>7. ASSUME w.end # "done", x = w PROVE Wrote(x, p, dc)
    <2>1. Wrote(w, p, dc)
      BY ONLY <1>7, Wrote(w, p, d) DEF Wrote
    <2> QED BY ONLY <1>7, <2>1
  <1>8. ASSUME NEW e \in {"thrown", "overrun"}, x = [w EXCEPT !.end = e]
        PROVE  Wrote(x, p, dc)
    <2>1. x = [pack |-> q, end |-> e, kept |-> w.kept]
      BY <1>1, <1>8
    <2> QED BY <1>1, <2>1 DEF Wrote
  <1>9. ASSUME w.end = "done",
               x = [pack |-> a, end |-> "done", kept |-> w.kept /\ ~loses]
        PROVE  Wrote(x, p, dc)
    <2>1. /\ x.pack = a /\ x.end = "done" /\ x.kept = (w.kept /\ ~loses)
          /\ x = [pack |-> x.pack, end |-> x.end, kept |-> x.kept]
          /\ x.kept \in BOOLEAN
      BY <1>1, <1>5, <1>9
    <2>2. /\ q.use = p.use + Len(d) /\ p.use <= a.use
          /\ a.use = p.use + Len(dc) /\ a.pos = p.pos
      BY <1>1, <1>2, <1>3, <1>4, <1>9
    <2>3. ASSUME x.kept, NEW k \in 1 .. p.use
          PROVE  Storage(a)[k] = Storage(p)[k]
      <3>1. k \in 1 .. q.use
        BY <1>1, <1>3
      <3> QED BY <1>1, <1>2, <2>1, <2>3, <3>1
    <2>4. ASSUME x.kept, NEW k \in 1 .. Len(dc)
          PROVE  Storage(a)[p.use + k] = dc[k]
      <3>1. CASE k <= Len(d)
        <4>1. k \in 1 .. Len(d) /\ p.use + k \in 1 .. q.use /\ dc[k] = d[k]
          BY <1>3, <1>4, <2>2, <3>1
        <4> QED BY <1>1, <1>2, <1>9, <2>1, <2>4, <4>1
      <3>2. CASE k > Len(d)
        <4>1. /\ k - Len(d) \in 1 .. Len(c) /\ dc[k] = c[k - Len(d)]
              /\ q.use + (k - Len(d)) = p.use + k
          BY <1>3, <1>4, <2>2, <3>2
        <4> QED BY <1>2, <4>1
      <3> QED BY <1>3, <3>1, <3>2
    <2>5. /\ \A k \in 1 .. p.use : x.kept => Storage(a)[k] = Storage(p)[k]
          /\ \A k \in 1 .. Len(dc) : x.kept => Storage(a)[p.use + k] = dc[k]
      BY <2>3, <2>4
    <2>6. Packed(a)
      BY <1>2
    <2> QED BY ONLY <2>1, <2>2, <2>5, <2>6 DEF Wrote
  <1>10. Wrote(x, p, dc)
    <2>1. CASE w.end # "done"
      BY ONLY <1>6, <1>7, <2>1
    <2>2. CASE w.end = "done" /\ Refuses(q, c)
      BY ONLY <1>6, <1>8, <2>2
    <2>3. CASE w.end = "done" /\ ~Refuses(q, c) /\ Overruns(q, c)
      BY ONLY <1>6, <1>8, <2>3
    <2>4. CASE w.end = "done" /\ ~Refuses(q, c) /\ ~Overruns(q, c)
      BY ONLY <1>6, <1>9, <2>4
    <2> QED BY <2>1, <2>2, <2>3, <2>4
  <1> QED BY <1>10 DEF x, dc

\* A value is written behind what there was, as far as it gets.
LEMMA AddToWrites ==
  ASSUME NEW p, Packed(p), NEW v \in Values, NEW i \in Nat
  PROVE  Wrote(AddTo(p, v, i), p, Bytes(v, i))
  <1> DEFINE w == [pack |-> p, end |-> "done", kept |-> TRUE]
             a == Mark(v)
             b == LengthField(v)
             c == Data(v, i)
             w1 == Write(w, a)
             w2 == Write(w1, b)
  <1>1. a \in Seq(Byte) /\ b \in Seq(Byte) /\ c \in Seq(Byte)
    BY FrontOf, DataOf
  <1>2. Bytes(v, i) = a \o b \o c /\ AddTo(p, v, i) = Write(w2, c)
    BY DEF Bytes, AddTo
  <1>3. Wrote(w, p, <<>>) /\ <<>> \in Seq(Byte)
    <2>1. p.use \in Nat
      BY StorageIs
    <2>2. Len(<<>>) = 0 /\ 1 .. 0 = {}
      OBVIOUS
    <2> QED BY <2>1, <2>2 DEF Wrote
  <1> HIDE DEF a, b, c, w
  <1>4. Wrote(w1, p, a)
    <2>1. Wrote(w1, p, <<>> \o a)
      BY <1>1, <1>3, WriteGoesOn
    <2>2. <<>> \o a = a
      BY <1>1
    <2> QED BY <2>1, <2>2
  <1> HIDE DEF w1
  <1>5. Wrote(w2, p, a \o b) /\ a \o b \in Seq(Byte)
    BY <1>1, <1>4, WriteGoesOn
  <1> HIDE DEF w2
  <1>6. Wrote(Write(w2, c), p, (a \o b) \o c)
    BY <1>1, <1>5, WriteGoesOn
  <1> QED BY <1>2, <1>6

\* An empty pack.
LEMMA EmptyIsSound ==
  ASSUME NEW n \in Nat
  PROVE  PackSound(Empty(n), <<>>, 0, FALSE, TRUE)
  <1> DEFINE len == IF n <= StackSize THEN StackSize ELSE n
             o == Zeros(StackSize)
             p == [len |-> len, pos |-> 0, use |-> 0, stack |-> o, heap |-> <<>>]
             r == Empty(n)
             e == [i \in 0 .. 0 |-> 0]
  <1>1. StackSize \in Nat \ {0} /\ len \in Nat /\ len >= StackSize
    BY PackAssumption
  <1>2. o \in Seq(Byte) /\ Len(o) = StackSize
    BY <1>1, Filled
  <1>3. r = IF OnStack(p) THEN p ELSE NewPackBuffer(p, p.len)
    BY DEF Empty
  <1> HIDE DEF o, len, r
  <1>4. Packed(r) /\ r.use = 0 /\ r.pos = 0
    <2>1. CASE len <= StackSize
      <3>1. r = p
        BY <1>3, <2>1 DEF OnStack
      <3> QED BY <1>1, <1>2, <2>1, <3>1 DEF Packed, PackType
    <2>2. CASE len > StackSize
      <3> DEFINE z == Resized(o, len)
      <3>1. r = [len |-> len, pos |-> 0, use |-> 0, stack |-> o, heap |-> z]
        <4>1. r = NewPackBuffer(p, len)
          BY <1>1, <1>3, <2>2 DEF OnStack
        <4> QED BY <4>1 DEF NewPackBuffer
      <3>2. z \in Seq(Byte) /\ Len(z) = len
        BY <1>1, <1>2, ResizedIs
      <3> HIDE DEF z
      <3> QED BY <1>1, <1>2, <3>1, <3>2 DEF Packed, PackType
    <2> QED BY <1>1, <2>1, <2>2
  <1>5. <<>> \in Seq(Values) /\ Len(<<>>) = 0 /\ 0 \in 0 .. 0
    OBVIOUS
  <1>6. Cuts(e, <<>>) /\ e[0] = 0
    BY NoneEnds
  <1>7. Holds(Storage(r), <<>>, e)
    BY <1>5 DEF Holds
  <1>8. Fits(r, <<>>, 0, TRUE, e)
    BY <1>4, <1>5, <1>6, <1>7 DEF Fits
  <1> HIDE DEF e
  <1> QED BY <1>4, <1>5, <1>8 DEF PackSound, r

\* A pack made of bytes holds them.
LEMMA DataIsKept ==
  ASSUME NEW d \in Seq(Byte)
  PROVE  LET r == OfData(d)
         IN  /\ Packed(r) /\ r.use = Len(d) /\ r.pos = 0
             /\ \A k \in 1 .. Len(d) : Storage(r)[k] = d[k]
  <1> DEFINE n == Len(d)
             z == Zeros(StackSize)
             p == [len |-> n, pos |-> 0, use |-> n, stack |-> z, heap |-> <<>>]
             s == Overwrite(z, 0, d)
             r == OfData(d)
  <1>1. StackSize \in Nat \ {0} /\ n \in Nat
    BY PackAssumption
  <1>2. z \in Seq(Byte) /\ Len(z) = StackSize
    BY <1>1, Filled
  <1>3. r = IF n <= StackSize THEN [p EXCEPT !.stack = s]
            ELSE [NewPackBuffer(p, n) EXCEPT !.heap = d]
    BY DEF OfData, OnStack
  <1> HIDE DEF z
  <1>4. /\ s \in Seq(Byte) /\ Len(s) = StackSize
        /\ \A i \in 1 .. StackSize :
              s[i] = IF i \in 0 + 1 .. 0 + Len(d) THEN d[i - 0] ELSE z[i]
    BY <1>2, Overwritten
  <1> HIDE DEF s, r
  <1>5. CASE n <= StackSize
    <2>1. r = [len |-> n, pos |-> 0, use |-> n, stack |-> s, heap |-> <<>>]
      BY <1>3, <1>5
    <2>2. Packed(r) /\ Storage(r) = s
      BY <1>1, <1>4, <1>5, <2>1
         DEF Packed, PackType, Storage, OnStack
    <2>3. \A k \in 1 .. n : s[k] = d[k]
      <3> TAKE k \in 1 .. n
      <3>1. k \in 1 .. StackSize /\ k \in 0 + 1 .. 0 + Len(d) /\ k - 0 = k
        BY <1>1, <1>5
      <3> QED BY <1>4, <3>1
    <2> QED BY <2>1, <2>2, <2>3 DEF r
  <1>6. CASE n > StackSize
    <2> HIDE DEF p
    <2>a. r = [NewPackBuffer(p, n) EXCEPT !.heap = d]
      BY <1>1, <1>3, <1>6
    <2>b. PICK h : NewPackBuffer(p, n) = [p EXCEPT !.heap = h, !.len = n]
      BY DEF NewPackBuffer
    <2>1. r = [len |-> n, pos |-> 0, use |-> n, stack |-> z, heap |-> d]
      BY <2>a, <2>b DEF p
    <2>2. d # <<>>
      BY <1>1, <1>6
    <2>3. Packed(r) /\ Storage(r) = d
      BY <1>1, <1>2, <1>6, <2>1, <2>2
         DEF Packed, PackType, Storage, OnStack
    <2> QED BY <2>1, <2>3 DEF r
  <1> QED BY <1>1, <1>5, <1>6

\* The values are held by every storage that begins with the same bytes.
LEMMA StillHeld ==
  ASSUME NEW vs \in Seq(Values), NEW e, Cuts(e, vs),
         NEW s, NEW q, Holds(s, vs, e),
         \A k \in 1 .. e[Len(vs)] : q[k] = s[k]
  PROVE  Holds(q, vs, e)
  <1> SUFFICES ASSUME NEW i \in 1 .. Len(vs),
                      NEW j \in 1 .. Len(Bytes(vs[i], i))
               PROVE  q[e[i - 1] + j] = Bytes(vs[i], i)[j]
    BY DEF Holds
  <1>1. vs[i] \in Values /\ i \in Nat /\ Len(vs) \in Nat
    OBVIOUS
  <1>2. Len(Bytes(vs[i], i)) \in Nat
    BY <1>1, ValueBytes
  <1>3. i - 1 \in 0 .. Len(vs) /\ i \in 0 .. Len(vs) /\ Len(vs) \in 0 .. Len(vs)
        /\ i <= Len(vs)
    BY <1>1
  <1>4. /\ e[i - 1] \in Nat /\ e[i] \in Nat /\ e[Len(vs)] \in Nat
        /\ e[i] = e[i - 1] + Len(Bytes(vs[i], i)) /\ e[i] <= e[Len(vs)]
    BY <1>3 DEF Cuts
  <1>5. e[i - 1] + j \in 1 .. e[Len(vs)]
    BY <1>2, <1>4
  <1> QED BY <1>5 DEF Holds

\* Written whole, a value is behind the others; in part, only they are sure to be
\* there, and only if nothing of it was written.
LEMMA AddIsSound ==
  ASSUME NEW p, NEW vs, NEW r, NEW sp, NEW in, PackSound(p, vs, r, sp, in),
         NEW v \in Values, NEW w, Wrote(w, p, Bytes(v, Len(vs) + 1))
  PROVE  /\ w.end = "done" =>
              PackSound(w.pack, Append(vs, v), r, sp \/ ~w.kept, in)
         /\ PackSound(w.pack, vs, r,
                      sp \/ ~(w.kept /\ w.pack.use = p.use), in)
  <1> DEFINE n == Len(vs) + 1
             d == Bytes(v, n)
             q == w.pack
             ws == Append(vs, v)
  <1>1. /\ Packed(p) /\ vs \in Seq(Values) /\ r \in 0 .. Len(vs)
        /\ ~sp => \E e : Fits(p, vs, r, in, e)
    BY DEF PackSound
  <1>2. Len(vs) \in Nat /\ n \in Nat
    BY <1>1
  <1>3. d \in Seq(Byte) /\ Len(d) \in Nat
    BY <1>2, ValueBytes
  <1>4. /\ ws \in Seq(Values) /\ Len(ws) = n /\ ws[n] = v
        /\ \A i \in 1 .. Len(vs) : ws[i] = vs[i]
        /\ r \in 0 .. Len(ws)
    BY <1>1, <1>2
  <1>5. /\ Packed(q) /\ q.pos = p.pos
        /\ w.kept => \A k \in 1 .. p.use : Storage(q)[k] = Storage(p)[k]
        /\ w.end = "done" => q.use = p.use + Len(d)
        /\ w.end = "done" /\ w.kept =>
              \A k \in 1 .. Len(d) : Storage(q)[p.use + k] = d[k]
    BY DEF Wrote
  <1> HIDE DEF d, q, ws
  <1>6. ASSUME ~sp, w.kept
        PROVE  \E e : Fits(p, vs, r, in, e) /\ Holds(Storage(q), vs, e)
    <2>1. PICK e : Fits(p, vs, r, in, e)
      BY <1>1, <1>6
    <2>2. Cuts(e, vs) /\ Holds(Storage(p), vs, e) /\ p.use = e[Len(vs)]
      BY <2>1 DEF Fits
    <2>3. \A k \in 1 .. e[Len(vs)] : Storage(q)[k] = Storage(p)[k]
      BY <1>5, <1>6, <2>2
    <2>4. Holds(Storage(q), vs, e)
      BY <1>1, <2>2, <2>3, StillHeld
    <2> QED BY <2>1, <2>4
  <1>7. ASSUME ~sp, w.kept, w.end = "done"
        PROVE  \E f : Fits(q, ws, r, in, f)
    <2>1. PICK e : Fits(p, vs, r, in, e) /\ Holds(Storage(q), vs, e)
      BY <1>6, <1>7
    <2>2. Cuts(e, vs) /\ p.use = e[Len(vs)] /\ (in => p.pos = e[r])
      BY <2>1 DEF Fits
    <2> DEFINE f == [i \in 0 .. n |->
                       IF i = n THEN e[Len(vs)] + Len(d) ELSE e[i]]
    <2>3. Cuts(f, ws)
      BY <1>1, <2>2, OneMoreEnds DEF d, ws
    <2>4. /\ \A i \in 0 .. Len(vs) : f[i] = e[i]
          /\ f[n] = e[Len(vs)] + Len(d)
      BY <1>2
    <2> HIDE DEF f
    <2>5. Holds(Storage(q), ws, f)
      <3> SUFFICES ASSUME NEW i \in 1 .. n,
                          NEW j \in 1 .. Len(Bytes(ws[i], i))
                   PROVE  Storage(q)[f[i - 1] + j] = Bytes(ws[i], i)[j]
        BY <1>4 DEF Holds
      <3>1. CASE i = n
        <4>1. i - 1 = Len(vs) /\ i - 1 \in 0 .. Len(vs) /\ Bytes(ws[i], i) = d
          BY <1>2, <1>4, <3>1 DEF d
        <4>2. f[i - 1] = p.use
          BY <2>2, <2>4, <4>1
        <4> QED BY <1>5, <1>7, <4>1, <4>2
      <3>2. CASE i # n
        <4>1. i \in 1 .. Len(vs) /\ i - 1 \in 0 .. Len(vs) /\ ws[i] = vs[i]
          BY <1>2, <1>4, <3>2
        <4> QED BY <2>1, <2>4, <4>1 DEF Holds
      <3> QED BY <3>1, <3>2
    <2>6. q.use = f[Len(ws)] /\ (in => q.pos = f[r])
      BY <1>1, <1>2, <1>4, <1>5, <1>7, <2>2, <2>4
    <2>7. Fits(q, ws, r, in, f)
      BY <2>3, <2>5, <2>6 DEF Fits
    <2> QED BY <2>7
  <1>8. ASSUME ~sp, w.kept, q.use = p.use
        PROVE  \E e : Fits(q, vs, r, in, e)
    <2>1. PICK e : Fits(p, vs, r, in, e) /\ Holds(Storage(q), vs, e)
      BY <1>6, <1>8
    <2>2. Fits(q, vs, r, in, e)
      BY <1>5, <1>8, <2>1 DEF Fits
    <2> QED BY <2>2
  <1>9. w.end = "done" => PackSound(q, ws, r, sp \/ ~w.kept, in)
    BY <1>4, <1>5, <1>7 DEF PackSound
  <1>10. PackSound(q, vs, r, sp \/ ~(w.kept /\ q.use = p.use), in)
    BY <1>1, <1>5, <1>8 DEF PackSound
  <1> QED BY <1>9, <1>10 DEF q, ws

\* A pack made of the bytes of another one holds the same values.
LEMMA ConstructIsSound ==
  ASSUME NEW p, NEW vs, NEW r, NEW sp, NEW in, PackSound(p, vs, r, sp, in)
  PROVE  PackSound(OfData(SubSeq(Storage(p), 1, p.use)), vs, 0, sp, TRUE)
  <1> DEFINE d == SubSeq(Storage(p), 1, p.use)
             q == OfData(d)
  <1>1. /\ Packed(p) /\ vs \in Seq(Values) /\ 0 \in 0 .. Len(vs)
        /\ ~sp => \E e : Fits(p, vs, r, in, e)
    BY DEF PackSound
  <1> DEFINE s == Storage(p)
             u == p.use
  <1>2. s \in Seq(Byte) /\ u \in Nat /\ u <= Len(s)
    BY <1>1, StorageIs
  <1>3. d = SubSeq(s, 1, u)
    OBVIOUS
  <1> HIDE DEF d, s, u
  <1>4. /\ d \in Seq(Byte) /\ Len(d) = u
        /\ \A k \in 1 .. u : d[k] = s[k]
    BY ONLY <1>2, <1>3
  <1>5. /\ Packed(q) /\ q.use = Len(d) /\ q.pos = 0
        /\ \A k \in 1 .. Len(d) : Storage(q)[k] = d[k]
    BY <1>4, DataIsKept
  <1> HIDE DEF q
  <1>6. ASSUME ~sp PROVE \E e : Fits(q, vs, 0, TRUE, e)
    <2>1. PICK e : Fits(p, vs, r, in, e)
      BY <1>1, <1>6
    <2>2. /\ Cuts(e, vs) /\ Holds(Storage(p), vs, e) /\ p.use = e[Len(vs)]
          /\ e[0] = 0
      BY <2>1 DEF Fits, Cuts
    <2>3. q.use = e[Len(vs)] /\ \A k \in 1 .. e[Len(vs)] :
                                   Storage(q)[k] = Storage(p)[k]
      BY <1>4, <1>5, <2>2 DEF s, u
    <2>4. Holds(Storage(q), vs, e)
      BY <1>1, <2>2, <2>3, StillHeld
    <2>5. Fits(q, vs, 0, TRUE, e)
      BY <1>5, <2>2, <2>3, <2>4 DEF Fits
    <2> QED BY <2>5
  <1>7. PackSound(q, vs, 0, sp, TRUE)
    BY <1>1, <1>5, <1>6 DEF PackSound
  <1> QED BY <1>7 DEF q, d

\* A pack that is another one but for the place it is read from is as sound, in
\* step if that place is where a value ends.
LEMMA MovingIsSound ==
  ASSUME NEW p, NEW vs, NEW r, NEW sp, NEW in, PackSound(p, vs, r, sp, in),
         NEW k \in Nat, k <= p.len, NEW t \in 0 .. Len(vs), NEW on,
         ~sp /\ on => \A e : Fits(p, vs, r, in, e) => k = e[t]
  PROVE  PackSound([p EXCEPT !.pos = k], vs, t, sp, on)
  <1> DEFINE q == [p EXCEPT !.pos = k]
  <1>1. Packed(p) /\ vs \in Seq(Values)
    BY DEF PackSound
  <1>2. /\ q \in PackType /\ q.len = p.len /\ q.use = p.use /\ q.pos = k
        /\ q.stack = p.stack /\ q.heap = p.heap
    BY <1>1 DEF Packed, PackType
  <1> HIDE DEF q
  <1>3. Packed(q) /\ Storage(q) = Storage(p)
    BY <1>1, <1>2 DEF Packed, PackSound, Storage, OnStack
  <1>4. ASSUME ~sp PROVE \E e : Fits(q, vs, t, on, e)
    <2>1. PICK e : Fits(p, vs, r, in, e)
      BY <1>4 DEF PackSound
    <2>2. on => k = e[t]
      BY <1>4, <2>1
    <2>3. Fits(q, vs, t, on, e)
      BY <1>2, <1>3, <2>1, <2>2 DEF Fits
    <2> QED BY <2>3
  <1>5. PackSound(q, vs, t, sp, on)
    BY <1>3, <1>4 DEF PackSound
  <1> QED BY <1>5 DEF q

\* The next value is v, number i.
IsAhead(p, v, i) ==
    /\ p.pos + ValueSize(v) <= p.use
    /\ \A n \in 0 .. ValueSize(v) :
          /\ Ahead(p, n) \in Seq(Byte)
          /\ Len(Ahead(p, n)) = n
          /\ \A j \in 1 .. n : Ahead(p, n)[j] = Bytes(v, i)[j]

\* The pack after it was read, and as it was before it was.
Passed(p, v) == [p EXCEPT !.pos = p.pos + ValueSize(v)]
Skipped(p, v, i) == [p EXCEPT !.pos = p.pos - Len(Bytes(v, i))]

\* What is ahead of a pack that has more values is the next one.
LEMMA AheadIs ==
  ASSUME NEW p, NEW vs, NEW r, PackSound(p, vs, r, FALSE, TRUE),
         r < Len(vs)
  PROVE  LET v == vs[r + 1]
         IN  /\ v \in Values /\ r + 1 \in 0 .. Len(vs)
             /\ IsAhead(p, v, r + 1)
             /\ PackSound(Passed(p, v), vs, r + 1, FALSE, v.kind # "ushort")
  <1> DEFINE v == vs[r + 1]
             s == Storage(p)
             b == Bytes(v, r + 1)
  <1>1. Packed(p) /\ vs \in Seq(Values) /\ r \in 0 .. Len(vs)
    BY DEF PackSound
  <1>2. PICK e : Fits(p, vs, r, TRUE, e)
    BY DEF PackSound
  <1>3. /\ Len(vs) \in Nat /\ r \in Nat /\ r + 1 \in 1 .. Len(vs)
        /\ (r + 1) - 1 = r /\ r + 1 \in 0 .. Len(vs) /\ v \in Values
        /\ Len(vs) \in 0 .. Len(vs) /\ r + 1 \in Nat /\ r + 1 <= Len(vs)
    BY <1>1
  <1>4. /\ p.use \in Nat /\ p.use <= p.len /\ p.len \in Nat /\ p.pos \in Nat
        /\ s \in Seq(Byte) /\ p.len <= Len(s) /\ Len(s) \in Nat
    BY <1>1, StorageIs
  <1>5. /\ ValueSize(v) \in Nat /\ Len(b) \in Nat /\ ValueSize(v) <= Len(b)
        /\ v.kind # "ushort" => Len(b) = ValueSize(v)
    BY <1>3, ValueBytes
  <1> HIDE DEF v, b
  <1>6. ASSUME NEW f, Fits(p, vs, r, TRUE, f)
        PROVE  /\ f[r + 1] = p.pos + Len(b) /\ f[r + 1] <= p.use
               /\ f[r + 1] \in Nat
    <2>1. Cuts(f, vs) /\ p.use = f[Len(vs)] /\ p.pos = f[r]
      BY <1>6 DEF Fits
    <2> QED BY <1>3, <2>1 DEF Cuts, b, v
  <1>7. p.pos + ValueSize(v) <= p.use /\ p.pos + ValueSize(v) \in Nat
    <2>1. e[r + 1] = p.pos + Len(b) /\ e[r + 1] <= p.use
      BY <1>2, <1>6
    <2> QED BY <1>4, <1>5, <2>1
  <1>8. \A j \in 1 .. ValueSize(v) : s[p.pos + j] = b[j]
    <2>1. Holds(s, vs, e) /\ p.pos = e[r]
      BY <1>2 DEF Fits
    <2>2. \A j \in 1 .. ValueSize(v) : j \in 1 .. Len(b)
      BY <1>5
    <2> QED BY <1>3, <2>1, <2>2 DEF Holds, b, v
  <1>9. ASSUME NEW n \in 0 .. ValueSize(v)
        PROVE  /\ Ahead(p, n) \in Seq(Byte)
               /\ Len(Ahead(p, n)) = n
               /\ \A j \in 1 .. n : Ahead(p, n)[j] = b[j]
    <2> DEFINE u == p.pos
               a == SubSeq(s, u + 1, u + n)
    <2>1. Ahead(p, n) = a
      BY DEF Ahead
    <2>2. s \in Seq(Byte) /\ u \in Nat /\ n \in Nat /\ n <= ValueSize(v)
          /\ ValueSize(v) \in Nat
      BY <1>4, <1>5
    <2>3. u + ValueSize(v) <= Len(s) /\ Len(s) \in Nat
      BY <1>4, <1>5, <1>7
    <2> HIDE DEF s, u
    <2>4. u + n <= Len(s)
      BY ONLY <2>2, <2>3
    <2>5. /\ a \in Seq(Byte) /\ Len(a) = n
          /\ \A j \in 1 .. n : a[j] = s[u + j]
      <3>1. s \in Seq(Byte)
        BY ONLY <2>2
      <3>2. u \in Nat
        BY ONLY <2>2
      <3>3. n \in Nat
        BY ONLY <2>2
      <3> QED BY ONLY <3>1, <3>2, <3>3, <2>4, Piece, Zenon
    <2> HIDE DEF a
    <2>6. \A j \in 1 .. n : j \in 1 .. ValueSize(v)
      BY ONLY <2>2
    <2>7. \A j \in 1 .. ValueSize(v) : s[u + j] = b[j]
      BY <1>8 DEF u, s
    <2> QED BY <2>1, <2>5, <2>6, <2>7
  <1>10. IsAhead(p, v, r + 1)
    BY <1>7, <1>9 DEF IsAhead, b
  <1>11. PackSound(Passed(p, v), vs, r + 1, FALSE, v.kind # "ushort")
    <2> DEFINE k == p.pos + ValueSize(v)
               t == r + 1
               on == v.kind # "ushort"
               sp == FALSE
               in == TRUE
    <2>1. k \in Nat /\ k <= p.len /\ t \in 0 .. Len(vs)
      BY <1>3, <1>4, <1>7
    <2>2. PackSound(p, vs, r, sp, in)
      OBVIOUS
    <2>3. ~sp /\ on => \A f : Fits(p, vs, r, in, f) => k = f[t]
      BY <1>5, <1>6
    <2> HIDE DEF k, t, on, sp, in
    <2>4. PackSound([p EXCEPT !.pos = k], vs, t, sp, on)
      BY ONLY <2>1, <2>2, <2>3, MovingIsSound
    <2> QED BY <2>4 DEF k, t, on, sp, Passed
  <1> QED BY <1>3, <1>10, <1>11 DEF v

\* Before the value read last the others were read.
LEMMA SkipIsSound ==
  ASSUME NEW p, NEW vs, NEW r, PackSound(p, vs, r, FALSE, TRUE), r > 0
  PROVE  PackSound(Skipped(p, vs[r], r), vs, r - 1, FALSE, TRUE)
  <1> DEFINE l == Len(Bytes(vs[r], r))
             k == p.pos - l
             t == r - 1
  <1>1. Packed(p) /\ vs \in Seq(Values) /\ r \in 0 .. Len(vs)
    BY DEF PackSound
  <1>2. PICK e : Fits(p, vs, r, TRUE, e)
    BY DEF PackSound
  <1>3. r \in 1 .. Len(vs) /\ t \in 0 .. Len(vs) /\ vs[r] \in Values /\ r \in Nat
    BY <1>1
  <1>4. l \in Nat
    BY <1>3, ValueBytes
  <1>5. p.pos \in Nat /\ p.len \in Nat /\ p.pos <= p.len
    BY <1>1, StorageIs
  <1> HIDE DEF l
  <1>6. ASSUME NEW f, Fits(p, vs, r, TRUE, f) PROVE k = f[t] /\ f[t] \in Nat
    <2>1. Cuts(f, vs) /\ p.pos = f[r]
      BY <1>6 DEF Fits
    <2>2. f[r] = f[t] + l /\ f[t] \in Nat
      BY <1>3, <2>1 DEF Cuts, l
    <2> QED BY <1>4, <2>1, <2>2
  <1>7. k \in Nat /\ k <= p.len
    <2>1. k \in Nat
      BY <1>2, <1>6
    <2> QED BY <1>4, <1>5, <2>1
  <1> HIDE DEF k, t
  <1>8. PackSound([p EXCEPT !.pos = k], vs, t, FALSE, TRUE)
    <2> DEFINE sp == FALSE
               in == TRUE
    <2>1. PackSound(p, vs, r, sp, in)
      OBVIOUS
    <2>2. ~sp /\ in => \A f : Fits(p, vs, r, in, f) => k = f[t]
      BY <1>6
    <2>3. t \in 0 .. Len(vs)
      BY <1>3
    <2> HIDE DEF sp, in
    <2>4. PackSound([p EXCEPT !.pos = k], vs, t, sp, in)
      BY ONLY <1>7, <2>1, <2>2, <2>3, MovingIsSound
    <2> QED BY <2>4 DEF sp, in
  <1> QED BY <1>8 DEF k, t, l, Skipped

\* Reading it throws nothing and answers what was written.
LEMMA ReadIsSound ==
  ASSUME NEW p, NEW vs, NEW r, PackSound(p, vs, r, FALSE, TRUE),
         r < Len(vs)
  PROVE  LET v == vs[r + 1]
         IN  /\ ~Throws(p, v) /\ Reads(p, v, r + 1)
             /\ PackSound(Passed(p, v), vs, r + 1, FALSE, v.kind # "ushort")
  <1> DEFINE v == vs[r + 1]
             i == r + 1
             b == Bytes(v, i)
             a(n) == Ahead(p, n)
  <1>1. /\ v \in Values /\ i \in 0 .. Len(vs) /\ p.pos + ValueSize(v) <= p.use
        /\ \A n \in 0 .. ValueSize(v) :
              /\ a(n) \in Seq(Byte) /\ Len(a(n)) = n
              /\ \A j \in 1 .. n : a(n)[j] = b[j]
        /\ PackSound(Passed(p, v), vs, i, FALSE, v.kind # "ushort")
    <2>1. /\ v \in Values /\ i \in 0 .. Len(vs) /\ IsAhead(p, v, i)
          /\ PackSound(Passed(p, v), vs, i, FALSE, v.kind # "ushort")
      BY AheadIs
    <2> QED BY <2>1 DEF IsAhead
  <1>2. i \in Nat /\ p.use <= p.len /\ p.use \in Nat /\ p.len \in Nat
        /\ p.pos \in Nat
    <2>1. Packed(p)
      BY DEF PackSound
    <2>2. p.use <= p.len /\ p.use \in Nat /\ p.len \in Nat /\ p.pos \in Nat
      BY ONLY <2>1 DEF Packed, PackType
    <2>3. i \in Nat
      <3> HIDE DEF i
      <3> QED BY ONLY <1>1
    <2> QED BY <2>2, <2>3
  <1>3. IntSize \in Nat /\ v.n \in Nat /\ v.kind \in Kinds
    BY <1>1, PackAssumption
  <1>4. /\ ValueSize(v) \in Nat
        /\ Marked(v) =>
             /\ ValueSize(v) = 2 * IntSize + v.n
             /\ \A j \in 1 .. IntSize : b[j] = <<v.kind, 0, 0, j>>
             /\ \A j \in 1 .. IntSize :
                   b[IntSize + j] = <<"length", 0, v.n, j>>
             /\ \A j \in 1 .. v.n : b[2 * IntSize + j] = <<"data", i, 0, j>>
        /\ ~Marked(v) => \A j \in 1 .. ValueSize(v) : b[j] = <<"data", i, 0, j>>
    BY <1>1, <1>2, ValueBytes
  <1> HIDE DEF v, i, b, a
  <1>5. CASE ~Marked(v)
    <2>1. ~Throws(p, v)
      <3>1. CASE v.kind = "raw"
        <4>1. ValueSize(v) = v.n
          BY <3>1 DEF ValueSize
        <4> QED BY <1>1, <1>2, <1>3, <3>1, <4>1 DEF Throws
      <3>2. CASE v.kind \in {"uchar", "int", "ushort"}
        BY <1>1, <1>2, <1>4, <3>2 DEF Throws
      <3> QED BY <1>3, <1>5, <3>1, <3>2 DEF Kinds, Marked
    <2>2. Reads(p, v, i)
      <3>1. \A j \in 1 .. ValueSize(v) :
               a(ValueSize(v))[j] = <<"data", i, 0, j>>
        <4>1. ValueSize(v) \in 0 .. ValueSize(v)
          BY <1>4
        <4> QED BY <1>1, <1>4, <1>5, <4>1
      <3>2. \A j \in 0 + 1 .. ValueSize(v) : j \in 1 .. ValueSize(v) /\ j - 0 = j
        BY <1>4
      <3> QED BY <1>5, <3>1, <3>2 DEF Reads, a
    <2> QED BY <1>1, <2>1, <2>2 DEF v, i
  <1>6. CASE Marked(v)
    <2>1. /\ v.kind \in {"str", "mem"} /\ ValueSize(v) = 2 * IntSize + v.n
          /\ IntSize \in 0 .. ValueSize(v)
          /\ ValueSize(v) \in 0 .. ValueSize(v)
      BY <1>3, <1>4, <1>6 DEF Marked
    <2>2. Ahead(p, IntSize) = Number(v.kind, 0, 0, IntSize)
      <3>1. /\ a(IntSize) \in Seq(Byte) /\ Len(a(IntSize)) = IntSize
            /\ \A j \in 1 .. IntSize : a(IntSize)[j] = <<v.kind, 0, 0, j>>
        BY <1>1, <1>4, <1>6, <2>1
      <3> DEFINE d == Number(v.kind, 0, 0, IntSize)
                 c == a(IntSize)
      <3>2. /\ d \in Seq(Byte) /\ Len(d) = IntSize
            /\ \A j \in 1 .. IntSize : d[j] = <<v.kind, 0, 0, j>>
        BY <1>3, <2>1, MarkIs
      <3>3. /\ c \in Seq(Byte) /\ Len(c) = IntSize
            /\ \A j \in 1 .. IntSize : c[j] = <<v.kind, 0, 0, j>>
        BY <3>1
      <3> HIDE DEF d, c
      <3>4. c = d
        BY <3>2, <3>3, SeqEqual
      <3> QED BY <3>4 DEF c, d, a
    <2>3. ~Throws(p, v)
      <3>1. /\ ~(p.pos + 2 * IntSize > p.use)
            /\ ~(p.pos + ValueSize(v) > p.len)
        <4> DEFINE z == ValueSize(v)
        <4>1. /\ z \in Nat /\ z = 2 * IntSize + v.n /\ p.pos + z <= p.use
              /\ 2 * IntSize \in Nat /\ 2 * IntSize <= z
          BY <1>1, <1>3, <1>4, <2>1
        <4> HIDE DEF z
        <4>2. ~(p.pos + 2 * IntSize > p.use) /\ ~(p.pos + z > p.len)
          BY ONLY <1>2, <4>1
        <4> QED BY <4>2 DEF z
      <3> QED BY <2>1, <2>2, <3>1 DEF Throws
    <2> DEFINE d == a(ValueSize(v))
               n == 2 * IntSize
    <2>4. /\ d \in Seq(Byte) /\ Len(d) = ValueSize(v)
          /\ \A j \in 1 .. ValueSize(v) : d[j] = b[j]
      BY <1>1, <2>1
    <2> HIDE DEF d
    <2>5. ASSUME NEW j \in n + 1 .. ValueSize(v)
          PROVE  d[j] = <<"data", i, 0, j - n>>
      <3>1. j \in 1 .. ValueSize(v) /\ j - n \in 1 .. v.n
            /\ 2 * IntSize + (j - n) = j
        BY <1>3, <2>1
      <3> QED BY <1>4, <1>6, <2>4, <3>1
    <2>6. SubSeq(d, IntSize + 1, n) = Number("length", 0, v.n, IntSize)
      <3> DEFINE c == SubSeq(d, IntSize + 1, IntSize + IntSize)
                 w == Number("length", 0, v.n, IntSize)
      <3>1. /\ w \in Seq(Byte) /\ Len(w) = IntSize
            /\ \A j \in 1 .. IntSize : w[j] = <<"length", 0, v.n, j>>
        BY <1>3, LengthIs
      <3> HIDE DEF w
      <3>2. IntSize + IntSize <= Len(d) /\ n = IntSize + IntSize
            /\ \A j \in 1 .. IntSize : IntSize + j \in 1 .. ValueSize(v)
        BY <1>3, <2>1, <2>4
      <3>3. /\ c \in Seq(Byte) /\ Len(c) = IntSize
            /\ \A j \in 1 .. IntSize : c[j] = d[IntSize + j]
        BY <1>3, <2>4, <3>2, Piece
      <3> HIDE DEF c
      <3>4. \A j \in 1 .. IntSize : c[j] = <<"length", 0, v.n, j>>
        <4> SUFFICES ASSUME NEW j \in 1 .. IntSize
                     PROVE  c[j] = <<"length", 0, v.n, j>>
          OBVIOUS
        <4>1. c[j] = d[IntSize + j] /\ IntSize + j \in 1 .. ValueSize(v)
          BY <3>2, <3>3
        <4>2. d[IntSize + j] = b[IntSize + j]
          BY <2>4, <4>1
        <4>3. b[IntSize + j] = <<"length", 0, v.n, j>>
          BY <1>4, <1>6
        <4> QED BY <4>1, <4>2, <4>3
      <3>5. c = w
        BY <3>1, <3>3, <3>4, SeqEqual
      <3> QED BY <3>2, <3>5 DEF c, w
    <2>7. Reads(p, v, i)
      BY <1>6, <2>5, <2>6 DEF Reads, d, a
    <2> QED BY <1>1, <2>3, <2>7 DEF v, i
  <1> QED BY <1>5, <1>6

-----------------------------------------------------------------------------
(* The steps. *)

\* A step that leaves one pack sound and the others as they are.
LEMMA OnePackStep ==
  ASSUME PackInv, NEW x \in Packs, NEW p, NEW vs, NEW r,
         NEW sp \in BOOLEAN, NEW in \in BOOLEAN, PackSound(p, vs, r, sp, in),
         pack' = [pack EXCEPT ![x] = p],
         written' = [written EXCEPT ![x] = vs],
         read' = [read EXCEPT ![x] = r],
         spoilt' = Put(spoilt, x, sp), instep' = Put(instep, x, in),
         overrun' \in BOOLEAN, writes' \in Nat
  PROVE  PackInv'
  <1>1. /\ pack = [y \in Packs |-> pack[y]]
        /\ written = [y \in Packs |-> written[y]]
        /\ read = [y \in Packs |-> read[y]]
        /\ spoilt \subseteq Packs /\ instep \subseteq Packs
    BY DEF PackInv
  <1>2. /\ DOMAIN pack' = Packs /\ DOMAIN written' = Packs
        /\ DOMAIN read' = Packs
        /\ pack' = [y \in Packs |-> pack'[y]]
        /\ written' = [y \in Packs |-> written'[y]]
        /\ read' = [y \in Packs |-> read'[y]]
    BY <1>1
  <1>3. spoilt' \subseteq Packs /\ instep' \subseteq Packs
    BY <1>1 DEF Put
  <1>4. ASSUME NEW y \in Packs
        PROVE  PackSound(pack'[y], written'[y], read'[y],
                         y \in spoilt', y \in instep')
    <2>1. CASE y = x
      <3>1. pack'[y] = p /\ written'[y] = vs /\ read'[y] = r
        BY <1>1, <2>1
      <3>2. (y \in spoilt') = sp /\ (y \in instep') = in
        BY <2>1 DEF Put
      <3> QED BY ONLY <3>1, <3>2, PackSound(p, vs, r, sp, in)
    <2>2. CASE y # x
      <3>1. pack'[y] = pack[y] /\ written'[y] = written[y] /\ read'[y] = read[y]
        BY <1>1, <2>2
      <3>2. (y \in spoilt') = (y \in spoilt) /\ (y \in instep') = (y \in instep)
        BY <2>2 DEF Put
      <3>3. PackSound(pack[y], written[y], read[y], y \in spoilt, y \in instep)
        BY DEF PackInv
      <3> QED BY ONLY <3>1, <3>2, <3>3
    <2> QED BY <2>1, <2>2
  <1> QED BY <1>2, <1>3, <1>4 DEF PackInv

\* What is kept is replaced by itself.
LEMMA Kept ==
  ASSUME PackInv, NEW x \in Packs
  PROVE  /\ written = [written EXCEPT ![x] = written[x]]
         /\ read = [read EXCEPT ![x] = read[x]]
         /\ PackSound(pack[x], written[x], read[x], x \in spoilt, x \in instep)
         /\ spoilt = Put(spoilt, x, x \in spoilt)
         /\ instep = Put(instep, x, x \in instep)
         /\ overrun \in BOOLEAN /\ writes \in Nat
  <1>1. \A S : S = Put(S, x, x \in S)
    <2> TAKE S
    <2>1. CASE x \in S
      BY <2>1 DEF Put
    <2>2. CASE x \notin S
      BY <2>2 DEF Put
    <2> QED BY <2>1, <2>2
  <1> QED BY <1>1 DEF PackInv

LEMMA AddStep ==
  ASSUME PackInv, NEW x \in Packs, NEW v \in Values, Add(x, v), writes' \in Nat
  PROVE  PackInv'
  <1> DEFINE p == pack[x]
             vs == written[x]
             i == Len(vs) + 1
             w == AddTo(p, v, i)
             sp == x \in spoilt
             in == x \in instep
  <1>1. PackSound(p, vs, read[x], sp, in)
    BY Kept
  <1>2. Packed(p) /\ i \in Nat
    BY <1>1 DEF PackSound
  <1>3. Wrote(w, p, Bytes(v, i))
    BY <1>2, AddToWrites
  <1>4. /\ w.end \in {"done", "thrown", "overrun"} /\ w.kept \in BOOLEAN
    BY <1>3 DEF Wrote
  <1> HIDE DEF w
  <1>5. /\ w.end = "done" =>
             PackSound(w.pack, Append(vs, v), read[x], sp \/ ~w.kept, in)
        /\ PackSound(w.pack, vs, read[x],
                     sp \/ ~(w.kept /\ w.pack.use = p.use), in)
    BY <1>1, <1>3, AddIsSound
  <1>6. /\ UNCHANGED <<read, instep>>
        /\ IF w.end = "overrun"
           THEN overrun' = TRUE /\ UNCHANGED <<pack, written, spoilt>>
           ELSE /\ pack' = [pack EXCEPT ![x] = w.pack]
                /\ written' = [written EXCEPT ![x] =
                                 IF w.end = "done" THEN Append(@, v) ELSE @]
                /\ spoilt' = IF w.kept /\ (w.end = "done" \/ w.pack.use = p.use)
                             THEN spoilt ELSE spoilt \cup {x}
                /\ UNCHANGED overrun
    BY DEF Add, w
  <1>7. /\ read' = [read EXCEPT ![x] = read[x]] /\ instep' = Put(instep, x, in)
        /\ in \in BOOLEAN
    BY <1>6, Kept
  <1>8. CASE w.end = "overrun"
    BY <1>6, <1>8 DEF PackInv
  <1>9. CASE w.end = "done"
    <2> DEFINE on == sp \/ ~w.kept
               q == w.pack
               ws == Append(vs, v)
    <2>1. PackSound(q, ws, read[x], on, in)
      BY <1>5, <1>9
    <2>2. /\ pack' = [pack EXCEPT ![x] = q] /\ written' = [written EXCEPT ![x] = ws]
          /\ overrun' \in BOOLEAN
      BY <1>6, <1>9, Kept
    <2>3. spoilt' = Put(spoilt, x, on) /\ on \in BOOLEAN
      BY <1>4, <1>6, <1>9 DEF Put
    <2> HIDE DEF on, q, ws, in
    <2> QED BY <1>7, <2>1, <2>2, <2>3, OnePackStep
  <1>10. CASE w.end = "thrown"
    <2> DEFINE on == sp \/ ~(w.kept /\ w.pack.use = p.use)
               q == w.pack
    <2>1. PackSound(q, vs, read[x], on, in)
      BY <1>5
    <2>2. /\ pack' = [pack EXCEPT ![x] = q] /\ written' = [written EXCEPT ![x] = vs]
          /\ overrun' \in BOOLEAN
      BY <1>6, <1>10, Kept
    <2>3. spoilt' = Put(spoilt, x, on) /\ on \in BOOLEAN
      BY <1>4, <1>6, <1>10 DEF Put
    <2> HIDE DEF on, q, vs, in
    <2> QED BY <1>7, <2>1, <2>2, <2>3, OnePackStep
  <1> QED BY <1>4, <1>8, <1>9, <1>10

LEMMA ConstructStep ==
  ASSUME PackInv, NEW x \in Packs, NEW y \in Packs, Construct(x, y),
         writes' \in Nat
  PROVE  PackInv'
  <1> DEFINE p == pack[y]
             q == OfData(SubSeq(Storage(p), 1, p.use))
             ws == written[y]
             r == read[y]
             sp == y \in spoilt
             in == y \in instep
  <1>1. /\ pack' = [pack EXCEPT ![x] = q]
        /\ written' = [written EXCEPT ![x] = ws]
        /\ read' = [read EXCEPT ![x] = 0]
        /\ spoilt' = Put(spoilt, x, sp) /\ sp \in BOOLEAN
        /\ instep' = Put(instep, x, TRUE) /\ overrun' \in BOOLEAN
    BY Kept DEF Construct, Put
  <1>2. PackSound(p, ws, r, sp, in)
    BY Kept
  <1> HIDE DEF p, ws, r, sp, in
  <1>3. PackSound(q, ws, 0, sp, TRUE)
    BY <1>2, ConstructIsSound
  <1> HIDE DEF q
  <1> QED BY <1>1, <1>3, OnePackStep

LEMMA AssignStep ==
  ASSUME PackInv, NEW x \in Packs, NEW y \in Packs, Assign(x, y), writes' \in Nat
  PROVE  PackInv'
  <1> DEFINE p == pack[y]
             ws == written[y]
             r == read[y]
             sp == y \in spoilt
             in == y \in instep
  <1>1. PackSound(p, ws, r, sp, in)
    BY Kept
  <1>2. PICK h \in {pack[x].heap, <<>>} :
           pack' = [pack EXCEPT ![x] = Assigned([@ EXCEPT !.heap = h], pack[y])]
    BY DEF Assign
  <1>3. h \in Seq(Byte)
    <2>1. pack[x] \in PackType
      BY Kept DEF PackSound, Packed
    <2>2. pack[x].heap \in Seq(Byte) /\ <<>> \in Seq(Byte)
      BY ONLY <2>1 DEF PackType
    <2> HIDE DEF p
    <2>3. h = pack[x].heap \/ h = <<>>
      BY <1>2
    <2> QED BY ONLY <2>2, <2>3
  <1> DEFINE m == IF p.heap = <<>> THEN h ELSE Resized(p.heap, p.len)
             q == [p EXCEPT !.heap = m]
  <1>4. Assigned([pack[x] EXCEPT !.heap = h], p) = q
    <2>1. pack[x] \in PackType
      BY Kept DEF PackSound, Packed
    <2>2. [pack[x] EXCEPT !.heap = h].heap = h
      BY <2>1 DEF PackType
    <2> QED BY <2>2 DEF Assigned
  <1>5. /\ written' = [written EXCEPT ![x] = ws] /\ read' = [read EXCEPT ![x] = r]
        /\ spoilt' = Put(spoilt, x, sp) /\ instep' = Put(instep, x, in)
        /\ sp \in BOOLEAN /\ in \in BOOLEAN /\ overrun' \in BOOLEAN
        /\ pack' = [pack EXCEPT ![x] = q]
    <2>1. DOMAIN pack = Packs /\ pack = [z \in Packs |-> pack[z]]
      BY DEF PackInv
    <2>2. pack' = [pack EXCEPT ![x] = q]
      BY <1>2, <1>4, <2>1
    <2>3. /\ written' = [written EXCEPT ![x] = written[y]]
          /\ read' = [read EXCEPT ![x] = read[y]]
          /\ spoilt' = Put(spoilt, x, y \in spoilt)
          /\ instep' = Put(instep, x, y \in instep) /\ UNCHANGED overrun
      BY DEF Assign
    <2>4. overrun' \in BOOLEAN /\ sp \in BOOLEAN /\ in \in BOOLEAN
      BY <2>3, Kept
    <2> QED BY <2>2, <2>3, <2>4
  <1> HIDE DEF p, ws, r, sp, in
  <1>6. Packed(p) /\ ws \in Seq(Values) /\ r \in 0 .. Len(ws)
    BY <1>1 DEF PackSound
  <1>7. /\ p \in PackType /\ p.heap \in Seq(Byte) /\ p.len \in Nat /\ p.use \in Nat
        /\ p.use <= p.len /\ StackSize \in Nat
        /\ p.len > StackSize => p.heap # <<>> /\ Len(p.heap) = p.len
    <2>1. /\ p \in PackType /\ p.heap \in Seq(Byte) /\ p.len \in Nat
          /\ p.use \in Nat /\ p.use <= p.len /\ StackSize \in Nat
          /\ p.len > StackSize => Len(p.heap) = p.len
      BY <1>6, StorageIs DEF Packed, PackType
    <2> QED BY <2>1
  <1>8. /\ m \in Seq(Byte)
        /\ p.len > StackSize => Len(m) = p.len
        /\ p.len > StackSize => \A k \in 1 .. p.len : m[k] = p.heap[k]
    <2>1. /\ Resized(p.heap, p.len) \in Seq(Byte)
          /\ Len(Resized(p.heap, p.len)) = p.len
          /\ \A k \in 1 .. p.len :
                k <= Len(p.heap) => Resized(p.heap, p.len)[k] = p.heap[k]
      BY <1>7, ResizedIs
    <2> QED BY <1>3, <1>7, <2>1
  <1> HIDE DEF m
  <1>9. /\ q \in PackType /\ q.len = p.len /\ q.use = p.use /\ q.pos = p.pos
        /\ q.stack = p.stack /\ q.heap = m
    BY <1>7, <1>8 DEF PackType
  <1> HIDE DEF q
  <1>10. Packed(q) /\ \A k \in 1 .. p.use : Storage(q)[k] = Storage(p)[k]
    BY <1>6, <1>7, <1>8, <1>9 DEF Packed, Storage, OnStack
  <1>11. ASSUME ~sp PROVE \E e : Fits(q, ws, r, in, e)
    <2>1. PICK e : Fits(p, ws, r, in, e)
      BY <1>1, <1>11 DEF PackSound
    <2>2. /\ Cuts(e, ws) /\ Holds(Storage(p), ws, e) /\ p.use = e[Len(ws)]
          /\ in => p.pos = e[r]
      BY <2>1 DEF Fits
    <2>3. Holds(Storage(q), ws, e)
      <3>1. \A k \in 1 .. e[Len(ws)] : Storage(q)[k] = Storage(p)[k]
        BY <1>10, <2>2
      <3> QED BY <1>6, <2>2, <3>1, StillHeld
    <2>4. Fits(q, ws, r, in, e)
      BY <1>9, <2>2, <2>3 DEF Fits
    <2> QED BY <2>4
  <1>12. PackSound(q, ws, r, sp, in)
    BY <1>6, <1>10, <1>11 DEF PackSound
  <1> QED BY <1>5, <1>12, OnePackStep

LEMMA ExtractStep ==
  ASSUME PackInv, NEW x \in Packs, Extract(x), writes' \in Nat
  PROVE  PackInv'
  <1> DEFINE p == pack[x]
             vs == written[x]
             i == read[x] + 1
             v == vs[i]
             q == Passed(p, v)
             sp == x \in spoilt
             in == v.kind # "ushort"
  <1>1. /\ pack' = [pack EXCEPT ![x].pos = @ + ValueSize(v)]
        /\ read' = [read EXCEPT ![x] = i] /\ instep' = Put(instep, x, in)
        /\ UNCHANGED <<written, spoilt, overrun>>
        /\ x \in instep /\ x \notin spoilt /\ read[x] < Len(vs)
    BY Kept DEF Extract, Ready, PackInv
  <1>2. /\ pack' = [pack EXCEPT ![x] = q] /\ written' = [written EXCEPT ![x] = vs]
        /\ spoilt' = Put(spoilt, x, sp) /\ overrun' \in BOOLEAN
    BY <1>1, Kept DEF Passed
  <1>3. PackSound(p, vs, read[x], FALSE, TRUE)
    <2>1. PackSound(p, vs, read[x], sp, x \in instep) /\ sp = FALSE
          /\ (x \in instep) = TRUE
      BY <1>1, Kept
    <2> QED BY <2>1 DEF PackSound
  <1>4. PackSound(q, vs, i, FALSE, in)
    <2> DEFINE r == read[x]
    <2>1. r < Len(vs) /\ PackSound(p, vs, r, FALSE, TRUE)
      BY <1>1, <1>3
    <2> HIDE DEF p, vs, r
    <2>2. PackSound(Passed(p, vs[r + 1]), vs, r + 1, FALSE,
                    vs[r + 1].kind # "ushort")
      BY ONLY <2>1, ReadIsSound, Zenon
    <2> QED BY <2>2 DEF r
  <1>5. sp = FALSE /\ sp \in BOOLEAN /\ in \in BOOLEAN
    BY <1>1
  <1> HIDE DEF q, vs, i, sp, in
  <1>6. PackSound(q, vs, i, sp, in)
    BY ONLY <1>4, <1>5
  <1> QED BY <1>1, <1>2, <1>5, <1>6, OnePackStep

LEMMA SkipStep ==
  ASSUME PackInv, NEW x \in Packs, SkipReadPos(x), writes' \in Nat
  PROVE  PackInv'
  <1> DEFINE p == pack[x]
             vs == written[x]
             r == read[x]
             q == Skipped(p, vs[r], r)
             i == r - 1
             sp == x \in spoilt
             in == x \in instep
  <1>1. /\ pack' = [pack EXCEPT ![x].pos = @ - Len(Bytes(vs[r], r))]
        /\ read' = [read EXCEPT ![x] = i]
        /\ UNCHANGED <<written, spoilt, instep, overrun>>
        /\ x \in instep /\ x \notin spoilt /\ r > 0
    BY Kept DEF SkipReadPos, PackInv
  <1>2. /\ pack' = [pack EXCEPT ![x] = q] /\ written' = [written EXCEPT ![x] = vs]
        /\ spoilt' = Put(spoilt, x, sp) /\ instep' = Put(instep, x, in)
        /\ overrun' \in BOOLEAN
    BY <1>1, Kept DEF Skipped
  <1>3. PackSound(p, vs, r, FALSE, TRUE)
    <2>1. PackSound(p, vs, r, sp, in) /\ sp = FALSE /\ in = TRUE
      BY <1>1, Kept
    <2> QED BY <2>1 DEF PackSound
  <1>4. PackSound(q, vs, i, FALSE, TRUE)
    <2>1. r > 0
      BY <1>1
    <2> HIDE DEF p, vs, r
    <2> QED BY ONLY <1>3, <2>1, SkipIsSound, Zenon
  <1>5. sp = FALSE /\ in = TRUE /\ sp \in BOOLEAN /\ in \in BOOLEAN
    BY <1>1
  <1> HIDE DEF q, vs, i, sp, in
  <1>6. PackSound(q, vs, i, sp, in)
    BY ONLY <1>4, <1>5
  <1> QED BY <1>1, <1>2, <1>5, <1>6, OnePackStep

LEMMA ResetStep ==
  ASSUME PackInv, NEW x \in Packs, Reset(x), writes' \in Nat
  PROVE  PackInv'
  <1> DEFINE p == pack[x]
             q == [p EXCEPT !.pos = 0]
             vs == written[x]
             sp == x \in spoilt
             in == x \in instep
             on == TRUE
  <1>1. /\ pack' = [pack EXCEPT ![x] = q] /\ written' = [written EXCEPT ![x] = vs]
        /\ read' = [read EXCEPT ![x] = 0]
        /\ spoilt' = Put(spoilt, x, sp) /\ instep' = Put(instep, x, on)
        /\ overrun' \in BOOLEAN
    BY Kept DEF Reset, Put
  <1>2. PackSound(p, vs, read[x], sp, in) /\ sp \in BOOLEAN /\ on \in BOOLEAN
    BY Kept
  <1> HIDE DEF sp, in, on, vs, p
  <1>3. Packed(p) /\ 0 \in 0 .. Len(vs)
    BY <1>2 DEF PackSound
  <1>4. 0 \in Nat /\ 0 <= p.len
    BY <1>3, StorageIs
  <1>5. ~sp /\ on => \A e : Fits(p, vs, read[x], in, e) => 0 = e[0]
    BY DEF Fits, Cuts
  <1>6. PackSound(q, vs, 0, sp, on)
    BY ONLY <1>2, <1>3, <1>4, <1>5, MovingIsSound
  <1> HIDE DEF q
  <1> QED BY <1>1, <1>2, <1>6, OnePackStep

\* An empty pack is in step if it is read from the start.
LEMMA EmptyUseStep ==
  ASSUME PackInv, NEW x \in Packs, EmptyUse(x), writes' \in Nat
  PROVE  PackInv'
  <1> DEFINE p == pack[x]
             q == [p EXCEPT !.use = 0]
             sp == FALSE
             in == p.pos = 0
             vs == <<>>
             e == [i \in 0 .. 0 |-> 0]
  <1>1. /\ pack' = [pack EXCEPT ![x] = q] /\ written' = [written EXCEPT ![x] = vs]
        /\ read' = [read EXCEPT ![x] = 0]
        /\ spoilt' = Put(spoilt, x, sp) /\ instep' = Put(instep, x, in)
        /\ sp \in BOOLEAN /\ in \in BOOLEAN /\ overrun' \in BOOLEAN
    BY Kept DEF EmptyUse, Put
  <1>2. Packed(p)
    BY Kept DEF PackSound
  <1> HIDE DEF p
  <1>3. /\ Packed(q) /\ q.use = 0 /\ q.pos = p.pos
    BY <1>2, StorageIs DEF Packed, PackType
  <1>4. vs \in Seq(Values) /\ Len(vs) = 0 /\ 0 \in 0 .. Len(vs)
    OBVIOUS
  <1> HIDE DEF q
  <1>5. Holds(Storage(q), vs, e)
    BY <1>4 DEF Holds
  <1>6. Cuts(e, vs) /\ e[0] = 0
    BY NoneEnds
  <1> HIDE DEF e, vs
  <1>7. Fits(q, vs, 0, in, e)
    BY <1>3, <1>4, <1>5, <1>6 DEF Fits
  <1>8. PackSound(q, vs, 0, sp, in)
    BY <1>3, <1>4, <1>7 DEF PackSound
  <1> HIDE DEF in, sp
  <1> QED BY <1>1, <1>8, OnePackStep

LEMMA PacksBegin ==
  ASSUME PackInit
  PROVE  PackInv
  <1>1. /\ pack \in [Packs -> {Empty(n) : n \in Lengths}]
        /\ written = [x \in Packs |-> <<>>] /\ read = [x \in Packs |-> 0]
        /\ spoilt = {} /\ instep = Packs /\ overrun = FALSE /\ writes \in Nat
    BY PackAssumption DEF PackInit
  <1>2. ASSUME NEW x \in Packs
        PROVE  PackSound(pack[x], written[x], read[x],
                         x \in spoilt, x \in instep)
    <2>1. PICK n \in Lengths : pack[x] = Empty(n)
      BY <1>1
    <2>2. n \in Nat
      BY PackAssumption
    <2>3. PackSound(Empty(n), <<>>, 0, FALSE, TRUE)
      BY <2>2, EmptyIsSound
    <2>4. /\ written[x] = <<>> /\ read[x] = 0
          /\ (x \in spoilt) = FALSE /\ (x \in instep) = TRUE
      BY <1>1
    <2> QED BY <2>1, <2>3, <2>4 DEF PackSound
  <1> QED BY <1>1, <1>2 DEF PackInv

LEMMA PacksStep ==
  ASSUME PackInv, [PackNext]_packVars
  PROVE  PackInv'
  <1>1. CASE UNCHANGED packVars
    BY <1>1 DEF PackInv, packVars
  <1>2. ASSUME NEW x \in Packs, Writing(x), writes > 0, writes' = writes - 1
        PROVE  PackInv'
    <2>1. writes' \in Nat
      BY <1>2 DEF PackInv
    <2>2. ASSUME NEW v \in Values, Add(x, v) PROVE PackInv'
      BY <2>1, <2>2, AddStep
    <2>3. CASE EmptyUse(x)
      BY <2>1, <2>3, EmptyUseStep
    <2>4. ASSUME NEW y \in Packs, Construct(x, y) PROVE PackInv'
      BY <2>1, <2>4, ConstructStep
    <2>5. ASSUME NEW y \in Packs, Assign(x, y) PROVE PackInv'
      BY <2>1, <2>5, AssignStep
    <2> QED BY <1>2, <2>2, <2>3, <2>4, <2>5 DEF Writing
  <1>3. ASSUME NEW x \in Packs, Reading(x), UNCHANGED writes
        PROVE  PackInv'
    <2>1. writes' \in Nat
      BY <1>3 DEF PackInv
    <2> QED BY <1>3, <2>1, ExtractStep, SkipStep, ResetStep DEF Reading
  <1> QED BY <1>1, <1>2, <1>3 DEF PackNext

\* The bytes of the invariant are those of the property.
LEMMA SoundPacks ==
  ASSUME PackInv
  PROVE  PackOK
  <1>1. ASSUME NEW x \in Packs
        PROVE  /\ pack[x] \in PackType /\ Len(pack[x].stack) = StackSize
               /\ pack[x].pos <= pack[x].len /\ pack[x].use <= pack[x].len
               /\ written[x] \in Seq(Values) /\ read[x] \in 0 .. Len(written[x])
    BY Kept DEF PackSound, Packed
  <1>2. PackTypeOK
    <2>1. pack \in [Packs -> PackType] /\ written \in [Packs -> Seq(Values)]
      BY <1>1 DEF PackInv
    <2>2. /\ spoilt \subseteq Packs /\ instep \subseteq Packs
          /\ overrun \in BOOLEAN /\ writes \in Nat
      BY DEF PackInv
    <2> QED BY <1>1, <2>1, <2>2 DEF PackTypeOK, PackType
  <1>3. ASSUME NEW x \in Packs \ spoilt, NEW vs, vs = written[x]
        PROVE  /\ pack[x].use = Ends(vs)[Len(vs)]
               /\ \A i \in 1 .. Len(vs) :
                    SubSeq(Storage(pack[x]), Ends(vs)[i - 1] + 1,
                           Ends(vs)[i]) = Bytes(vs[i], i)
    <2> DEFINE p == pack[x]
               s == Storage(p)
    <2>1. PackSound(p, vs, read[x], x \in spoilt, x \in instep)
      BY <1>3, Kept
    <2> HIDE DEF p
    <2>2. Packed(p) /\ vs \in Seq(Values) /\ Len(vs) \in Nat
      BY <2>1 DEF PackSound
    <2>3. PICK e : Cuts(e, vs) /\ Holds(s, vs, e) /\ p.use = e[Len(vs)]
      BY <2>1 DEF PackSound, Fits
    <2>4. Ends(vs) = e
      BY <2>2, <2>3, EndsAre
    <2>5. s \in Seq(Byte) /\ p.use <= Len(s) /\ p.use \in Nat
      BY <2>2, StorageIs
    <2> HIDE DEF s
    <2>6. ASSUME NEW i \in 1 .. Len(vs)
          PROVE  SubSeq(s, e[i - 1] + 1, e[i]) = Bytes(vs[i], i)
      <3> DEFINE b == Bytes(vs[i], i)
                 u == e[i - 1]
                 n == Len(b)
                 c == SubSeq(s, u + 1, u + n)
      <3>1. vs[i] \in Values /\ i \in Nat /\ i - 1 \in 0 .. Len(vs)
            /\ i \in 0 .. Len(vs) /\ Len(vs) \in 0 .. Len(vs) /\ i <= Len(vs)
        BY <2>2
      <3>2. b \in Seq(Byte) /\ n \in Nat
        BY <3>1, ValueBytes
      <3>3. /\ u \in Nat /\ e[i] <= e[Len(vs)] /\ e[i] \in Nat /\ e[i] = u + n
        BY <2>3, <3>1 DEF Cuts
      <3>4. \A j \in 1 .. n : s[u + j] = b[j]
        BY <2>3 DEF Holds
      <3> HIDE DEF b, u
      <3>5. u + n <= Len(s)
        BY <2>3, <2>5, <3>3
      <3>6. c \in Seq(Byte) /\ Len(c) = n /\ \A j \in 1 .. n : c[j] = s[u + j]
        BY <2>5, <3>2, <3>3, <3>5, Piece
      <3> HIDE DEF c
      <3>7. \A j \in 1 .. n : c[j] = b[j]
        BY <3>4, <3>6
      <3>8. c = b
        BY <3>2, <3>6, <3>7, SeqEqual
      <3> QED BY <3>3, <3>8 DEF b, c, u
    <2> QED BY <2>3, <2>4, <2>6 DEF p, s
  <1>4. BytesAreKept
    BY <1>3 DEF BytesAreKept
  <1>5. RoundTrip
    <2> SUFFICES ASSUME NEW x \in Packs, Ready(x)
                 PROVE  LET i == read[x] + 1
                            v == written[x][i]
                        IN  ~Throws(pack[x], v) /\ Reads(pack[x], v, i)
      BY DEF RoundTrip
    <2> DEFINE p == pack[x]
               vs == written[x]
               r == read[x]
    <2>1. /\ x \in instep /\ x \notin spoilt /\ r < Len(vs)
          /\ PackSound(p, vs, r, x \in spoilt, x \in instep)
      BY Kept DEF Ready
    <2> HIDE DEF p, vs, r
    <2>2. PackSound(p, vs, r, FALSE, TRUE)
      BY <2>1 DEF PackSound
    <2>3. ~Throws(p, vs[r + 1]) /\ Reads(p, vs[r + 1], r + 1)
      BY ONLY <2>1, <2>2, ReadIsSound, Zenon
    <2> QED BY <2>3 DEF p, vs, r
  <1> QED BY <1>2, <1>4, <1>5 DEF PackOK

\* A pack keeps every byte it was given through every growth, copy and assignment,
\* and reads it back in order and without an exception (IOPack.cpp:52-346),
\* whatever its sizes and values and whatever is done to it.  The one case left out
\* is a pack known to be spoilt: one that grew from a buffer its bytes are not in,
\* or has part of a value; reading is promised where a value begins.
THEOREM PacksKeepTheirBytes == PackSpec => []PackOK
  <1>1. PackInit => PackInv
    BY PacksBegin
  <1>2. PackInv /\ [PackNext]_packVars => PackInv'
    BY PacksStep
  <1>3. PackInv => PackOK
    BY SoundPacks
  <1> QED BY <1>1, <1>2, <1>3, PTL DEF PackSpec
=============================================================================
