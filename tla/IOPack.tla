------------------------------- MODULE IOPack -------------------------------
(***************************************************************************)
(* CIOPack: a byte stream that values are written to (operator<<, AddData, *)
(* AddArrayData) and read from (operator>>, ParseData, ParseArrayData).    *)
(* Short packs live in the object, m_szBuffer; long ones on the heap,      *)
(* m_pBuffer; GetBuffer decides between them by m_nLength alone.           *)
(*                                                                         *)
(* A byte says what it is a part of: <<what, item, length, place>>.  htonl *)
(* and ntohl undo each other; only how many bytes they leave matters.      *)
(*                                                                         *)
(* A pack that grows copies m_pBuffer when it has one, also when its bytes *)
(* are in m_szBuffer: what that loses, and what reading from a wrong place *)
(* gives, is not modelled; the histories spoilt and instep say for which   *)
(* packs it may be so.                                                     *)
(***************************************************************************)
EXTENDS Integers, Sequences

CONSTANTS
    Packs,      \* the CIOPack objects
    Values,     \* what is written: [kind, n], n bytes for the kinds of any size
    StackSize,  \* sizeof(m_szBuffer)
    IntSize,    \* sizeof(int)
    ShortSize,  \* sizeof(unsigned short)
    Lengths,    \* the lengths packs are constructed with
    MaxWrites,  \* bound: operations that change what is in a pack
    MaxAllocs   \* bound: GenerateNewBuffer throws for more bytes than this

Kinds == {"uchar", "int", "ushort", "str", "mem", "raw"}

ASSUME PackAssumption ==
    /\ ShortSize \in Nat \ {0} /\ IntSize \in Nat /\ IntSize >= ShortSize
    /\ StackSize \in Nat \ {0} /\ Lengths \subseteq Nat
    /\ Values \subseteq [kind : Kinds, n : Nat]
    /\ MaxWrites \in Nat /\ MaxAllocs \in Nat

VARIABLES
    pack,    \* the objects: len, pos, use, stack, heap (<<>> is NULL)
    written, \* history: the values each one was given
    read,    \* history: how many of them were read again
    spoilt,  \* history: the packs that lost bytes, or hold part of a value
    instep,  \* history: the packs read from where a value begins
    overrun, \* bytes were written behind a new buffer: undefined from then on
    writes   \* bound: how many more operations write

packVars == <<pack, written, read, spoilt, instep, overrun, writes>>

Zero == <<"zero", 0, 0, 0>>
Zeros(n) == [j \in 1 .. n |-> Zero]
Byte == {"zero", "str", "mem", "length", "data"} \X Nat \X Nat \X Nat

PackTypeOK ==
    /\ pack \in [Packs -> [len : Nat, pos : Nat, use : Nat,
                           stack : Seq(Byte), heap : Seq(Byte)]]
    /\ \A x \in Packs : /\ Len(pack[x].stack) = StackSize
                        /\ pack[x].pos <= pack[x].len
                        /\ pack[x].use <= pack[x].len
    /\ written \in [Packs -> Seq(Values)]
    /\ \A x \in Packs : read[x] \in 0 .. Len(written[x])
    /\ spoilt \subseteq Packs /\ instep \subseteq Packs
    /\ overrun \in BOOLEAN /\ writes \in Nat

-----------------------------------------------------------------------------
(* The storage. *)

OnStack(p) == p.len <= StackSize
Storage(p) == IF OnStack(p) THEN p.stack ELSE p.heap

\* The bytes d in storage s, from its place k on.
Overwrite(s, k, d) == [i \in DOMAIN s |-> IF i \in k + 1 .. k + Len(d)
                                          THEN d[i - k] ELSE s[i]]

\* The first n bytes of s.  (Where s is shorter the code copies what is there.)
Resized(s, n) == [i \in 1 .. n |-> IF i <= Len(s) THEN s[i] ELSE Zero]

\* GenerateNewBuffer(n).  Whatever the new length, m_pBuffer is set and gets
\* m_nLength bytes of the old one, or all of m_szBuffer.
NewPackBuffer(p, n) ==
    LET old == IF p.heap # <<>> THEN Resized(p.heap, p.len) ELSE p.stack
    IN  [p EXCEPT !.heap = Resized(old, n), !.len = n]

Grows(p, d) == p.use + Len(d) > p.len
NewLength(p, d) == (p.len + Len(d)) * 2

\* GenerateNewBuffer throws.  (Above half the range of an int, new does.)
Refuses(p, d) == Grows(p, d) /\ NewLength(p, d) > MaxAllocs

\* All of m_szBuffer is copied to a buffer that is shorter.
Overruns(p, d) == Grows(p, d) /\ p.heap = <<>> /\ NewLength(p, d) < StackSize

\* The bytes are in m_szBuffer, and a copy of m_pBuffer takes its place.
Loses(p, d) ==
    /\ Grows(p, d) /\ p.use > 0
    /\ OnStack(p) /\ p.heap # <<>> /\ NewLength(p, d) > StackSize

\* InternelAddData.
InternelAddData(p, d) ==
    LET g == IF Grows(p, d) THEN NewPackBuffer(p, NewLength(p, d)) ELSE p
        s == Overwrite(Storage(g), g.use, d)
    IN  IF OnStack(g) THEN [g EXCEPT !.stack = s, !.use = @ + Len(d)]
                      ELSE [g EXCEPT !.heap = s, !.use = @ + Len(d)]

\* A value is written by several of them: how far it came.
Write(w, d) ==
    IF w.end # "done" THEN w
    ELSE IF Refuses(w.pack, d) THEN [w EXCEPT !.end = "thrown"]
    ELSE IF Overruns(w.pack, d) THEN [w EXCEPT !.end = "overrun"]
    ELSE [pack |-> InternelAddData(w.pack, d), end |-> "done",
          kept |-> w.kept /\ ~Loses(w.pack, d)]

\* CIOPack(nLength).
Empty(n) ==
    LET p == [len |-> IF n <= StackSize THEN StackSize ELSE n, pos |-> 0,
              use |-> 0, stack |-> Zeros(StackSize), heap |-> <<>>]
    IN  IF OnStack(p) THEN p ELSE NewPackBuffer(p, p.len)

\* CIOPack(pData, nLength): the bytes d, and no room for more.
OfData(d) ==
    LET n == Len(d)
        p == [len |-> n, pos |-> 0, use |-> n,
              stack |-> Zeros(StackSize), heap |-> <<>>]
    IN  IF OnStack(p) THEN [p EXCEPT !.stack = Overwrite(@, 0, d)]
        ELSE [NewPackBuffer(p, n) EXCEPT !.heap = d]

-----------------------------------------------------------------------------
(* What the values look like. *)

Number(what, i, n, size) == [j \in 1 .. size |-> <<what, i, n, j>>]

\* Strings and memory have a mark and their length in front.
Marked(v) == v.kind \in {"str", "mem"}
Mark(v) == IF Marked(v) THEN Number(v.kind, 0, 0, IntSize) ELSE <<>>
LengthField(v) == IF Marked(v) THEN Number("length", 0, v.n, IntSize) ELSE <<>>

\* Value v itself, written as number i.  An unsigned short takes an int's room.
Data(v, i) ==
    CASE v.kind = "uchar"  -> Number("data", i, 0, 1)
      [] v.kind = "int"    -> Number("data", i, 0, IntSize)
      [] v.kind = "ushort" -> Number("data", i, 0, ShortSize)
                                  \o Zeros(IntSize - ShortSize)
      [] OTHER             -> Number("data", i, 0, v.n)

Bytes(v, i) == Mark(v) \o LengthField(v) \o Data(v, i)

\* operator<<, AddData, AddArrayData to pack p.
AddTo(p, v, i) ==
    LET w == [pack |-> p, end |-> "done", kept |-> TRUE]
    IN  Write(Write(Write(w, Mark(v)), LengthField(v)), Data(v, i))

\* How many bytes the first values of vs take, for each number of them.
Ends(vs) ==
    LET end[i \in 0 .. Len(vs)] ==
          IF i = 0 THEN 0 ELSE end[i - 1] + Len(Bytes(vs[i], i))
    IN  end

\* The n bytes from m_nPos on, which the storage may not have.
Ahead(p, n) == SubSeq(Storage(p), p.pos + 1, p.pos + n)

\* How many bytes reading a value takes.
ValueSize(v) ==
    CASE v.kind = "uchar"  -> 1
      [] v.kind = "int"    -> IntSize
      [] v.kind = "ushort" -> ShortSize
      [] v.kind = "raw"    -> v.n
      [] OTHER -> 2 * IntSize + v.n

\* operator>>, ParseData and ParseArrayData throw: too few bytes are left (of
\* the used ones for a number, of the storage for what has any size), or the
\* mark or the length is another.
Throws(p, v) ==
    CASE v.kind \in {"uchar", "int", "ushort"} -> p.pos + ValueSize(v) > p.use
      [] v.kind = "raw" -> p.pos + v.n > p.len
      [] OTHER -> \/ p.pos + 2 * IntSize > p.use
                  \/ Ahead(p, IntSize) # Number(v.kind, 0, 0, IntSize)
                  \/ p.pos + ValueSize(v) > p.len

\* What is read is value v, written as number i.
Reads(p, v, i) ==
    LET d == Ahead(p, ValueSize(v))
        n == IF Marked(v) THEN 2 * IntSize ELSE 0
    IN  /\ \A j \in n + 1 .. ValueSize(v) : d[j] = <<"data", i, 0, j - n>>
        /\ n > 0 => SubSeq(d, IntSize + 1, n) = Number("length", 0, v.n, IntSize)

-----------------------------------------------------------------------------
(* The operations. *)

\* x in S or out of it.
Put(S, x, in) == IF in THEN S \cup {x} ELSE S \ {x}

PackInit ==
    /\ pack \in [Packs -> {Empty(n) : n \in Lengths}]
    /\ written = [x \in Packs |-> <<>>]
    /\ read = [x \in Packs |-> 0]
    /\ spoilt = {} /\ instep = Packs /\ overrun = FALSE
    /\ writes = MaxWrites

\* A pack is made from the bytes of another.
Construct(x, y) ==
    /\ pack[y].use > 0
    /\ pack' = [pack EXCEPT ![x] = OfData(SubSeq(Storage(pack[y]), 1,
                                                 pack[y].use))]
    /\ written' = [written EXCEPT ![x] = written[y]]
    /\ read' = [read EXCEPT ![x] = 0]
    /\ spoilt' = Put(spoilt, x, y \in spoilt)
    /\ instep' = instep \cup {x}
    /\ UNCHANGED overrun

\* A value is written, in part if an exception is thrown on the way.
Add(x, v) ==
    /\ LET w == AddTo(pack[x], v, Len(written[x]) + 1)
           whole == w.end = "done"
       IN  IF w.end = "overrun"
           THEN overrun' = TRUE /\ UNCHANGED <<pack, written, spoilt>>
           ELSE /\ pack' = [pack EXCEPT ![x] = w.pack]
                /\ written' = [written EXCEPT ![x] =
                                  IF whole THEN Append(@, v) ELSE @]
                /\ spoilt' = IF w.kept /\ (whole \/ w.pack.use = pack[x].use)
                             THEN spoilt ELSE spoilt \cup {x}
                /\ UNCHANGED overrun
    /\ UNCHANGED <<read, instep>>

\* The next value may be read.
Ready(x) == x \in instep \ spoilt /\ read[x] < Len(written[x])

\* operator>>, ParseData, ParseArrayData: the next value, as it was written.
\* Only two of an unsigned short's four bytes are passed.
Extract(x) ==
    /\ Ready(x)
    /\ LET v == written[x][read[x] + 1]
       IN  /\ ~Throws(pack[x], v)
           /\ pack' = [pack EXCEPT ![x].pos = @ + ValueSize(v)]
           /\ instep' = Put(instep, x, v.kind # "ushort")
    /\ read' = [read EXCEPT ![x] = @ + 1]
    /\ UNCHANGED <<written, spoilt, overrun>>

\* SkipReadPos back over the value read last.
SkipReadPos(x) ==
    /\ x \in instep \ spoilt /\ read[x] > 0
    /\ pack' = [pack EXCEPT ![x].pos =
                  @ - Len(Bytes(written[x][read[x]], read[x]))]
    /\ read' = [read EXCEPT ![x] = @ - 1]
    /\ UNCHANGED <<written, spoilt, instep, overrun>>

\* Reset: read again from the start.
Reset(x) ==
    /\ pack' = [pack EXCEPT ![x].pos = 0]
    /\ read' = [read EXCEPT ![x] = 0]
    /\ instep' = instep \cup {x}
    /\ UNCHANGED <<written, spoilt, overrun>>

\* EmptyUse: write again from the start.  m_nPos stays.
EmptyUse(x) ==
    /\ pack' = [pack EXCEPT ![x].use = 0]
    /\ written' = [written EXCEPT ![x] = <<>>]
    /\ read' = [read EXCEPT ![x] = 0]
    /\ spoilt' = spoilt \ {x}
    /\ instep' = Put(instep, x, pack[x].pos = 0)
    /\ UNCHANGED overrun

\* Mutant of Assigned: the heap's bytes are not copied.
AssignedStack(p, q) == [q EXCEPT !.heap = Zeros(Len(@))]

\* Pack p after operator= from q: m_pBuffer is left alone if q has none.
Assigned(p, q) ==
    [q EXCEPT !.heap = IF @ = <<>> THEN p.heap ELSE Resized(@, q.len)]

\* operator=, or the copy constructor, which has no buffer yet.
Assign(x, y) ==
    /\ x # y
    /\ \E h \in {pack[x].heap, <<>>} :
          pack' = [pack EXCEPT ![x] = Assigned([@ EXCEPT !.heap = h], pack[y])]
    /\ written' = [written EXCEPT ![x] = written[y]]
    /\ read' = [read EXCEPT ![x] = read[y]]
    /\ spoilt' = Put(spoilt, x, y \in spoilt)
    /\ instep' = Put(instep, x, y \in instep)
    /\ UNCHANGED overrun

Writing(x) ==
    \/ \E v \in Values : Add(x, v)
    \/ EmptyUse(x)
    \/ \E y \in Packs : Construct(x, y) \/ Assign(x, y)

Reading(x) == Extract(x) \/ SkipReadPos(x) \/ Reset(x)

PackNext ==
    /\ ~overrun
    /\ \E x \in Packs : \/ Writing(x) /\ writes > 0 /\ writes' = writes - 1
                        \/ Reading(x) /\ UNCHANGED writes

PackSpec == PackInit /\ [][PackNext]_packVars

-----------------------------------------------------------------------------
(* Properties. *)

\* Whatever was written stays in the pack through every growth and copy, of a pack
\* that did not grow from a buffer its bytes are not in (IOPack.cpp:309-346).
BytesAreKept ==
    \A x \in Packs \ spoilt :
        LET vs == written[x]
            end == Ends(vs)
        IN  /\ pack[x].use = end[Len(vs)]
            /\ \A i \in 1 .. Len(vs) :
                  SubSeq(Storage(pack[x]), end[i - 1] + 1, end[i])
                    = Bytes(vs[i], i)

\* The next value comes back as it was written and without an exception, also an
\* unsigned short (what is behind one does not), IOPack.cpp:135-307.
RoundTrip ==
    \A x \in Packs : Ready(x) =>
        LET i == read[x] + 1
            v == written[x][i]
        IN  ~Throws(pack[x], v) /\ Reads(pack[x], v, i)

\* What is written to a pack stays in it and is what is read from it.
PackOK == PackTypeOK /\ BytesAreKept /\ RoundTrip
=============================================================================
