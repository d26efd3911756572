---------------------------- MODULE HashListProofs ----------------------------
(***************************************************************************)
(* Theorems of HashList, for any threads, nodes, keys, buckets and any     *)
(* number of clearings: the list is sound between any two steps, and it    *)
(* implements HashTable.                                                   *)
(***************************************************************************)
EXTENDS HashList, FiniteSetTheorems, TLAPS

-----------------------------------------------------------------------------
(* What is reached by the links, and what a change of one link does to it. *)

Links == [AllNodes -> Nodes \cup {NoNode}]

LEMMA ReachLeast ==
  ASSUME NEW f, NEW n, NEW S \in SUBSET Nodes,
         \A x \in S \cup {n} : f[x] \in S \cup {NoNode}
  PROVE  Reach(f, n) \subseteq S
  BY DEF Reach

LEMMA ReachClosed ==
  ASSUME NEW f \in Links, NEW n \in AllNodes
  PROVE  /\ Reach(f, n) \subseteq Nodes
         /\ \A x \in Reach(f, n) \cup {n} : f[x] \in Reach(f, n) \cup {NoNode}
  <1>1. Reach(f, n) \subseteq Nodes
    BY DEF Reach
  <1>2. ASSUME NEW x \in Reach(f, n) \cup {n}, f[x] # NoNode
        PROVE  f[x] \in Reach(f, n)
    <2>1. f[x] \in Nodes
      BY <1>1, <1>2 DEF Links, AllNodes
    <2>2. ASSUME NEW S \in SUBSET Nodes,
                 \A y \in S \cup {n} : f[y] \in S \cup {NoNode}
          PROVE  f[x] \in S
      <3>1. x \in S \cup {n}
        BY <2>2 DEF Reach
      <3> QED BY <3>1, <2>2, <1>2
    <2> QED BY <2>1, <2>2 DEF Reach
  <1> QED BY <1>1, <1>2

\* What is reached from a node reached is reached.
LEMMA ReachOn ==
  ASSUME NEW f \in Links, NEW n \in AllNodes, NEW m \in Reach(f, n)
  PROVE  Reach(f, m) \subseteq Reach(f, n)
  BY ReachClosed, ReachLeast

LEMMA ReachFirst ==
  ASSUME NEW f \in Links, NEW n \in AllNodes
  PROVE  Reach(f, n) = IF f[n] = NoNode THEN {} ELSE {f[n]} \cup Reach(f, f[n])
  <1>1. CASE f[n] = NoNode
    <2> DEFINE S == {}
    <2>1. S \in SUBSET Nodes /\ \A x \in S \cup {n} : f[x] \in S \cup {NoNode}
      BY <1>1
    <2> HIDE DEF S
    <2>2. Reach(f, n) \subseteq S
      BY <2>1, ReachLeast
    <2> QED BY <1>1, <2>2 DEF S
  <1>2. CASE f[n] # NoNode
    <2>1. f[n] \in Nodes /\ f[n] \in AllNodes
      BY <1>2 DEF Links, AllNodes
    <2>2. f[n] \in Reach(f, n)
      BY <1>2, ReachClosed
    <2>3. Reach(f, f[n]) \subseteq Reach(f, n)
      BY <2>2, ReachOn
    <2> DEFINE S == {f[n]} \cup Reach(f, f[n])
    <2>4. S \subseteq Nodes /\ \A x \in S \cup {n} : f[x] \in S \cup {NoNode}
      BY <2>1, ReachClosed
    <2> HIDE DEF S
    <2>5. Reach(f, n) \subseteq S
      BY <2>4, ReachLeast
    <2> QED BY <1>2, <2>2, <2>3, <2>5 DEF S
  <1> QED BY <1>1, <1>2

\* Every node reached is the next one of another, or of the start.
LEMMA ReachBack ==
  ASSUME NEW f \in Links, NEW n \in AllNodes, NEW m \in Reach(f, n)
  PROVE  \E x \in Reach(f, n) \cup {n} : f[x] = m
  <1> DEFINE S == {y \in Nodes : \E x \in Reach(f, n) \cup {n} : f[x] = y}
  <1>1. S \subseteq Reach(f, n)
    BY ReachClosed, ConstantsAssumption
  <1>2. \A x \in S \cup {n} : f[x] \in S \cup {NoNode}
    BY <1>1, ReachClosed
  <1>3. S \in SUBSET Nodes
    OBVIOUS
  <1> HIDE DEF S
  <1>4. Reach(f, n) \subseteq S
    BY <1>2, <1>3, ReachLeast
  <1> QED BY <1>4 DEF S

\* Links that agree along the way reach the same.
LEMMA ReachSame ==
  ASSUME NEW f \in Links, NEW g \in Links, NEW n \in AllNodes,
         \A x \in Reach(f, n) \cup {n} : g[x] = f[x]
  PROVE  Reach(g, n) = Reach(f, n)
  <1>1. Reach(g, n) \subseteq Reach(f, n)
    BY ReachClosed, ReachLeast
  <1>2. Reach(f, n) \subseteq Reach(g, n)
    <2> DEFINE S == Reach(f, n) \cap Reach(g, n)
    <2>1. S \subseteq Nodes /\ \A x \in S \cup {n} : f[x] \in S \cup {NoNode}
      BY ReachClosed
    <2> HIDE DEF S
    <2>2. Reach(f, n) \subseteq S
      BY <2>1, ReachLeast
    <2> QED BY <2>2 DEF S
  <1> QED BY <1>1, <1>2

\* Links that skip nodes or end reach no more.
LEMMA ReachLess ==
  ASSUME NEW f \in Links, NEW g \in Links, NEW n \in AllNodes,
         \A x \in AllNodes : g[x] \in Reach(f, x) \cup {NoNode}
  PROVE  Reach(g, n) \subseteq Reach(f, n)
  <1>1. \A x \in Reach(f, n) \cup {n} : x \in AllNodes /\ Reach(f, x) \subseteq Reach(f, n)
    BY ReachClosed, ReachOn DEF AllNodes
  <1>2. \A x \in Reach(f, n) \cup {n} : g[x] \in Reach(f, n) \cup {NoNode}
    BY <1>1
  <1> QED BY <1>2, ReachClosed, ReachLeast

\* A node that is linked past is the only one lost.
LEMMA ReachPast ==
  ASSUME NEW f \in Links, NEW p \in AllNodes, f[p] # NoNode,
         NEW g \in Links, g[p] = f[f[p]], \A x \in AllNodes \ {p} : g[x] = f[x],
         NEW n \in AllNodes
  PROVE  /\ Reach(g, n) \subseteq Reach(f, n)
         /\ Reach(f, n) \subseteq Reach(g, n) \cup {f[p]}
  <1>1. f[p] \in Nodes /\ f[p] \in AllNodes
    BY DEF Links, AllNodes
  <1>2. g[p] = f[f[p]] /\ \A x \in AllNodes \ {p} : g[x] = f[x]
    OBVIOUS
  <1>3. f[p] \in Reach(f, p) /\ f[f[p]] \in Reach(f, p) \cup {NoNode}
    BY ReachClosed
  <1>4. Reach(g, n) \subseteq Reach(f, n)
    <2>1. \A x \in AllNodes : g[x] \in Reach(f, x) \cup {NoNode}
      BY <1>2, <1>3, ReachClosed
    <2> QED BY <1>2, <2>1, ReachLess
  <1>5. CASE p \in Reach(g, n) \cup {n}
    <2> DEFINE S == Reach(g, n) \cup {f[p]}
    <2>1. S \subseteq Nodes /\ \A x \in S \cup {n} : x \in AllNodes
      BY <1>1, <1>2, ReachClosed DEF AllNodes
    <2>2. ASSUME NEW x \in S \cup {n} PROVE f[x] \in S \cup {NoNode}
      <3>1. g[p] \in Reach(g, n) \cup {NoNode}
        BY <1>2, <1>5, ReachClosed
      <3>2. CASE x = p
        BY <3>2
      <3>3. CASE x = f[p]
        BY <3>1, <3>3, <1>2
      <3>4. CASE x \in Reach(g, n) \cup {n} /\ x # p
        BY <3>4, <2>1, <1>2, ReachClosed
      <3> QED BY <3>2, <3>3, <3>4
    <2> HIDE DEF S
    <2>3. Reach(f, n) \subseteq S
      BY <2>1, <2>2, ReachLeast
    <2> QED BY <1>2, <1>4, <2>3 DEF S
  <1>6. CASE p \notin Reach(g, n) \cup {n}
    <2>1. \A x \in Reach(g, n) \cup {n} : f[x] = g[x]
      BY <1>2, <1>6, ReachClosed DEF AllNodes
    <2>2. Reach(f, n) = Reach(g, n)
      BY <2>1, <1>2, ReachSame
    <2> QED BY <1>2, <2>2
  <1> QED BY <1>5, <1>6

\* A link that is cut loses what was behind it.
LEMMA ReachCut ==
  ASSUME NEW f \in Links, NEW p \in AllNodes,
         NEW g \in Links, g[p] = NoNode, \A x \in AllNodes \ {p} : g[x] = f[x],
         NEW n \in AllNodes
  PROVE  /\ Reach(g, n) \subseteq Reach(f, n)
         /\ Reach(f, n) \subseteq Reach(g, n) \cup Reach(f, p)
  <1>1. g[p] = NoNode /\ \A x \in AllNodes \ {p} : g[x] = f[x]
    OBVIOUS
  <1>2. Reach(g, n) \subseteq Reach(f, n)
    BY <1>1, ReachLess, ReachClosed
  <1> DEFINE S == Reach(g, n) \cup Reach(f, p)
  <1>3. S \subseteq Nodes /\ \A x \in S \cup {n} : x \in AllNodes
    BY <1>1, ReachClosed DEF AllNodes
  <1>4. ASSUME NEW x \in S \cup {n} PROVE f[x] \in S \cup {NoNode}
    <2>1. CASE x = p \/ x \in Reach(f, p)
      BY <2>1, ReachClosed
    <2>2. CASE x \in Reach(g, n) \cup {n} /\ x # p
      BY <2>2, <1>1, <1>3, ReachClosed
    <2> QED BY <2>1, <2>2
  <1> HIDE DEF S
  <1>5. Reach(f, n) \subseteq S
    BY <1>3, <1>4, ReachLeast
  <1> QED BY <1>1, <1>2, <1>5 DEF S

\* A new node behind h: reached from h alone, and it hides nobody.
LEMMA ReachLinked ==
  ASSUME NEW f \in Links, NEW h \in Heads, NEW n \in Nodes,
         \A x \in AllNodes : f[x] # n,
         NEW g \in Links, g[n] = f[h], g[h] = n,
         \A x \in AllNodes \ {h, n} : g[x] = f[x]
  PROVE  /\ Reach(g, h) = {n} \cup Reach(f, h)
         /\ Reach(g, n) = Reach(f, h)
         /\ \A x \in AllNodes \ {h, n} : Reach(g, x) = Reach(f, x)
  <1>1. h # n /\ h \in AllNodes /\ n \in AllNodes
    BY ConstantsAssumption DEF AllNodes
  <1>2. g[n] = f[h] /\ g[h] = n /\ \A x \in AllNodes \ {h, n} : g[x] = f[x]
    OBVIOUS
  <1>3. \A x \in AllNodes : n \notin Reach(f, x) /\ h \notin Reach(f, x)
    BY ReachBack, ReachClosed, ConstantsAssumption DEF AllNodes
  <1>4. ASSUME NEW x \in AllNodes \ {h, n} PROVE Reach(g, x) = Reach(f, x)
    <2>1. \A y \in Reach(f, x) \cup {x} : g[y] = f[y]
      BY <1>2, <1>3, ReachClosed DEF AllNodes
    <2> QED BY <2>1, <1>2, ReachSame
  <1>5. Reach(g, n) = Reach(f, h)
    <2>1. CASE f[h] = NoNode
      BY <2>1, <1>1, <1>2, ReachFirst
    <2>2. CASE f[h] # NoNode
      <3>1. f[h] \in AllNodes \ {h, n}
        BY <2>2, <1>1, ConstantsAssumption DEF Links, AllNodes
      <3>2. Reach(g, f[h]) = Reach(f, f[h])
        BY <3>1, <1>4
      <3>3. Reach(g, n) = {g[n]} \cup Reach(g, g[n])
        BY <2>2, <1>1, <1>2, ReachFirst
      <3>4. Reach(f, h) = {f[h]} \cup Reach(f, f[h])
        BY <2>2, <1>1, ReachFirst
      <3> QED BY <3>2, <3>3, <3>4, <1>2
    <2> QED BY <2>1, <2>2
  <1>6. Reach(g, h) = {n} \cup Reach(f, h)
    <2>1. n # NoNode
      BY ConstantsAssumption
    <2>2. Reach(g, h) = {g[h]} \cup Reach(g, g[h])
      BY <2>1, <1>1, <1>2, ReachFirst
    <2> QED BY <2>2, <1>2, <1>5
  <1> QED BY <1>2, <1>4, <1>5, <1>6

-----------------------------------------------------------------------------
(* The shape of the lists, and what the three changes of it do. *)

\* A list is what is reached from its head, which is at its start.
Chain(f, n) == {n} \cup Reach(f, n)

\* The bucket of a head, or of a node by its key.
HomeOf(x) == IF x \in Heads THEN x ELSE BucketOf(KeyOf(x))

\* The nodes in the table.
InTable(f, r) == (UNION {Reach(f, h) : h \in Heads}) \ r

\* A list that does not exist has no nodes, links stay in a bucket, no node is
\* behind itself, and in a list no two nodes have the same next one.
Shape(f, ini) ==
    /\ \A h \in Heads \ ini : f[h] = NoNode
    /\ \A x \in AllNodes : f[x] # NoNode => HomeOf(f[x]) = HomeOf(x)
    /\ \A n \in Nodes : n \notin Reach(f, n)
    /\ \A h \in Heads : \A x, y \in Chain(f, h) :
           f[x] = f[y] /\ f[x] # NoNode => x = y

LEMMA Basics ==
  /\ \A h \in Heads : h \in AllNodes /\ h \notin Nodes /\ h # NoNode /\ HomeOf(h) = h
  /\ \A n \in Nodes : n \in AllNodes /\ n \notin Heads /\ n # NoNode
                      /\ HomeOf(n) = BucketOf(KeyOf(n)) /\ HomeOf(n) \in Heads
  BY ConstantsAssumption DEF AllNodes, HomeOf

LEMMA InTableIs ==
  ASSUME NEW f \in Links, NEW r, NEW n
  PROVE  n \in InTable(f, r) <=> n \notin r /\ \E h \in Heads : n \in Reach(f, h)
  <1> DEFINE C == {Reach(f, h) : h \in Heads}
  <1>1. n \in UNION C <=> \E S \in C : n \in S
    OBVIOUS
  <1>2. (\E S \in C : n \in S) <=> \E h \in Heads : n \in Reach(f, h)
    OBVIOUS
  <1> QED BY <1>1, <1>2 DEF InTable

\* All that is reached from a place is of its bucket.
LEMMA ReachHome ==
  ASSUME NEW f \in Links, NEW ini, Shape(f, ini), NEW x \in AllNodes
  PROVE  \A m \in Reach(f, x) : HomeOf(m) = HomeOf(x)
  <1> DEFINE S == {m \in Nodes : HomeOf(m) = HomeOf(x)}
  <1>1. ASSUME NEW y \in S \cup {x}, f[y] # NoNode PROVE f[y] \in S
    <2>1. y \in AllNodes /\ HomeOf(y) = HomeOf(x)
      BY Basics
    <2>2. f[y] \in Nodes
      BY <1>1, <2>1 DEF Links
    <2> QED BY <1>1, <2>1, <2>2 DEF Shape
  <1>2. S \in SUBSET Nodes /\ \A y \in S \cup {x} : f[y] \in S \cup {NoNode}
    BY <1>1
  <1> HIDE DEF S
  <1>3. Reach(f, x) \subseteq S
    BY <1>2, ReachLeast
  <1> QED BY <1>3 DEF S

\* So a node is in the list of its own bucket, if in any.
LEMMA ChainHome ==
  ASSUME NEW f \in Links, NEW ini, Shape(f, ini), NEW h \in Heads
  PROVE  /\ \A m \in Chain(f, h) : m \in AllNodes /\ HomeOf(m) = h
         /\ \A m \in Reach(f, h) : m \in Nodes /\ BucketOf(KeyOf(m)) = h
  BY ReachHome, ReachClosed, Basics DEF Chain

\* A new node is linked behind a head.
LEMMA LinkShape ==
  ASSUME NEW f \in Links, NEW ini, Shape(f, ini), NEW r,
         NEW h \in Heads, h \in ini, NEW n \in Nodes, BucketOf(KeyOf(n)) = h,
         n \notin r, \A x \in AllNodes : f[x] # n,
         NEW g \in Links, g[n] = f[h], g[h] = n,
         \A x \in AllNodes \ {h, n} : g[x] = f[x]
  PROVE  /\ Shape(g, ini)
         /\ InTable(g, r) = InTable(f, r) \cup {n}
         /\ n \notin InTable(f, r)
         /\ \A x \in Heads : n \notin Reach(f, x)
  <1>0. h # n /\ g[n] = f[h] /\ g[h] = n
        /\ \A x \in AllNodes \ {h, n} : g[x] = f[x]
    BY Basics
  <1>1. /\ Reach(g, h) = {n} \cup Reach(f, h)
        /\ Reach(g, n) = Reach(f, h)
        /\ \A x \in AllNodes \ {h, n} : Reach(g, x) = Reach(f, x)
    BY ReachLinked
  <1>2. \A x \in AllNodes : n \notin Reach(f, x) /\ h \notin Reach(f, x)
    BY ReachBack, ReachClosed, Basics DEF AllNodes
  <1>3. \A k \in Heads \ ini : g[k] = NoNode
    <2>1. \A k \in Heads \ ini : k \in AllNodes \ {h, n} /\ f[k] = NoNode
      BY Basics DEF Shape
    <2> QED BY <2>1, <1>0
  <1>4. ASSUME NEW x \in AllNodes, g[x] # NoNode PROVE HomeOf(g[x]) = HomeOf(x)
    <2>1. HomeOf(n) = h /\ HomeOf(h) = h /\ h \in AllNodes
      BY Basics
    <2>2. \A y \in AllNodes : f[y] # NoNode => HomeOf(f[y]) = HomeOf(y)
      BY DEF Shape
    <2> QED BY <1>0, <1>4, <2>1, <2>2
  <1>5. \A m \in Nodes : m \notin Reach(g, m)
    <2>1. ASSUME NEW m \in Nodes PROVE m \notin Reach(g, m)
      <3>1. m # h /\ m \in AllNodes /\ h \in AllNodes /\ m \notin Reach(f, m)
        BY Basics DEF Shape
      <3> QED BY <3>1, <1>1, <1>2
    <2> QED BY <2>1
  <1>6. ASSUME NEW k \in Heads, NEW x \in Chain(g, k), NEW y \in Chain(g, k),
               g[x] = g[y], g[x] # NoNode
        PROVE  x = y
    <2>1. CASE k # h
      <3>1. x \in Chain(f, k) /\ y \in Chain(f, k) /\ x \notin {h, n} /\ y \notin {h, n}
        <4>1. k \in AllNodes \ {h, n} /\ Reach(g, k) = Reach(f, k)
          BY <1>1, <2>1, Basics
        <4> QED BY <4>1, <1>2 DEF Chain
      <3>2. x \in AllNodes /\ y \in AllNodes
        BY <3>1, ReachClosed, Basics DEF Chain
      <3> QED BY <3>1, <3>2, <1>0, <1>6 DEF Shape
    <2>2. CASE k = h
      <3>1. x \in {h, n} \cup Reach(f, h) /\ y \in {h, n} \cup Reach(f, h)
        BY <1>1, <2>2 DEF Chain
      <3>2. \A z \in Reach(f, h) : z \in AllNodes \ {h, n} /\ g[z] = f[z] /\ f[z] # n
        <4>1. h \in AllNodes
          BY Basics
        <4>2. Reach(f, h) \subseteq Nodes /\ h \notin Reach(f, h) /\ n \notin Reach(f, h)
          BY <4>1, <1>2, ReachClosed
        <4> QED BY <4>2, <1>0, Basics
      <3>3. \A z \in Reach(f, h) : f[z] = f[h] => f[h] = NoNode
        <4>1. \A z \in Reach(f, h) : z \in Chain(f, h) /\ h \in Chain(f, h) /\ z # h
          BY <1>2, Basics DEF Chain
        <4> QED BY <4>1 DEF Shape
      <3>4. f[h] # n
        BY Basics
      <3>5. CASE x \in Reach(f, h) /\ y \in Reach(f, h)
        BY <3>2, <3>5, <1>6 DEF Shape, Chain
      <3> QED BY <3>1, <3>2, <3>3, <3>4, <3>5, <1>0, <1>6
    <2> QED BY <2>1, <2>2
  <1>7. Shape(g, ini)
    BY <1>3, <1>4, <1>5, <1>6 DEF Shape
  <1>8. InTable(g, r) = InTable(f, r) \cup {n}
    <2>1. ASSUME NEW m PROVE (\E k \in Heads : m \in Reach(g, k))
                             <=> m = n \/ (\E k \in Heads : m \in Reach(f, k))
      <3>1. \A k \in Heads \ {h} : Reach(g, k) = Reach(f, k)
        BY <1>1, Basics
      <3> QED BY <3>1, <1>1
    <2>2. \A m : m \in InTable(g, r) <=> m \in InTable(f, r) \cup {n}
      <3>1. \A m : m \in InTable(f, r) <=> m \notin r /\ \E k \in Heads : m \in Reach(f, k)
        BY InTableIs
      <3>2. \A m : m \in InTable(g, r) <=> m \notin r /\ \E k \in Heads : m \in Reach(g, k)
        BY <1>0, InTableIs
      <3> QED BY <2>1, <3>1, <3>2
    <2> QED BY <2>2
  <1>9. n \notin InTable(f, r)
    BY <1>2, Basics, InTableIs
  <1> QED BY <1>2, <1>7, <1>8, <1>9, Basics

\* A node of a list is linked past: it alone leaves the list.
LEMMA PastShape ==
  ASSUME NEW f \in Links, NEW ini, Shape(f, ini),
         NEW h \in Heads, NEW p \in Chain(f, h), f[p] # NoNode,
         NEW g \in Links, g[p] = f[f[p]], \A x \in AllNodes \ {p} : g[x] = f[x]
  PROVE  /\ Shape(g, ini)
         /\ f[p] \in Reach(f, h)
         /\ \A k \in Heads : Reach(g, k) = Reach(f, k) \ {f[p]}
  <1> DEFINE q == f[p]
  <1>1. p \in AllNodes /\ q \in Reach(f, h) /\ q \in Nodes /\ HomeOf(p) = h
    BY ChainHome, ReachClosed, Basics DEF Chain, Links
  <1>2. g[p] = f[q] /\ \A x \in AllNodes \ {p} : g[x] = f[x]
    OBVIOUS
  <1>3. \A n \in AllNodes : /\ Reach(g, n) \subseteq Reach(f, n)
                            /\ Reach(f, n) \subseteq Reach(g, n) \cup {q}
    BY <1>1, ReachPast
  <1>4. p # q /\ f[q] # q
    <2>1. p \in Nodes => p \notin Reach(f, p)
      BY DEF Shape
    <2>2. q \notin Reach(f, q)
      BY <1>1 DEF Shape
    <2>3. q \in Reach(f, p) /\ (f[q] # NoNode => f[q] \in Reach(f, q))
      BY <1>1, ReachClosed, Basics
    <2> QED BY <1>1, <2>1, <2>2, <2>3, Basics
  <1> HIDE DEF q
  <1>5. ASSUME NEW k \in Heads PROVE q \notin Reach(g, k)
    <2> SUFFICES ASSUME q \in Reach(g, k) PROVE FALSE
      OBVIOUS
    <2>1. PICK x \in Reach(g, k) \cup {k} : g[x] = q
      <3>1. k \in AllNodes
        BY Basics
      <3> QED BY <3>1, ReachBack
    <2>2. x \in Chain(f, k) /\ x \in AllNodes /\ q \in Reach(f, k)
      <3>1. k \in AllNodes
        BY Basics
      <3>2. Reach(g, k) \subseteq Reach(f, k) /\ Reach(f, k) \subseteq Nodes
        BY <3>1, <1>3, ReachClosed
      <3> QED BY <3>1, <3>2, <2>1, Basics DEF Chain
    <2>3. k = h
      BY <1>1, <2>2, ChainHome
    <2>4. x # p /\ f[x] = q
      BY <1>2, <1>4, <2>1, <2>2
    <2>5. f[x] = f[p] /\ f[x] # NoNode
      BY <2>4 DEF q
    <2> QED BY <2>2, <2>3, <2>4, <2>5 DEF Shape
  <1>6. \A k \in Heads : Reach(g, k) = Reach(f, k) \ {q}
    BY <1>3, <1>5, Basics
  <1>7. \A k \in Heads \ ini : g[k] = NoNode
    BY <1>1, <1>2, Basics DEF Shape, q
  <1>8. ASSUME NEW x \in AllNodes, g[x] # NoNode PROVE HomeOf(g[x]) = HomeOf(x)
    <2>1. HomeOf(q) = HomeOf(p)
      BY <1>1 DEF Shape, q
    <2> QED BY <1>1, <1>2, <1>8, <2>1, Basics DEF Shape
  <1>9. \A m \in Nodes : m \notin Reach(g, m)
    BY <1>3, Basics DEF Shape
  <1>10. ASSUME NEW k \in Heads, NEW x \in Chain(g, k), NEW y \in Chain(g, k),
                g[x] = g[y], g[x] # NoNode
         PROVE  x = y
    <2>1. /\ x \in Chain(f, k) /\ y \in Chain(f, k) /\ x # q /\ y # q
          /\ x \in AllNodes /\ y \in AllNodes
      <3>1. k \in AllNodes /\ k # q
        BY <1>1, Basics
      <3>2. Reach(g, k) \subseteq Nodes /\ Reach(g, k) = Reach(f, k) \ {q}
        BY <3>1, <1>2, <1>6, ReachClosed
      <3> QED BY <3>1, <3>2, Basics DEF Chain
    <2>2. CASE x # p /\ y # p
      BY <2>1, <2>2, <1>2, <1>10 DEF Shape
    <2>3. ASSUME p \in Chain(f, k) PROVE q \in Chain(f, k)
      <3>1. k = h
        BY <2>3, <1>1, ChainHome
      <3> QED BY <3>1, <1>1 DEF Chain
    <2>4. CASE x = p /\ y # p
      <3>1. f[y] = f[q] /\ f[y] # NoNode /\ q \in Chain(f, k)
        BY <2>1, <2>3, <2>4, <1>2, <1>10
      <3> QED BY <2>1, <3>1 DEF Shape
    <2>5. CASE y = p /\ x # p
      <3>1. f[x] = f[q] /\ f[x] # NoNode /\ q \in Chain(f, k)
        BY <2>1, <2>3, <2>5, <1>2, <1>10
      <3> QED BY <2>1, <3>1 DEF Shape
    <2> QED BY <2>2, <2>4, <2>5
  <1>11. Shape(g, ini)
    BY <1>7, <1>8, <1>9, <1>10 DEF Shape
  <1> QED BY <1>1, <1>6, <1>11 DEF q

\* A link is cut.
LEMMA CutShape ==
  ASSUME NEW f \in Links, NEW ini, Shape(f, ini), NEW p \in AllNodes,
         NEW g \in Links, g[p] = NoNode, \A x \in AllNodes \ {p} : g[x] = f[x]
  PROVE  Shape(g, ini)
  <1>1. g[p] = NoNode /\ \A x \in AllNodes \ {p} : g[x] = f[x]
    OBVIOUS
  <1>2. \A n \in AllNodes : Reach(g, n) \subseteq Reach(f, n)
    BY ReachCut
  <1>3. \A k \in Heads \ ini : g[k] = NoNode
    BY <1>1, Basics DEF Shape
  <1>4. ASSUME NEW x \in AllNodes, g[x] # NoNode PROVE HomeOf(g[x]) = HomeOf(x)
    BY <1>1, <1>4 DEF Shape
  <1>5. \A m \in Nodes : m \notin Reach(g, m)
    BY <1>2, Basics DEF Shape
  <1>6. ASSUME NEW k \in Heads, NEW x \in Chain(g, k), NEW y \in Chain(g, k),
               g[x] = g[y], g[x] # NoNode
        PROVE  x = y
    <2>1. x \in Chain(f, k) /\ y \in Chain(f, k) /\ x \in AllNodes /\ y \in AllNodes
      BY <1>2, ReachClosed, Basics DEF Chain
    <2> QED BY <1>1, <1>6, <2>1 DEF Shape
  <1> QED BY <1>3, <1>4, <1>5, <1>6 DEF Shape

-----------------------------------------------------------------------------
(* The invariant.  Its parts are predicates of the links, the marks and the   *)
(* threads' calls, so that they can be stated of two states at once.          *)

Lookups  == {"Get", "Visit", "RemoveKey", "RemoveOne"}
Removals == {"RemoveKey", "RemoveOne"}
Readers  == {"Bucket", "LockPrev", "LockVisited", "Test", "Return"}

\* Its node is created and not linked yet.
Adding(c) == c.op = "Add" /\ c.pc \in {"InitHashArray", "InitLocked", "LockHead",
                                        "LockNext", "Link"}

\* Which operation is where.
CallOK(c) ==
    /\ c.pc = "Idle" <=> c.op = "none"
    /\ c.pc \in {"LockNext", "Link", "Added"} => c.op = "Add"
    /\ c.pc = "Pop" => c.op = "Pop"
    /\ c.pc \in {"LockNode", "Unlink", "NextKeyNode"} => c.op \in Removals
    /\ c.pc = "Removed" => c.op \in Removals \cup {"Pop"}
    /\ c.pc \in {"InitHashArray", "InitLocked", "LockHead"}
         => c.op \in Removals \cup {"Add", "Pop"}
    /\ c.pc \in {"LockPrev", "LockVisited", "Test", "Return"} => c.op \in Lookups
    /\ c.pc = "Bucket" => c.op \in Lookups \cup {"Free"}
    /\ c.pc \in {"FreeList", "FreeNode"} => c.op = "Free"

\* Where a thread stands: a writer in the list whose head it has locked.
PlaceOK(c, f, ini) ==
    /\ c.pc \in {"InitHashArray", "InitLocked"} => c.head \in Heads
    /\ c.pc \in {"LockHead", "LockNext", "Link", "Pop", "LockNode", "Unlink"}
         => c.head \in Heads /\ c.head \in ini
    /\ Adding(c) => c.node \in Nodes /\ c.head = BucketOf(KeyOf(c.node))
    /\ c.pc \in {"LockNext", "Link", "Pop"} => c.nxt = f[c.head]
    /\ c.pc = "LockNext" => c.nxt # NoNode
    /\ c.pc \in {"LockNode", "Unlink"} => /\ c.prev \in Chain(f, c.head)
                                          /\ c.nxt = f[c.prev]
    /\ c.pc = "Unlink" => c.nxt # NoNode
    /\ c.pc \in {"LockPrev", "LockVisited", "Test"} => c.prev \in AllNodes
    /\ c.pc \in {"LockVisited", "Test"} => c.nxt \in Nodes
    /\ c.pc = "FreeList" => c.prev \in Heads \ c.heads
    /\ c.pc = "FreeNode" => c.prev \in Nodes

\* Nobody knows a new node but its thread.
NewNode(n, f, r, ths) ==
    /\ n \notin r
    /\ \A x \in AllNodes : f[x] # n
    /\ \A t \in Threads : ths[t].prev # n /\ ths[t].nxt # n

NewNodes(f, r, new, ths) ==
    /\ \A n \in new : NewNode(n, f, r, ths)
    /\ \A t \in Threads : Adding(ths[t]) => /\ NewNode(ths[t].node, f, r, ths)
                                            /\ ths[t].node \notin new
    /\ \A t, u \in Threads :
           Adding(ths[t]) /\ Adding(ths[u]) /\ ths[t].node = ths[u].node => t = u

\* A node that is marked and in its list is about to be unlinked.
Marks(f, r, ths) ==
    /\ \A t \in Threads : ths[t].pc = "Unlink" => ths[t].nxt \in r
    /\ \A h \in Heads : \A x \in Reach(f, h) \cap r :
           \E t \in Threads : ths[t].pc = "Unlink" /\ ths[t].nxt = x

\* What a clearing has cut off is in no list.
CutOff(f, ths) ==
    \A t \in Threads : ths[t].pc = "FreeNode" =>
        \A h \in Heads : Chain(f, ths[t].prev) \cap Reach(f, h) = {}

\* The locks a thread holds, by where it is.
Held(c) ==
    CASE c.pc \in {"LockNext", "Pop", "LockNode"} -> {c.head}
      [] c.pc \in {"Link", "Unlink"} -> {c.head, c.nxt} \ {NoNode}
      [] c.pc = "LockVisited" -> {c.prev}
      [] c.pc = "Test" -> {c.prev, c.nxt}
      [] OTHER -> {}
Locks(l, ths) ==
    \A t \in Threads : \A n \in AllNodes : l[n] = t <=> n \in Held(ths[t])

\* The kind of lookup a call is at.
Kind(c) == IF c.pc \in Readers /\ c.op # "Free"
           THEN IF c.op \in {"Get", "RemoveOne"} THEN "one" ELSE "all"
           ELSE "none"

\* What a traversal has before it: Ahead, of any links.
Before(c, f) == CASE c.pc = "LockPrev" -> Reach(f, c.prev)
                  [] c.pc \in {"LockVisited", "Test"} -> {c.nxt} \cup Reach(f, c.nxt)
                  [] OTHER -> {}

\* What a lookup has found, has before it or has in a bucket it has still to
\* visit is all it must answer; and it meets unmarked only what it may answer.
LookupOK(c, l, f, r) ==
    /\ l.kind = Kind(c)
    /\ l.kind = "none" => l = Table!NoLookup
    /\ l.kind # "none" =>
         /\ l.keys = c.keys
         /\ l.must \subseteq InTable(f, r)
         /\ \A n \in l.must : KeyOf(n) \in c.keys
         /\ \A n \in InTable(f, r) : KeyOf(n) \in c.keys => n \in l.may
         /\ c.found \subseteq l.may
         /\ \A n \in Before(c, f) : KeyOf(n) \in c.keys => n \in l.may \cup r
         /\ l.kind = "all" \/ c.found = {} =>
              \A n \in l.must : \/ BucketOf(KeyOf(n)) \in c.heads
                                \/ n \in c.found
                                \/ n \in Before(c, f)
         /\ l.kind = "one" => c.found = {} \/ ( /\ c.pc = "Return"
                                                /\ \E n \in c.found : c.found = {n} )
         /\ c.pc = "Return" => c.heads = {} \/ (l.kind = "one" /\ c.found # {})

CallsOK   == \A t \in Threads : CallOK(th[t]) /\ (th[t].op = "Free" => clears # 0)
PlacesOK  == \A t \in Threads : PlaceOK(th[t], next, inited)
ShapeOK   == Shape(next, inited)
NewOK     == NewNodes(next, removing, unused, th)
MarksOK   == Marks(next, removing, th)
CutOK     == CutOff(next, th)
LocksOK   == Locks(lock, th)
LookupsOK == \A t \in Threads : LookupOK(th[t], lookup[t], next, removing)

PlaceInv == CallsOK /\ PlacesOK /\ ShapeOK /\ NewOK /\ MarksOK /\ CutOK
IInv == TypeOK /\ PlaceInv /\ LocksOK /\ LookupsOK /\ SizeCounts

-----------------------------------------------------------------------------
(* What each action makes of its thread's call.                               *)

Moved(t) == /\ th' \in [Threads -> Call]
            /\ \A u \in Threads \ {t} : th'[u] = th[u]

SameCall(c, d)   == d.op = c.op /\ d.node = c.node /\ d.head = c.head /\ d.keys = c.keys
SamePlace(c, d)  == d.prev = c.prev /\ d.nxt = c.nxt
SameSearch(c, d) == d.heads = c.heads /\ d.found = c.found
NoPlace(d)  == d.prev = NoNode /\ d.nxt = NoNode
NoSearch(d) == d.heads = {} /\ d.keys = {} /\ d.found = {}
Goes(t, pc) ==
    /\ Moved(t) /\ th'[t].pc = pc
    /\ SameCall(th[t], th'[t]) /\ SamePlace(th[t], th'[t]) /\ SameSearch(th[t], th'[t])
Returns(t) == Moved(t) /\ th'[t] = Idle

LEMMA IdleIsCall ==
  /\ Idle \in Call /\ NoPlace(Idle) /\ NoSearch(Idle)
  /\ Idle.op = "none" /\ Idle.pc = "Idle" /\ Idle.node = NoNode /\ Idle.head = NoNode
  BY DEF Idle, Call, Ops, NoPlace, NoSearch

LEMMA GotoGoes ==
  ASSUME TypeOK, NEW t \in Threads,
         NEW pc \in {"Idle", "InitHashArray", "InitLocked", "LockHead", "LockNext",
               "Link", "Pop", "LockNode", "Unlink", "Added", "Removed",
               "Bucket", "LockPrev", "LockVisited", "Test", "Return",
               "NextKeyNode", "FreeList", "FreeNode"},
         Goto(t, pc)
  PROVE  Goes(t, pc)
  BY DEF TypeOK, Goto, Goes, Moved, SameCall, SamePlace, SameSearch, Call

LEMMA ReturnReturns ==
  ASSUME TypeOK, NEW t \in Threads, Return(t)
  PROVE  Returns(t)
  BY IdleIsCall DEF TypeOK, Return, Returns, Moved

LEMMA CallAddDoes ==
  ASSUME TypeOK, NEW t \in Threads, CallAddNode(t)
  PROVE  /\ Moved(t) /\ th[t].pc = "Idle"
         /\ \E n \in unused :
               /\ unused' = unused \ {n}
               /\ th'[t].op = "Add" /\ th'[t].pc = "InitHashArray"
               /\ th'[t].node = n /\ th'[t].head = BucketOf(KeyOf(n))
         /\ NoPlace(th'[t]) /\ NoSearch(th'[t])
  <1>1. PICK n \in unused :
          /\ Starts(t, [Idle EXCEPT !.op = "Add", !.pc = "InitHashArray",
                           !.node = n, !.head = BucketOf(KeyOf(n))])
          /\ unused' = unused \ {n}
    BY DEF CallAddNode
  <1>2. n \in Nodes /\ BucketOf(KeyOf(n)) \in Heads
    BY ConstantsAssumption DEF TypeOK
  <1> QED BY <1>1, <1>2 DEF TypeOK, Starts, At, Idle, Moved, Call, Ops, NoPlace, NoSearch

LEMMA CallPopDoes ==
  ASSUME TypeOK, NEW t \in Threads, CallPop(t)
  PROVE  /\ Moved(t) /\ th[t].pc = "Idle"
         /\ th'[t].op = "Pop" /\ th'[t].pc = "InitHashArray" /\ th'[t].head \in Heads
         /\ NoPlace(th'[t]) /\ NoSearch(th'[t])
  <1>1. PICK h \in Heads :
          Starts(t, [Idle EXCEPT !.op = "Pop", !.pc = "InitHashArray", !.head = h])
    BY DEF CallPop
  <1> QED BY <1>1 DEF TypeOK, Starts, At, Idle, Moved, Call, Ops, NoPlace, NoSearch

Seeking(t) == \/ CallGetNodeBykey(t) \/ CallRemoveOnlyOneNode(t)
              \/ CallRemoveNode(t) \/ CallVistorNode(t)

SeekBegun(t, op, kind, keys) ==
    /\ Moved(t) /\ th[t].pc = "Idle"
    /\ th'[t].op = op /\ th'[t].pc = "Bucket" /\ th'[t].keys = keys
    /\ th'[t].heads = {BucketOf(k) : k \in keys} /\ th'[t].found = {}
    /\ NoPlace(th'[t])
    /\ lookup' = [lookup EXCEPT ![t] = Table!Begins(kind, keys, Content)]
    /\ answer' = [answer EXCEPT ![t] = {}]
    /\ UNCHANGED <<listVars, lock, size, clears>>

LEMMA SeeksDoes ==
  ASSUME TypeOK, NEW t \in Threads, NEW kind, NEW keys \in SUBSET Keys,
         NEW op \in Lookups, Seeks(t, kind, keys, [Idle EXCEPT !.op = op])
  PROVE  SeekBegun(t, op, kind, keys)
  <1>1. {BucketOf(k) : k \in keys} \in SUBSET Heads
    BY ConstantsAssumption
  <1> DEFINE hs == {BucketOf(k) : k \in keys}
  <1> HIDE DEF hs
  <1>2. Starts(t, [[Idle EXCEPT !.op = op] EXCEPT !.keys = keys, !.pc = "Bucket",
                              !.heads = hs])
    BY DEF Seeks, hs
  <1>3. /\ Moved(t) /\ th[t].pc = "Idle"
        /\ th'[t].op = op /\ th'[t].pc = "Bucket" /\ th'[t].keys = keys
        /\ th'[t].heads = hs /\ th'[t].found = {}
        /\ NoPlace(th'[t])
    BY <1>1, <1>2 DEF hs, TypeOK, Starts, At, Idle, Moved, Call, Ops, Lookups, NoPlace
  <1> QED BY <1>3 DEF hs, Seeks, SeekBegun

SeekKind(op) == IF op \in {"Get", "RemoveOne"} THEN "one" ELSE "all"

LEMMA SeekingDoes ==
  ASSUME TypeOK, NEW t \in Threads, Seeking(t)
  PROVE  \E keys \in SUBSET Keys, op \in Lookups :
             keys # {} /\ SeekBegun(t, op, SeekKind(op), keys)
  <1>1. CASE CallGetNodeBykey(t)
    <2>1. PICK k \in Keys : Seeks(t, "one", {k}, [Idle EXCEPT !.op = "Get"])
      BY <1>1 DEF CallGetNodeBykey
    <2>2. "Get" \in Lookups /\ SeekKind("Get") = "one" /\ {k} \in SUBSET Keys /\ {k} # {}
      BY DEF Lookups, SeekKind
    <2> QED BY <2>1, <2>2, SeeksDoes
  <1>2. CASE CallRemoveOnlyOneNode(t)
    <2>1. PICK k \in Keys : Seeks(t, "one", {k}, [Idle EXCEPT !.op = "RemoveOne"])
      BY <1>2 DEF CallRemoveOnlyOneNode
    <2>2. /\ "RemoveOne" \in Lookups /\ SeekKind("RemoveOne") = "one"
          /\ {k} \in SUBSET Keys /\ {k} # {}
      BY DEF Lookups, SeekKind
    <2> QED BY <2>1, <2>2, SeeksDoes
  <1>3. CASE CallRemoveNode(t)
    <2>1. PICK k \in Keys : Seeks(t, "all", {k}, [Idle EXCEPT !.op = "RemoveKey"])
      BY <1>3 DEF CallRemoveNode
    <2>2. /\ "RemoveKey" \in Lookups /\ SeekKind("RemoveKey") = "all"
          /\ {k} \in SUBSET Keys /\ {k} # {}
      BY DEF Lookups, SeekKind
    <2> QED BY <2>1, <2>2, SeeksDoes
  <1>4. CASE CallVistorNode(t)
    <2>1. PICK keys \in {Keys} \cup {{k} : k \in Keys} :
            Seeks(t, "all", keys, [Idle EXCEPT !.op = "Visit"])
      BY <1>4 DEF CallVistorNode
    <2>2. /\ "Visit" \in Lookups /\ SeekKind("Visit") = "all"
          /\ keys \in SUBSET Keys /\ keys # {}
      BY ConstantsAssumption DEF Lookups, SeekKind
    <2> QED BY <2>1, <2>2, SeeksDoes
  <1> QED BY <1>1, <1>2, <1>3, <1>4 DEF Seeking

LEMMA CallFreeDoes ==
  ASSUME TypeOK, NEW t \in Threads, CallFreeHashMapNode(t)
  PROVE  /\ Moved(t) /\ th[t].pc = "Idle"
         /\ th'[t].op = "Free" /\ th'[t].pc = "Bucket" /\ th'[t].heads = Heads
         /\ th'[t].keys = {} /\ th'[t].found = {} /\ NoPlace(th'[t])
  BY DEF CallFreeHashMapNode, TypeOK, Starts, At, Idle, Moved, Call, Ops, NoPlace

LEMMA LockHeadDoes ==
  ASSUME TypeOK, NEW t \in Threads, LockHead(t), th[t].head \in Heads
  PROVE  /\ Moved(t) /\ th[t].pc = "LockHead"
         /\ SameCall(th[t], th'[t]) /\ SameSearch(th[t], th'[t])
         /\ th'[t].prev = th[t].head /\ th'[t].nxt = next[th[t].head]
         /\ th'[t].pc = IF th[t].op = "Add"
                        THEN IF next[th[t].head] = NoNode THEN "Link" ELSE "LockNext"
                        ELSE IF th[t].op = "Pop" THEN "Pop" ELSE "LockNode"
  BY DEF TypeOK, LockHead, LockNode, At, Moved, Call, AllNodes, SameCall, SameSearch

\* The turn of RemoveNode's loop that goes on from the next node.
Passes(t) ==
    /\ th[t].nxt # NoNode /\ th[t].nxt # th[t].node
    /\ th' = [th EXCEPT ![t].prev = th[t].nxt, ![t].nxt = next[th[t].nxt]]
    /\ UNCHANGED <<lock, removing, history>>
\* The one that marks the node.
MarksNode(t) ==
    /\ th[t].nxt # NoNode
    /\ LockNode(t, th[t].nxt)
    /\ removing' = removing \cup {th[t].nxt}
    /\ Goto(t, "Unlink")
    /\ ContentChanges
\* The one at the list's end.
Fails(t) ==
    /\ UnLock(t, {th[t].head})
    /\ Return(t)
    /\ UNCHANGED <<removing, history>>

LEMMA LockNextNodeCases ==
  ASSUME NEW t \in Threads, LockNextNode(t)
  PROVE  /\ th[t].pc = "LockNode"
         /\ UNCHANGED <<inited, next, unused, size, clears>>
         /\ Fails(t) \/ Passes(t) \/ MarksNode(t)
  BY DEF LockNextNode, At, Fails, Passes, MarksNode, RemoveEnds

LEMMA PassesDoes ==
  ASSUME TypeOK, NEW t \in Threads, Passes(t)
  PROVE  /\ Moved(t) /\ th[t].nxt \in Nodes
         /\ SameCall(th[t], th'[t]) /\ SameSearch(th[t], th'[t])
         /\ th'[t].pc = th[t].pc
         /\ th'[t].prev = th[t].nxt /\ th'[t].nxt = next[th[t].nxt]
  <1>1. th[t].nxt \in Nodes
    BY DEF TypeOK, Passes, Call
  <1> DEFINE c == th[t]
             n == next[c.nxt]
             d == [c EXCEPT !.prev = c.nxt, !.nxt = n]
  <1>2. c \in Call /\ c.nxt \in AllNodes /\ n \in Nodes \cup {NoNode}
    BY <1>1 DEF TypeOK, AllNodes
  <1>3. th \in [Threads -> Call] /\ th' = [th EXCEPT ![t] = d]
    BY DEF TypeOK, Passes
  <1> HIDE DEF n
  <1>4. /\ d \in Call /\ d.pc = c.pc /\ d.prev = c.nxt /\ d.nxt = n
        /\ SameCall(c, d) /\ SameSearch(c, d)
    BY ONLY <1>2 DEF Call, SameCall, SameSearch
  <1> HIDE DEF c, d
  <1>5. Moved(t) /\ th'[t] = d
    BY ONLY <1>3, <1>4, t \in Threads DEF Moved
  <1> QED BY <1>1, <1>4, <1>5 DEF c, n

EntersBucket(t, h) ==
    /\ Moved(t) /\ SameCall(th[t], th'[t])
    /\ th'[t].nxt = th[t].nxt /\ th'[t].found = th[t].found
    /\ th'[t].heads = th[t].heads \ {h} /\ th'[t].prev = h /\ h \in Heads
    /\ th'[t].pc = IF h \notin inited THEN "Bucket"
                   ELSE IF th[t].op = "Free" THEN "FreeList" ELSE "LockPrev"

LEMMA BucketDoes ==
  ASSUME TypeOK, NEW t \in Threads, Bucket(t)
  PROVE  /\ th[t].pc = "Bucket"
         /\ UNCHANGED <<listVars, lock, size, clears, history>>
         /\ \/ th[t].heads = {} /\ th[t].op = "Free" /\ Returns(t)
            \/ th[t].heads = {} /\ th[t].op # "Free" /\ Goes(t, "Return")
            \/ \E h \in th[t].heads : EntersBucket(t, h)
  <1>1. th[t].pc = "Bucket" /\ UNCHANGED <<listVars, lock, size, clears, history>>
    BY DEF Bucket, At
  <1>2. CASE th[t].heads = {} /\ IF th[t].op = "Free" THEN Return(t) ELSE Goto(t, "Return")
    BY <1>1, <1>2, GotoGoes, ReturnReturns
  <1>3. ASSUME NEW h \in th[t].heads,
               th' = [th EXCEPT ![t].heads = @ \ {h}, ![t].prev = h,
                        ![t].pc = IF h \notin inited THEN "Bucket"
                                  ELSE IF th[t].op = "Free" THEN "FreeList"
                                  ELSE "LockPrev"]
        PROVE  EntersBucket(t, h)
    <2> DEFINE hs == th[t].heads \ {h}
               pc == IF h \notin inited THEN "Bucket"
                     ELSE IF th[t].op = "Free" THEN "FreeList" ELSE "LockPrev"
    <2>1. h \in Heads /\ hs \in SUBSET Heads /\ pc \in {"Bucket", "FreeList", "LockPrev"}
      BY DEF TypeOK, Call
    <2>2. th' = [th EXCEPT ![t].heads = hs, ![t].prev = h, ![t].pc = pc]
      BY <1>3
    <2> HIDE DEF hs, pc
    <2> DEFINE d == [th[t] EXCEPT !.heads = hs, !.prev = h, !.pc = pc]
    <2>4. th \in [Threads -> Call] /\ th' = [th EXCEPT ![t] = d]
      BY <2>2 DEF TypeOK
    <2>5. th[t] \in Call /\ h \in AllNodes
      BY <2>1, <2>4 DEF AllNodes
    <2>6. d \in Call
      BY <2>1, <2>5 DEF Call
    <2>7. /\ SameCall(th[t], d) /\ d.nxt = th[t].nxt /\ d.found = th[t].found
          /\ d.heads = hs /\ d.prev = h /\ d.pc = pc
      BY <2>5 DEF Call, SameCall
    <2> HIDE DEF d
    <2>8. Moved(t) /\ th'[t] = d
      BY <2>4, <2>6 DEF Moved
    <2>3. /\ Moved(t) /\ SameCall(th[t], th'[t])
          /\ th'[t].nxt = th[t].nxt /\ th'[t].found = th[t].found
          /\ th'[t].heads = hs /\ th'[t].prev = h /\ th'[t].pc = pc
      BY <2>7, <2>8
    <2> QED BY <2>1, <2>3 DEF EntersBucket, hs, pc
  <1> QED BY <1>1, <1>2, <1>3 DEF Bucket

LEMMA LockPrevDoes ==
  ASSUME TypeOK, NEW t \in Threads, LockPrev(t), th[t].prev \in AllNodes
  PROVE  /\ th[t].pc = "LockPrev"
         /\ UNCHANGED <<listVars, size, clears, history>>
         /\ \/ next[th[t].prev] = NoNode /\ UNCHANGED lock /\ Goes(t, "Bucket")
            \/ /\ next[th[t].prev] # NoNode /\ LockNode(t, th[t].prev)
               /\ Moved(t) /\ SameCall(th[t], th'[t]) /\ SameSearch(th[t], th'[t])
               /\ th'[t].prev = th[t].prev /\ th'[t].nxt = next[th[t].prev]
               /\ th'[t].pc = "LockVisited"
  <1>1. CASE next[th[t].prev] = NoNode
    BY <1>1, GotoGoes DEF LockPrev, At
  <1>2. CASE next[th[t].prev] # NoNode
    <2>1. next[th[t].prev] \in Nodes
      BY <1>2 DEF TypeOK
    <2> QED BY <1>2, <2>1 DEF LockPrev, At, TypeOK, Moved, Call, AllNodes, SameCall, SameSearch
  <1> QED BY <1>1, <1>2

LEMMA TestDoes ==
  ASSUME TypeOK, NEW t \in Threads, Test(t), th[t].nxt \in Nodes
  PROVE  /\ Moved(t) /\ th[t].pc = "Test" /\ SameCall(th[t], th'[t])
         /\ th'[t].heads = th[t].heads
         /\ th'[t].prev = th[t].nxt /\ th'[t].nxt = th[t].nxt
         /\ th'[t].found = IF Takes(th[t]) THEN th[t].found \cup {th[t].nxt} ELSE th[t].found
         /\ th'[t].pc = IF Takes(th[t]) /\ th[t].op \in {"Get", "RemoveOne"}
                        THEN "Return" ELSE "LockPrev"
  BY DEF TypeOK, Test, UnLock, At, Moved, Call, AllNodes, SameCall

LEMMA LookupReturnsDoes ==
  ASSUME TypeOK, NEW t \in Threads, LookupReturns(t), th[t].op \in Lookups
  PROVE  /\ Moved(t) /\ th[t].pc = "Return"
         /\ NoPlace(th'[t])
         /\ \/ th'[t] = Idle
            \/ th'[t].op = th[t].op /\ th'[t].op \in Removals /\ th'[t].pc = "NextKeyNode"
  <1>1. th[t].pc = "Return"
    BY DEF LookupReturns, At
  <1>2. CASE th[t].op \in {"Get", "Visit"}
    BY <1>1, <1>2, IdleIsCall, ReturnReturns DEF LookupReturns, Returns
  <1>3. CASE th[t].op \in {"RemoveOne", "RemoveKey"}
    <2>1. th' = [th EXCEPT ![t] = [Idle EXCEPT !.op = th[t].op,
                       !.pc = "NextKeyNode", !.found = th[t].found]]
      BY <1>3 DEF LookupReturns
    <2> QED BY <1>1, <1>3, <2>1 DEF TypeOK, Moved, Call, Idle, NoPlace, Removals
  <1> QED BY <1>2, <1>3 DEF Lookups

LEMMA NextKeyDoes ==
  ASSUME TypeOK, NEW t \in Threads, NextKeyNode(t)
  PROVE  /\ th[t].pc = "NextKeyNode"
         /\ UNCHANGED <<listVars, lock, size, clears, history>>
         /\ \/ Returns(t)
            \/ /\ Moved(t) /\ th'[t].op = th[t].op /\ th'[t].pc = "InitHashArray"
               /\ th'[t].head \in Heads /\ SamePlace(th[t], th'[t])
  <1>1. th[t].pc = "NextKeyNode" /\ UNCHANGED <<listVars, lock, size, clears, history>>
    BY DEF NextKeyNode, At
  <1>2. ASSUME NEW n \in th[t].found,
               th' = [th EXCEPT ![t].found = @ \ {n}, ![t].node = n,
                      ![t].head = BucketOf(KeyOf(n)), ![t].pc = "InitHashArray"]
        PROVE  /\ Moved(t) /\ th'[t].op = th[t].op /\ th'[t].pc = "InitHashArray"
               /\ th'[t].head \in Heads /\ SamePlace(th[t], th'[t])
    <2> DEFINE left == th[t].found \ {n}
    <2>1. n \in Nodes /\ BucketOf(KeyOf(n)) \in Heads /\ left \in SUBSET Nodes
      BY ConstantsAssumption DEF TypeOK, Call
    <2>2. th' = [th EXCEPT ![t].found = left, ![t].node = n,
                      ![t].head = BucketOf(KeyOf(n)), ![t].pc = "InitHashArray"]
      BY <1>2
    <2> HIDE DEF left
    <2> DEFINE d == [th[t] EXCEPT !.found = left, !.node = n,
                      !.head = BucketOf(KeyOf(n)), !.pc = "InitHashArray"]
    <2>3. th \in [Threads -> Call] /\ th' = [th EXCEPT ![t] = d]
      BY <2>2 DEF TypeOK
    <2>4. th[t] \in Call
      BY <2>3
    <2>5. d \in Call
      BY <2>1, <2>4 DEF Call
    <2>6. /\ d.op = th[t].op /\ d.pc = "InitHashArray" /\ d.head \in Heads
          /\ SamePlace(th[t], d)
      BY <2>1, <2>4 DEF Call, SamePlace
    <2> HIDE DEF d
    <2>7. Moved(t) /\ th'[t] = d
      BY <2>3, <2>5 DEF Moved
    <2> QED BY <2>6, <2>7
  <1> QED BY <1>1, <1>2, ReturnReturns DEF NextKeyNode

LEMMA FreeListDoes ==
  ASSUME TypeOK, NEW t \in Threads, FreeList(t), th[t].prev \in Heads
  PROVE  /\ Moved(t) /\ th[t].pc = "FreeList" /\ SameCall(th[t], th'[t])
         /\ SameSearch(th[t], th'[t])
         /\ th'[t].prev = next[th[t].prev] /\ th'[t].nxt = th[t].nxt
         /\ th'[t].pc = IF next[th[t].prev] = NoNode THEN "Bucket" ELSE "FreeNode"
  BY DEF TypeOK, FreeList, At, Moved, Call, AllNodes, SameCall, SameSearch

LEMMA FreeNodeDoes ==
  ASSUME TypeOK, NEW t \in Threads, FreeNode(t), th[t].prev \in Nodes
  PROVE  /\ Moved(t) /\ th[t].pc = "FreeNode" /\ SameCall(th[t], th'[t])
         /\ SameSearch(th[t], th'[t])
         /\ th'[t].prev = next[th[t].prev] /\ th'[t].nxt = th[t].nxt
         /\ th'[t].pc = IF next[th[t].prev] = NoNode THEN "Bucket" ELSE "FreeNode"
  <1> DEFINE q == next[th[t].prev]
             pc == IF q = NoNode THEN "Bucket" ELSE "FreeNode"
             d == [th[t] EXCEPT !.prev = q, !.pc = pc]
  <1>1. q \in Nodes \cup {NoNode} /\ th[t] \in Call
    BY DEF TypeOK, AllNodes
  <1>2. th' = [th EXCEPT ![t].prev = next[th[t].prev],
                ![t].pc = IF next[th[t].prev] = NoNode THEN "Bucket" ELSE "FreeNode"]
        /\ th[t].pc = "FreeNode"
    BY DEF FreeNode, At
  <1>3. th \in [Threads -> Call] /\ th' = [th EXCEPT ![t] = d]
    BY <1>2 DEF TypeOK
  <1> HIDE DEF q
  <1>4. /\ d \in Call /\ SameCall(th[t], d) /\ SameSearch(th[t], d)
        /\ d.prev = q /\ d.nxt = th[t].nxt /\ d.pc = pc
    BY <1>1 DEF Call, AllNodes, SameCall, SameSearch
  <1> HIDE DEF d
  <1>5. Moved(t) /\ th'[t] = d
    BY <1>3, <1>4 DEF Moved
  <1> QED BY <1>2, <1>4, <1>5 DEF q

-----------------------------------------------------------------------------
(* Steps that change no link and no mark.                                     *)

LEMMA PlaceGrows ==
  ASSUME NEW c, NEW f, NEW ini, NEW ini2, ini \subseteq ini2, PlaceOK(c, f, ini)
  PROVE  PlaceOK(c, f, ini2)
  BY DEF PlaceOK

\* What a thread points to after such a step: what it did, a head, or the next
\* of something.
Knows(c, d, f) ==
    /\ d.prev \in Heads \cup {NoNode, c.prev, c.nxt} \/ \E x \in AllNodes : d.prev = f[x]
    /\ d.nxt \in {NoNode, c.nxt} \/ \E x \in AllNodes : d.nxt = f[x]

LEMMA NewNodeKept ==
  ASSUME NEW n \in Nodes, NEW f, NEW r, NEW ths, NEW ths2, NEW t \in Threads,
         NewNode(n, f, r, ths), \A u \in Threads \ {t} : ths2[u] = ths[u],
         Knows(ths[t], ths2[t], f)
  PROVE  NewNode(n, f, r, ths2)
  <1>1. ths2[t].prev # n /\ ths2[t].nxt # n
    BY Basics DEF NewNode, Knows
  <1> QED BY <1>1 DEF NewNode

LEMMA NewNodesKept ==
  ASSUME NEW f, NEW r, NEW new \in SUBSET Nodes, NEW ths, NEW ths2, NEW t \in Threads,
         NewNodes(f, r, new, ths), \A u \in Threads \ {t} : ths2[u] = ths[u],
         \A u \in Threads : Adding(ths[u]) => ths[u].node \in Nodes,
         Knows(ths[t], ths2[t], f),
         Adding(ths2[t]) => Adding(ths[t]) /\ ths2[t].node = ths[t].node
  PROVE  NewNodes(f, r, new, ths2)
  <1>1. \A n \in new : NewNode(n, f, r, ths2)
    BY NewNodeKept DEF NewNodes
  <1>2. ASSUME NEW u \in Threads, Adding(ths2[u])
        PROVE  /\ Adding(ths[u]) /\ ths2[u].node = ths[u].node
               /\ NewNode(ths2[u].node, f, r, ths2) /\ ths2[u].node \notin new
    <2>1. Adding(ths[u]) /\ ths2[u].node = ths[u].node
      BY <1>2
    <2> QED BY <2>1, NewNodeKept DEF NewNodes
  <1>3. ASSUME NEW u \in Threads, NEW v \in Threads, Adding(ths2[u]), Adding(ths2[v]),
               ths2[u].node = ths2[v].node
        PROVE  u = v
    BY <1>2, <1>3 DEF NewNodes
  <1> QED BY <1>1, <1>2, <1>3 DEF NewNodes

LEMMA QuietPlaces ==
  ASSUME TypeOK, PlaceInv, NEW t \in Threads, Moved(t),
         UNCHANGED <<next, removing, unused>>, inited \subseteq inited',
         CallOK(th'[t]), th'[t].op = "Free" => clears' # 0, clears # 0 => clears' # 0,
         PlaceOK(th'[t], next, inited'),
         th[t].pc # "Unlink", th'[t].pc \notin {"Unlink", "FreeNode"},
         Adding(th'[t]) => Adding(th[t]) /\ th'[t].node = th[t].node,
         Knows(th[t], th'[t], next)
  PROVE  PlaceInv'
  <1>1. CallsOK'
    BY DEF PlaceInv, CallsOK, Moved
  <1>2. PlacesOK'
    <2>1. ASSUME NEW u \in Threads PROVE PlaceOK(th'[u], next, inited')
      BY PlaceGrows DEF PlaceInv, PlacesOK, Moved
    <2> QED BY <2>1 DEF PlacesOK
  <1>3. ShapeOK'
    BY DEF PlaceInv, ShapeOK, Shape
  <1>4. NewOK'
    <2>1. \A u \in Threads : Adding(th[u]) => th[u].node \in Nodes
      BY DEF PlaceInv, PlacesOK, PlaceOK
    <2>2. NewNodes(next, removing, unused, th')
      BY <2>1, NewNodesKept DEF TypeOK, PlaceInv, NewOK, Moved
    <2> QED BY <2>2 DEF NewOK
  <1>5. MarksOK'
    <2>1. \A u \in Threads : th'[u].pc = "Unlink" => th[u] = th'[u]
      BY DEF Moved
    <2>2. \A u \in Threads : th[u].pc = "Unlink" => th[u] = th'[u]
      BY DEF Moved
    <2>3. Marks(next, removing, th')
      BY <2>1, <2>2 DEF PlaceInv, MarksOK, Marks
    <2> QED BY <2>3 DEF MarksOK
  <1>6. CutOK'
    <2>1. \A u \in Threads : th'[u].pc = "FreeNode" => th[u] = th'[u]
      BY DEF Moved
    <2>2. CutOff(next, th')
      BY <2>1 DEF PlaceInv, CutOK, CutOff
    <2> QED BY <2>2 DEF CutOK
  <1> QED BY <1>1, <1>2, <1>3, <1>4, <1>5, <1>6 DEF PlaceInv

-----------------------------------------------------------------------------
(* Locks.                                                                     *)

\* A step of t that gives and takes t's locks only.
LEMMA LocksKept ==
  ASSUME TypeOK, LocksOK, NEW t \in Threads, Moved(t),
         \A n \in AllNodes : lock'[n] = t <=> n \in Held(th'[t]),
         \A n \in AllNodes : lock'[n] # lock[n] =>
             lock[n] \in {t, NoThread} /\ lock'[n] \in {t, NoThread}
  PROVE  LocksOK'
  <1>1. ASSUME NEW u \in Threads \ {t}, NEW n \in AllNodes
        PROVE  lock'[n] = u <=> n \in Held(th'[u])
    <2>1. lock'[n] = u <=> lock[n] = u
      BY ConstantsAssumption
    <2> QED BY <2>1 DEF LocksOK, Locks, Moved
  <1>2. Locks(lock', th')
    BY <1>1 DEF Locks
  <1> QED BY <1>2 DEF LocksOK

LEMMA NoLocksMoved ==
  ASSUME TypeOK, LocksOK, NEW t \in Threads, Moved(t), UNCHANGED lock,
         Held(th'[t]) = Held(th[t])
  PROVE  LocksOK'
  <1>1. \A n \in AllNodes : lock'[n] = t <=> n \in Held(th'[t])
    BY DEF LocksOK, Locks
  <1> QED BY <1>1, LocksKept

LEMMA LockTaken ==
  ASSUME TypeOK, LocksOK, NEW t \in Threads, Moved(t), NEW n \in AllNodes,
         LockNode(t, n), Held(th'[t]) = Held(th[t]) \cup {n}
  PROVE  LocksOK'
  <1>1. lock[n] = NoThread /\ lock' = [lock EXCEPT ![n] = t]
    BY DEF LockNode
  <1>2. lock'[n] = t /\ \A m \in AllNodes \ {n} : lock'[m] = lock[m]
    BY <1>1 DEF TypeOK
  <1>3. \A m \in AllNodes : lock'[m] = t <=> m \in Held(th'[t])
    BY <1>2 DEF LocksOK, Locks
  <1>4. \A m \in AllNodes : lock'[m] # lock[m] =>
             lock[m] \in {t, NoThread} /\ lock'[m] \in {t, NoThread}
    BY <1>1, <1>2
  <1> QED BY <1>3, <1>4, LocksKept

LEMMA LocksReleased ==
  ASSUME TypeOK, LocksOK, NEW t \in Threads, Moved(t), NEW ns,
         UnLock(t, ns), Held(th[t]) = ns \cap AllNodes, Held(th'[t]) = {}
  PROVE  LocksOK'
  <1>1. \A m \in AllNodes : lock'[m] = IF m \in ns THEN NoThread ELSE lock[m]
    BY DEF UnLock
  <1>2. \A m \in AllNodes : m \in ns <=> lock[m] = t
    BY DEF LocksOK, Locks
  <1>3. \A m \in AllNodes : lock'[m] = t <=> m \in Held(th'[t])
    BY <1>1, <1>2, ConstantsAssumption
  <1>4. \A m \in AllNodes : lock'[m] # lock[m] =>
             lock[m] \in {t, NoThread} /\ lock'[m] \in {t, NoThread}
    BY <1>1, <1>2
  <1> QED BY <1>3, <1>4, LocksKept

LEMMA LockTyped ==
  ASSUME TypeOK, NEW t \in Threads
  PROVE  /\ \A n \in AllNodes : LockNode(t, n) =>
                lock' \in [AllNodes -> Threads \cup {NoThread}]
         /\ \A ns : UnLock(t, ns) => lock' \in [AllNodes -> Threads \cup {NoThread}]
  BY DEF TypeOK, LockNode, UnLock

LEMMA HeldIs ==
  ASSUME NEW c
  PROVE  /\ c.pc \in {"LockNext", "Pop", "LockNode"} => Held(c) = {c.head}
         /\ c.pc \in {"Link", "Unlink"} => Held(c) = {c.head, c.nxt} \ {NoNode}
         /\ c.pc = "LockVisited" => Held(c) = {c.prev}
         /\ c.pc = "Test" => Held(c) = {c.prev, c.nxt}
         /\ c.pc \notin {"LockNext", "Pop", "LockNode", "Link", "Unlink",
                         "LockVisited", "Test"} => Held(c) = {}
  BY DEF Held

\* Two writers that have locked their heads are in different lists.
LEMMA HeadsApart ==
  ASSUME TypeOK, PlacesOK, LocksOK, NEW t \in Threads, NEW u \in Threads, t # u,
         th[t].pc \in {"LockNext", "Pop", "LockNode", "Link", "Unlink"},
         th[u].pc \in {"LockNext", "Pop", "LockNode", "Link", "Unlink"}
  PROVE  /\ th[t].head \in Heads /\ th[u].head \in Heads
         /\ lock[th[t].head] = t /\ th[t].head # th[u].head
  <1>1. /\ th[t].head \in Heads /\ th[t].head \in Held(th[t])
        /\ th[u].head \in Heads /\ th[u].head \in Held(th[u])
    BY HeldIs, Basics DEF PlacesOK, PlaceOK
  <1> QED BY <1>1, Basics DEF LocksOK, Locks

-----------------------------------------------------------------------------
(* Lookups.                                                                   *)

LEMMA ContentIs ==
  ASSUME TypeOK
  PROVE  /\ next \in Links /\ Content = InTable(next, removing)
         /\ Content \subseteq Nodes
         /\ \A n : Linked(n) = Reach(next, n)
         /\ \A c : Ahead(c) = Before(c, next)
  <1>1. Content \subseteq Nodes
    BY DEF Content, Linked, Reach
  <1> QED BY <1>1 DEF TypeOK, Links, Content, InTable, Linked, Ahead, Before

LEMMA InTableNodes ==
  ASSUME NEW f, NEW r
  PROVE  InTable(f, r) \subseteq Nodes
  BY DEF InTable, Reach

LEMMA NoLookupIs ==
  /\ Table!NoLookup.kind = "none" /\ Table!NoLookup.keys = {}
  /\ Table!NoLookup.must = {} /\ Table!NoLookup.may = {}
  /\ Table!NoLookup \in Table!Lookup
  /\ \A nodes : Table!Changed(Table!NoLookup, nodes) = Table!NoLookup
  <1>1. ASSUME NEW nodes
        PROVE  Table!Changed(Table!NoLookup, nodes) = Table!NoLookup
    <2>1. {} \cap nodes = {} /\ {} \cup {n \in nodes : KeyOf(n) \in {}} = {}
      OBVIOUS
    <2>2. Table!Changed(Table!NoLookup, nodes) =
            [Table!NoLookup EXCEPT !.must = {} \cap nodes,
                                   !.may = {} \cup {n \in nodes : KeyOf(n) \in {}}]
      BY DEF Table!Changed, Table!Sought, Table!NoLookup
    <2>3. Table!Changed(Table!NoLookup, nodes) =
            [Table!NoLookup EXCEPT !.must = {}, !.may = {}]
      BY <2>1, <2>2
    <2> QED BY <2>3 DEF Table!NoLookup
  <1> QED BY <1>1 DEF Table!NoLookup, Table!Lookup, Table!Kinds

LEMMA ChangedIs ==
  ASSUME NEW l \in Table!Lookup, NEW nodes \in SUBSET Nodes
  PROVE  /\ Table!Changed(l, nodes) \in Table!Lookup
         /\ Table!Changed(l, nodes).kind = l.kind
         /\ Table!Changed(l, nodes).keys = l.keys
         /\ Table!Changed(l, nodes).must = l.must \cap nodes
         /\ Table!Changed(l, nodes).may
                = l.may \cup {n \in nodes : KeyOf(n) \in l.keys}
  <1> DEFINE mu == l.must \cap nodes
             ma == l.may \cup {n \in nodes : KeyOf(n) \in l.keys}
  <1>1. mu \in SUBSET Nodes /\ ma \in SUBSET Nodes
    BY DEF Table!Lookup
  <1>2. Table!Changed(l, nodes) = [l EXCEPT !.must = mu, !.may = ma]
    BY DEF Table!Changed, Table!Sought, Table!Lookup
  <1> HIDE DEF mu, ma
  <1>3. /\ Table!Changed(l, nodes) \in Table!Lookup
        /\ Table!Changed(l, nodes).kind = l.kind
        /\ Table!Changed(l, nodes).keys = l.keys
        /\ Table!Changed(l, nodes).must = mu
        /\ Table!Changed(l, nodes).may = ma
    BY <1>1, <1>2 DEF Table!Lookup
  <1> QED BY <1>3 DEF mu, ma

LEMMA LookupEqual ==
  ASSUME NEW l \in Table!Lookup, NEW m \in Table!Lookup,
         l.kind = m.kind, l.keys = m.keys, l.must = m.must, l.may = m.may
  PROVE  l = m
  BY DEF Table!Lookup

\* A lookup is as it was if the table is.
LEMMA ChangedSame ==
  ASSUME NEW c, NEW l \in Table!Lookup, NEW f, NEW r, LookupOK(c, l, f, r)
  PROVE  Table!Changed(l, InTable(f, r)) = l
  <1>1. CASE l.kind = "none"
    BY <1>1, NoLookupIs DEF LookupOK
  <1>2. CASE l.kind # "none"
    <2>1. /\ l.must \cap InTable(f, r) = l.must
          /\ l.may \cup {n \in InTable(f, r) : KeyOf(n) \in l.keys} = l.may
      BY <1>2 DEF LookupOK
    <2> DEFINE l2 == Table!Changed(l, InTable(f, r))
    <2>2. /\ l2 \in Table!Lookup /\ l2.kind = l.kind /\ l2.keys = l.keys
          /\ l2.must = l.must \cap InTable(f, r)
          /\ l2.may = l.may \cup {n \in InTable(f, r) : KeyOf(n) \in l.keys}
      BY InTableNodes, ChangedIs
    <2> HIDE DEF l2
    <2>3. l2 = l
      BY <2>1, <2>2, LookupEqual
    <2> QED BY <2>3 DEF l2
  <1> QED BY <1>1, <1>2

\* The links change: what is new in the table is added to what may be answered,
\* what has left it need not be, and nothing else comes before a traversal or
\* goes.
LEMMA LookupKept ==
  ASSUME NEW f \in Links, NEW g \in Links, NEW r, NEW r2, r \subseteq r2,
         NEW c, NEW ini, PlaceOK(c, f, ini), NEW l \in Table!Lookup,
         LookupOK(c, l, f, r),
         NEW new, new \subseteq InTable(g, r2),
         InTable(g, r2) \subseteq InTable(f, r) \cup new,
         \A x \in AllNodes \cap {c.prev, c.nxt} :
             /\ Reach(g, x) \subseteq Reach(f, x) \cup new
             /\ Reach(f, x) \cap InTable(g, r2) \subseteq Reach(g, x)
  PROVE  LookupOK(c, Table!Changed(l, InTable(g, r2)), g, r2)
  <1>1. CASE l.kind = "none"
    BY <1>1, NoLookupIs DEF LookupOK
  <1>2. CASE l.kind # "none"
    <2> DEFINE T == InTable(f, r)
               T2 == InTable(g, r2)
               l2 == Table!Changed(l, T2)
    <2>1. /\ l2.kind = l.kind /\ l2.keys = l.keys
          /\ l2.must = l.must \cap T2
          /\ l2.may = l.may \cup {n \in T2 : KeyOf(n) \in l.keys}
      BY InTableNodes, ChangedIs
    <2> HIDE DEF l2
    <2>2. /\ Before(c, g) \subseteq Before(c, f) \cup new
          /\ Before(c, f) \cap T2 \subseteq Before(c, g)
      BY Basics DEF Before, PlaceOK
    <2>3. /\ l.keys = c.keys
          /\ l.must \subseteq T
          /\ \A n \in l.must : KeyOf(n) \in c.keys
          /\ \A n \in T : KeyOf(n) \in c.keys => n \in l.may
          /\ c.found \subseteq l.may
          /\ \A n \in Before(c, f) : KeyOf(n) \in c.keys => n \in l.may \cup r
          /\ l.kind = "all" \/ c.found = {} =>
               \A n \in l.must : \/ BucketOf(KeyOf(n)) \in c.heads
                                 \/ n \in c.found
                                 \/ n \in Before(c, f)
      BY <1>2 DEF LookupOK
    <2> HIDE DEF T, T2
    <2>4. /\ l2.keys = c.keys /\ l2.must \subseteq T2
          /\ \A n \in l2.must : KeyOf(n) \in c.keys
          /\ \A n \in T2 : KeyOf(n) \in c.keys => n \in l2.may
          /\ c.found \subseteq l2.may
      BY <2>1, <2>3
    <2>5. \A n \in Before(c, g) : KeyOf(n) \in c.keys => n \in l2.may \cup r2
      <3>1. new \subseteq T2
        BY DEF T2
      <3> QED BY <3>1, <2>1, <2>2, <2>3
    <2>6. l2.kind = "all" \/ c.found = {} =>
               \A n \in l2.must : \/ BucketOf(KeyOf(n)) \in c.heads
                                  \/ n \in c.found
                                  \/ n \in Before(c, g)
      BY <2>1, <2>2, <2>3
    <2>7. LookupOK(c, l2, g, r2)
      BY <1>2, <2>1, <2>4, <2>5, <2>6 DEF LookupOK, T2
    <2> QED BY <2>7 DEF l2, T2
  <1> QED BY <1>1, <1>2

\* The same of a change that leaves the table as it is.
LEMMA LookupUntouched ==
  ASSUME NEW f \in Links, NEW g \in Links, NEW r, NEW r2, r \subseteq r2,
         NEW c, NEW ini, PlaceOK(c, f, ini), NEW l \in Table!Lookup,
         LookupOK(c, l, f, r),
         InTable(g, r2) = InTable(f, r),
         \A x \in AllNodes : /\ Reach(g, x) \subseteq Reach(f, x)
                             /\ Reach(f, x) \cap InTable(f, r) \subseteq Reach(g, x)
  PROVE  LookupOK(c, l, g, r2)
  <1>1. LookupOK(c, Table!Changed(l, InTable(g, r2)), g, r2)
    <2>1. {} \subseteq InTable(g, r2)
      OBVIOUS
    <2> QED BY <2>1, LookupKept
  <1> QED BY <1>1, ChangedSame

\* A call that looks nothing up.
LEMMA NoLookupKept ==
  ASSUME NEW c, NEW d, NEW l, NEW f, NEW r, NEW g, NEW r2,
         LookupOK(c, l, f, r), Kind(c) = "none", Kind(d) = "none"
  PROVE  LookupOK(d, l, g, r2)
  BY NoLookupIs DEF LookupOK

LEMMA KindIs ==
  ASSUME NEW c
  PROVE  /\ c.pc \notin Readers => Kind(c) = "none"
         /\ c.op = "Free" => Kind(c) = "none"
         /\ c.pc \in Readers /\ c.op \in Lookups => Kind(c) = SeekKind(c.op)
  BY DEF Kind, SeekKind, Lookups, Readers

\* Steps that touch neither the table nor the history: the others' lookups are
\* as they were.
LEMMA QuietLookups ==
  ASSUME TypeOK, LookupsOK, NEW t \in Threads, Moved(t),
         UNCHANGED <<next, removing, history>>,
         LookupOK(th'[t], lookup[t], next, removing)
  PROVE  LookupsOK'
  <1>1. \A u \in Threads : LookupOK(th'[u], lookup[u], next, removing)
    BY DEF LookupsOK, Moved
  <1> QED BY <1>1 DEF LookupsOK, history

\* And those of a call that looks nothing up.
LEMMA QuietWriter ==
  ASSUME TypeOK, LookupsOK, NEW t \in Threads, Moved(t),
         UNCHANGED <<next, removing, history>>,
         Kind(th[t]) = "none", Kind(th'[t]) = "none"
  PROVE  LookupsOK'
  <1>1. LookupOK(th'[t], lookup[t], next, removing)
    BY NoLookupKept DEF LookupsOK
  <1> QED BY <1>1, QuietLookups

-----------------------------------------------------------------------------
(* The calls and the threads' steps that change no link.                      *)

KInv == TypeOK /\ PlaceInv /\ LocksOK /\ LookupsOK

LEMMA TypesQuiet ==
  ASSUME TypeOK, NEW t \in Threads, Moved(t),
         UNCHANGED <<next, removing, history>>,
         unused' \subseteq Nodes, inited' \subseteq Heads,
         lock' \in [AllNodes -> Threads \cup {NoThread}],
         size' \in Int, clears' \in 0 .. MaxClears
  PROVE  TypeOK'
  BY DEF TypeOK, Moved, history

LEMMA CallAddStep ==
  ASSUME KInv, NEW t \in Threads, CallAddNode(t)
  PROVE  KInv'
  <1> USE DEF KInv
  <1>0. UNCHANGED <<inited, next, removing, lock, size, clears, history>>
    BY DEF CallAddNode
  <1>1. /\ Moved(t) /\ th[t].pc = "Idle"
        /\ NoPlace(th'[t]) /\ NoSearch(th'[t])
    BY CallAddDoes
  <1>2. PICK n \in unused :
               /\ unused' = unused \ {n}
               /\ th'[t].op = "Add" /\ th'[t].pc = "InitHashArray"
               /\ th'[t].node = n /\ th'[t].head = BucketOf(KeyOf(n))
    BY CallAddDoes
  <1>3. n \in Nodes /\ BucketOf(KeyOf(n)) \in Heads
    BY ConstantsAssumption DEF TypeOK
  <1>4. TypeOK'
    <2>1. unused' \subseteq Nodes
      BY <1>2 DEF TypeOK
    <2> QED BY <1>0, <1>1, <2>1, TypesQuiet DEF TypeOK
  <1>5. CallsOK' /\ PlacesOK' /\ ShapeOK' /\ MarksOK' /\ CutOK'
    <2>1. CallOK(th'[t])
      BY <1>2 DEF CallOK, Removals
    <2>2. PlaceOK(th'[t], next, inited)
      BY <1>2, <1>3 DEF PlaceOK, Adding
    <2>3. CallsOK'
      BY <1>0, <1>1, <1>2, <2>1 DEF PlaceInv, CallsOK, Moved
    <2>4. PlacesOK'
      BY <1>0, <1>1, <2>2 DEF PlaceInv, PlacesOK, Moved
    <2>5. ShapeOK'
      BY <1>0 DEF PlaceInv, ShapeOK, Shape
    <2>6. \A u \in Threads : th'[u].pc \in {"Unlink", "FreeNode"}
                             \/ th[u].pc \in {"Unlink", "FreeNode"} => th'[u] = th[u]
      BY <1>1, <1>2 DEF Moved
    <2>7. MarksOK'
      BY <1>0, <2>6 DEF PlaceInv, MarksOK, Marks
    <2>8. CutOK'
      BY <1>0, <2>6 DEF PlaceInv, CutOK, CutOff
    <2> QED BY <2>3, <2>4, <2>5, <2>7, <2>8
  <1>6. NewOK'
    <2>0. NewNodes(next, removing, unused, th)
      BY DEF PlaceInv, NewOK
    <2>1. Knows(th[t], th'[t], next)
      BY <1>1 DEF Knows, NoPlace
    <2>2. \A m \in Nodes : NewNode(m, next, removing, th) => NewNode(m, next, removing, th')
      BY <1>1, <2>1, NewNodeKept DEF Moved
    <2>3. \A m \in unused' : NewNode(m, next, removing, th')
      BY <1>2, <2>0, <2>2 DEF NewNodes, TypeOK
    <2>4. \A u \in Threads : Adding(th[u]) => th[u].node \in Nodes /\ th[u].node \notin unused
                                              /\ NewNode(th[u].node, next, removing, th)
      BY <2>0 DEF NewNodes, PlaceInv, PlacesOK, PlaceOK
    <2>5. \A u \in Threads \ {t} : th'[u] = th[u]
      BY <1>1 DEF Moved
    <2>6. ASSUME NEW u \in Threads, Adding(th'[u])
          PROVE  NewNode(th'[u].node, next, removing, th') /\ th'[u].node \notin unused'
      <3>1. CASE u = t
        <4>1. NewNode(n, next, removing, th)
          BY <2>0 DEF NewNodes
        <4> QED BY <3>1, <4>1, <1>2, <1>3, <2>2
      <3>2. CASE u # t
        BY <3>2, <2>4, <2>5, <2>6, <2>2, <1>2
      <3> QED BY <3>1, <3>2
    <2>7. ASSUME NEW u \in Threads, NEW v \in Threads, Adding(th'[u]), Adding(th'[v]),
                 th'[u].node = th'[v].node
          PROVE  u = v
      <3>1. u # t => Adding(th[u]) /\ th'[u].node = th[u].node /\ th[u].node # n
        BY <2>4, <2>5, <2>7
      <3>2. v # t => Adding(th[v]) /\ th'[v].node = th[v].node /\ th[v].node # n
        BY <2>4, <2>5, <2>7
      <3>3. th'[t].node = n
        BY <1>2
      <3>4. \A x, y \in Threads :
               Adding(th[x]) /\ Adding(th[y]) /\ th[x].node = th[y].node => x = y
        BY <2>0 DEF NewNodes
      <3> QED BY <3>1, <3>2, <3>3, <3>4, <2>7
    <2>8. NewNodes(next, removing, unused', th')
      BY <2>3, <2>6, <2>7 DEF NewNodes
    <2> QED BY <1>0, <2>8 DEF NewOK
  <1>7. LocksOK'
    <2>1. Held(th'[t]) = {} /\ Held(th[t]) = {}
      BY <1>1, <1>2, HeldIs
    <2> QED BY <1>0, <1>1, <2>1, NoLocksMoved
  <1>8. LookupsOK'
    <2>1. Kind(th[t]) = "none" /\ Kind(th'[t]) = "none"
      BY <1>1, <1>2, KindIs DEF Readers
    <2> QED BY <1>0, <1>1, <2>1, QuietWriter
  <1> QED BY <1>4, <1>5, <1>6, <1>7, <1>8 DEF PlaceInv

LEMMA CallPopStep ==
  ASSUME KInv, NEW t \in Threads, CallPop(t)
  PROVE  KInv'
  <1> USE DEF KInv
  <1>0. UNCHANGED <<listVars, lock, size, clears, history>>
    BY DEF CallPop
  <1>1. /\ Moved(t) /\ th[t].pc = "Idle"
        /\ th'[t].op = "Pop" /\ th'[t].pc = "InitHashArray" /\ th'[t].head \in Heads
        /\ NoPlace(th'[t]) /\ NoSearch(th'[t])
    BY CallPopDoes
  <1>2. TypeOK'
    BY <1>0, <1>1, TypesQuiet DEF TypeOK, listVars
  <1>3. PlaceInv'
    <2>1. CallOK(th'[t]) /\ PlaceOK(th'[t], next, inited') /\ ~Adding(th'[t])
          /\ Knows(th[t], th'[t], next)
      BY <1>1 DEF CallOK, PlaceOK, Removals, Adding, Knows, NoPlace
    <2> QED BY <1>0, <1>1, <2>1, QuietPlaces DEF listVars
  <1>4. LocksOK'
    <2>1. Held(th'[t]) = {} /\ Held(th[t]) = {}
      BY <1>1, HeldIs
    <2> QED BY <1>0, <1>1, <2>1, NoLocksMoved
  <1>5. LookupsOK'
    <2>1. Kind(th[t]) = "none" /\ Kind(th'[t]) = "none"
      BY <1>1, KindIs DEF Readers
    <2> QED BY <1>0, <1>1, <2>1, QuietWriter DEF listVars
  <1> QED BY <1>2, <1>3, <1>4, <1>5

LEMMA CallFreeStep ==
  ASSUME KInv, NEW t \in Threads, CallFreeHashMapNode(t)
  PROVE  KInv' /\ clears' # 0
  <1> USE DEF KInv
  <1>0. /\ UNCHANGED <<listVars, lock, history>> /\ size' = 0
        /\ clears < MaxClears /\ clears' = clears + 1
    BY DEF CallFreeHashMapNode
  <1>1. /\ Moved(t) /\ th[t].pc = "Idle"
        /\ th'[t].op = "Free" /\ th'[t].pc = "Bucket" /\ th'[t].heads = Heads
        /\ th'[t].keys = {} /\ th'[t].found = {} /\ NoPlace(th'[t])
    BY CallFreeDoes
  <1>2. clears' \in 0 .. MaxClears /\ clears' # 0
    BY <1>0, ConstantsAssumption DEF TypeOK
  <1>3. TypeOK'
    BY <1>0, <1>1, <1>2, TypesQuiet DEF TypeOK, listVars
  <1>4. PlaceInv'
    <2>1. CallOK(th'[t]) /\ PlaceOK(th'[t], next, inited') /\ ~Adding(th'[t])
          /\ Knows(th[t], th'[t], next)
      BY <1>1 DEF CallOK, PlaceOK, Removals, Adding, Knows, NoPlace
    <2> QED BY <1>0, <1>1, <1>2, <2>1, QuietPlaces DEF listVars
  <1>5. LocksOK'
    <2>1. Held(th'[t]) = {} /\ Held(th[t]) = {}
      BY <1>1, HeldIs
    <2> QED BY <1>0, <1>1, <2>1, NoLocksMoved
  <1>6. LookupsOK'
    <2>1. Kind(th[t]) = "none" /\ Kind(th'[t]) = "none"
      BY <1>1, KindIs DEF Readers
    <2> QED BY <1>0, <1>1, <2>1, QuietWriter DEF listVars
  <1> QED BY <1>2, <1>3, <1>4, <1>5, <1>6

LEMMA SeekingStep ==
  ASSUME KInv, NEW t \in Threads, Seeking(t)
  PROVE  KInv' /\ UNCHANGED <<listVars, lock, size, clears>>
  <1> USE DEF KInv
  <1>1. PICK keys \in SUBSET Keys, op \in Lookups :
             keys # {} /\ SeekBegun(t, op, SeekKind(op), keys)
    BY SeekingDoes
  <1> DEFINE l == Table!Begins(SeekKind(op), keys, Content)
             s == {n \in Content : KeyOf(n) \in keys}
  <1>2. /\ Moved(t) /\ th[t].pc = "Idle"
        /\ th'[t].op = op /\ th'[t].pc = "Bucket" /\ th'[t].keys = keys
        /\ th'[t].heads = {BucketOf(k) : k \in keys} /\ th'[t].found = {}
        /\ NoPlace(th'[t])
        /\ lookup' = [lookup EXCEPT ![t] = l]
        /\ answer' = [answer EXCEPT ![t] = {}]
        /\ UNCHANGED <<listVars, lock, size, clears>>
    BY <1>1 DEF SeekBegun
  <1>3. s \in SUBSET Nodes
    BY ContentIs
  <1>4. /\ l \in Table!Lookup /\ l.kind = SeekKind(op) /\ l.keys = keys
        /\ l.must = s /\ l.may = s
    <2>1. l = [kind |-> SeekKind(op), keys |-> keys, must |-> s, may |-> s]
      BY DEF Table!Begins, Table!Sought
    <2> HIDE DEF s, l
    <2> QED BY <1>3, <2>1 DEF Table!Lookup, Table!Kinds, SeekKind
  <1> HIDE DEF l
  <1>5. lookup'[t] = l /\ \A u \in Threads \ {t} : lookup'[u] = lookup[u]
    BY <1>2 DEF TypeOK
  <1>6. TypeOK'
    <2>1. lookup' \in [Threads -> Table!Lookup] /\ answer' \in [Threads -> SUBSET Nodes]
      BY <1>2, <1>4 DEF TypeOK
    <2> QED BY <1>2, <2>1 DEF TypeOK, Moved, listVars
  <1>7. PlaceInv'
    <2>1. CallOK(th'[t])
      BY <1>2 DEF CallOK, Lookups
    <2>2. PlaceOK(th'[t], next, inited') /\ ~Adding(th'[t]) /\ Knows(th[t], th'[t], next)
      BY <1>2 DEF PlaceOK, Adding, Knows, NoPlace
    <2>3. th'[t].op # "Free"
      BY <1>2 DEF Lookups
    <2> QED BY <1>2, <2>1, <2>2, <2>3, QuietPlaces DEF listVars
  <1>8. LocksOK'
    <2>1. Held(th'[t]) = {} /\ Held(th[t]) = {}
      BY <1>2, HeldIs
    <2> QED BY <1>2, <2>1, NoLocksMoved
  <1>9. LookupsOK'
    <2>1. LookupOK(th'[t], l, next, removing)
      <3>1. l.kind = Kind(th'[t]) /\ l.kind \in {"one", "all"}
        BY <1>2, <1>4, KindIs DEF Readers, SeekKind
      <3>2. Before(th'[t], next) = {}
        BY <1>2 DEF Before
      <3>3. \A n \in s : n \in InTable(next, removing) /\ KeyOf(n) \in keys
        BY ContentIs
      <3>4. \A n \in InTable(next, removing) : KeyOf(n) \in keys => n \in s
        BY ContentIs
      <3>5. \A n \in s : BucketOf(KeyOf(n)) \in th'[t].heads
        BY <1>2, <3>3
      <3> HIDE DEF s
      <3> QED BY <1>2, <1>4, <3>1, <3>2, <3>3, <3>4, <3>5 DEF LookupOK
    <2>2. \A u \in Threads \ {t} : LookupOK(th'[u], lookup'[u], next, removing)
      BY <1>2, <1>5 DEF LookupsOK, Moved
    <2> QED BY <1>2, <1>5, <2>1, <2>2 DEF LookupsOK, listVars
  <1> QED BY <1>2, <1>6, <1>7, <1>8, <1>9

LEMMA QuietStep ==
  ASSUME KInv, NEW t \in Threads, Moved(t),
         UNCHANGED <<next, removing, unused, clears, history>>,
         inited \subseteq inited', inited' \subseteq Heads, size' \in Int,
         lock' \in [AllNodes -> Threads \cup {NoThread}],
         CallOK(th'[t]), th'[t].op = "Free" => th[t].op = "Free",
         PlaceOK(th'[t], next, inited'),
         th[t].pc # "Unlink", th'[t].pc \notin {"Unlink", "FreeNode"},
         Adding(th'[t]) => Adding(th[t]) /\ th'[t].node = th[t].node,
         Knows(th[t], th'[t], next),
         LocksOK', LookupOK(th'[t], lookup[t], next, removing)
  PROVE  KInv'
  <1> USE DEF KInv
  <1>1. TypeOK'
    BY TypesQuiet DEF TypeOK
  <1>2. th'[t].op = "Free" => clears' # 0
    BY DEF PlaceInv, CallsOK
  <1>3. PlaceInv'
    BY <1>2, QuietPlaces
  <1>4. LookupsOK'
    BY QuietLookups
  <1> QED BY <1>1, <1>3, <1>4

LEMMA InitHashArrayStep ==
  ASSUME KInv, NEW t \in Threads, InitHashArray(t)
  PROVE  KInv'
  <1> USE DEF KInv
  <1>0. /\ th[t].pc = "InitHashArray" /\ UNCHANGED <<listVars, lock, size, clears, history>>
        /\ Goto(t, IF th[t].head \in inited THEN "LockHead" ELSE "InitLocked")
    BY DEF InitHashArray, At
  <1>1. \/ Goes(t, "LockHead") /\ th[t].head \in inited
        \/ Goes(t, "InitLocked")
    BY <1>0, GotoGoes
  <1>2. /\ CallOK(th[t]) /\ PlaceOK(th[t], next, inited)
        /\ LookupOK(th[t], lookup[t], next, removing)
    BY DEF PlaceInv, CallsOK, PlacesOK, LookupsOK
  <1>3. Moved(t) /\ th'[t].pc \in {"LockHead", "InitLocked"} /\ SameCall(th[t], th'[t])
        /\ SamePlace(th[t], th'[t])
    BY <1>1 DEF Goes
  <1>4. CallOK(th'[t]) /\ PlaceOK(th'[t], next, inited)
    BY <1>0, <1>1, <1>2, <1>3 DEF CallOK, PlaceOK, SameCall, SamePlace, Adding, Goes
  <1>5. /\ Adding(th'[t]) => Adding(th[t]) /\ th'[t].node = th[t].node
        /\ Knows(th[t], th'[t], next) /\ th'[t].op = th[t].op
    BY <1>0, <1>3 DEF Adding, SameCall, SamePlace, Knows
  <1>6. LocksOK'
    BY <1>0, <1>3, HeldIs, NoLocksMoved
  <1>7. LookupOK(th'[t], lookup[t], next, removing)
    BY <1>0, <1>2, <1>3, KindIs, NoLookupKept DEF Readers
  <1> QED BY <1>0, <1>3, <1>4, <1>5, <1>6, <1>7, QuietStep DEF TypeOK, listVars

LEMMA InitLockedStep ==
  ASSUME KInv, NEW t \in Threads, InitLocked(t)
  PROVE  KInv'
  <1> USE DEF KInv
  <1>0. /\ th[t].pc = "InitLocked"
        /\ UNCHANGED <<next, removing, unused, lock, size, clears, history>>
        /\ inited' = inited \cup {th[t].head} /\ Goto(t, "LockHead")
    BY DEF InitLocked, At
  <1>1. Goes(t, "LockHead")
    BY <1>0, GotoGoes
  <1>2. /\ CallOK(th[t]) /\ PlaceOK(th[t], next, inited)
        /\ LookupOK(th[t], lookup[t], next, removing)
    BY DEF PlaceInv, CallsOK, PlacesOK, LookupsOK
  <1>3. Moved(t) /\ th'[t].pc = "LockHead" /\ SameCall(th[t], th'[t])
        /\ SamePlace(th[t], th'[t])
    BY <1>1 DEF Goes
  <1>4. /\ CallOK(th'[t]) /\ PlaceOK(th'[t], next, inited')
        /\ inited \subseteq inited' /\ inited' \subseteq Heads
    BY <1>0, <1>2, <1>3 DEF CallOK, PlaceOK, SameCall, SamePlace, Adding, TypeOK
  <1>5. /\ Adding(th'[t]) => Adding(th[t]) /\ th'[t].node = th[t].node
        /\ Knows(th[t], th'[t], next) /\ th'[t].op = th[t].op
    BY <1>0, <1>3 DEF Adding, SameCall, SamePlace, Knows
  <1>6. LocksOK'
    BY <1>0, <1>3, HeldIs, NoLocksMoved
  <1>7. LookupOK(th'[t], lookup[t], next, removing)
    BY <1>0, <1>2, <1>3, KindIs, NoLookupKept DEF Readers
  <1> QED BY <1>0, <1>3, <1>4, <1>5, <1>6, <1>7, QuietStep DEF TypeOK

LEMMA LockHeadStep ==
  ASSUME KInv, NEW t \in Threads, LockHead(t)
  PROVE  KInv'
  <1> USE DEF KInv
  <1>0. /\ th[t].pc = "LockHead" /\ LockNode(t, th[t].head)
        /\ UNCHANGED <<listVars, size, clears, history>>
    BY DEF LockHead, At
  <1>2. /\ CallOK(th[t]) /\ PlaceOK(th[t], next, inited)
        /\ LookupOK(th[t], lookup[t], next, removing)
    BY DEF PlaceInv, CallsOK, PlacesOK, LookupsOK
  <1>1. th[t].head \in Heads /\ th[t].head \in inited /\ th[t].head \in AllNodes
    BY <1>0, <1>2, Basics DEF PlaceOK
  <1>3. /\ Moved(t) /\ SameCall(th[t], th'[t]) /\ SameSearch(th[t], th'[t])
        /\ th'[t].prev = th[t].head /\ th'[t].nxt = next[th[t].head]
        /\ th'[t].pc = IF th[t].op = "Add"
                        THEN IF next[th[t].head] = NoNode THEN "Link" ELSE "LockNext"
                        ELSE IF th[t].op = "Pop" THEN "Pop" ELSE "LockNode"
    BY <1>1, LockHeadDoes
  <1>4. th'[t].pc \in {"Link", "LockNext", "Pop", "LockNode"}
    BY <1>3
  <1>5. CallOK(th'[t])
    BY <1>0, <1>2, <1>3 DEF CallOK, SameCall, Removals
  <1>6. PlaceOK(th'[t], next, inited')
    BY <1>0, <1>1, <1>2, <1>3, <1>4 DEF PlaceOK, SameCall, Adding, Chain, listVars
  <1>7. /\ Adding(th'[t]) => Adding(th[t]) /\ th'[t].node = th[t].node
        /\ Knows(th[t], th'[t], next) /\ th'[t].op = th[t].op
    BY <1>0, <1>1, <1>3 DEF Adding, SameCall, Knows
  <1>8. LocksOK'
    <2>1. Held(th[t]) = {}
      BY <1>0, HeldIs
    <2>2. Held(th'[t]) = {th[t].head}
      <3>1. th'[t].pc = "Link" => th'[t].nxt = NoNode
        BY <1>3
      <3>2. th'[t].head = th[t].head /\ th[t].head # NoNode
        BY <1>1, <1>3, Basics DEF SameCall
      <3> QED BY <1>4, <3>1, <3>2, HeldIs
    <2> QED BY <1>0, <1>1, <1>3, <2>1, <2>2, LockTaken
  <1>9. LookupOK(th'[t], lookup[t], next, removing)
    BY <1>0, <1>2, <1>4, KindIs, NoLookupKept DEF Readers
  <1>10. lock' \in [AllNodes -> Threads \cup {NoThread}]
    BY <1>0, <1>1, LockTyped
  <1> QED BY <1>0, <1>3, <1>4, <1>5, <1>6, <1>7, <1>8, <1>9, <1>10, QuietStep
        DEF TypeOK, listVars

LEMMA LockNextStep ==
  ASSUME KInv, NEW t \in Threads, LockNext(t)
  PROVE  KInv'
  <1> USE DEF KInv
  <1>0. /\ th[t].pc = "LockNext" /\ LockNode(t, th[t].nxt) /\ Goto(t, "Link")
        /\ UNCHANGED <<listVars, size, clears, history>>
    BY DEF LockNext, At
  <1>2. /\ CallOK(th[t]) /\ PlaceOK(th[t], next, inited)
        /\ LookupOK(th[t], lookup[t], next, removing)
    BY DEF PlaceInv, CallsOK, PlacesOK, LookupsOK
  <1>1. th[t].nxt \in AllNodes /\ th[t].head \in Heads /\ th[t].nxt # NoNode
    BY <1>0, <1>2 DEF PlaceOK, TypeOK, Call, AllNodes
  <1>3. Moved(t) /\ th'[t].pc = "Link" /\ SameCall(th[t], th'[t])
        /\ SamePlace(th[t], th'[t])
    BY <1>0, GotoGoes DEF Goes
  <1>4. CallOK(th'[t]) /\ PlaceOK(th'[t], next, inited')
    BY <1>0, <1>2, <1>3 DEF CallOK, PlaceOK, SameCall, SamePlace, Adding, listVars
  <1>5. /\ Adding(th'[t]) => Adding(th[t]) /\ th'[t].node = th[t].node
        /\ Knows(th[t], th'[t], next) /\ th'[t].op = th[t].op
    BY <1>0, <1>3 DEF Adding, SameCall, SamePlace, Knows
  <1>6. LocksOK'
    <2>1. Held(th[t]) = {th[t].head} /\ Held(th'[t]) = {th[t].head, th[t].nxt} \ {NoNode}
      BY <1>0, <1>3, HeldIs DEF SameCall, SamePlace
    <2>2. Held(th'[t]) = Held(th[t]) \cup {th[t].nxt}
      BY <1>1, <2>1, Basics
    <2> QED BY <1>0, <1>1, <1>3, <2>2, LockTaken
  <1>7. LookupOK(th'[t], lookup[t], next, removing)
    BY <1>0, <1>2, <1>3, KindIs, NoLookupKept DEF Readers
  <1>8. lock' \in [AllNodes -> Threads \cup {NoThread}]
    BY <1>0, <1>1, LockTyped
  <1> QED BY <1>0, <1>3, <1>4, <1>5, <1>6, <1>7, <1>8, QuietStep DEF TypeOK, listVars

LEMMA IdleOK ==
  /\ CallOK(Idle) /\ ~Adding(Idle) /\ Kind(Idle) = "none" /\ Held(Idle) = {}
  /\ \A f, ini : PlaceOK(Idle, f, ini)
  /\ \A c, f : Knows(c, Idle, f)
  BY IdleIsCall, KindIs, HeldIs
     DEF CallOK, Adding, PlaceOK, Knows, NoPlace, Removals, Readers

\* A call that looks nothing up and holds no lock returns.
LEMMA ReturnStep ==
  ASSUME KInv, NEW t \in Threads, Returns(t), th[t].pc # "Unlink",
         Kind(th[t]) = "none", LocksOK',
         UNCHANGED <<listVars, clears, history>>, size' \in Int,
         lock' \in [AllNodes -> Threads \cup {NoThread}]
  PROVE  KInv'
  <1> USE DEF KInv
  <1>1. Moved(t) /\ th'[t] = Idle
    BY DEF Returns
  <1>2. /\ CallOK(th'[t]) /\ ~Adding(th'[t]) /\ PlaceOK(th'[t], next, inited')
        /\ Knows(th[t], th'[t], next) /\ th'[t].op # "Free"
        /\ th'[t].pc \notin {"Unlink", "FreeNode"}
    BY <1>1, IdleOK, IdleIsCall
  <1>3. LookupOK(th'[t], lookup[t], next, removing)
    BY <1>1, IdleOK, NoLookupKept DEF LookupsOK
  <1> QED BY <1>1, <1>2, <1>3, QuietStep DEF TypeOK, listVars

LEMMA AddedStep ==
  ASSUME KInv, NEW t \in Threads, Added(t)
  PROVE  KInv'
  <1> USE DEF KInv
  <1>0. /\ th[t].pc = "Added" /\ Returns(t) /\ size' = size + 1
        /\ UNCHANGED <<listVars, lock, clears, history>>
    BY ReturnReturns DEF Added, At
  <1>1. Kind(th[t]) = "none" /\ Held(th[t]) = {}
    BY <1>0, HeldIs, KindIs DEF Readers
  <1>2. LocksOK'
    BY <1>0, <1>1, IdleOK, NoLocksMoved DEF Returns
  <1> QED BY <1>0, <1>1, <1>2, ReturnStep DEF TypeOK

LEMMA RemovedStep ==
  ASSUME KInv, NEW t \in Threads, Removed(t)
  PROVE  KInv'
  <1> USE DEF KInv
  <1>0. /\ th[t].pc = "Removed" /\ size' = size - 1
        /\ UNCHANGED <<listVars, lock, clears, history>>
        /\ Returns(t) \/ (Goes(t, "NextKeyNode") /\ th[t].op = "RemoveKey")
    BY ReturnReturns, GotoGoes DEF Removed, At
  <1>1. Kind(th[t]) = "none" /\ Held(th[t]) = {} /\ size' \in Int
    BY <1>0, HeldIs, KindIs DEF Readers, TypeOK
  <1>2. CASE Returns(t)
    <2>1. LocksOK'
      BY <1>0, <1>1, <1>2, IdleOK, NoLocksMoved DEF Returns
    <2> QED BY <1>0, <1>1, <1>2, <2>1, ReturnStep DEF TypeOK
  <1>3. CASE Goes(t, "NextKeyNode") /\ th[t].op = "RemoveKey"
    <2>1. Moved(t) /\ th'[t].pc = "NextKeyNode" /\ SameCall(th[t], th'[t])
        /\ SamePlace(th[t], th'[t]) /\ th'[t].op = "RemoveKey"
      BY <1>3 DEF Goes, SameCall
    <2>2. CallOK(th'[t]) /\ PlaceOK(th'[t], next, inited') /\ ~Adding(th'[t])
          /\ Knows(th[t], th'[t], next)
      BY <2>1 DEF CallOK, PlaceOK, Removals, Adding, Knows, SamePlace
    <2>3. Held(th'[t]) = {} /\ Kind(th'[t]) = "none"
      BY <2>1, HeldIs, KindIs DEF Readers
    <2>4. LocksOK'
      BY <1>0, <1>1, <2>1, <2>3, NoLocksMoved
    <2>5. LookupOK(th'[t], lookup[t], next, removing)
      BY <1>1, <2>3, NoLookupKept DEF LookupsOK
    <2> QED BY <1>0, <1>1, <2>1, <2>2, <2>4, <2>5, QuietStep DEF TypeOK, listVars
  <1> QED BY <1>0, <1>2, <1>3

LEMMA FailsStep ==
  ASSUME KInv, NEW t \in Threads, LockNextNode(t), Fails(t)
  PROVE  KInv'
  <1> USE DEF KInv
  <1>0. /\ th[t].pc = "LockNode" /\ Returns(t) /\ UnLock(t, {th[t].head})
        /\ UNCHANGED <<listVars, size, clears, history>>
    BY LockNextNodeCases, ReturnReturns DEF Fails, listVars
  <1>1. Kind(th[t]) = "none" /\ Held(th[t]) = {th[t].head} /\ th[t].head \in AllNodes
    BY <1>0, HeldIs, KindIs, Basics DEF Readers, PlaceInv, PlacesOK, PlaceOK
  <1>2. LocksOK'
    BY <1>0, <1>1, IdleOK, LocksReleased DEF Returns
  <1>3. lock' \in [AllNodes -> Threads \cup {NoThread}]
    BY <1>0, LockTyped
  <1> QED BY <1>0, <1>1, <1>2, <1>3, ReturnStep DEF TypeOK

LEMMA PassesStep ==
  ASSUME KInv, NEW t \in Threads, LockNextNode(t), Passes(t)
  PROVE  KInv'
  <1> USE DEF KInv
  <1>0. th[t].pc = "LockNode" /\ UNCHANGED <<listVars, lock, size, clears, history>>
    BY LockNextNodeCases DEF Passes, listVars
  <1>1. /\ Moved(t) /\ th[t].nxt \in Nodes
        /\ SameCall(th[t], th'[t]) /\ SameSearch(th[t], th'[t])
        /\ th'[t].pc = "LockNode"
        /\ th'[t].prev = th[t].nxt /\ th'[t].nxt = next[th[t].nxt]
    BY <1>0, PassesDoes
  <1>2. /\ CallOK(th[t]) /\ PlaceOK(th[t], next, inited)
        /\ LookupOK(th[t], lookup[t], next, removing)
    BY DEF PlaceInv, CallsOK, PlacesOK, LookupsOK
  <1>3. CallOK(th'[t])
    BY <1>1, <1>0, <1>2 DEF CallOK, SameCall
  <1>4. PlaceOK(th'[t], next, inited')
    <2>1. th[t].prev \in Chain(next, th[t].head) /\ th[t].nxt = next[th[t].prev]
          /\ th[t].head \in Heads /\ th[t].head \in inited
      BY <1>0, <1>2 DEF PlaceOK
    <2>2. th[t].nxt \in Chain(next, th[t].head)
      BY <1>1, <2>1, ContentIs, ReachClosed, Basics DEF Chain
    <2> QED BY <1>0, <1>1, <1>2, <2>1, <2>2 DEF PlaceOK, SameCall, Adding, CallOK, Removals,
                                                listVars
  <1>5. ~Adding(th'[t]) /\ Knows(th[t], th'[t], next) /\ th'[t].op = th[t].op
    BY <1>1, Basics DEF Adding, Knows, SameCall
  <1>6. LocksOK'
    <2>1. Held(th[t]) = {th[t].head} /\ Held(th'[t]) = {th[t].head}
      BY <1>0, <1>1, HeldIs DEF SameCall
    <2> QED BY <1>0, <1>1, <2>1, NoLocksMoved DEF listVars
  <1>7. LookupOK(th'[t], lookup[t], next, removing)
    BY <1>0, <1>2, <1>1, KindIs, NoLookupKept DEF Readers
  <1> QED BY <1>0, <1>1, <1>3, <1>4, <1>5, <1>6, <1>7, QuietStep DEF TypeOK, listVars

\* A lookup goes on in the same links.
LEMMA SearchGoesOn ==
  ASSUME NEW c, NEW d, NEW l, NEW f, NEW r, LookupOK(c, l, f, r),
         c.op \in Lookups, c.pc \in Readers, c.pc # "Return", d.pc \in Readers,
         d.op = c.op, d.keys = c.keys, d.found = c.found,
         \A n \in Before(d, f) : KeyOf(n) \in c.keys => n \in l.may \cup r,
         \A n \in l.must : BucketOf(KeyOf(n)) \in c.heads \/ n \in Before(c, f)
                => BucketOf(KeyOf(n)) \in d.heads \/ n \in Before(d, f),
         d.pc = "Return" => d.heads = {}
  PROVE  LookupOK(d, l, f, r)
  <1>1. Kind(c) = SeekKind(c.op) /\ Kind(d) = Kind(c) /\ Kind(c) # "none"
    BY KindIs DEF SeekKind
  <1>2. /\ l.kind = Kind(c) /\ l.keys = c.keys
        /\ l.must \subseteq InTable(f, r)
        /\ \A n \in l.must : KeyOf(n) \in c.keys
        /\ \A n \in InTable(f, r) : KeyOf(n) \in c.keys => n \in l.may
        /\ c.found \subseteq l.may
        /\ l.kind = "all" \/ c.found = {} =>
              \A n \in l.must : \/ BucketOf(KeyOf(n)) \in c.heads
                                \/ n \in c.found
                                \/ n \in Before(c, f)
        /\ l.kind = "one" => c.found = {}
    BY <1>1 DEF LookupOK
  <1>3. l.kind = "all" \/ d.found = {} =>
              \A n \in l.must : \/ BucketOf(KeyOf(n)) \in d.heads
                                \/ n \in d.found
                                \/ n \in Before(d, f)
    BY <1>2
  <1> QED BY <1>1, <1>2, <1>3 DEF LookupOK

LEMMA BeforeIs ==
  ASSUME NEW c, NEW f
  PROVE  /\ c.pc = "LockPrev" => Before(c, f) = Reach(f, c.prev)
         /\ c.pc \in {"LockVisited", "Test"} => Before(c, f) = {c.nxt} \cup Reach(f, c.nxt)
         /\ c.pc \notin {"LockPrev", "LockVisited", "Test"} => Before(c, f) = {}
  BY DEF Before

LEMMA BucketStep ==
  ASSUME KInv, NEW t \in Threads, Bucket(t)
  PROVE  KInv'
  <1> USE DEF KInv
  <1>0. th[t].pc = "Bucket" /\ UNCHANGED <<listVars, lock, size, clears, history>>
    BY BucketDoes
  <1>2. /\ CallOK(th[t]) /\ PlaceOK(th[t], next, inited)
        /\ LookupOK(th[t], lookup[t], next, removing)
    BY DEF PlaceInv, CallsOK, PlacesOK, LookupsOK
  <1>3. Held(th[t]) = {} /\ Before(th[t], next) = {} /\ th[t].pc \in Readers
    BY <1>0, HeldIs, BeforeIs DEF Readers
  <1>4. CASE th[t].op = "Free" /\ Returns(t)
    <2>1. LocksOK'
      BY <1>0, <1>3, <1>4, IdleOK, NoLocksMoved DEF Returns
    <2> QED BY <1>0, <1>4, <2>1, KindIs, ReturnStep DEF TypeOK
  <1>5. CASE th[t].heads = {} /\ th[t].op # "Free" /\ Goes(t, "Return")
    <2>1. /\ Moved(t) /\ th'[t].pc = "Return" /\ SameCall(th[t], th'[t])
          /\ SamePlace(th[t], th'[t]) /\ SameSearch(th[t], th'[t])
          /\ th[t].op \in Lookups
      BY <1>0, <1>2, <1>5 DEF Goes, CallOK
    <2>2. CallOK(th'[t]) /\ PlaceOK(th'[t], next, inited') /\ ~Adding(th'[t])
          /\ Knows(th[t], th'[t], next) /\ th'[t].op = th[t].op
      BY <2>1 DEF CallOK, PlaceOK, Adding, Knows, SamePlace, SameCall, Lookups
    <2>3. Held(th'[t]) = {} /\ Before(th'[t], next) = {}
      BY <2>1, HeldIs, BeforeIs
    <2>4. LocksOK'
      BY <1>0, <1>3, <2>1, <2>3, NoLocksMoved
    <2>5. LookupOK(th'[t], lookup[t], next, removing)
      <3>1. /\ th'[t].pc \in Readers /\ th[t].pc # "Return" /\ th'[t].op = th[t].op
            /\ th'[t].keys = th[t].keys /\ th'[t].found = th[t].found
            /\ th'[t].heads = {} /\ th[t].heads = {}
        BY <1>0, <1>5, <2>1 DEF Readers, SameCall, SameSearch
      <3> QED BY <3>1, <1>2, <1>3, <2>1, <2>3, SearchGoesOn
    <2> QED BY <1>0, <2>1, <2>2, <2>4, <2>5, QuietStep DEF TypeOK, listVars
  <1>6. ASSUME NEW h \in th[t].heads, EntersBucket(t, h)
        PROVE  KInv'
    <2>1. /\ Moved(t) /\ SameCall(th[t], th'[t]) /\ h \in Heads
          /\ th'[t].nxt = th[t].nxt /\ th'[t].found = th[t].found
          /\ th'[t].heads = th[t].heads \ {h} /\ th'[t].prev = h
          /\ th'[t].op = th[t].op /\ th'[t].keys = th[t].keys
          /\ th'[t].pc = IF h \notin inited THEN "Bucket"
                   ELSE IF th[t].op = "Free" THEN "FreeList" ELSE "LockPrev"
      BY <1>6 DEF EntersBucket, SameCall
    <2>2. th'[t].pc \in {"Bucket", "FreeList", "LockPrev"}
      BY <2>1
    <2>3. h \in AllNodes /\ h \notin Nodes
      BY <2>1, Basics
    <2>4. CallOK(th'[t])
      BY <1>0, <1>2, <2>1 DEF CallOK
    <2>5. PlaceOK(th'[t], next, inited') /\ ~Adding(th'[t])
      BY <2>1, <2>2, <2>3 DEF PlaceOK, Adding
    <2>6. Knows(th[t], th'[t], next)
      BY <2>1, <2>3 DEF Knows
    <2>7. Held(th'[t]) = {}
      BY <2>2, HeldIs
    <2>8. LocksOK'
      BY <1>0, <1>3, <2>1, <2>7, NoLocksMoved
    <2>9. LookupOK(th'[t], lookup[t], next, removing)
      <3>1. CASE th[t].op = "Free"
        BY <3>1, <1>2, <2>1, KindIs, NoLookupKept
      <3>2. CASE th[t].op # "Free"
        <4>1. th[t].op \in Lookups /\ th'[t].pc \in {"Bucket", "LockPrev"}
          BY <1>0, <1>2, <2>1, <3>2 DEF CallOK
        <4>2. th'[t].pc \in Readers /\ th'[t].pc # "Return" /\ th[t].pc # "Return"
          BY <1>0, <4>1 DEF Readers
        <4>3. next \in Links /\ Shape(next, inited)
          BY ContentIs DEF PlaceInv, ShapeOK
        <4>4. /\ lookup[t].must \subseteq InTable(next, removing)
              /\ \A n \in InTable(next, removing) :
                    KeyOf(n) \in th[t].keys => n \in lookup[t].may
          BY <1>2, <1>3, <4>1, KindIs DEF LookupOK, SeekKind
        <4>5. \A n \in lookup[t].must : BucketOf(KeyOf(n)) = h => n \in Reach(next, h)
          <5>1. \A n \in InTable(next, removing) : \E k \in Heads : n \in Reach(next, k)
            BY <4>3, InTableIs
          <5>2. \A k \in Heads : \A n \in Reach(next, k) : BucketOf(KeyOf(n)) = k
            BY <4>3, ChainHome
          <5> QED BY <4>4, <5>1, <5>2
        <4>6. CASE h \notin inited
          <5>1. Reach(next, h) = {}
            BY <2>1, <2>3, <4>3, <4>6, ReachFirst DEF Shape
          <5>2. Before(th'[t], next) = {}
            BY <2>1, <4>6, BeforeIs
          <5> QED BY <1>2, <1>3, <2>1, <4>1, <4>2, <4>5, <5>1, <5>2, SearchGoesOn
        <4>7. CASE h \in inited
          <5>1. th'[t].pc = "LockPrev"
            BY <2>1, <3>2, <4>7
          <5>2. Before(th'[t], next) = Reach(next, h)
            BY <2>1, <5>1, BeforeIs
          <5>3. \A n \in Reach(next, h) : KeyOf(n) \in th[t].keys
                                            => n \in lookup[t].may \cup removing
            BY <2>1, <4>3, <4>4, InTableIs
          <5> QED BY <1>2, <1>3, <2>1, <4>1, <4>2, <4>5, <5>2, <5>3, SearchGoesOn
        <4> QED BY <4>6, <4>7
      <3> QED BY <3>1, <3>2
    <2> QED BY <1>0, <2>1, <2>2, <2>4, <2>5, <2>6, <2>8, <2>9, QuietStep
        DEF TypeOK, listVars
  <1> QED BY <1>4, <1>5, <1>6, BucketDoes

LEMMA LockPrevStep ==
  ASSUME KInv, NEW t \in Threads, LockPrev(t)
  PROVE  KInv'
  <1> USE DEF KInv
  <1>0. th[t].pc = "LockPrev"
    BY DEF LockPrev, At
  <1>2. /\ CallOK(th[t]) /\ PlaceOK(th[t], next, inited)
        /\ LookupOK(th[t], lookup[t], next, removing)
    BY DEF PlaceInv, CallsOK, PlacesOK, LookupsOK
  <1>1. th[t].prev \in AllNodes /\ th[t].op \in Lookups
    BY <1>0, <1>2 DEF PlaceOK, CallOK
  <1>3. UNCHANGED <<listVars, size, clears, history>>
    BY <1>1, LockPrevDoes
  <1>4. /\ Held(th[t]) = {} /\ th[t].pc \in Readers /\ th[t].pc # "Return"
        /\ Before(th[t], next) = Reach(next, th[t].prev) /\ next \in Links
        /\ \A n \in Before(th[t], next) : KeyOf(n) \in th[t].keys
                                            => n \in lookup[t].may \cup removing
    <2>1. th[t].pc \in Readers
      BY <1>0 DEF Readers
    <2>2. lookup[t].kind # "none"
      BY <1>1, <1>2, <2>1, KindIs DEF LookupOK, SeekKind
    <2> QED BY <1>0, <1>2, <2>1, <2>2, HeldIs, BeforeIs, ContentIs DEF LookupOK
  <1>5. CASE next[th[t].prev] = NoNode /\ UNCHANGED lock /\ Goes(t, "Bucket")
    <2>1. /\ Moved(t) /\ th'[t].pc = "Bucket" /\ SameCall(th[t], th'[t])
          /\ SamePlace(th[t], th'[t]) /\ SameSearch(th[t], th'[t])
      BY <1>5 DEF Goes
    <2>2. CallOK(th'[t]) /\ PlaceOK(th'[t], next, inited') /\ ~Adding(th'[t])
          /\ Knows(th[t], th'[t], next) /\ th'[t].op = th[t].op
      BY <1>1, <2>1 DEF CallOK, PlaceOK, Adding, Knows, SamePlace, SameCall, Lookups
    <2>3. Held(th'[t]) = {} /\ Before(th'[t], next) = {} /\ th'[t].pc \in Readers
          /\ th'[t].pc # "Return"
      BY <2>1, HeldIs, BeforeIs DEF Readers
    <2>4. Before(th[t], next) = {}
      BY <1>1, <1>4, <1>5, ReachFirst
    <2>5. LocksOK'
      BY <1>4, <1>5, <2>1, <2>3, NoLocksMoved
    <2>6. LookupOK(th'[t], lookup[t], next, removing)
      <3>1. /\ th'[t].op = th[t].op /\ th'[t].keys = th[t].keys
            /\ th'[t].found = th[t].found /\ th'[t].heads = th[t].heads
        BY <2>1 DEF SameCall, SameSearch
      <3> QED BY <3>1, <1>1, <1>2, <1>4, <2>3, <2>4, SearchGoesOn
    <2> QED BY <1>0, <1>3, <1>5, <2>1, <2>2, <2>5, <2>6, QuietStep DEF TypeOK, listVars
  <1>6. CASE /\ next[th[t].prev] # NoNode /\ LockNode(t, th[t].prev)
             /\ Moved(t) /\ SameCall(th[t], th'[t]) /\ SameSearch(th[t], th'[t])
             /\ th'[t].prev = th[t].prev /\ th'[t].nxt = next[th[t].prev]
             /\ th'[t].pc = "LockVisited"
    <2>1. /\ Moved(t) /\ th'[t].op = th[t].op /\ th'[t].keys = th[t].keys
          /\ th'[t].found = th[t].found /\ th'[t].heads = th[t].heads
          /\ th'[t].nxt \in Nodes /\ th'[t].node = th[t].node
      BY <1>1, <1>4, <1>6 DEF SameCall, SameSearch, Links
    <2>2. CallOK(th'[t]) /\ PlaceOK(th'[t], next, inited') /\ ~Adding(th'[t])
          /\ Knows(th[t], th'[t], next)
      BY <1>1, <1>6, <2>1 DEF CallOK, PlaceOK, Adding, Knows, Lookups
    <2>3. Held(th'[t]) = {th[t].prev} /\ th'[t].pc \in Readers /\ th'[t].pc # "Return"
      BY <1>6, HeldIs DEF Readers
    <2>4. Before(th'[t], next) = Before(th[t], next)
      <3>1. Reach(next, th[t].prev)
              = {next[th[t].prev]} \cup Reach(next, next[th[t].prev])
        BY <1>1, <1>4, <1>6, ReachFirst
      <3>2. Before(th'[t], next) = {th'[t].nxt} \cup Reach(next, th'[t].nxt)
        BY <1>6, BeforeIs
      <3> QED BY <3>1, <3>2, <1>4, <1>6
    <2>5. LocksOK'
      BY <1>1, <1>4, <1>6, <2>3, LockTaken
    <2>6. LookupOK(th'[t], lookup[t], next, removing)
      BY <1>1, <1>2, <1>4, <2>1, <2>3, <2>4, SearchGoesOn
    <2>7. lock' \in [AllNodes -> Threads \cup {NoThread}]
      BY <1>1, <1>6, LockTyped
    <2> QED BY <1>0, <1>3, <1>6, <2>1, <2>2, <2>5, <2>6, <2>7, QuietStep
        DEF TypeOK, listVars
  <1> QED BY <1>1, <1>5, <1>6, LockPrevDoes

LEMMA LockVisitedStep ==
  ASSUME KInv, NEW t \in Threads, LockVisited(t)
  PROVE  KInv'
  <1> USE DEF KInv
  <1>0. /\ th[t].pc = "LockVisited" /\ LockNode(t, th[t].nxt) /\ Goto(t, "Test")
        /\ UNCHANGED <<listVars, size, clears, history>>
    BY DEF LockVisited, At
  <1>2. /\ CallOK(th[t]) /\ PlaceOK(th[t], next, inited)
        /\ LookupOK(th[t], lookup[t], next, removing)
    BY DEF PlaceInv, CallsOK, PlacesOK, LookupsOK
  <1>1. th[t].nxt \in Nodes /\ th[t].nxt \in AllNodes /\ th[t].op \in Lookups
    BY <1>0, <1>2 DEF PlaceOK, CallOK, AllNodes
  <1>3. /\ Moved(t) /\ th'[t].pc = "Test" /\ SameCall(th[t], th'[t])
        /\ SamePlace(th[t], th'[t]) /\ SameSearch(th[t], th'[t])
    BY <1>0, GotoGoes DEF Goes
  <1>4. CallOK(th'[t]) /\ PlaceOK(th'[t], next, inited') /\ ~Adding(th'[t])
        /\ Knows(th[t], th'[t], next) /\ th'[t].op = th[t].op
    BY <1>0, <1>1, <1>2, <1>3
       DEF CallOK, PlaceOK, Adding, Knows, SamePlace, SameCall, Lookups
  <1>5. /\ th[t].pc \in Readers /\ th[t].pc # "Return" /\ th'[t].pc \in Readers
        /\ Held(th[t]) = {th[t].prev} /\ Held(th'[t]) = {th[t].prev} \cup {th[t].nxt}
        /\ Before(th'[t], next) = Before(th[t], next)
    <2>1. /\ Before(th'[t], next) = {th'[t].nxt} \cup Reach(next, th'[t].nxt)
          /\ Before(th[t], next) = {th[t].nxt} \cup Reach(next, th[t].nxt)
      BY <1>0, <1>3, BeforeIs
    <2>2. Held(th'[t]) = {th'[t].prev, th'[t].nxt} /\ Held(th[t]) = {th[t].prev}
      BY <1>0, <1>3, HeldIs
    <2> QED BY <1>0, <1>3, <2>1, <2>2 DEF Readers, SamePlace
  <1>6. LocksOK'
    BY <1>0, <1>1, <1>3, <1>5, LockTaken
  <1>7. LookupOK(th'[t], lookup[t], next, removing)
    <2>1. \A n \in Before(th[t], next) : KeyOf(n) \in th[t].keys
                                            => n \in lookup[t].may \cup removing
      BY <1>1, <1>2, <1>5, KindIs DEF LookupOK, SeekKind
    <2>2. /\ th'[t].op = th[t].op /\ th'[t].keys = th[t].keys
          /\ th'[t].found = th[t].found /\ th'[t].heads = th[t].heads
          /\ th'[t].pc # "Return"
      BY <1>3 DEF SameCall, SameSearch
    <2> QED BY <1>1, <1>2, <1>5, <2>1, <2>2, SearchGoesOn
  <1>8. lock' \in [AllNodes -> Threads \cup {NoThread}]
    BY <1>0, <1>1, LockTyped
  <1> QED BY <1>0, <1>3, <1>4, <1>6, <1>7, <1>8, QuietStep DEF TypeOK, listVars

LEMMA TestStep ==
  ASSUME KInv, NEW t \in Threads, Test(t)
  PROVE  KInv'
  <1> USE DEF KInv
  <1>0. /\ th[t].pc = "Test" /\ UnLock(t, {th[t].prev, th[t].nxt})
        /\ UNCHANGED <<listVars, size, clears, history>>
    BY DEF Test, At
  <1>2. /\ CallOK(th[t]) /\ PlaceOK(th[t], next, inited)
        /\ LookupOK(th[t], lookup[t], next, removing)
    BY DEF PlaceInv, CallsOK, PlacesOK, LookupsOK
  <1>1. /\ th[t].nxt \in Nodes /\ th[t].nxt \in AllNodes /\ th[t].op \in Lookups
        /\ th[t].prev \in AllNodes
    BY <1>0, <1>2 DEF PlaceOK, CallOK, AllNodes
  <1>3. /\ Moved(t) /\ SameCall(th[t], th'[t]) /\ th'[t].heads = th[t].heads
        /\ th'[t].prev = th[t].nxt /\ th'[t].nxt = th[t].nxt
        /\ th'[t].found = IF Takes(th[t]) THEN th[t].found \cup {th[t].nxt} ELSE th[t].found
        /\ th'[t].pc = IF Takes(th[t]) /\ th[t].op \in {"Get", "RemoveOne"}
                        THEN "Return" ELSE "LockPrev"
    BY <1>1, TestDoes
  <1>4. /\ th'[t].pc \in {"Return", "LockPrev"} /\ th'[t].op = th[t].op
        /\ th'[t].keys = th[t].keys /\ th'[t].node = th[t].node
    BY <1>3 DEF SameCall
  <1>5. CallOK(th'[t]) /\ PlaceOK(th'[t], next, inited') /\ ~Adding(th'[t])
        /\ Knows(th[t], th'[t], next)
    BY <1>1, <1>3, <1>4 DEF CallOK, PlaceOK, Adding, Knows, Lookups
  <1>6. LocksOK'
    <2>1. Held(th[t]) = {th[t].prev, th[t].nxt} /\ Held(th'[t]) = {}
      BY <1>0, <1>4, HeldIs
    <2>2. Held(th[t]) = {th[t].prev, th[t].nxt} \cap AllNodes
      BY <1>1, <2>1
    <2> QED BY <1>0, <1>3, <2>1, <2>2, LocksReleased
  <1>7. lock' \in [AllNodes -> Threads \cup {NoThread}]
    BY <1>0, LockTyped
  <1>8. LookupOK(th'[t], lookup[t], next, removing)
    <2> DEFINE l == lookup[t]
               c == th[t]
               d == th'[t]
    <2>0. c.pc = "Test" /\ LookupOK(c, l, next, removing)
      BY <1>0, <1>2
    <2>1. /\ Kind(c) = SeekKind(c.op) /\ Kind(d) = Kind(c) /\ l.kind = Kind(c)
          /\ l.kind # "none"
          /\ l.kind = "one" <=> c.op \in {"Get", "RemoveOne"}
      BY <1>0, <1>1, <1>2, <1>4, KindIs DEF Readers, SeekKind, LookupOK
    <2>2. /\ l.keys = c.keys
          /\ l.must \subseteq InTable(next, removing)
          /\ \A n \in l.must : KeyOf(n) \in c.keys
          /\ \A n \in InTable(next, removing) : KeyOf(n) \in c.keys => n \in l.may
          /\ c.found \subseteq l.may
          /\ \A n \in Before(c, next) : KeyOf(n) \in c.keys => n \in l.may \cup removing
          /\ l.kind = "all" \/ c.found = {} =>
               \A n \in l.must : \/ BucketOf(KeyOf(n)) \in c.heads
                                 \/ n \in c.found
                                 \/ n \in Before(c, next)
          /\ l.kind = "one" => c.found = {}
      <3> HIDE DEF c, d, l
      <3> QED BY <2>0, <2>1 DEF LookupOK
    <2>3. Before(c, next) = {c.nxt} \cup Reach(next, c.nxt)
          /\ (d.pc = "LockPrev" => Before(d, next) = Reach(next, c.nxt))
          /\ (d.pc = "Return" => Before(d, next) = {})
      BY <1>0, <1>3, <1>4, BeforeIs
    <2>4. Takes(c) <=> KeyOf(c.nxt) \in c.keys /\ c.nxt \notin removing
      BY DEF Takes
    <2>5. c.nxt \in l.must => Takes(c)
      BY <2>2, <2>4 DEF InTable
    <2>6. Takes(c) => c.nxt \in l.may
      BY <2>2, <2>3, <2>4
    <2>7. /\ d.pc = "Return" <=> Takes(c) /\ l.kind = "one"
          /\ d.found = IF Takes(c) THEN c.found \cup {c.nxt} ELSE c.found
          /\ d.heads = c.heads /\ d.keys = c.keys
      BY <1>3, <1>4, <2>1
    <2> HIDE DEF c, d, l
    <2>8. /\ d.found \subseteq l.may
          /\ \A n \in Before(d, next) : KeyOf(n) \in d.keys => n \in l.may \cup removing
      BY <2>2, <2>3, <2>6, <2>7, <1>4 DEF d
    <2>9. l.kind = "all" \/ d.found = {} =>
               \A n \in l.must : \/ BucketOf(KeyOf(n)) \in d.heads
                                 \/ n \in d.found
                                 \/ n \in Before(d, next)
      <3>1. l.kind = "all" \/ d.found = {} => d.pc = "LockPrev" /\ (l.kind = "all" \/ c.found = {})
        BY <2>7, <1>4 DEF d
      <3> QED BY <3>1, <2>2, <2>3, <2>5, <2>7
    <2>10. l.kind = "one" => \/ d.found = {}
                             \/ d.pc = "Return" /\ \E n \in d.found : d.found = {n}
      BY <2>2, <2>7
    <2>11. d.pc = "Return" => l.kind = "one" /\ d.found # {}
      BY <2>7
    <2>12. LookupOK(d, l, next, removing)
      <3>1. /\ l.must \subseteq InTable(next, removing)
            /\ \A n \in l.must : KeyOf(n) \in d.keys
            /\ \A n \in InTable(next, removing) : KeyOf(n) \in d.keys => n \in l.may
            /\ l.keys = d.keys
        BY <2>2, <2>7
      <3> QED BY <3>1, <2>1, <2>8, <2>9, <2>10, <2>11 DEF LookupOK
    <2> QED BY <2>12 DEF d, l
  <1>9. th'[t].pc \notin {"Unlink", "FreeNode"}
    BY <1>4
  <1> QED BY <1>0, <1>3, <1>4, <1>5, <1>6, <1>7, <1>8, <1>9, QuietStep DEF TypeOK, listVars

LEMMA LookupReturnsStep ==
  ASSUME KInv, NEW t \in Threads, LookupReturns(t)
  PROVE  KInv'
  <1> USE DEF KInv
  <1>0. /\ th[t].pc = "Return" /\ UNCHANGED <<listVars, lock, size, clears>>
        /\ answer' = [answer EXCEPT ![t] = th[t].found]
        /\ lookup' = [lookup EXCEPT ![t] = Table!NoLookup]
    BY DEF LookupReturns, At
  <1>1. th[t].op \in Lookups
    BY <1>0 DEF PlaceInv, CallsOK, CallOK
  <1>2. /\ Moved(t) /\ NoPlace(th'[t])
        /\ \/ th'[t] = Idle
           \/ th'[t].op = th[t].op /\ th'[t].op \in Removals /\ th'[t].pc = "NextKeyNode"
    BY <1>1, LookupReturnsDoes
  <1>3. th'[t].pc \in {"Idle", "NextKeyNode"} /\ th'[t].op # "Free"
    BY <1>2, IdleIsCall DEF Removals
  <1>4. TypeOK'
    <2>1. th[t].found \in SUBSET Nodes
      BY DEF TypeOK, Call
    <2>2. answer' \in [Threads -> SUBSET Nodes] /\ lookup' \in [Threads -> Table!Lookup]
      BY <1>0, <2>1, NoLookupIs DEF TypeOK
    <2> QED BY <1>0, <1>2, <2>2 DEF TypeOK, Moved, listVars
  <1>5. PlaceInv'
    <2>1. CallOK(th'[t])
      BY <1>2, IdleOK DEF CallOK, Removals
    <2>2. PlaceOK(th'[t], next, inited') /\ ~Adding(th'[t]) /\ Knows(th[t], th'[t], next)
      BY <1>2, <1>3 DEF PlaceOK, Adding, Knows, NoPlace
    <2> QED BY <1>0, <1>2, <1>3, <2>1, <2>2, QuietPlaces DEF listVars
  <1>6. LocksOK'
    <2>1. Held(th[t]) = {} /\ Held(th'[t]) = {}
      BY <1>0, <1>3, HeldIs
    <2> QED BY <1>0, <1>2, <2>1, NoLocksMoved
  <1>7. LookupsOK'
    <2>1. lookup'[t] = Table!NoLookup /\ \A u \in Threads \ {t} : lookup'[u] = lookup[u]
      BY <1>0 DEF TypeOK
    <2>2. Kind(th'[t]) = "none"
      BY <1>3, KindIs DEF Readers
    <2>3. LookupOK(th'[t], Table!NoLookup, next, removing)
      BY <2>2, NoLookupIs DEF LookupOK
    <2>4. \A u \in Threads \ {t} : LookupOK(th'[u], lookup'[u], next, removing)
      BY <1>2, <2>1 DEF LookupsOK, Moved
    <2> QED BY <1>0, <2>1, <2>3, <2>4 DEF LookupsOK, listVars
  <1> QED BY <1>4, <1>5, <1>6, <1>7

LEMMA NextKeyStep ==
  ASSUME KInv, NEW t \in Threads, NextKeyNode(t)
  PROVE  KInv'
  <1> USE DEF KInv
  <1>0. th[t].pc = "NextKeyNode" /\ UNCHANGED <<listVars, lock, size, clears, history>>
    BY NextKeyDoes
  <1>1. Held(th[t]) = {} /\ Kind(th[t]) = "none" /\ th[t].op \in Removals
    BY <1>0, HeldIs, KindIs DEF Readers, PlaceInv, CallsOK, CallOK
  <1>2. CASE Returns(t)
    <2>1. LocksOK'
      BY <1>0, <1>1, <1>2, IdleOK, NoLocksMoved DEF Returns
    <2> QED BY <1>0, <1>1, <1>2, <2>1, ReturnStep DEF TypeOK
  <1>3. CASE /\ Moved(t) /\ th'[t].op = th[t].op /\ th'[t].pc = "InitHashArray"
             /\ th'[t].head \in Heads /\ SamePlace(th[t], th'[t])
    <2>1. CallOK(th'[t]) /\ PlaceOK(th'[t], next, inited') /\ ~Adding(th'[t])
          /\ Knows(th[t], th'[t], next)
      BY <1>1, <1>3 DEF CallOK, PlaceOK, Removals, Adding, Knows, SamePlace
    <2>2. Held(th'[t]) = {} /\ Kind(th'[t]) = "none"
      BY <1>3, HeldIs, KindIs DEF Readers
    <2>3. LocksOK'
      BY <1>0, <1>1, <1>3, <2>2, NoLocksMoved
    <2>4. LookupOK(th'[t], lookup[t], next, removing)
      BY <1>1, <2>2, NoLookupKept DEF LookupsOK
    <2> QED BY <1>0, <1>3, <2>1, <2>3, <2>4, QuietStep DEF TypeOK, listVars
  <1> QED BY <1>2, <1>3, NextKeyDoes

-----------------------------------------------------------------------------
(* Steps that change the links or the marks.                                  *)

Lockers == {"LockNext", "Link", "Pop", "LockNode", "Unlink"}

\* A writer stands where it did if its list is as it was.
LEMMA PlaceOther ==
  ASSUME NEW f \in Links, NEW g \in Links, NEW ini, NEW c, PlaceOK(c, f, ini),
         c.pc \in Lockers => \A x \in Chain(f, c.head) : g[x] = f[x]
  PROVE  PlaceOK(c, g, ini)
  <1>1. CASE c.pc \in Lockers
    <2>1. c.head \in Heads /\ c.head \in AllNodes /\ c.head \in Chain(f, c.head)
      BY <1>1, Basics DEF PlaceOK, Lockers, Chain
    <2>2. g[c.head] = f[c.head]
      BY <1>1, <2>1
    <2>3. Chain(g, c.head) = Chain(f, c.head)
      BY <1>1, <2>1, ReachSame DEF Chain
    <2>4. c.pc \in {"LockNode", "Unlink"} => g[c.prev] = f[c.prev]
      BY <1>1 DEF PlaceOK
    <2> QED BY <1>1, <2>2, <2>3, <2>4 DEF PlaceOK, Lockers
  <1>2. CASE c.pc \notin Lockers
    BY <1>2 DEF PlaceOK, Lockers
  <1> QED BY <1>1, <1>2

LEMMA PlacesKept ==
  ASSUME TypeOK, PlacesOK, NEW t \in Threads, Moved(t), UNCHANGED inited,
         next' \in Links, PlaceOK(th'[t], next', inited),
         \A u \in Threads \ {t} : th[u].pc \in Lockers =>
             \A x \in Chain(next, th[u].head) : next'[x] = next[x]
  PROVE  PlacesOK'
  <1>1. next \in Links
    BY ContentIs
  <1>2. ASSUME NEW u \in Threads \ {t} PROVE PlaceOK(th[u], next', inited)
    <2>1. PlaceOK(th[u], next, inited)
      BY DEF PlacesOK
    <2>2. th[u].pc \in Lockers => \A x \in Chain(next, th[u].head) : next'[x] = next[x]
      OBVIOUS
    <2> QED BY <1>1, <2>1, <2>2, PlaceOther
  <1>3. \A u \in Threads : PlaceOK(th'[u], next', inited)
    BY <1>2 DEF Moved
  <1> QED BY <1>3 DEF PlacesOK

\* The nodes that stay new are new after the step, the thread's own apart.
LEMMA NewNodesLeft ==
  ASSUME NEW f, NEW r, NEW new \in SUBSET Nodes, NEW ths, NEW t \in Threads,
         NEW g, NEW r2, NEW ths2,
         NewNodes(f, r, new, ths), \A u \in Threads \ {t} : ths2[u] = ths[u],
         \A u \in Threads : Adding(ths[u]) => ths[u].node \in Nodes,
         ~Adding(ths2[t]),
         \A n \in Nodes : NewNode(n, f, r, ths) /\ (Adding(ths[t]) => n # ths[t].node)
                              => NewNode(n, g, r2, ths2)
  PROVE  NewNodes(g, r2, new, ths2)
  <1>1. \A n \in new : NewNode(n, g, r2, ths2)
    BY DEF NewNodes
  <1>2. ASSUME NEW u \in Threads, Adding(ths2[u])
        PROVE  /\ Adding(ths[u]) /\ ths2[u].node = ths[u].node
               /\ NewNode(ths2[u].node, g, r2, ths2) /\ ths2[u].node \notin new
    <2>1. u # t /\ ths2[u] = ths[u]
      BY <1>2
    <2>2. /\ Adding(ths[u]) /\ NewNode(ths[u].node, f, r, ths)
          /\ ths[u].node \notin new /\ ths[u].node \in Nodes
          /\ (Adding(ths[t]) => ths[u].node # ths[t].node)
      BY <1>2, <2>1 DEF NewNodes
    <2> QED BY <2>1, <2>2
  <1>3. ASSUME NEW u \in Threads, NEW v \in Threads, Adding(ths2[u]), Adding(ths2[v]),
               ths2[u].node = ths2[v].node
        PROVE  u = v
    BY <1>2, <1>3 DEF NewNodes
  <1> QED BY <1>1, <1>2, <1>3 DEF NewNodes

\* What is linked past or cut off.
LEMMA LinksFall ==
  ASSUME TypeOK, PlaceInv, NEW t \in Threads, Moved(t),
         UNCHANGED <<inited, unused, clears>>, next' \in Links,
         \A x \in AllNodes : Reach(next', x) \subseteq Reach(next, x),
         \A x \in AllNodes : next'[x] = NoNode \/ \E y \in AllNodes : next'[x] = next[y],
         \A n \in removing' \ removing : n = th[t].prev \/ n = th[t].nxt,
         \A u \in Threads \ {t} : th[u].pc \in Lockers =>
             \A x \in Chain(next, th[u].head) : next'[x] = next[x],
         Shape(next', inited), CallOK(th'[t]), th'[t].op = "Free" => th[t].op = "Free",
         PlaceOK(th'[t], next', inited), ~Adding(th'[t]), Knows(th[t], th'[t], next),
         Marks(next', removing', th'),
         th'[t].pc = "FreeNode" =>
             \A h \in Heads : Chain(next', th'[t].prev) \cap Reach(next', h) = {}
  PROVE  PlaceInv'
  <1>1. CallsOK'
    BY DEF PlaceInv, CallsOK, Moved
  <1>2. PlacesOK'
    BY PlacesKept DEF PlaceInv
  <1>3. ShapeOK'
    BY DEF ShapeOK, Shape
  <1>4. NewOK'
    <2>1. \A u \in Threads : Adding(th[u]) => th[u].node \in Nodes
      BY DEF PlaceInv, PlacesOK, PlaceOK
    <2>2. ASSUME NEW n \in Nodes, NewNode(n, next, removing, th)
          PROVE  NewNode(n, next', removing', th')
      <3>1. NewNode(n, next, removing, th')
        BY <2>2, NewNodeKept DEF Moved
      <3>2. n \notin removing'
        BY <2>2 DEF NewNode
      <3>3. \A x \in AllNodes : next'[x] # n
        BY <2>2, Basics DEF NewNode
      <3> QED BY <3>1, <3>2, <3>3 DEF NewNode
    <2>3. NewNodes(next, removing, unused, th) /\ unused \in SUBSET Nodes
      BY DEF PlaceInv, NewOK, TypeOK
    <2>4. \A u \in Threads \ {t} : th'[u] = th[u]
      BY DEF Moved
    <2>5. NewNodes(next', removing', unused, th')
      BY <2>1, <2>2, <2>3, <2>4, NewNodesLeft
    <2> QED BY <2>5 DEF NewOK
  <1>5. MarksOK'
    BY DEF MarksOK
  <1>6. CutOK'
    <2>1. ASSUME NEW u \in Threads, th'[u].pc = "FreeNode", NEW h \in Heads
          PROVE  Chain(next', th'[u].prev) \cap Reach(next', h) = {}
      <3>1. CASE u = t
        BY <2>1, <3>1
      <3>2. CASE u # t
        <4>1. th'[u] = th[u] /\ th[u].prev \in AllNodes /\ h \in AllNodes
          BY <2>1, <3>2, Basics DEF Moved, PlaceInv, PlacesOK, PlaceOK
        <4>2. Chain(next, th[u].prev) \cap Reach(next, h) = {}
          BY <2>1, <4>1 DEF PlaceInv, CutOK, CutOff
        <4>3. /\ Reach(next', th[u].prev) \subseteq Reach(next, th[u].prev)
              /\ Reach(next', h) \subseteq Reach(next, h)
          BY <4>1
        <4> QED BY <4>1, <4>2, <4>3 DEF Chain
      <3> QED BY <3>1, <3>2
    <2>2. CutOff(next', th')
      BY <2>1 DEF CutOff
    <2> QED BY <2>2 DEF CutOK
  <1> QED BY <1>1, <1>2, <1>3, <1>4, <1>5, <1>6 DEF PlaceInv

LEMMA ContentNext ==
  Content' = InTable(next', removing')
  BY DEF Content, Linked, InTable

\* The lookups follow a step of a writer that changes the table.
LEMMA TableChanges ==
  ASSUME TypeOK, PlacesOK, LookupsOK, NEW t \in Threads, Moved(t),
         Kind(th[t]) = "none", Kind(th'[t]) = "none", ContentChanges,
         next' \in Links, removing \subseteq removing',
         NEW new, new \subseteq InTable(next', removing'),
         InTable(next', removing') \subseteq InTable(next, removing) \cup new,
         \A u \in Threads : th[u].prev \notin new /\ th[u].nxt \notin new,
         \A x \in AllNodes \ new :
             /\ Reach(next', x) \subseteq Reach(next, x) \cup new
             /\ Reach(next, x) \cap InTable(next', removing') \subseteq Reach(next', x)
  PROVE  LookupsOK' /\ lookup' \in [Threads -> Table!Lookup] /\ UNCHANGED answer
  <1> DEFINE T2 == InTable(next', removing')
  <1>1. lookup' = [u \in Threads |-> Table!Changed(lookup[u], T2)] /\ UNCHANGED answer
    BY ContentNext DEF ContentChanges
  <1>2. ASSUME NEW u \in Threads
        PROVE  /\ Table!Changed(lookup[u], T2) \in Table!Lookup
               /\ LookupOK(th'[u], Table!Changed(lookup[u], T2), next', removing')
    <2>1. lookup[u] \in Table!Lookup /\ T2 \in SUBSET Nodes /\ next \in Links
      BY InTableNodes, ContentIs DEF TypeOK
    <2>2. LookupOK(th[u], lookup[u], next, removing) /\ PlaceOK(th[u], next, inited)
      BY DEF LookupsOK, PlacesOK
    <2>3. LookupOK(th[u], Table!Changed(lookup[u], T2), next', removing')
      <3>1. \A x \in AllNodes \cap {th[u].prev, th[u].nxt} :
               /\ Reach(next', x) \subseteq Reach(next, x) \cup new
               /\ Reach(next, x) \cap T2 \subseteq Reach(next', x)
        OBVIOUS
      <3> QED BY <2>1, <2>2, <3>1, LookupKept
    <2>4. LookupOK(th'[u], Table!Changed(lookup[u], T2), next', removing')
      <3>1. CASE u = t
        BY <2>3, <3>1, NoLookupKept
      <3>2. CASE u # t
        BY <2>3, <3>2 DEF Moved
      <3> QED BY <3>1, <3>2
    <2>5. Table!Changed(lookup[u], T2) \in Table!Lookup
      BY <2>1, ChangedIs
    <2> QED BY <2>4, <2>5
  <1> HIDE DEF T2
  <1>3. lookup' \in [Threads -> Table!Lookup]
    BY <1>1, <1>2
  <1>4. LookupsOK'
    BY <1>1, <1>2 DEF LookupsOK
  <1> QED BY <1>1, <1>3, <1>4

\* And one that leaves it as it is.
LEMMA TableStays ==
  ASSUME TypeOK, PlacesOK, LookupsOK, NEW t \in Threads, Moved(t),
         Kind(th[t]) = "none", Kind(th'[t]) = "none", UNCHANGED history,
         next' \in Links, removing \subseteq removing',
         InTable(next', removing') = InTable(next, removing),
         \A x \in AllNodes :
             /\ Reach(next', x) \subseteq Reach(next, x)
             /\ Reach(next, x) \cap InTable(next, removing) \subseteq Reach(next', x)
  PROVE  LookupsOK'
  <1>1. ASSUME NEW u \in Threads
        PROVE  LookupOK(th'[u], lookup[u], next', removing')
    <2>1. lookup[u] \in Table!Lookup /\ next \in Links
      BY ContentIs DEF TypeOK
    <2>2. LookupOK(th[u], lookup[u], next, removing) /\ PlaceOK(th[u], next, inited)
      BY DEF LookupsOK, PlacesOK
    <2>3. LookupOK(th[u], lookup[u], next', removing')
      BY <2>1, <2>2, LookupUntouched
    <2>4. CASE u = t
      BY <2>3, <2>4, NoLookupKept
    <2>5. CASE u # t
      BY <2>3, <2>5 DEF Moved
    <2> QED BY <2>4, <2>5
  <1> QED BY <1>1 DEF LookupsOK, history

\* The thread that has locked a head is alone in its list.
LEMMA OthersApart ==
  ASSUME KInv, NEW t \in Threads, NEW h \in Heads, lock[h] \in {t, NoThread},
         NEW u \in Threads \ {t}, th[u].pc \in Lockers
  PROVE  /\ \A x \in Chain(next, th[u].head) : x \in AllNodes /\ HomeOf(x) # h
         /\ th[u].pc = "Unlink" => HomeOf(th[u].nxt) # h
  <1>0. next \in Links /\ Shape(next, inited) /\ PlaceOK(th[u], next, inited)
    BY ContentIs DEF KInv, PlaceInv, ShapeOK, PlacesOK
  <1>1. th[u].head \in Heads /\ th[u].head \in Held(th[u])
    BY <1>0, HeldIs, Basics DEF PlaceOK, Lockers
  <1>2. lock[th[u].head] = u /\ u # NoThread
    BY <1>1, Basics, ConstantsAssumption DEF KInv, LocksOK, Locks
  <1>3. th[u].head # h
    BY <1>2
  <1>4. \A x \in Chain(next, th[u].head) : x \in AllNodes /\ HomeOf(x) = th[u].head
    BY <1>0, <1>1, ChainHome
  <1>5. th[u].pc = "Unlink" => HomeOf(th[u].nxt) = th[u].head
    BY <1>0, <1>4 DEF PlaceOK, Shape
  <1> QED BY <1>3, <1>4, <1>5

\* Where a writer stands, and that nothing before it is marked.
LEMMA WriterAt ==
  ASSUME KInv, NEW t \in Threads, th[t].pc \in Lockers
  PROVE  /\ next \in Links /\ Shape(next, inited)
         /\ CallOK(th[t]) /\ PlaceOK(th[t], next, inited) /\ Kind(th[t]) = "none"
         /\ th[t].head \in Heads /\ th[t].head \in inited /\ th[t].head \in AllNodes
         /\ lock[th[t].head] = t
         /\ th[t].pc # "Unlink" => Reach(next, th[t].head) \cap removing = {}
         /\ \A u \in Threads \ {t} : th[u].pc \in Lockers =>
               \A x \in Chain(next, th[u].head) : HomeOf(x) # th[t].head
  <1>0. /\ next \in Links /\ Shape(next, inited) /\ PlaceOK(th[t], next, inited)
        /\ CallOK(th[t])
    BY ContentIs DEF KInv, PlaceInv, ShapeOK, PlacesOK, CallsOK
  <1>1. /\ th[t].head \in Heads /\ th[t].head \in inited /\ th[t].head \in AllNodes
        /\ th[t].head \in Held(th[t])
    BY <1>0, HeldIs, Basics DEF PlaceOK, Lockers
  <1>2. lock[th[t].head] = t
    BY <1>1 DEF KInv, LocksOK, Locks
  <1>3. Kind(th[t]) = "none"
    BY KindIs DEF Readers, Lockers
  <1>4. ASSUME th[t].pc # "Unlink", NEW x \in Reach(next, th[t].head) \cap removing
        PROVE  FALSE
    <2>1. PICK u \in Threads : th[u].pc = "Unlink" /\ th[u].nxt = x
      BY <1>1, <1>4 DEF KInv, PlaceInv, MarksOK, Marks
    <2>2. HomeOf(x) = th[t].head
      BY <1>0, <1>1, ReachHome, Basics
    <2> QED BY <1>1, <1>2, <1>4, <2>1, <2>2, OthersApart DEF Lockers
  <1>5. \A u \in Threads \ {t} : th[u].pc \in Lockers =>
               \A x \in Chain(next, th[u].head) : HomeOf(x) # th[t].head
    BY <1>1, <1>2, OthersApart
  <1> QED BY <1>0, <1>1, <1>2, <1>3, <1>4, <1>5

LEMMA TypesChange ==
  ASSUME TypeOK, NEW t \in Threads, Moved(t), UNCHANGED <<inited, unused, size, clears>>,
         next' \in Links, removing' \subseteq Nodes,
         lock' \in [AllNodes -> Threads \cup {NoThread}],
         lookup' \in [Threads -> Table!Lookup], UNCHANGED answer
  PROVE  TypeOK'
  BY DEF TypeOK, Moved, Links

\* A node is linked.
LEMMA LinkDoes ==
  ASSUME KInv, NEW t \in Threads, Link(t)
  PROVE  /\ Goes(t, "Added") /\ th[t].pc = "Link" /\ Adding(th[t])
         /\ UnLock(t, {th[t].head, th[t].nxt})
         /\ UNCHANGED <<inited, removing, unused, size, clears>> /\ ContentChanges
         /\ th[t].node \in Nodes /\ NewNode(th[t].node, next, removing, th)
         /\ next' \in Links
         /\ next'[th[t].node] = next[th[t].head] /\ next'[th[t].head] = th[t].node
         /\ \A x \in AllNodes \ {th[t].head, th[t].node} : next'[x] = next[x]
         /\ BucketOf(KeyOf(th[t].node)) = th[t].head
  <1>1. /\ Goes(t, "Added") /\ th[t].pc = "Link"
        /\ UNCHANGED <<inited, removing, unused, size, clears>> /\ ContentChanges
        /\ UnLock(t, {th[t].head, th[t].nxt})
        /\ next' = [next EXCEPT ![th[t].node] = th[t].nxt, ![th[t].head] = th[t].node]
    BY GotoGoes DEF KInv, Link, At
  <1>2. /\ CallOK(th[t]) /\ PlaceOK(th[t], next, inited)
        /\ th[t].head \in Heads /\ next \in Links
    BY <1>1, WriterAt DEF Lockers
  <1>3. Adding(th[t])
    BY <1>1, <1>2 DEF Adding, CallOK
  <1>4. /\ th[t].node \in Nodes /\ BucketOf(KeyOf(th[t].node)) = th[t].head
        /\ th[t].nxt = next[th[t].head]
    BY <1>1, <1>2, <1>3 DEF PlaceOK
  <1>5. NewNode(th[t].node, next, removing, th)
    BY <1>3 DEF KInv, PlaceInv, NewOK, NewNodes
  <1>6. /\ th[t].node \in AllNodes /\ th[t].head \in AllNodes /\ th[t].node # th[t].head
    BY <1>2, <1>4, Basics
  <1>7. /\ next' \in Links
        /\ next'[th[t].node] = next[th[t].head] /\ next'[th[t].head] = th[t].node
        /\ \A x \in AllNodes \ {th[t].head, th[t].node} : next'[x] = next[x]
    BY <1>1, <1>2, <1>4, <1>6 DEF Links
  <1> QED BY <1>1, <1>3, <1>4, <1>5, <1>7

LEMMA LinkContent ==
  ASSUME KInv, NEW t \in Threads, Link(t)
  PROVE  /\ InTable(next', removing') = InTable(next, removing) \cup {th[t].node}
         /\ th[t].node \notin InTable(next, removing)
         /\ Shape(next', inited)
         /\ \A x \in AllNodes : th[t].node \notin Reach(next, x)
         /\ Reach(next', th[t].head) = {th[t].node} \cup Reach(next, th[t].head)
         /\ \A x \in AllNodes \ {th[t].head, th[t].node} : Reach(next', x) = Reach(next, x)
  <1> DEFINE n == th[t].node
             h == th[t].head
  <1>1. /\ n \in Nodes /\ n \notin removing /\ \A x \in AllNodes : next[x] # n
        /\ next' \in Links /\ next'[n] = next[h] /\ next'[h] = n
        /\ \A x \in AllNodes \ {h, n} : next'[x] = next[x]
        /\ BucketOf(KeyOf(n)) = h /\ removing' = removing
    BY LinkDoes DEF NewNode
  <1>2. next \in Links /\ Shape(next, inited) /\ h \in Heads /\ h \in inited
    BY LinkDoes, WriterAt DEF Lockers
  <1> HIDE DEF n, h
  <1>3. /\ Shape(next', inited) /\ n \notin InTable(next, removing)
        /\ InTable(next', removing) = InTable(next, removing) \cup {n}
    BY <1>1, <1>2, LinkShape
  <1>4. /\ Reach(next', h) = {n} \cup Reach(next, h)
        /\ \A x \in AllNodes \ {h, n} : Reach(next', x) = Reach(next, x)
    BY <1>1, <1>2, ReachLinked
  <1>5. \A x \in AllNodes : n \notin Reach(next, x)
    BY <1>1, <1>2, ReachBack, ReachClosed DEF AllNodes
  <1> QED BY <1>1, <1>3, <1>4, <1>5 DEF n, h

LEMMA LinkStep ==
  ASSUME KInv, NEW t \in Threads, Link(t)
  PROVE  KInv'
  <1> USE DEF KInv
  <1> DEFINE n == th[t].node
             h == th[t].head
  <1>1. /\ Moved(t) /\ th'[t].pc = "Added" /\ SameCall(th[t], th'[t])
        /\ SamePlace(th[t], th'[t]) /\ th[t].pc = "Link" /\ Adding(th[t])
        /\ UnLock(t, {h, th[t].nxt})
        /\ UNCHANGED <<inited, removing, unused, size, clears>> /\ ContentChanges
        /\ n \in Nodes /\ NewNode(n, next, removing, th) /\ next' \in Links
        /\ next'[n] = next[h] /\ next'[h] = n
        /\ \A x \in AllNodes \ {h, n} : next'[x] = next[x]
    BY LinkDoes DEF Goes
  <1>2. /\ InTable(next', removing) = InTable(next, removing) \cup {n}
        /\ n \notin InTable(next, removing) /\ Shape(next', inited)
        /\ \A x \in AllNodes : n \notin Reach(next, x)
        /\ Reach(next', h) = {n} \cup Reach(next, h)
        /\ \A x \in AllNodes \ {h, n} : Reach(next', x) = Reach(next, x)
    BY <1>1, LinkContent
  <1>3. /\ next \in Links /\ Shape(next, inited)
        /\ CallOK(th[t]) /\ PlaceOK(th[t], next, inited) /\ Kind(th[t]) = "none"
        /\ h \in Heads /\ h \in inited /\ h \in AllNodes /\ h # n
        /\ \A u \in Threads \ {t} : th[u].pc \in Lockers =>
               \A x \in Chain(next, th[u].head) : HomeOf(x) # h
        /\ HomeOf(h) = h /\ HomeOf(n) = h
    BY <1>1, LinkDoes, WriterAt, Basics DEF Lockers
  <1>4. th'[t].op = "Add" /\ ~Adding(th'[t]) /\ Kind(th'[t]) = "none"
        /\ Held(th'[t]) = {} /\ Held(th[t]) = {h, th[t].nxt} \cap AllNodes
    <2>1. th[t].nxt \in AllNodes \cup {NoNode} /\ NoNode \notin AllNodes
      BY <1>3, Basics, ConstantsAssumption DEF TypeOK, Call, AllNodes
    <2>2. Held(th[t]) = {h, th[t].nxt} \ {NoNode}
      BY <1>1, HeldIs
    <2> QED BY <1>1, <1>3, <2>1, <2>2, HeldIs, KindIs DEF Adding, Readers, SameCall
  <1> HIDE DEF n, h
  <1>5. LookupsOK' /\ lookup' \in [Threads -> Table!Lookup] /\ UNCHANGED answer
    <2>1. \A u \in Threads : th[u].prev \notin {n} /\ th[u].nxt \notin {n}
      BY <1>1 DEF NewNode
    <2>2. \A x \in AllNodes \ {n} :
             /\ Reach(next', x) \subseteq Reach(next, x) \cup {n}
             /\ Reach(next, x) \cap InTable(next', removing') \subseteq Reach(next', x)
      BY <1>2, <1>3
    <2>3. {n} \subseteq InTable(next', removing')
          /\ InTable(next', removing') \subseteq InTable(next, removing) \cup {n}
      BY <1>1, <1>2
    <2>4. PlacesOK /\ removing \subseteq removing'
      BY <1>1 DEF PlaceInv
    <2> QED BY <1>1, <1>3, <1>4, <2>1, <2>2, <2>3, <2>4, TableChanges
  <1>6. TypeOK'
    BY <1>1, <1>5, LockTyped, TypesChange DEF TypeOK
  <1>7. LocksOK'
    BY <1>1, <1>4, LocksReleased
  <1>8. CallsOK' /\ ShapeOK'
    <2>1. CallOK(th'[t])
      BY <1>1, <1>4 DEF CallOK
    <2>2. CallsOK'
      BY <1>1, <1>4, <2>1 DEF PlaceInv, CallsOK, Moved
    <2> QED BY <1>1, <1>2, <2>2 DEF ShapeOK, Shape
  <1>9. PlacesOK'
    <2>1. PlaceOK(th'[t], next', inited)
      BY <1>1, <1>4 DEF PlaceOK
    <2>2. ASSUME NEW u \in Threads \ {t}, th[u].pc \in Lockers,
                 NEW x \in Chain(next, th[u].head)
          PROVE  next'[x] = next[x]
      <3>1. th[u].head \in Heads
        BY <2>2 DEF PlaceInv, PlacesOK, PlaceOK, Lockers
      <3>2. x \in AllNodes /\ x # h /\ x # n
        BY <1>3, <2>2, <3>1, ChainHome
      <3> QED BY <1>1, <3>2
    <2> QED BY <1>1, <2>1, <2>2, PlacesKept DEF PlaceInv
  <1>10. NewOK'
    <2>1. \A u \in Threads : Adding(th[u]) => th[u].node \in Nodes
      BY DEF PlaceInv, PlacesOK, PlaceOK
    <2>2. ASSUME NEW m \in Nodes, NewNode(m, next, removing, th),
                 Adding(th[t]) => m # th[t].node
          PROVE  NewNode(m, next', removing', th')
      <3>1. NewNode(m, next, removing, th')
        BY <1>1, <2>2, NewNodeKept DEF Moved, Knows, SamePlace
      <3>2. m # n
        BY <1>1, <2>2 DEF n
      <3>3. \A x \in AllNodes : next'[x] # m
        BY <1>1, <1>3, <2>2, <3>2 DEF NewNode
      <3> QED BY <1>1, <3>1, <3>3 DEF NewNode
    <2>3. NewNodes(next, removing, unused, th) /\ unused \in SUBSET Nodes
      BY DEF PlaceInv, NewOK, TypeOK
    <2>4. \A u \in Threads \ {t} : th'[u] = th[u]
      BY <1>1 DEF Moved
    <2>5. NewNodes(next', removing', unused, th')
      BY <1>4, <2>1, <2>2, <2>3, <2>4, NewNodesLeft
    <2> QED BY <1>1, <2>5 DEF NewOK
  <1>11. MarksOK'
    <2>0. \A u \in Threads : th'[u].pc = "Unlink" \/ th[u].pc = "Unlink" => th'[u] = th[u]
      BY <1>1 DEF Moved
    <2>1. ASSUME NEW k \in Heads, NEW x \in Reach(next', k) \cap removing
          PROVE  \E u \in Threads : th'[u].pc = "Unlink" /\ th'[u].nxt = x
      <3>1. k # n /\ k \in AllNodes /\ n \notin removing
        BY <1>1, Basics DEF NewNode
      <3>2. x \in Reach(next, k)
        BY <1>2, <2>1, <3>1
      <3> QED BY <2>0, <2>1, <3>2 DEF PlaceInv, MarksOK, Marks
    <2>2. Marks(next', removing', th')
      BY <1>1, <2>0, <2>1 DEF PlaceInv, MarksOK, Marks
    <2> QED BY <2>2 DEF MarksOK
  <1>12. CutOK'
    <2>1. ASSUME NEW u \in Threads, th'[u].pc = "FreeNode", NEW k \in Heads
          PROVE  Chain(next', th'[u].prev) \cap Reach(next', k) = {}
      <3>1. th'[u] = th[u] /\ th[u].prev \in Nodes
        BY <1>1, <2>1 DEF Moved, PlaceInv, PlacesOK, PlaceOK
      <3>2. Chain(next, th[u].prev) \cap Reach(next, k) = {}
        BY <2>1, <3>1 DEF PlaceInv, CutOK, CutOff
      <3>3. th[u].prev # n /\ th[u].prev # h /\ th[u].prev \in AllNodes
        BY <1>1, <1>3, <3>1, Basics DEF NewNode
      <3>4. Chain(next', th[u].prev) = Chain(next, th[u].prev)
            /\ n \notin Chain(next, th[u].prev)
        BY <1>2, <3>3 DEF Chain
      <3>5. Reach(next', k) \subseteq {n} \cup Reach(next, k)
        BY <1>1, <1>2, Basics
      <3> QED BY <3>1, <3>2, <3>4, <3>5
    <2>2. CutOff(next', th')
      BY <2>1 DEF CutOff
    <2> QED BY <2>2 DEF CutOK
  <1> QED BY <1>5, <1>6, <1>7, <1>8, <1>9, <1>10, <1>11, <1>12 DEF PlaceInv

\* A node of a list is linked past: what is in the table after it.
LEMMA PastTable ==
  ASSUME NEW f \in Links, NEW ini, Shape(f, ini),
         NEW h \in Heads, NEW p \in Chain(f, h), f[p] # NoNode,
         NEW g \in Links, g[p] = f[f[p]], \A x \in AllNodes \ {p} : g[x] = f[x],
         NEW r
  PROVE  /\ Shape(g, ini) /\ f[p] \in Reach(f, h)
         /\ \A k \in Heads : Reach(g, k) = Reach(f, k) \ {f[p]}
         /\ InTable(g, r) = InTable(f, r) \ {f[p]}
         /\ \A x \in AllNodes : /\ Reach(g, x) \subseteq Reach(f, x)
                                /\ Reach(f, x) \subseteq Reach(g, x) \cup {f[p]}
         /\ \A x \in AllNodes : \E y \in AllNodes : g[x] = f[y]
  <1>1. p \in AllNodes /\ f[p] \in AllNodes
    BY ChainHome, Basics DEF Links
  <1>2. /\ Shape(g, ini) /\ f[p] \in Reach(f, h)
        /\ \A k \in Heads : Reach(g, k) = Reach(f, k) \ {f[p]}
    BY PastShape
  <1>3. \A x \in AllNodes : /\ Reach(g, x) \subseteq Reach(f, x)
                            /\ Reach(f, x) \subseteq Reach(g, x) \cup {f[p]}
    BY <1>1, ReachPast
  <1>4. \A x \in AllNodes : \E y \in AllNodes : g[x] = f[y]
    BY <1>1
  <1>5. InTable(g, r) = InTable(f, r) \ {f[p]}
    <2>1. /\ \A m : m \in InTable(f, r) <=> m \notin r /\ \E k \in Heads : m \in Reach(f, k)
          /\ \A m : m \in InTable(g, r) <=> m \notin r /\ \E k \in Heads : m \in Reach(g, k)
      BY InTableIs
    <2> QED BY <1>2, <2>1
  <1> QED BY <1>2, <1>3, <1>4, <1>5

\* A step that leaves the table as it is leaves the history.
LEMMA NothingChanges ==
  ASSUME TypeOK, LookupsOK, ContentChanges,
         InTable(next', removing') = InTable(next, removing)
  PROVE  UNCHANGED history
  <1>1. lookup' = [u \in Threads |-> Table!Changed(lookup[u], InTable(next, removing))]
        /\ UNCHANGED answer
    BY ContentNext DEF ContentChanges
  <1>2. \A u \in Threads : Table!Changed(lookup[u], InTable(next, removing)) = lookup[u]
    BY ChangedSame DEF TypeOK, LookupsOK
  <1>3. lookup' = [u \in Threads |-> lookup[u]]
    BY <1>1, <1>2
  <1> QED BY <1>1, <1>3 DEF TypeOK, history

\* The first node is taken.
LEMMA PopDoes ==
  ASSUME KInv, NEW t \in Threads, Pop(t), th[t].nxt # NoNode
  PROVE  /\ Goes(t, "Removed") /\ th[t].pc = "Pop" /\ UnLock(t, {th[t].head})
         /\ UNCHANGED <<inited, removing, unused, size, clears>> /\ ContentChanges
         /\ th[t].nxt = next[th[t].head] /\ th[t].nxt \in Nodes
         /\ next' \in Links /\ next'[th[t].head] = next[next[th[t].head]]
         /\ \A x \in AllNodes \ {th[t].head} : next'[x] = next[x]
  <1>1. /\ Goes(t, "Removed") /\ th[t].pc = "Pop" /\ UnLock(t, {th[t].head})
        /\ UNCHANGED <<inited, removing, unused, size, clears>> /\ ContentChanges
        /\ next' = [next EXCEPT ![th[t].head] = next[th[t].nxt]]
    BY GotoGoes DEF KInv, Pop, At
  <1>2. /\ PlaceOK(th[t], next, inited) /\ th[t].head \in AllNodes /\ next \in Links
    BY <1>1, WriterAt DEF Lockers
  <1>3. th[t].nxt = next[th[t].head] /\ th[t].nxt \in Nodes /\ th[t].nxt \in AllNodes
    BY <1>1, <1>2 DEF PlaceOK, Links, AllNodes
  <1>4. /\ next' \in Links /\ next'[th[t].head] = next[next[th[t].head]]
        /\ \A x \in AllNodes \ {th[t].head} : next'[x] = next[x]
    BY <1>1, <1>2, <1>3 DEF Links
  <1> QED BY <1>1, <1>3, <1>4

LEMMA PopContent ==
  ASSUME KInv, NEW t \in Threads, Pop(t), th[t].nxt # NoNode
  PROVE  /\ th[t].nxt \in InTable(next, removing)
         /\ InTable(next', removing') = InTable(next, removing) \ {th[t].nxt}
         /\ Shape(next', inited)
         /\ \A k \in Heads : Reach(next', k) = Reach(next, k) \ {th[t].nxt}
         /\ \A x \in AllNodes : /\ Reach(next', x) \subseteq Reach(next, x)
                                /\ Reach(next, x) \subseteq Reach(next', x) \cup {th[t].nxt}
         /\ \A x \in AllNodes : \E y \in AllNodes : next'[x] = next[y]
  <1> DEFINE h == th[t].head
             q == th[t].nxt
  <1>1. /\ q = next[h] /\ next[h] # NoNode /\ removing' = removing
        /\ next' \in Links /\ next'[h] = next[next[h]]
        /\ \A x \in AllNodes \ {h} : next'[x] = next[x] /\ th[t].pc = "Pop"
    BY PopDoes, Basics DEF KInv, TypeOK, AllNodes
  <1>2. /\ next \in Links /\ Shape(next, inited) /\ h \in Heads /\ h \in Chain(next, h)
        /\ Reach(next, h) \cap removing = {}
    BY PopDoes, WriterAt DEF Lockers, Chain
  <1> HIDE DEF h, q
  <1>3. /\ Shape(next', inited) /\ next[h] \in Reach(next, h)
        /\ \A k \in Heads : Reach(next', k) = Reach(next, k) \ {next[h]}
        /\ InTable(next', removing) = InTable(next, removing) \ {next[h]}
        /\ \A x \in AllNodes : /\ Reach(next', x) \subseteq Reach(next, x)
                               /\ Reach(next, x) \subseteq Reach(next', x) \cup {next[h]}
        /\ \A x \in AllNodes : \E y \in AllNodes : next'[x] = next[y]
    BY <1>1, <1>2, PastTable
  <1>4. next[h] \in InTable(next, removing)
    BY <1>2, <1>3, InTableIs
  <1> QED BY <1>1, <1>3, <1>4 DEF q

LEMMA PopStep ==
  ASSUME KInv, NEW t \in Threads, Pop(t)
  PROVE  KInv'
  <1> USE DEF KInv
  <1> DEFINE h == th[t].head
             q == th[t].nxt
  <1>0. th[t].pc = "Pop" /\ UnLock(t, {h}) /\ ContentChanges
        /\ UNCHANGED <<inited, removing, unused, size, clears>>
    BY DEF Pop, At
  <1>1. /\ next \in Links /\ Shape(next, inited)
        /\ CallOK(th[t]) /\ PlaceOK(th[t], next, inited) /\ Kind(th[t]) = "none"
        /\ h \in Heads /\ h \in inited /\ h \in AllNodes /\ HomeOf(h) = h
        /\ \A u \in Threads \ {t} : th[u].pc \in Lockers =>
               \A x \in Chain(next, th[u].head) : HomeOf(x) # h
    BY <1>0, WriterAt, Basics DEF Lockers
  <1>2. Held(th[t]) = {h} /\ Held(th[t]) = {h} \cap AllNodes
        /\ lock' \in [AllNodes -> Threads \cup {NoThread}]
    BY <1>0, <1>1, HeldIs, LockTyped
  <1>3. CASE q = NoNode
    <2>1. Returns(t) /\ next' = next
      BY <1>3, ReturnReturns DEF Pop
    <2>2. UNCHANGED history
      BY <1>0, <2>1, NothingChanges
    <2>3. LocksOK'
      BY <1>0, <1>2, <2>1, IdleOK, LocksReleased DEF Returns
    <2> QED BY <1>0, <1>1, <1>2, <2>1, <2>2, <2>3, ReturnStep DEF TypeOK, listVars
  <1>4. CASE q # NoNode
    <2>1. /\ Moved(t) /\ th'[t].pc = "Removed" /\ SameCall(th[t], th'[t])
          /\ SamePlace(th[t], th'[t]) /\ next' \in Links
          /\ \A x \in AllNodes \ {h} : next'[x] = next[x]
      BY <1>4, PopDoes DEF Goes
    <2>2. /\ q \in InTable(next, removing)
          /\ InTable(next', removing') = InTable(next, removing) \ {q}
          /\ Shape(next', inited)
          /\ \A k \in Heads : Reach(next', k) = Reach(next, k) \ {q}
          /\ \A x \in AllNodes : /\ Reach(next', x) \subseteq Reach(next, x)
                                 /\ Reach(next, x) \subseteq Reach(next', x) \cup {q}
          /\ \A x \in AllNodes : \E y \in AllNodes : next'[x] = next[y]
      BY <1>4, PopContent
    <2>3. /\ CallOK(th'[t]) /\ PlaceOK(th'[t], next', inited) /\ ~Adding(th'[t])
          /\ Knows(th[t], th'[t], next) /\ th'[t].op # "Free"
          /\ Held(th'[t]) = {} /\ Kind(th'[t]) = "none"
      BY <1>0, <1>1, <2>1, HeldIs, KindIs
         DEF CallOK, PlaceOK, Adding, Knows, SamePlace, SameCall, Readers
    <2> HIDE DEF h, q
    <2>4. LookupsOK' /\ lookup' \in [Threads -> Table!Lookup] /\ UNCHANGED answer
      <3>1. {} \subseteq InTable(next', removing')
            /\ InTable(next', removing') \subseteq InTable(next, removing) \cup {}
            /\ \A u \in Threads : th[u].prev \notin {} /\ th[u].nxt \notin {}
            /\ \A x \in AllNodes \ {} :
                  /\ Reach(next', x) \subseteq Reach(next, x) \cup {}
                  /\ Reach(next, x) \cap InTable(next', removing') \subseteq Reach(next', x)
        BY <2>2
      <3>2. PlacesOK /\ removing \subseteq removing'
        BY <1>0 DEF PlaceInv
      <3> QED BY <1>0, <1>1, <2>1, <2>3, <3>1, <3>2, TableChanges
    <2>5. TypeOK'
      BY <1>0, <1>2, <2>1, <2>4, TypesChange DEF TypeOK
    <2>6. LocksOK'
      BY <1>0, <1>2, <2>1, <2>3, LocksReleased
    <2>7. Marks(next', removing', th')
      <3>1. \A u \in Threads : th'[u].pc = "Unlink" \/ th[u].pc = "Unlink" => th'[u] = th[u]
        BY <1>0, <2>1 DEF Moved
      <3>2. \A k \in Heads : Reach(next', k) \subseteq Reach(next, k)
        BY <2>2
      <3> QED BY <1>0, <3>1, <3>2 DEF PlaceInv, MarksOK, Marks
    <2>8. \A u \in Threads \ {t} : th[u].pc \in Lockers =>
               \A x \in Chain(next, th[u].head) : next'[x] = next[x]
      <3>1. ASSUME NEW u \in Threads \ {t}, th[u].pc \in Lockers,
                   NEW x \in Chain(next, th[u].head)
            PROVE  next'[x] = next[x]
        <4>1. th[u].head \in Heads
          BY <3>1 DEF PlaceInv, PlacesOK, PlaceOK, Lockers
        <4>2. x \in AllNodes /\ x # h
          BY <1>1, <3>1, <4>1, ChainHome
        <4> QED BY <2>1, <4>2
      <3> QED BY <3>1
    <2>9. PlaceInv'
      BY <1>0, <2>1, <2>2, <2>3, <2>7, <2>8, LinksFall
    <2> QED BY <2>4, <2>5, <2>6, <2>9
  <1> QED BY <1>3, <1>4

\* A node is marked.
LEMMA MarkDoes ==
  ASSUME KInv, NEW t \in Threads, LockNextNode(t), MarksNode(t)
  PROVE  /\ Goes(t, "Unlink") /\ th[t].pc = "LockNode" /\ LockNode(t, th[t].nxt)
         /\ UNCHANGED <<inited, next, unused, size, clears>> /\ ContentChanges
         /\ removing' = removing \cup {th[t].nxt}
         /\ th[t].nxt \in Nodes /\ th[t].nxt \in Reach(next, th[t].head)
         /\ th[t].nxt \notin removing
  <1>1. /\ Goes(t, "Unlink") /\ th[t].pc = "LockNode" /\ LockNode(t, th[t].nxt)
        /\ UNCHANGED <<inited, next, unused, size, clears>> /\ ContentChanges
        /\ removing' = removing \cup {th[t].nxt} /\ th[t].nxt # NoNode
    BY LockNextNodeCases, GotoGoes DEF KInv, MarksNode
  <1>2. /\ PlaceOK(th[t], next, inited) /\ th[t].head \in AllNodes /\ next \in Links
        /\ Reach(next, th[t].head) \cap removing = {}
    BY <1>1, WriterAt DEF Lockers
  <1>3. th[t].prev \in Chain(next, th[t].head) /\ th[t].nxt = next[th[t].prev]
    BY <1>1, <1>2 DEF PlaceOK
  <1>4. th[t].nxt \in Reach(next, th[t].head)
    BY <1>1, <1>2, <1>3, ReachClosed DEF Chain
  <1>5. th[t].nxt \in Nodes
    BY <1>2, <1>4, ReachClosed
  <1> QED BY <1>1, <1>2, <1>4, <1>5

LEMMA MarkContent ==
  ASSUME KInv, NEW t \in Threads, LockNextNode(t), MarksNode(t)
  PROVE  /\ th[t].nxt \in InTable(next, removing)
         /\ InTable(next', removing') = InTable(next, removing) \ {th[t].nxt}
  <1>1. /\ next' = next /\ removing' = removing \cup {th[t].nxt}
        /\ th[t].nxt \in Reach(next, th[t].head) /\ th[t].nxt \notin removing
        /\ th[t].head \in Heads /\ next \in Links
    BY MarkDoes, WriterAt DEF Lockers
  <1>2. th[t].nxt \in InTable(next, removing)
    BY <1>1, InTableIs
  <1>3. InTable(next', removing') = InTable(next, removing) \ {th[t].nxt}
    BY <1>1 DEF InTable
  <1> QED BY <1>2, <1>3

LEMMA MarkStep ==
  ASSUME KInv, NEW t \in Threads, LockNextNode(t), MarksNode(t)
  PROVE  KInv'
  <1> USE DEF KInv
  <1> DEFINE h == th[t].head
             q == th[t].nxt
  <1>0. /\ th[t].pc = "LockNode" /\ LockNode(t, q)
        /\ UNCHANGED <<inited, next, unused, size, clears>> /\ ContentChanges
        /\ removing' = removing \cup {q} /\ q \in Nodes /\ q \in AllNodes /\ q # NoNode
        /\ q \in Reach(next, h)
    BY MarkDoes, Basics
  <1>1. /\ next \in Links /\ Shape(next, inited)
        /\ CallOK(th[t]) /\ PlaceOK(th[t], next, inited) /\ Kind(th[t]) = "none"
        /\ h \in Heads /\ h # NoNode
    BY <1>0, WriterAt, Basics DEF Lockers
  <1>2. /\ Moved(t) /\ th'[t].pc = "Unlink" /\ SameCall(th[t], th'[t])
        /\ SamePlace(th[t], th'[t]) /\ next' \in Links
    BY <1>0, <1>1, MarkDoes DEF Goes
  <1>3. InTable(next', removing') = InTable(next, removing) \ {q}
    BY MarkContent
  <1>4. /\ CallOK(th'[t]) /\ PlaceOK(th'[t], next', inited) /\ ~Adding(th'[t])
        /\ Knows(th[t], th'[t], next) /\ th'[t].op # "Free" /\ Kind(th'[t]) = "none"
    BY <1>0, <1>1, <1>2, KindIs
       DEF CallOK, PlaceOK, Adding, Knows, SamePlace, SameCall, Readers, Removals
  <1>5. Held(th'[t]) = Held(th[t]) \cup {q}
    <2>1. Held(th[t]) = {h} /\ Held(th'[t]) = {h, q} \ {NoNode}
      BY <1>0, <1>2, HeldIs DEF SameCall, SamePlace
    <2> QED BY <1>0, <1>1, <2>1
  <1>6. lock' \in [AllNodes -> Threads \cup {NoThread}]
    BY <1>0, LockTyped
  <1>7. th'[t].nxt = q
    BY <1>2 DEF SamePlace
  <1> HIDE DEF h, q
  <1>8. LookupsOK' /\ lookup' \in [Threads -> Table!Lookup] /\ UNCHANGED answer
    <2> DEFINE new == {}
    <2>1. new \subseteq InTable(next', removing')
          /\ InTable(next', removing') \subseteq InTable(next, removing) \cup new
          /\ \A u \in Threads : th[u].prev \notin new /\ th[u].nxt \notin new
          /\ \A x \in AllNodes \ new :
                /\ Reach(next', x) \subseteq Reach(next, x) \cup new
                /\ Reach(next, x) \cap InTable(next', removing') \subseteq Reach(next', x)
      BY <1>0, <1>3
    <2>2. PlacesOK /\ removing \subseteq removing'
      BY <1>0 DEF PlaceInv
    <2>3. Moved(t) /\ Kind(th[t]) = "none" /\ Kind(th'[t]) = "none" /\ next' \in Links
      BY <1>1, <1>2, <1>4
    <2>4. ContentChanges
      BY <1>0
    <2> HIDE DEF KInv, new
    <2>5. TypeOK /\ LookupsOK
      BY DEF KInv
    <2> QED BY <2>1, <2>2, <2>3, <2>4, <2>5, TableChanges
  <1>9. TypeOK'
    BY <1>0, <1>2, <1>6, <1>8, TypesChange DEF TypeOK
  <1>10. LocksOK'
    BY <1>0, <1>2, <1>5, LockTaken
  <1>11. Marks(next', removing', th')
    <2>1. \A u \in Threads : th[u].pc = "Unlink" => th'[u] = th[u]
      BY <1>0, <1>2 DEF Moved
    <2>2. \A u \in Threads \ {t} : th'[u] = th[u]
      BY <1>2 DEF Moved
    <2>3. Marks(next, removing, th)
      BY DEF PlaceInv, MarksOK
    <2>4. ASSUME NEW k \in Heads, NEW x \in Reach(next, k) \cap removing'
          PROVE  \E u \in Threads : th'[u].pc = "Unlink" /\ th'[u].nxt = x
      <3>1. CASE x = q
        BY <3>1, <1>2, <1>7
      <3>2. CASE x # q
        BY <3>2, <1>0, <2>1, <2>3, <2>4 DEF Marks
      <3> QED BY <3>1, <3>2
    <2>5. \A u \in Threads : th'[u].pc = "Unlink" => th'[u].nxt \in removing'
      BY <1>0, <1>7, <2>2, <2>3 DEF Marks
    <2> QED BY <1>0, <2>4, <2>5 DEF Marks
  <1>12. PlaceInv'
    <2>1. \A x \in AllNodes : Reach(next', x) \subseteq Reach(next, x)
      BY <1>0
    <2>2. \A n \in removing' \ removing : n = th[t].prev \/ n = th[t].nxt
      BY <1>0 DEF q
    <2>3. \A x \in AllNodes : \E y \in AllNodes : next'[x] = next[y]
      BY <1>0
    <2>4. Shape(next', inited)
      BY <1>0, <1>1
    <2>5. \A u \in Threads \ {t} : th[u].pc \in Lockers =>
               \A x \in Chain(next, th[u].head) : next'[x] = next[x]
      BY <1>0
    <2> QED BY <1>0, <1>2, <1>4, <1>11, <2>1, <2>2, <2>3, <2>4, <2>5, LinksFall
  <1> QED BY <1>8, <1>9, <1>10, <1>12

LEMMA LockNextNodeStep ==
  ASSUME KInv, NEW t \in Threads, LockNextNode(t)
  PROVE  KInv'
  BY LockNextNodeCases, FailsStep, PassesStep, MarkStep

\* The marked node is linked past.
LEMMA UnlinkDoes ==
  ASSUME KInv, NEW t \in Threads, Unlink(t)
  PROVE  /\ Goes(t, "Removed") /\ th[t].pc = "Unlink"
         /\ UnLock(t, {th[t].head, th[t].nxt})
         /\ UNCHANGED <<inited, removing, unused, size, clears, history>>
         /\ th[t].prev \in Chain(next, th[t].head) /\ th[t].prev \in AllNodes
         /\ th[t].nxt = next[th[t].prev] /\ th[t].nxt # NoNode /\ th[t].nxt \in Nodes
         /\ th[t].nxt \in removing
         /\ next' \in Links /\ next'[th[t].prev] = next[next[th[t].prev]]
         /\ \A x \in AllNodes \ {th[t].prev} : next'[x] = next[x]
  <1>1. /\ Goes(t, "Removed") /\ th[t].pc = "Unlink"
        /\ UnLock(t, {th[t].head, th[t].nxt})
        /\ UNCHANGED <<inited, removing, unused, size, clears, history>>
        /\ next' = [next EXCEPT ![th[t].prev] = next[th[t].nxt]]
    BY GotoGoes DEF KInv, Unlink, At, RemoveEnds
  <1>2. /\ PlaceOK(th[t], next, inited) /\ th[t].head \in Heads /\ next \in Links
        /\ Shape(next, inited)
    BY <1>1, WriterAt DEF Lockers
  <1>3. /\ th[t].prev \in Chain(next, th[t].head) /\ th[t].nxt = next[th[t].prev]
        /\ th[t].nxt # NoNode
    BY <1>1, <1>2 DEF PlaceOK
  <1>4. th[t].prev \in AllNodes /\ th[t].nxt \in Nodes /\ th[t].nxt \in AllNodes
    BY <1>2, <1>3, ChainHome, Basics DEF Links
  <1>5. th[t].nxt \in removing
    BY <1>1 DEF KInv, PlaceInv, MarksOK, Marks
  <1>6. /\ next' \in Links /\ next'[th[t].prev] = next[next[th[t].prev]]
        /\ \A x \in AllNodes \ {th[t].prev} : next'[x] = next[x]
    BY <1>1, <1>2, <1>3, <1>4 DEF Links
  <1> QED BY <1>1, <1>3, <1>4, <1>5, <1>6

LEMMA UnlinkContent ==
  ASSUME KInv, NEW t \in Threads, Unlink(t)
  PROVE  /\ InTable(next', removing') = InTable(next, removing)
         /\ Shape(next', inited)
         /\ \A k \in Heads : Reach(next', k) = Reach(next, k) \ {th[t].nxt}
         /\ \A x \in AllNodes : /\ Reach(next', x) \subseteq Reach(next, x)
                                /\ Reach(next, x) \subseteq Reach(next', x) \cup {th[t].nxt}
         /\ \A x \in AllNodes : \E y \in AllNodes : next'[x] = next[y]
  <1> DEFINE h == th[t].head
             p == th[t].prev
             q == th[t].nxt
  <1>1. /\ q = next[p] /\ next[p] # NoNode /\ removing' = removing /\ q \in removing
        /\ next' \in Links /\ next'[p] = next[next[p]] /\ p \in Chain(next, h)
        /\ \A x \in AllNodes \ {p} : next'[x] = next[x] /\ th[t].pc = "Unlink"
    BY UnlinkDoes
  <1>2. next \in Links /\ Shape(next, inited) /\ h \in Heads
    BY UnlinkDoes, WriterAt DEF Lockers
  <1> HIDE DEF h, p, q
  <1>3. /\ Shape(next', inited)
        /\ \A k \in Heads : Reach(next', k) = Reach(next, k) \ {next[p]}
        /\ InTable(next', removing) = InTable(next, removing) \ {next[p]}
        /\ \A x \in AllNodes : /\ Reach(next', x) \subseteq Reach(next, x)
                               /\ Reach(next, x) \subseteq Reach(next', x) \cup {next[p]}
        /\ \A x \in AllNodes : \E y \in AllNodes : next'[x] = next[y]
    BY <1>1, <1>2, PastTable
  <1>4. q \notin InTable(next, removing)
    BY <1>1 DEF InTable
  <1> QED BY <1>1, <1>3, <1>4 DEF q

LEMMA UnlinkStep ==
  ASSUME KInv, NEW t \in Threads, Unlink(t)
  PROVE  KInv'
  <1> USE DEF KInv
  <1> DEFINE h == th[t].head
             q == th[t].nxt
  <1>0. /\ th[t].pc = "Unlink" /\ UnLock(t, {h, q})
        /\ UNCHANGED <<inited, removing, unused, size, clears, history>>
        /\ q \in removing /\ q \in AllNodes /\ q # NoNode
        /\ th[t].prev \in Chain(next, h)
        /\ \A x \in AllNodes \ {th[t].prev} : next'[x] = next[x]
    BY UnlinkDoes, Basics
  <1>1. /\ next \in Links /\ Shape(next, inited)
        /\ CallOK(th[t]) /\ PlaceOK(th[t], next, inited) /\ Kind(th[t]) = "none"
        /\ h \in Heads /\ h # NoNode /\ h \in AllNodes
        /\ \A u \in Threads \ {t} : th[u].pc \in Lockers =>
               \A x \in Chain(next, th[u].head) : HomeOf(x) # h
    BY <1>0, WriterAt, Basics DEF Lockers
  <1>2. /\ Moved(t) /\ th'[t].pc = "Removed" /\ SameCall(th[t], th'[t])
        /\ SamePlace(th[t], th'[t]) /\ next' \in Links
    BY UnlinkDoes DEF Goes
  <1>3. /\ InTable(next', removing') = InTable(next, removing)
        /\ Shape(next', inited)
        /\ \A k \in Heads : Reach(next', k) = Reach(next, k) \ {q}
        /\ \A x \in AllNodes : /\ Reach(next', x) \subseteq Reach(next, x)
                               /\ Reach(next, x) \subseteq Reach(next', x) \cup {q}
        /\ \A x \in AllNodes : \E y \in AllNodes : next'[x] = next[y]
    BY UnlinkContent
  <1>4. /\ CallOK(th'[t]) /\ PlaceOK(th'[t], next', inited) /\ ~Adding(th'[t])
        /\ Knows(th[t], th'[t], next) /\ th'[t].op # "Free" /\ Kind(th'[t]) = "none"
    BY <1>0, <1>1, <1>2, KindIs
       DEF CallOK, PlaceOK, Adding, Knows, SamePlace, SameCall, Readers, Removals
  <1>5. Held(th[t]) = {h, q} \cap AllNodes /\ Held(th'[t]) = {}
    <2>1. Held(th[t]) = {h, q} \ {NoNode}
      BY <1>0, HeldIs
    <2> QED BY <1>0, <1>1, <1>2, <2>1, HeldIs
  <1>6. lock' \in [AllNodes -> Threads \cup {NoThread}]
    BY <1>0, LockTyped
  <1>7. HomeOf(th[t].prev) = h
    BY <1>0, <1>1, ChainHome
  <1>8. \A u \in Threads : th'[u].pc = "Unlink" => u # t /\ th'[u] = th[u]
    BY <1>2 DEF Moved
  <1>9. Marks(next, removing, th)
    BY DEF PlaceInv, MarksOK
  <1>10. Marks(next', removing', th')
    <2>1. ASSUME NEW k \in Heads, NEW x \in Reach(next', k) \cap removing'
          PROVE  \E u \in Threads : th'[u].pc = "Unlink" /\ th'[u].nxt = x
      <3>1. x \in Reach(next, k) \cap removing /\ x # q
        BY <1>0, <1>3, <2>1
      <3>2. PICK u \in Threads : th[u].pc = "Unlink" /\ th[u].nxt = x
        BY <1>9, <3>1 DEF Marks
      <3>3. u # t /\ th'[u] = th[u]
        BY <1>2, <3>1, <3>2 DEF Moved
      <3> QED BY <3>2, <3>3
    <2> QED BY <1>0, <1>8, <1>9, <2>1 DEF Marks
  <1> HIDE DEF h, q
  <1>11. LookupsOK'
    <2>1. PlacesOK /\ removing \subseteq removing'
      BY <1>0 DEF PlaceInv
    <2>2. q \notin InTable(next, removing)
      BY <1>0 DEF InTable
    <2>3. \A x \in AllNodes :
             /\ Reach(next', x) \subseteq Reach(next, x)
             /\ Reach(next, x) \cap InTable(next, removing) \subseteq Reach(next', x)
      BY <1>3, <2>2
    <2> QED BY <1>0, <1>1, <1>2, <1>3, <1>4, <2>1, <2>3, TableStays
  <1>12. TypeOK'
    <2>1. removing' \subseteq Nodes /\ lookup' \in [Threads -> Table!Lookup]
          /\ UNCHANGED answer
      BY <1>0 DEF TypeOK, history
    <2> QED BY <1>0, <1>2, <1>6, <2>1, TypesChange
  <1>13. LocksOK'
    BY <1>0, <1>2, <1>5, LocksReleased
  <1>14. \A u \in Threads \ {t} : th[u].pc \in Lockers =>
               \A x \in Chain(next, th[u].head) : next'[x] = next[x]
    <2>1. ASSUME NEW u \in Threads \ {t}, th[u].pc \in Lockers,
                 NEW x \in Chain(next, th[u].head)
          PROVE  next'[x] = next[x]
      <3>1. th[u].head \in Heads
        BY <2>1 DEF PlaceInv, PlacesOK, PlaceOK, Lockers
      <3>2. x \in AllNodes /\ x # th[t].prev
        BY <1>1, <1>7, <2>1, <3>1, ChainHome
      <3> QED BY <1>0, <3>2
    <2> QED BY <2>1
  <1>15. PlaceInv'
    BY <1>0, <1>2, <1>3, <1>4, <1>10, <1>14, LinksFall
  <1> QED BY <1>11, <1>12, <1>13, <1>15

\* A list is cut off its head.
LEMMA FreeListAt ==
  ASSUME KInv, NEW t \in Threads, FreeList(t)
  PROVE  /\ th[t].pc = "FreeList" /\ th[t].op = "Free"
         /\ th[t].prev \in Heads /\ th[t].prev \notin th[t].heads
         /\ th[t].prev \in AllNodes /\ lock[th[t].prev] = NoThread
         /\ next' \in Links /\ next'[th[t].prev] = NoNode
         /\ \A x \in AllNodes \ {th[t].prev} : next'[x] = next[x]
         /\ UNCHANGED <<inited, removing, unused, lock, size, clears>> /\ ContentChanges
         /\ next \in Links /\ Shape(next, inited)
  <1>1. /\ th[t].pc = "FreeList" /\ lock[th[t].prev] = NoThread
        /\ next' = [next EXCEPT ![th[t].prev] = NoNode]
        /\ UNCHANGED <<inited, removing, unused, lock, size, clears>> /\ ContentChanges
    BY DEF FreeList, At
  <1>2. next \in Links /\ Shape(next, inited)
    BY ContentIs DEF KInv, PlaceInv, ShapeOK
  <1>3. /\ th[t].op = "Free" /\ th[t].prev \in Heads /\ th[t].prev \notin th[t].heads
        /\ th[t].prev \in AllNodes
    BY <1>1, Basics DEF KInv, PlaceInv, CallsOK, CallOK, PlacesOK, PlaceOK
  <1>4. /\ next' \in Links /\ next'[th[t].prev] = NoNode
        /\ \A x \in AllNodes \ {th[t].prev} : next'[x] = next[x]
    BY <1>1, <1>2, <1>3 DEF Links
  <1> QED BY <1>1, <1>2, <1>3, <1>4

LEMMA FreeListContent ==
  ASSUME KInv, NEW t \in Threads, FreeList(t)
  PROVE  /\ InTable(next', removing')
               = {n \in InTable(next, removing) : BucketOf(KeyOf(n)) # th[t].prev}
         /\ Shape(next', inited)
         /\ Reach(next', th[t].prev) = {}
         /\ \A x \in AllNodes :
               /\ Reach(next', x) \subseteq Reach(next, x)
               /\ Reach(next, x) \cap InTable(next', removing') \subseteq Reach(next', x)
  <1> DEFINE h == th[t].prev
  <1>1. /\ h \in Heads /\ h \in AllNodes /\ next' \in Links /\ next'[h] = NoNode
        /\ \A x \in AllNodes \ {h} : next'[x] = next[x]
        /\ removing' = removing /\ next \in Links /\ Shape(next, inited)
    BY FreeListAt
  <1> HIDE DEF h
  <1>2. Shape(next', inited)
    BY <1>1, CutShape
  <1>3. \A x \in AllNodes : /\ Reach(next', x) \subseteq Reach(next, x)
                            /\ Reach(next, x) \subseteq Reach(next', x) \cup Reach(next, h)
    BY <1>1, ReachCut
  <1>4. Reach(next', h) = {}
    BY <1>1, ReachFirst
  <1>5. \A k \in Heads : \A n \in Reach(next, k) : BucketOf(KeyOf(n)) = k
    BY <1>1, ChainHome
  <1>6. \A k \in Heads : k # h => Reach(next', k) = Reach(next, k)
    <2>1. \A k \in Heads : k # h => Reach(next, k) \cap Reach(next, h) = {}
      BY <1>1, <1>5
    <2>2. \A k \in Heads : k \in AllNodes
      BY Basics
    <2> QED BY <1>3, <2>1, <2>2
  <1>7. /\ \A m : m \in InTable(next, removing)
                    <=> m \notin removing /\ \E k \in Heads : m \in Reach(next, k)
        /\ \A m : m \in InTable(next', removing)
                    <=> m \notin removing /\ \E k \in Heads : m \in Reach(next', k)
    BY <1>1, InTableIs
  <1>8. InTable(next', removing)
          = {n \in InTable(next, removing) : BucketOf(KeyOf(n)) # h}
    BY <1>1, <1>4, <1>5, <1>6, <1>7
  <1>9. \A x \in AllNodes :
           Reach(next, x) \cap InTable(next', removing) \subseteq Reach(next', x)
    BY <1>1, <1>3, <1>5, <1>8
  <1> QED BY <1>1, <1>2, <1>3, <1>4, <1>8, <1>9 DEF h

LEMMA FreeListStep ==
  ASSUME KInv, NEW t \in Threads, FreeList(t)
  PROVE  KInv'
  <1> USE DEF KInv
  <1> DEFINE h == th[t].prev
  <1>0. /\ th[t].pc = "FreeList" /\ th[t].op = "Free" /\ h \in Heads /\ h \in AllNodes
        /\ lock[h] = NoThread /\ next' \in Links
        /\ \A x \in AllNodes \ {h} : next'[x] = next[x]
        /\ UNCHANGED <<inited, removing, unused, lock, size, clears>> /\ ContentChanges
        /\ next \in Links /\ Shape(next, inited)
    BY FreeListAt
  <1>1. /\ Moved(t) /\ SameCall(th[t], th'[t]) /\ SameSearch(th[t], th'[t])
        /\ th'[t].prev = next[h] /\ th'[t].nxt = th[t].nxt
        /\ th'[t].pc = IF next[h] = NoNode THEN "Bucket" ELSE "FreeNode"
    BY <1>0, FreeListDoes
  <1>2. /\ InTable(next', removing')
             = {n \in InTable(next, removing) : BucketOf(KeyOf(n)) # h}
        /\ Shape(next', inited) /\ Reach(next', h) = {}
        /\ \A x \in AllNodes :
               /\ Reach(next', x) \subseteq Reach(next, x)
               /\ Reach(next, x) \cap InTable(next', removing') \subseteq Reach(next', x)
    BY FreeListContent
  <1>3. th'[t].pc \in {"Bucket", "FreeNode"} /\ th'[t].op = "Free"
        /\ next[h] \in Nodes \cup {NoNode}
    BY <1>0, <1>1 DEF SameCall, Links
  <1>4. /\ CallOK(th'[t]) /\ PlaceOK(th'[t], next', inited) /\ ~Adding(th'[t])
        /\ Knows(th[t], th'[t], next)
    BY <1>0, <1>1, <1>3 DEF CallOK, PlaceOK, Adding, Knows
  <1>5. Kind(th[t]) = "none" /\ Kind(th'[t]) = "none" /\ Held(th[t]) = {} /\ Held(th'[t]) = {}
    BY <1>0, <1>3, KindIs, HeldIs
  <1> HIDE DEF h
  <1>6. LookupsOK' /\ lookup' \in [Threads -> Table!Lookup] /\ UNCHANGED answer
    <2> DEFINE new == {}
    <2>1. /\ new \subseteq InTable(next', removing')
          /\ InTable(next', removing') \subseteq InTable(next, removing) \cup new
          /\ \A u \in Threads : th[u].prev \notin new /\ th[u].nxt \notin new
          /\ \A x \in AllNodes \ new :
                /\ Reach(next', x) \subseteq Reach(next, x) \cup new
                /\ Reach(next, x) \cap InTable(next', removing') \subseteq Reach(next', x)
      BY <1>2
    <2>2. PlacesOK /\ removing \subseteq removing' /\ TypeOK /\ LookupsOK
      BY <1>0 DEF PlaceInv
    <2> HIDE DEF new, KInv
    <2> QED BY <1>0, <1>1, <1>5, <2>1, <2>2, TableChanges
  <1>7. TypeOK'
    BY <1>0, <1>1, <1>6, TypesChange DEF TypeOK
  <1>8. LocksOK'
    BY <1>0, <1>1, <1>5, NoLocksMoved
  <1>9. Marks(next', removing', th')
    <2>1. \A u \in Threads : th'[u].pc = "Unlink" \/ th[u].pc = "Unlink" => th'[u] = th[u]
      BY <1>0, <1>1, <1>3 DEF Moved
    <2>2. \A k \in Heads : Reach(next', k) \subseteq Reach(next, k)
      BY <1>2, Basics
    <2> QED BY <1>0, <2>1, <2>2 DEF PlaceInv, MarksOK, Marks
  <1>10. \A u \in Threads \ {t} : th[u].pc \in Lockers =>
               \A x \in Chain(next, th[u].head) : next'[x] = next[x]
    <2>1. ASSUME NEW u \in Threads \ {t}, th[u].pc \in Lockers,
                 NEW x \in Chain(next, th[u].head)
          PROVE  next'[x] = next[x]
      <3>1. x \in AllNodes /\ HomeOf(x) # h
        BY <1>0, <2>1, OthersApart
      <3> QED BY <1>0, <3>1, Basics
    <2> QED BY <2>1
  <1>11. ASSUME th'[t].pc = "FreeNode", NEW k \in Heads
         PROVE  Chain(next', th'[t].prev) \cap Reach(next', k) = {}
    <2>1. th'[t].prev = next[h] /\ next[h] # NoNode /\ next[h] \in AllNodes
      BY <1>1, <1>3, <1>11, Basics
    <2>2. Chain(next', next[h]) \subseteq Reach(next, h)
      <3>1. next[h] \in Reach(next, h) /\ Reach(next, next[h]) \subseteq Reach(next, h)
        BY <1>0, <2>1, ReachClosed, ReachOn
      <3> QED BY <1>2, <2>1, <3>1 DEF Chain
    <2>3. CASE k = h
      BY <1>2, <2>3
    <2>4. CASE k # h
      <3>1. /\ \A n \in Reach(next, h) : BucketOf(KeyOf(n)) = h
            /\ \A n \in Reach(next, k) : BucketOf(KeyOf(n)) = k
        BY <1>0, ChainHome
      <3>2. Reach(next', k) \subseteq Reach(next, k)
        BY <1>2, Basics
      <3> QED BY <2>1, <2>2, <2>4, <3>1, <3>2
    <2> QED BY <2>3, <2>4
  <1>12. PlaceInv'
    <2>1. \A x \in AllNodes : next'[x] = NoNode \/ \E y \in AllNodes : next'[x] = next[y]
      BY <1>0, FreeListAt DEF h
    <2> QED BY <1>0, <1>1, <1>2, <1>3, <1>4, <1>9, <1>10, <1>11, <2>1, LinksFall
  <1> QED BY <1>6, <1>7, <1>8, <1>12

\* A node that was cut off is marked and cut.
LEMMA FreeNodeAt ==
  ASSUME KInv, NEW t \in Threads, FreeNode(t)
  PROVE  /\ th[t].pc = "FreeNode" /\ th[t].op = "Free"
         /\ th[t].prev \in Nodes /\ th[t].prev \in AllNodes
         /\ next' \in Links /\ next'[th[t].prev] = NoNode
         /\ \A x \in AllNodes \ {th[t].prev} : next'[x] = next[x]
         /\ removing' = removing \cup {th[t].prev}
         /\ UNCHANGED <<inited, unused, lock, size, clears, history>>
         /\ next \in Links /\ Shape(next, inited)
         /\ \A h \in Heads : Chain(next, th[t].prev) \cap Reach(next, h) = {}
  <1>1. /\ th[t].pc = "FreeNode" /\ removing' = removing \cup {th[t].prev}
        /\ next' = [next EXCEPT ![th[t].prev] = NoNode]
        /\ UNCHANGED <<inited, unused, lock, size, clears, history>>
    BY DEF FreeNode, At
  <1>2. next \in Links /\ Shape(next, inited)
    BY ContentIs DEF KInv, PlaceInv, ShapeOK
  <1>3. th[t].op = "Free" /\ th[t].prev \in Nodes /\ th[t].prev \in AllNodes
    BY <1>1, Basics DEF KInv, PlaceInv, CallsOK, CallOK, PlacesOK, PlaceOK
  <1>4. /\ next' \in Links /\ next'[th[t].prev] = NoNode
        /\ \A x \in AllNodes \ {th[t].prev} : next'[x] = next[x]
    BY <1>1, <1>2, <1>3 DEF Links
  <1>5. \A h \in Heads : Chain(next, th[t].prev) \cap Reach(next, h) = {}
    BY <1>1 DEF KInv, PlaceInv, CutOK, CutOff
  <1> QED BY <1>1, <1>2, <1>3, <1>4, <1>5

LEMMA FreeNodeContent ==
  ASSUME KInv, NEW t \in Threads, FreeNode(t)
  PROVE  /\ InTable(next', removing') = InTable(next, removing)
         /\ Shape(next', inited)
         /\ \A k \in Heads : Reach(next', k) = Reach(next, k) /\ th[t].prev \notin Chain(next, k)
         /\ \A x \in AllNodes :
               /\ Reach(next', x) \subseteq Reach(next, x)
               /\ Reach(next, x) \cap InTable(next, removing) \subseteq Reach(next', x)
  <1> DEFINE p == th[t].prev
  <1>1. /\ p \in Nodes /\ p \in AllNodes /\ next' \in Links /\ next'[p] = NoNode
        /\ \A x \in AllNodes \ {p} : next'[x] = next[x]
        /\ removing' = removing \cup {p} /\ next \in Links /\ Shape(next, inited)
        /\ \A k \in Heads : Chain(next, p) \cap Reach(next, k) = {}
    BY FreeNodeAt
  <1> HIDE DEF p
  <1>2. Shape(next', inited)
    BY <1>1, CutShape
  <1>3. \A x \in AllNodes : /\ Reach(next', x) \subseteq Reach(next, x)
                            /\ Reach(next, x) \subseteq Reach(next', x) \cup Reach(next, p)
    BY <1>1, ReachCut
  <1>4. \A k \in Heads : /\ p \notin Reach(next, k) /\ p # k /\ k \in AllNodes
                         /\ Reach(next, p) \cap Reach(next, k) = {}
    BY <1>1, Basics DEF Chain
  <1>5. \A k \in Heads : Reach(next', k) = Reach(next, k)
    BY <1>3, <1>4
  <1>6. /\ \A m : m \in InTable(next, removing)
                    <=> m \notin removing /\ \E k \in Heads : m \in Reach(next, k)
        /\ \A m : m \in InTable(next', removing')
                    <=> m \notin removing' /\ \E k \in Heads : m \in Reach(next', k)
    BY <1>1, InTableIs
  <1>7. InTable(next', removing') = InTable(next, removing)
    BY <1>1, <1>4, <1>5, <1>6
  <1>8. \A x \in AllNodes :
           Reach(next, x) \cap InTable(next, removing) \subseteq Reach(next', x)
    BY <1>3, <1>4, <1>6
  <1> QED BY <1>2, <1>3, <1>4, <1>5, <1>7, <1>8 DEF p, Chain

LEMMA FreeNodeStep ==
  ASSUME KInv, NEW t \in Threads, FreeNode(t)
  PROVE  KInv'
  <1> USE DEF KInv
  <1> DEFINE p == th[t].prev
  <1>0. /\ th[t].pc = "FreeNode" /\ th[t].op = "Free" /\ p \in Nodes /\ p \in AllNodes
        /\ next' \in Links /\ next'[p] = NoNode
        /\ \A x \in AllNodes \ {p} : next'[x] = next[x]
        /\ UNCHANGED <<inited, unused, lock, size, clears, history>>
        /\ removing' = removing \cup {p}
        /\ next \in Links /\ Shape(next, inited)
        /\ \A h \in Heads : Chain(next, p) \cap Reach(next, h) = {}
    BY FreeNodeAt
  <1>1. /\ Moved(t) /\ SameCall(th[t], th'[t]) /\ SameSearch(th[t], th'[t])
        /\ th'[t].prev = next[p] /\ th'[t].nxt = th[t].nxt
        /\ th'[t].pc = IF next[p] = NoNode THEN "Bucket" ELSE "FreeNode"
    BY <1>0, FreeNodeDoes
  <1>2. /\ InTable(next', removing') = InTable(next, removing)
        /\ Shape(next', inited)
        /\ \A k \in Heads : Reach(next', k) = Reach(next, k) /\ p \notin Chain(next, k)
        /\ \A x \in AllNodes :
               /\ Reach(next', x) \subseteq Reach(next, x)
               /\ Reach(next, x) \cap InTable(next, removing) \subseteq Reach(next', x)
    BY FreeNodeContent
  <1>3. th'[t].pc \in {"Bucket", "FreeNode"} /\ th'[t].op = "Free"
        /\ next[p] \in Nodes \cup {NoNode}
    BY <1>0, <1>1 DEF SameCall, Links
  <1>4. /\ CallOK(th'[t]) /\ PlaceOK(th'[t], next', inited) /\ ~Adding(th'[t])
        /\ Knows(th[t], th'[t], next)
    BY <1>0, <1>1, <1>3 DEF CallOK, PlaceOK, Adding, Knows
  <1>5. Kind(th[t]) = "none" /\ Kind(th'[t]) = "none" /\ Held(th[t]) = {} /\ Held(th'[t]) = {}
    BY <1>0, <1>3, KindIs, HeldIs
  <1>6. \A n \in removing' \ removing : n = th[t].prev \/ n = th[t].nxt
    BY <1>0
  <1> HIDE DEF p
  <1>7. LookupsOK'
    <2>1. PlacesOK /\ removing \subseteq removing' /\ TypeOK /\ LookupsOK
      BY <1>0 DEF PlaceInv
    <2> HIDE DEF KInv
    <2> QED BY <1>0, <1>1, <1>2, <1>5, <2>1, TableStays
  <1>8. TypeOK'
    <2>1. removing' \subseteq Nodes /\ lookup' \in [Threads -> Table!Lookup]
          /\ UNCHANGED answer /\ lock' \in [AllNodes -> Threads \cup {NoThread}]
      BY <1>0 DEF TypeOK, history
    <2> QED BY <1>0, <1>1, <2>1, TypesChange
  <1>9. LocksOK'
    BY <1>0, <1>1, <1>5, NoLocksMoved
  <1>10. Marks(next', removing', th')
    <2>1. \A u \in Threads : th'[u].pc = "Unlink" \/ th[u].pc = "Unlink" => th'[u] = th[u]
      BY <1>0, <1>1, <1>3 DEF Moved
    <2>2. \A k \in Heads : Reach(next', k) \cap removing' = Reach(next, k) \cap removing
      BY <1>0, <1>2 DEF Chain
    <2> QED BY <1>0, <2>1, <2>2 DEF PlaceInv, MarksOK, Marks
  <1>11. \A u \in Threads \ {t} : th[u].pc \in Lockers =>
               \A x \in Chain(next, th[u].head) : next'[x] = next[x]
    <2>1. ASSUME NEW u \in Threads \ {t}, th[u].pc \in Lockers,
                 NEW x \in Chain(next, th[u].head)
          PROVE  next'[x] = next[x]
      <3>1. th[u].head \in Heads
        BY <2>1 DEF PlaceInv, PlacesOK, PlaceOK, Lockers
      <3>2. x \in AllNodes /\ x # p
        BY <1>0, <1>2, <2>1, <3>1, ChainHome
      <3> QED BY <1>0, <3>2
    <2> QED BY <2>1
  <1>12. ASSUME th'[t].pc = "FreeNode", NEW k \in Heads
         PROVE  Chain(next', th'[t].prev) \cap Reach(next', k) = {}
    <2>1. th'[t].prev = next[p] /\ next[p] # NoNode /\ next[p] \in AllNodes
      BY <1>1, <1>3, <1>12, Basics
    <2>2. next[p] \in Reach(next, p) /\ Reach(next, next[p]) \subseteq Reach(next, p)
      BY <1>0, <2>1, ReachClosed, ReachOn
    <2>3. Chain(next', next[p]) \subseteq Reach(next, p)
      BY <1>2, <2>1, <2>2 DEF Chain
    <2>4. Reach(next, p) \cap Reach(next, k) = {}
      BY <1>0 DEF Chain
    <2> QED BY <1>2, <2>1, <2>3, <2>4
  <1>13. PlaceInv'
    <2>1. \A x \in AllNodes : next'[x] = NoNode \/ \E y \in AllNodes : next'[x] = next[y]
      BY <1>0
    <2>2. \A x \in AllNodes : Reach(next', x) \subseteq Reach(next, x)
      BY <1>2
    <2> QED BY <1>0, <1>1, <1>2, <1>3, <1>4, <1>6, <1>10, <1>11, <1>12, <2>1, <2>2, LinksFall
  <1> QED BY <1>7, <1>8, <1>9, <1>13

\* Every step keeps where the threads stand, what they hold and what they find.
LEMMA EachStep ==
  ASSUME KInv, [Next]_vars
  PROVE  KInv'
  <1>1. CASE UNCHANGED vars
    <2>1. UNCHANGED <<inited, next, removing, unused, lock, size, th, clears, lookup, answer>>
      BY <1>1 DEF vars, listVars, history
    <2>2. TypeOK'
      BY <2>1 DEF KInv, TypeOK
    <2>3. PlaceInv'
      BY <2>1 DEF KInv, PlaceInv, CallsOK, PlacesOK, ShapeOK, NewOK, MarksOK, CutOK
    <2>4. LocksOK' /\ LookupsOK'
      BY <2>1 DEF KInv, LocksOK, LookupsOK
    <2> QED BY <2>2, <2>3, <2>4 DEF KInv
  <1>2. ASSUME NEW t \in Threads,
               Calls(t) \/ Writer(t) \/ Reader(t) \/ FreeList(t) \/ FreeNode(t)
        PROVE  KInv'
    <2>1. CASE Calls(t)
      BY <2>1, CallAddStep, CallPopStep, CallFreeStep, SeekingStep DEF Calls, Seeking
    <2>2. CASE Writer(t)
      BY <2>2, InitHashArrayStep, InitLockedStep, LockHeadStep, LockNextStep, LinkStep,
         AddedStep, PopStep, LockNextNodeStep, UnlinkStep, RemovedStep DEF Writer
    <2>3. CASE Reader(t)
      BY <2>3, BucketStep, LockPrevStep, LockVisitedStep, TestStep, LookupReturnsStep,
         NextKeyStep DEF Reader
    <2> QED BY <1>2, <2>1, <2>2, <2>3, FreeListStep, FreeNodeStep
  <1> QED BY <1>1, <1>2 DEF Next

-----------------------------------------------------------------------------
(* The steps that the callers of the table do not see.                        *)

Counting == {"Added", "Unlink", "Removed"}

LEMMA SilentStep ==
  ASSUME KInv, NEW t \in Threads,
         \/ CallAddNode(t) \/ CallPop(t) \/ InitHashArray(t) \/ InitLocked(t)
         \/ LockHead(t) \/ LockNext(t) \/ (LockNextNode(t) /\ ~MarksNode(t))
         \/ LockPrev(t) \/ LockVisited(t) \/ Test(t) \/ NextKeyNode(t)
  PROVE  /\ Moved(t) /\ th[t].op # "Free" /\ th'[t].op # "Free"
         /\ th[t].pc \notin Counting /\ th'[t].pc \notin Counting
         /\ UNCHANGED <<next, removing, size, clears, history>>
  <1> DEFINE Goal == /\ Moved(t) /\ th[t].op # "Free" /\ th'[t].op # "Free"
                     /\ th[t].pc \notin Counting /\ th'[t].pc \notin Counting
                     /\ UNCHANGED <<next, removing, size, clears, history>>
  <1> SUFFICES Goal
    OBVIOUS
  <1> USE DEF KInv, Counting
  <1>0. /\ CallOK(th[t]) /\ PlaceOK(th[t], next, inited)
    BY DEF PlaceInv, CallsOK, PlacesOK
  <1>1. CASE CallAddNode(t)
    <2>1. UNCHANGED <<next, removing, size, clears, history>>
      BY <1>1 DEF CallAddNode
    <2> QED BY <1>0, <1>1, <2>1, CallAddDoes DEF CallOK
  <1>2. CASE CallPop(t)
    <2>1. UNCHANGED <<next, removing, size, clears, history>>
      BY <1>2 DEF CallPop, listVars
    <2> QED BY <1>0, <1>2, <2>1, CallPopDoes DEF CallOK
  <1>3. CASE InitHashArray(t)
    <2>1. UNCHANGED <<next, removing, size, clears, history>> /\ th[t].pc = "InitHashArray"
      BY <1>3 DEF InitHashArray, listVars, At
    <2>2. \/ Goes(t, "LockHead") \/ Goes(t, "InitLocked")
      BY <1>3, GotoGoes DEF InitHashArray
    <2> QED BY <1>0, <2>1, <2>2 DEF Goes, SameCall, CallOK, Removals
  <1>4. CASE InitLocked(t)
    <2>1. UNCHANGED <<next, removing, size, clears, history>> /\ th[t].pc = "InitLocked"
      BY <1>4 DEF InitLocked, At
    <2>2. Goes(t, "LockHead")
      BY <1>4, GotoGoes DEF InitLocked
    <2> QED BY <1>0, <2>1, <2>2 DEF Goes, SameCall, CallOK, Removals
  <1>5. CASE LockHead(t)
    <2>1. UNCHANGED <<next, removing, size, clears, history>> /\ th[t].pc = "LockHead"
      BY <1>5 DEF LockHead, listVars, At
    <2>2. th[t].head \in Heads
      BY <1>0, <2>1 DEF PlaceOK
    <2>3. /\ Moved(t) /\ SameCall(th[t], th'[t])
          /\ th'[t].pc \in {"Link", "LockNext", "Pop", "LockNode"}
      BY <1>5, <2>2, LockHeadDoes
    <2> QED BY <1>0, <2>1, <2>3 DEF SameCall, CallOK, Removals
  <1>6. CASE LockNext(t)
    <2>1. UNCHANGED <<next, removing, size, clears, history>> /\ th[t].pc = "LockNext"
      BY <1>6 DEF LockNext, listVars, At
    <2>2. Goes(t, "Link")
      BY <1>6, GotoGoes DEF LockNext
    <2> QED BY <1>0, <2>1, <2>2 DEF Goes, SameCall, CallOK
  <1>7. CASE LockNextNode(t) /\ ~MarksNode(t)
    <2>1. th[t].pc = "LockNode" /\ UNCHANGED <<next, size, clears>>
          /\ (Fails(t) \/ Passes(t))
      BY <1>7, LockNextNodeCases
    <2>2. UNCHANGED <<removing, history>>
      BY <2>1 DEF Fails, Passes
    <2>3. CASE Fails(t)
      BY <1>0, <2>1, <2>2, <2>3, ReturnReturns, IdleIsCall DEF Fails, Returns, CallOK, Removals
    <2>4. CASE Passes(t)
      BY <1>0, <2>1, <2>2, <2>4, PassesDoes DEF SameCall, CallOK, Removals
    <2> QED BY <2>1, <2>3, <2>4
  <1>8. CASE LockPrev(t)
    <2>1. th[t].pc = "LockPrev"
      BY <1>8 DEF LockPrev, At
    <2>2. th[t].prev \in AllNodes /\ th[t].op \in Lookups
      BY <1>0, <2>1 DEF PlaceOK, CallOK
    <2>3. UNCHANGED <<next, removing, size, clears, history>>
      BY <1>8, <2>2, LockPrevDoes DEF listVars
    <2>4. Moved(t) /\ SameCall(th[t], th'[t]) /\ th'[t].pc \in {"Bucket", "LockVisited"}
      BY <1>8, <2>2, LockPrevDoes DEF Goes
    <2> QED BY <2>1, <2>2, <2>3, <2>4 DEF SameCall, Lookups
  <1>9. CASE LockVisited(t)
    <2>1. UNCHANGED <<next, removing, size, clears, history>> /\ th[t].pc = "LockVisited"
      BY <1>9 DEF LockVisited, listVars, At
    <2>2. Goes(t, "Test")
      BY <1>9, GotoGoes DEF LockVisited
    <2> QED BY <1>0, <2>1, <2>2 DEF Goes, SameCall, CallOK, Lookups
  <1>10. CASE Test(t)
    <2>1. UNCHANGED <<next, removing, size, clears, history>> /\ th[t].pc = "Test"
      BY <1>10 DEF Test, listVars, At
    <2>2. th[t].nxt \in Nodes /\ th[t].op \in Lookups
      BY <1>0, <2>1 DEF PlaceOK, CallOK
    <2>3. Moved(t) /\ SameCall(th[t], th'[t]) /\ th'[t].pc \in {"Return", "LockPrev"}
      BY <1>10, <2>2, TestDoes
    <2> QED BY <2>1, <2>2, <2>3 DEF SameCall, Lookups
  <1>11. CASE NextKeyNode(t)
    <2>1. UNCHANGED <<next, removing, size, clears, history>> /\ th[t].pc = "NextKeyNode"
      BY <1>11, NextKeyDoes DEF listVars
    <2>2. th[t].op \in Removals
      BY <1>0, <2>1 DEF CallOK
    <2> QED BY <1>11, <2>1, <2>2, NextKeyDoes, IdleIsCall DEF Returns, Removals
  <1> QED BY <1>1, <1>2, <1>3, <1>4, <1>5, <1>6, <1>7, <1>8, <1>9, <1>10, <1>11

\* The content as long as the lists and the marks are the same.
LEMMA ContentSame ==
  ASSUME TypeOK, UNCHANGED <<next, removing>>
  PROVE  Content' = Content
  BY ContentIs, ContentNext

-----------------------------------------------------------------------------
(* The counter.                                                               *)

Those(ths, pcs) == {t \in Threads : ths[t].pc \in pcs}

Counts(s, nodes, ths) ==
    s + Cardinality(Those(ths, {"Added"}))
        = Cardinality(nodes) + Cardinality(Those(ths, {"Unlink", "Removed"}))

LEMMA SizeCountsIs ==
  /\ SizeCounts <=> (clears = 0 => Counts(size, Content, th))
  /\ SizeCounts' <=> (clears' = 0 => Counts(size', Content', th'))
  BY DEF SizeCounts, Counts, CountsLater, Those

LEMMA ThoseFinite ==
  ASSUME NEW ths, NEW pcs
  PROVE  IsFiniteSet(Those(ths, pcs)) /\ Cardinality(Those(ths, pcs)) \in Nat
  <1>1. Those(ths, pcs) \subseteq Threads
    BY DEF Those
  <1> QED BY <1>1, FS_Subset, FS_CardinalityType, ConstantsAssumption

LEMMA ThoseSame ==
  ASSUME NEW t \in Threads, NEW pcs, \A u \in Threads \ {t} : th'[u] = th[u],
         th[t].pc \in pcs <=> th'[t].pc \in pcs
  PROVE  /\ Cardinality(Those(th', pcs)) = Cardinality(Those(th, pcs))
         /\ Cardinality(Those(th, pcs)) \in Nat
  <1>1. Those(th', pcs) = Those(th, pcs)
    BY DEF Those
  <1> QED BY <1>1, ThoseFinite

LEMMA ThoseMore ==
  ASSUME NEW t \in Threads, NEW pcs, \A u \in Threads \ {t} : th'[u] = th[u],
         th[t].pc \notin pcs, th'[t].pc \in pcs
  PROVE  /\ Cardinality(Those(th', pcs)) = Cardinality(Those(th, pcs)) + 1
         /\ Cardinality(Those(th, pcs)) \in Nat
  <1>1. Those(th', pcs) = Those(th, pcs) \cup {t}
    BY DEF Those
  <1>2. t \notin Those(th, pcs)
    BY DEF Those
  <1> QED BY <1>1, <1>2, ThoseFinite, FS_AddElement

LEMMA ThoseFewer ==
  ASSUME NEW t \in Threads, NEW pcs, \A u \in Threads \ {t} : th'[u] = th[u],
         th[t].pc \in pcs, th'[t].pc \notin pcs
  PROVE  /\ Cardinality(Those(th', pcs)) = Cardinality(Those(th, pcs)) - 1
         /\ Cardinality(Those(th, pcs)) \in Nat
  <1>1. Those(th', pcs) = Those(th, pcs) \ {t}
    BY DEF Those
  <1>2. t \in Those(th, pcs)
    BY DEF Those
  <1>3. IsFiniteSet(Those(th, pcs))
    BY ThoseFinite
  <1> DEFINE S == Those(th, pcs)
  <1> HIDE DEF S
  <1>4. Cardinality(S \ {t}) = Cardinality(S) - 1 /\ Cardinality(S) \in Nat
    BY <1>2, <1>3, FS_RemoveElement, FS_CardinalityType DEF S
  <1> QED BY <1>1, <1>4 DEF S

LEMMA NodesCount ==
  ASSUME NEW T \in SUBSET Nodes
  PROVE  /\ Cardinality(T) \in Nat
         /\ \A n \in Nodes \ T : Cardinality(T \cup {n}) = Cardinality(T) + 1
         /\ \A n \in T : Cardinality(T \ {n}) = Cardinality(T) - 1
  <1>1. IsFiniteSet(T)
    BY FS_Subset, ConstantsAssumption
  <1> QED BY <1>1, FS_CardinalityType, FS_AddElement, FS_RemoveElement

LEMMA SizeStays ==
  ASSUME KInv, SizeCounts, NEW t \in Threads, Moved(t),
         UNCHANGED <<size, clears>>, Content' = Content,
         th[t].pc \in {"Added"} <=> th'[t].pc \in {"Added"},
         th[t].pc \in {"Unlink", "Removed"} <=> th'[t].pc \in {"Unlink", "Removed"}
  PROVE  SizeCounts'
  <1>1. \A u \in Threads \ {t} : th'[u] = th[u]
    BY DEF Moved
  <1> DEFINE A == {"Added"}
             R == {"Unlink", "Removed"}
  <1>a. th[t].pc \in A <=> th'[t].pc \in A
    OBVIOUS
  <1>b. th[t].pc \in R <=> th'[t].pc \in R
    OBVIOUS
  <1> HIDE DEF A, R
  <1>2. Cardinality(Those(th', A)) = Cardinality(Those(th, A))
    BY <1>1, <1>a, ThoseSame
  <1>3. Cardinality(Those(th', R)) = Cardinality(Those(th, R))
    BY <1>1, <1>b, ThoseSame
  <1> QED BY <1>2, <1>3, SizeCountsIs DEF Counts, A, R

LEMMA LinkSize ==
  ASSUME KInv, SizeCounts, NEW t \in Threads, Link(t)
  PROVE  SizeCounts'
  <1> DEFINE A == {"Added"}
             R == {"Unlink", "Removed"}
             T == InTable(next, removing)
             n == th[t].node
  <1>1. /\ \A u \in Threads \ {t} : th'[u] = th[u]
        /\ th[t].pc = "Link" /\ th'[t].pc = "Added" /\ UNCHANGED <<size, clears>>
        /\ n \in Nodes
    BY LinkDoes DEF Goes, Moved
  <1>2. T \in SUBSET Nodes /\ n \notin T /\ Content = T /\ Content' = T \cup {n}
    BY LinkContent, ContentIs, ContentNext DEF KInv
  <1>3. th[t].pc \notin A /\ th'[t].pc \in A /\ th[t].pc \notin R /\ th'[t].pc \notin R
    BY <1>1
  <1> HIDE DEF A, R, T, n
  <1>4. /\ Cardinality(Those(th', A)) = Cardinality(Those(th, A)) + 1
        /\ Cardinality(Those(th, A)) \in Nat
    BY <1>1, <1>3, ThoseMore
  <1>5. /\ Cardinality(Those(th', R)) = Cardinality(Those(th, R))
        /\ Cardinality(Those(th, R)) \in Nat
    BY <1>1, <1>3, ThoseSame
  <1>6. Cardinality(Content') = Cardinality(Content) + 1 /\ Cardinality(Content) \in Nat
    BY <1>1, <1>2, NodesCount
  <1>7. size \in Int
    BY DEF KInv, TypeOK
  <1> QED BY <1>1, <1>4, <1>5, <1>6, <1>7, SizeCountsIs DEF Counts, A, R

LEMMA AddedSize ==
  ASSUME KInv, SizeCounts, NEW t \in Threads, Added(t)
  PROVE  SizeCounts'
  <1> DEFINE A == {"Added"}
             R == {"Unlink", "Removed"}
  <1>1. /\ th[t].pc = "Added" /\ Returns(t) /\ size' = size + 1 /\ size \in Int
        /\ UNCHANGED <<next, removing, clears>>
    BY ReturnReturns DEF KInv, TypeOK, Added, At, listVars
  <1>2. Content' = Content /\ Cardinality(Content) \in Nat
    BY <1>1, ContentSame, ContentIs, NodesCount DEF KInv
  <1>3. \A u \in Threads \ {t} : th'[u] = th[u]
    BY <1>1 DEF Returns, Moved
  <1>4. th[t].pc \in A /\ th'[t].pc \notin A /\ th[t].pc \notin R /\ th'[t].pc \notin R
    BY <1>1, IdleIsCall DEF Returns
  <1> HIDE DEF A, R
  <1>5. /\ Cardinality(Those(th', A)) = Cardinality(Those(th, A)) - 1
        /\ Cardinality(Those(th, A)) \in Nat
    BY <1>3, <1>4, ThoseFewer
  <1>6. /\ Cardinality(Those(th', R)) = Cardinality(Those(th, R))
        /\ Cardinality(Those(th, R)) \in Nat
    BY <1>3, <1>4, ThoseSame
  <1> QED BY <1>1, <1>2, <1>5, <1>6, SizeCountsIs DEF Counts, A, R

\* A node leaves the table and its remover is about to count it.
LEMMA LessSize ==
  ASSUME KInv, SizeCounts, NEW t \in Threads, Moved(t), UNCHANGED <<size, clears>>,
         NEW n \in InTable(next, removing),
         InTable(next', removing') = InTable(next, removing) \ {n},
         th[t].pc \in {"Pop", "LockNode"}, th'[t].pc \in {"Unlink", "Removed"}
  PROVE  SizeCounts'
  <1> DEFINE A == {"Added"}
             R == {"Unlink", "Removed"}
             T == InTable(next, removing)
  <1>1. \A u \in Threads \ {t} : th'[u] = th[u]
    BY DEF Moved
  <1>2. T \in SUBSET Nodes /\ Content = T /\ Content' = T \ {n} /\ n \in T
    BY ContentIs, ContentNext DEF KInv
  <1>3. th[t].pc \notin A /\ th'[t].pc \notin A /\ th[t].pc \notin R /\ th'[t].pc \in R
    OBVIOUS
  <1> HIDE DEF A, R, T
  <1>4. /\ Cardinality(Those(th', A)) = Cardinality(Those(th, A))
        /\ Cardinality(Those(th, A)) \in Nat
    BY <1>1, <1>3, ThoseSame
  <1>5. /\ Cardinality(Those(th', R)) = Cardinality(Those(th, R)) + 1
        /\ Cardinality(Those(th, R)) \in Nat
    BY <1>1, <1>3, ThoseMore
  <1>6. Cardinality(Content') = Cardinality(Content) - 1 /\ Cardinality(Content) \in Nat
    BY <1>2, NodesCount
  <1>7. size \in Int
    BY DEF KInv, TypeOK
  <1> QED BY <1>4, <1>5, <1>6, <1>7, SizeCountsIs DEF Counts, A, R

LEMMA RemovedSize ==
  ASSUME KInv, SizeCounts, NEW t \in Threads, Removed(t)
  PROVE  SizeCounts'
  <1> DEFINE A == {"Added"}
             R == {"Unlink", "Removed"}
  <1>1. /\ th[t].pc = "Removed" /\ size' = size - 1 /\ size \in Int
        /\ UNCHANGED <<next, removing, clears>>
        /\ Returns(t) \/ Goes(t, "NextKeyNode")
    BY ReturnReturns, GotoGoes DEF KInv, TypeOK, Removed, At, listVars
  <1>2. Content' = Content /\ Cardinality(Content) \in Nat
    BY <1>1, ContentSame, ContentIs, NodesCount DEF KInv
  <1>3. \A u \in Threads \ {t} : th'[u] = th[u]
    BY <1>1 DEF Returns, Goes, Moved
  <1>4. th[t].pc \notin A /\ th'[t].pc \notin A /\ th[t].pc \in R /\ th'[t].pc \notin R
    BY <1>1, IdleIsCall DEF Returns, Goes
  <1> HIDE DEF A, R
  <1>5. /\ Cardinality(Those(th', A)) = Cardinality(Those(th, A))
        /\ Cardinality(Those(th, A)) \in Nat
    BY <1>3, <1>4, ThoseSame
  <1>6. /\ Cardinality(Those(th', R)) = Cardinality(Those(th, R)) - 1
        /\ Cardinality(Those(th, R)) \in Nat
    BY <1>3, <1>4, ThoseFewer
  <1> QED BY <1>1, <1>2, <1>5, <1>6, SizeCountsIs DEF Counts, A, R

\* While somebody has cleared the table the counter is not compared.
LEMMA ClearedSize ==
  ASSUME KInv, NEW t \in Threads, th[t].op = "Free", UNCHANGED clears
  PROVE  SizeCounts'
  BY SizeCountsIs DEF KInv, PlaceInv, CallsOK

LEMMA WriterSize ==
  ASSUME KInv, SizeCounts, NEW t \in Threads,
         Pop(t) \/ (LockNextNode(t) /\ MarksNode(t)) \/ Unlink(t)
  PROVE  SizeCounts'
  <1>1. CASE Pop(t) /\ th[t].nxt # NoNode
    <2>1. /\ Moved(t) /\ th[t].pc = "Pop" /\ th'[t].pc = "Removed"
          /\ UNCHANGED <<size, clears>>
      BY <1>1, PopDoes DEF Goes
    <2>2. /\ th[t].nxt \in InTable(next, removing)
          /\ InTable(next', removing') = InTable(next, removing) \ {th[t].nxt}
      BY <1>1, PopContent
    <2> QED BY <2>1, <2>2, LessSize
  <1>2. CASE Pop(t) /\ th[t].nxt = NoNode
    <2>1. /\ Returns(t) /\ th[t].pc = "Pop"
          /\ UNCHANGED <<next, removing, size, clears>>
      BY <1>2, ReturnReturns DEF KInv, Pop, At
    <2>2. Content' = Content
      BY <2>1, ContentSame DEF KInv
    <2>3. Moved(t) /\ th'[t].pc = "Idle"
      BY <2>1, IdleIsCall DEF Returns
    <2> QED BY <2>1, <2>2, <2>3, SizeStays
  <1>3. CASE LockNextNode(t) /\ MarksNode(t)
    <2>1. /\ Moved(t) /\ th[t].pc = "LockNode" /\ th'[t].pc = "Unlink"
          /\ UNCHANGED <<size, clears>>
      BY <1>3, MarkDoes DEF Goes
    <2>2. /\ th[t].nxt \in InTable(next, removing)
          /\ InTable(next', removing') = InTable(next, removing) \ {th[t].nxt}
      BY <1>3, MarkContent
    <2> QED BY <2>1, <2>2, LessSize
  <1>4. CASE Unlink(t)
    <2>1. /\ Moved(t) /\ th[t].pc = "Unlink" /\ th'[t].pc = "Removed"
          /\ UNCHANGED <<size, clears>>
      BY <1>4, UnlinkDoes DEF Goes
    <2>2. Content' = Content
      BY <1>4, UnlinkContent, ContentIs, ContentNext DEF KInv
    <2> QED BY <2>1, <2>2, SizeStays
  <1> QED BY <1>1, <1>2, <1>3, <1>4

LEMMA BucketSize ==
  ASSUME KInv, SizeCounts, NEW t \in Threads, Bucket(t) \/ LookupReturns(t) \/ Seeking(t)
  PROVE  SizeCounts'
  <1>1. /\ Moved(t) /\ UNCHANGED <<next, removing, size, clears>>
        /\ th[t].pc \in {"Bucket", "Return", "Idle"}
        /\ th'[t].pc \in {"Idle", "Return", "Bucket", "FreeList", "LockPrev", "NextKeyNode"}
    <2>1. CASE Bucket(t)
      <3>1. th[t].pc = "Bucket" /\ UNCHANGED <<next, removing, size, clears>>
        BY <2>1, BucketDoes DEF KInv, listVars
      <3>2. Moved(t) /\ th'[t].pc \in {"Idle", "Return", "Bucket", "FreeList", "LockPrev"}
        BY <2>1, BucketDoes, IdleIsCall DEF KInv, Returns, Goes, EntersBucket
      <3> QED BY <3>1, <3>2
    <2>2. CASE LookupReturns(t)
      <3>1. th[t].pc = "Return" /\ UNCHANGED <<next, removing, size, clears>>
        BY <2>2 DEF LookupReturns, At, listVars
      <3>2. th[t].op \in Lookups
        BY <3>1 DEF KInv, PlaceInv, CallsOK, CallOK
      <3>3. Moved(t) /\ th'[t].pc \in {"Idle", "NextKeyNode"}
        BY <2>2, <3>2, LookupReturnsDoes, IdleIsCall DEF KInv
      <3> QED BY <3>1, <3>3
    <2>3. CASE Seeking(t)
      BY <2>3, SeekingDoes DEF KInv, SeekBegun, listVars
    <2> QED BY <2>1, <2>2, <2>3
  <1>2. Content' = Content
    BY <1>1, ContentSame DEF KInv
  <1> QED BY <1>1, <1>2, SizeStays

LEMMA SizeStep ==
  ASSUME KInv, SizeCounts, [Next]_vars
  PROVE  SizeCounts'
  <1>1. CASE UNCHANGED vars
    BY <1>1 DEF vars, listVars, SizeCounts, CountsLater, Content, Linked
  <1>2. ASSUME NEW t \in Threads,
               Calls(t) \/ Writer(t) \/ Reader(t) \/ FreeList(t) \/ FreeNode(t)
        PROVE  SizeCounts'
    <2>1. CASE \/ CallAddNode(t) \/ CallPop(t) \/ InitHashArray(t) \/ InitLocked(t)
               \/ LockHead(t) \/ LockNext(t) \/ (LockNextNode(t) /\ ~MarksNode(t))
               \/ LockPrev(t) \/ LockVisited(t) \/ Test(t) \/ NextKeyNode(t)
      <3>1. /\ Moved(t) /\ th[t].pc \notin Counting /\ th'[t].pc \notin Counting
            /\ UNCHANGED <<next, removing, size, clears>>
        BY <2>1, SilentStep
      <3>2. Content' = Content
        BY <3>1, ContentSame DEF KInv
      <3> QED BY <3>1, <3>2, SizeStays DEF Counting
    <2>2. CASE CallFreeHashMapNode(t)
      BY <2>2, CallFreeStep, SizeCountsIs
    <2>3. CASE FreeList(t) \/ FreeNode(t)
      <3>1. th[t].op = "Free" /\ UNCHANGED clears
        BY <2>3, FreeListAt, FreeNodeAt
      <3> QED BY <3>1, ClearedSize
    <2>4. CASE \/ Link(t) \/ Added(t) \/ Pop(t) \/ (LockNextNode(t) /\ MarksNode(t))
               \/ Unlink(t) \/ Removed(t)
      BY <2>4, LinkSize, AddedSize, WriterSize, RemovedSize
    <2>5. CASE Bucket(t) \/ LookupReturns(t) \/ Seeking(t)
      BY <2>5, BucketSize
    <2> QED BY <1>2, <2>1, <2>2, <2>3, <2>4, <2>5 DEF Calls, Seeking, Writer, Reader
  <1> QED BY <1>1, <1>2 DEF Next

-----------------------------------------------------------------------------
(* The invariant.                                                             *)

LEMMA InitInv ==
  ASSUME Init
  PROVE  IInv
  <1> USE DEF Init
  <1>0. \A t \in Threads : th[t] = Idle /\ lookup[t] = Table!NoLookup
    OBVIOUS
  <1>1. \A x \in AllNodes : next[x] = NoNode
    OBVIOUS
  <1>2. TypeOK
    BY IdleIsCall, NoLookupIs, ConstantsAssumption DEF TypeOK
  <1>3. next \in Links /\ \A x \in AllNodes : Reach(next, x) = {}
    <2>1. next \in Links
      BY DEF Links
    <2> QED BY <1>1, <2>1, ReachFirst
  <1>4. \A h \in Heads : h \in AllNodes /\ h # NoNode
    BY Basics
  <1>5. InTable(next, removing) = {}
    BY <1>3, <1>4 DEF InTable
  <1>6. PlaceInv
    <2>1. CallsOK /\ PlacesOK
      BY <1>0, IdleOK, IdleIsCall DEF CallsOK, PlacesOK
    <2>2. Shape(next, inited)
      BY <1>1, <1>3, <1>4, Basics DEF Shape, Chain
    <2>3. NewNodes(next, removing, unused, th)
      <3>1. \A n \in Nodes : NewNode(n, next, removing, th)
        BY <1>0, <1>1, IdleIsCall, Basics DEF NewNode, NoPlace
      <3> QED BY <1>0, <3>1, IdleOK DEF NewNodes
    <2>4. Marks(next, removing, th) /\ CutOff(next, th)
      BY <1>0, <1>3, <1>4, IdleIsCall DEF Marks, CutOff
    <2> QED BY <2>1, <2>2, <2>3, <2>4 DEF PlaceInv, ShapeOK, NewOK, MarksOK, CutOK
  <1>7. LocksOK
    <2>1. \A t \in Threads : Held(th[t]) = {} /\ t # NoThread
      BY <1>0, IdleOK, ConstantsAssumption
    <2> QED BY <2>1 DEF LocksOK, Locks
  <1>8. LookupsOK
    BY <1>0, IdleOK, NoLookupIs DEF LookupsOK, LookupOK
  <1>9. SizeCounts
    <2>1. Content = {}
      BY <1>2, <1>5, ContentIs
    <2>2. \A pcs \in {{"Added"}, {"Unlink", "Removed"}} : Those(th, pcs) = {}
      BY <1>0, IdleIsCall DEF Those
    <2> QED BY <2>1, <2>2, FS_EmptySet, SizeCountsIs DEF Counts
  <1> QED BY <1>2, <1>6, <1>7, <1>8, <1>9 DEF IInv

LEMMA StepInv ==
  ASSUME IInv, [Next]_vars
  PROVE  IInv'
  BY EachStep, SizeStep DEF IInv, KInv

LEMMA InvHolds == Spec => []IInv
  <1>1. Init => IInv
    BY InitInv
  <1>2. IInv /\ [Next]_vars => IInv'
    BY StepInv
  <1> QED BY <1>1, <1>2, PTL DEF Spec

LEMMA ListSound ==
  ASSUME IInv
  PROVE  ListOK
  <1> USE DEF IInv
  <1>1. LocksAreHeld
    <2>1. ASSUME NEW n \in AllNodes, lock[n] # NoThread
          PROVE  n \in {th[lock[n]].head, th[lock[n]].prev, th[lock[n]].nxt}
      <3>1. PICK t \in Threads : lock[n] = t
        BY <2>1 DEF TypeOK
      <3>2. n \in Held(th[t])
        BY <3>1 DEF LocksOK, Locks
      <3>3. Held(th[t]) \subseteq {th[t].head, th[t].prev, th[t].nxt}
        BY HeldIs
      <3> QED BY <3>1, <3>2, <3>3
    <2> QED BY <2>1 DEF LocksAreHeld
  <1>2. NothingIsMissed
    <2>1. ASSUME NEW t \in Threads, lookup[t].kind = "all", NEW n \in lookup[t].must
          PROVE  \/ BucketOf(KeyOf(n)) \in th[t].heads
                 \/ n \in th[t].found \cup Ahead(th[t])
      <3>1. LookupOK(th[t], lookup[t], next, removing)
        BY DEF LookupsOK
      <3>2. Ahead(th[t]) = Before(th[t], next)
        BY ContentIs
      <3> QED BY <2>1, <3>1, <3>2 DEF LookupOK
    <2> QED BY <2>1 DEF NothingIsMissed
  <1> QED BY <1>1, <1>2 DEF ListOK

\* The list is sound between any two steps of any threads (List.h:178-354): a
\* locked node is locked by a thread inside the list, the counter follows the
\* nodes (HashMap.h:148), and no traversal loses a node that stays, not even
\* one that stands on a removed node (List.h:263).
THEOREM ListIsSound == Spec => []ListOK
  <1>1. IInv => ListOK
    BY ListSound
  <1> QED BY InvHolds, <1>1, PTL

-----------------------------------------------------------------------------
(* The refinement.                                                            *)

\* The buckets a call has still to empty.
Clears(c) == IF c.op # "Free" THEN {}
             ELSE c.heads \cup IF c.pc = "FreeList" THEN {c.prev} ELSE {}

LEMMA ClearingIs ==
  /\ Clearing = [t \in Threads |-> Clears(th[t])]
  /\ Clearing' = [t \in Threads |-> Clears(th'[t])]
  BY DEF Clearing, Clears

LEMMA ClearingMoves ==
  ASSUME NEW t \in Threads, Moved(t)
  PROVE  /\ Clearing' = [Clearing EXCEPT ![t] = Clears(th'[t])]
         /\ Clearing[t] = Clears(th[t])
         /\ Clears(th'[t]) = Clears(th[t]) => Clearing' = Clearing
  BY ClearingIs DEF Moved

LEMMA ClearingStays ==
  ASSUME NEW t \in Threads, Moved(t), th[t].op # "Free", th'[t].op # "Free"
  PROVE  Clearing' = Clearing
  BY ClearingMoves DEF Clears

\* The table does not see a step that changes neither it nor the lookups.
LEMMA Unseen ==
  ASSUME Content' = Content, Clearing' = Clearing, UNCHANGED history
  PROVE  UNCHANGED Table!vars
  BY DEF Table!vars, history

\* The table's content becomes another one, and the history follows.
LEMMA Becomes ==
  ASSUME ContentChanges, NEW nodes, Content' = nodes
  PROVE  Table!ContentBecomes(nodes)
  BY DEF ContentChanges, Table!ContentBecomes

LEMMA UnseenSteps ==
  ASSUME KInv, NEW t \in Threads,
         \/ CallAddNode(t) \/ CallPop(t) \/ InitHashArray(t) \/ InitLocked(t)
         \/ LockHead(t) \/ LockNext(t) \/ (LockNextNode(t) /\ ~MarksNode(t))
         \/ LockPrev(t) \/ LockVisited(t) \/ Test(t) \/ NextKeyNode(t)
         \/ Added(t) \/ Removed(t) \/ Unlink(t) \/ (Pop(t) /\ th[t].nxt = NoNode)
  PROVE  UNCHANGED Table!vars
  <1> USE DEF KInv
  <1>0. CallOK(th[t])
    BY DEF PlaceInv, CallsOK
  <1>1. CASE \/ CallAddNode(t) \/ CallPop(t) \/ InitHashArray(t) \/ InitLocked(t)
             \/ LockHead(t) \/ LockNext(t) \/ (LockNextNode(t) /\ ~MarksNode(t))
             \/ LockPrev(t) \/ LockVisited(t) \/ Test(t) \/ NextKeyNode(t)
    <2>1. /\ Moved(t) /\ th[t].op # "Free" /\ th'[t].op # "Free"
          /\ UNCHANGED <<next, removing, history>>
      BY <1>1, SilentStep
    <2> QED BY <2>1, ContentSame, ClearingStays, Unseen
  <1>2. CASE Added(t) \/ Removed(t)
    <2>1. /\ UNCHANGED <<next, removing, history>> /\ th[t].pc \in {"Added", "Removed"}
          /\ Returns(t) \/ Goes(t, "NextKeyNode")
      BY <1>2, ReturnReturns, GotoGoes DEF Added, Removed, At, listVars
    <2>2. Moved(t) /\ th[t].op # "Free" /\ th'[t].op # "Free"
      BY <1>0, <2>1, IdleIsCall DEF Returns, Goes, SameCall, CallOK, Removals
    <2> QED BY <2>1, <2>2, ContentSame, ClearingStays, Unseen
  <1>3. CASE Unlink(t)
    <2>1. Goes(t, "Removed") /\ th[t].pc = "Unlink" /\ UNCHANGED history
      BY <1>3, UnlinkDoes
    <2>2. Moved(t) /\ th[t].op # "Free" /\ th'[t].op # "Free"
      BY <1>0, <2>1 DEF Goes, SameCall, CallOK, Removals
    <2>3. Content' = Content
      BY <1>3, UnlinkContent, ContentIs, ContentNext
    <2> QED BY <2>1, <2>2, <2>3, ClearingStays, Unseen
  <1>4. CASE Pop(t) /\ th[t].nxt = NoNode
    <2>1. Returns(t) /\ th[t].pc = "Pop" /\ UNCHANGED <<next, removing>> /\ ContentChanges
      BY <1>4, ReturnReturns DEF Pop, At
    <2>2. Moved(t) /\ th[t].op # "Free" /\ th'[t].op # "Free"
      BY <1>0, <2>1, IdleIsCall DEF Returns, CallOK
    <2>3. UNCHANGED history
      BY <2>1, NothingChanges
    <2> QED BY <2>1, <2>2, <2>3, ContentSame, ClearingStays, Unseen
  <1> QED BY <1>1, <1>2, <1>3, <1>4

\* A node is added where it is linked, and removed where it is marked or popped.
LEMMA ContentSteps ==
  ASSUME KInv, NEW t \in Threads,
         Link(t) \/ (Pop(t) /\ th[t].nxt # NoNode) \/ (LockNextNode(t) /\ MarksNode(t))
  PROVE  Table!Add \/ Table!Remove
  <1> USE DEF KInv
  <1>0. CallOK(th[t]) /\ Content = InTable(next, removing)
        /\ Content' = InTable(next', removing')
    BY ContentIs, ContentNext DEF PlaceInv, CallsOK
  <1>1. CASE Link(t)
    <2>1. Goes(t, "Added") /\ th[t].pc = "Link" /\ ContentChanges /\ th[t].node \in Nodes
      BY <1>1, LinkDoes
    <2>2. Moved(t) /\ th[t].op # "Free" /\ th'[t].op # "Free"
      BY <1>0, <2>1 DEF Goes, SameCall, CallOK
    <2>3. th[t].node \in Nodes \ Content /\ Content' = Content \cup {th[t].node}
      BY <1>0, <1>1, <2>1, LinkContent
    <2>4. Table!ContentBecomes(Content \cup {th[t].node})
      BY <2>1, <2>3, Becomes
    <2>5. Clearing' = Clearing
      BY <2>2, ClearingStays
    <2> QED BY <2>3, <2>4, <2>5 DEF Table!Add
  <1>2. CASE Pop(t) /\ th[t].nxt # NoNode
    <2>1. Goes(t, "Removed") /\ th[t].pc = "Pop" /\ ContentChanges
      BY <1>2, PopDoes
    <2>2. Moved(t) /\ th[t].op # "Free" /\ th'[t].op # "Free"
      BY <1>0, <2>1 DEF Goes, SameCall, CallOK
    <2>3. th[t].nxt \in Content /\ Content' = Content \ {th[t].nxt}
      BY <1>0, <1>2, PopContent
    <2>4. Table!ContentBecomes(Content \ {th[t].nxt})
      BY <2>1, <2>3, Becomes
    <2>5. Clearing' = Clearing
      BY <2>2, ClearingStays
    <2> QED BY <2>3, <2>4, <2>5 DEF Table!Remove
  <1>3. CASE LockNextNode(t) /\ MarksNode(t)
    <2>1. Goes(t, "Unlink") /\ th[t].pc = "LockNode" /\ ContentChanges
      BY <1>3, MarkDoes
    <2>2. Moved(t) /\ th[t].op # "Free" /\ th'[t].op # "Free"
      BY <1>0, <2>1 DEF Goes, SameCall, CallOK, Removals
    <2>3. th[t].nxt \in Content /\ Content' = Content \ {th[t].nxt}
      BY <1>0, <1>3, MarkContent
    <2>4. Table!ContentBecomes(Content \ {th[t].nxt})
      BY <2>1, <2>3, Becomes
    <2>5. Clearing' = Clearing
      BY <2>2, ClearingStays
    <2> QED BY <2>3, <2>4, <2>5 DEF Table!Remove
  <1> QED BY <1>1, <1>2, <1>3

\* A clearing empties a bucket where it cuts its list off.
LEMMA FreeListClears ==
  ASSUME KInv, NEW t \in Threads, FreeList(t)
  PROVE  Table!Clear(t)
  <1> USE DEF KInv
  <1> DEFINE h == th[t].prev
  <1>1. /\ th[t].pc = "FreeList" /\ th[t].op = "Free" /\ h \in Heads
        /\ h \notin th[t].heads /\ ContentChanges
    BY FreeListAt
  <1>2. /\ Moved(t) /\ th'[t].op = "Free" /\ th'[t].heads = th[t].heads
        /\ th'[t].pc \in {"Bucket", "FreeNode"}
    BY <1>1, FreeListDoes DEF SameCall, SameSearch
  <1>3. Clears(th[t]) = th[t].heads \cup {h} /\ Clears(th'[t]) = Clears(th[t]) \ {h}
    BY <1>1, <1>2 DEF Clears
  <1>4. Content' = {n \in Content : BucketOf(KeyOf(n)) # h}
    BY FreeListContent, ContentIs, ContentNext
  <1> HIDE DEF h
  <1>5. h \in Clearing[t] /\ Clearing' = [Clearing EXCEPT ![t] = @ \ {h}]
    BY <1>2, <1>3, ClearingMoves
  <1>6. Table!ContentBecomes({n \in Content : BucketOf(KeyOf(n)) # h})
    BY <1>1, <1>4, Becomes
  <1> QED BY <1>5, <1>6 DEF Table!Clear

\* What a clearing does to the nodes it has cut off nobody sees.
LEMMA FreeNodeUnseen ==
  ASSUME KInv, NEW t \in Threads, FreeNode(t)
  PROVE  UNCHANGED Table!vars
  <1> USE DEF KInv
  <1>1. /\ th[t].pc = "FreeNode" /\ th[t].op = "Free" /\ th[t].prev \in Nodes
        /\ UNCHANGED history
    BY FreeNodeAt
  <1>2. /\ Moved(t) /\ th'[t].op = "Free" /\ th'[t].heads = th[t].heads
        /\ th'[t].pc \in {"Bucket", "FreeNode"}
    BY <1>1, FreeNodeDoes DEF SameCall, SameSearch
  <1>3. Clears(th'[t]) = Clears(th[t])
    BY <1>1, <1>2 DEF Clears
  <1>4. Content' = Content
    BY FreeNodeContent, ContentIs, ContentNext
  <1> QED BY <1>1, <1>2, <1>3, <1>4, ClearingMoves, Unseen

\* A bucket without a list is empty when a clearing passes it.
LEMMA BucketClears ==
  ASSUME KInv, NEW t \in Threads, Bucket(t)
  PROVE  UNCHANGED Table!vars \/ Table!Clear(t)
  <1> USE DEF KInv
  <1>1. /\ th[t].pc = "Bucket" /\ UNCHANGED <<next, removing, history>>
    BY BucketDoes DEF listVars
  <1>2. Content' = Content
    BY <1>1, ContentSame
  <1>3. CASE th[t].heads = {} /\ th[t].op = "Free" /\ Returns(t)
    <2>1. Moved(t) /\ Clears(th[t]) = {} /\ Clears(th'[t]) = {}
      BY <1>1, <1>3, IdleIsCall DEF Returns, Clears
    <2> QED BY <1>1, <1>2, <2>1, ClearingMoves, Unseen
  <1>4. CASE th[t].op # "Free" /\ Goes(t, "Return")
    <2>1. Moved(t) /\ th'[t].op # "Free"
      BY <1>4 DEF Goes, SameCall
    <2> QED BY <1>1, <1>2, <1>4, <2>1, ClearingStays, Unseen
  <1>5. ASSUME NEW h \in th[t].heads, EntersBucket(t, h)
        PROVE  UNCHANGED Table!vars \/ Table!Clear(t)
    <2>1. /\ Moved(t) /\ th'[t].op = th[t].op /\ h \in Heads
          /\ th'[t].heads = th[t].heads \ {h} /\ th'[t].prev = h
          /\ th'[t].pc = IF h \notin inited THEN "Bucket"
                         ELSE IF th[t].op = "Free" THEN "FreeList" ELSE "LockPrev"
      BY <1>5 DEF EntersBucket, SameCall
    <2>2. CASE th[t].op # "Free"
      BY <1>1, <1>2, <2>1, <2>2, ClearingStays, Unseen
    <2>3. CASE th[t].op = "Free" /\ h \in inited
      <3>1. Clears(th'[t]) = Clears(th[t])
        BY <1>1, <2>1, <2>3 DEF Clears
      <3> QED BY <1>1, <1>2, <2>1, <3>1, ClearingMoves, Unseen
    <2>4. CASE th[t].op = "Free" /\ h \notin inited
      <3>1. h \in Clears(th[t]) /\ Clears(th'[t]) = Clears(th[t]) \ {h}
        BY <1>1, <2>1, <2>4 DEF Clears
      <3>2. h \in Clearing[t] /\ Clearing' = [Clearing EXCEPT ![t] = @ \ {h}]
        BY <2>1, <3>1, ClearingMoves
      <3>3. next \in Links /\ Shape(next, inited) /\ Content = InTable(next, removing)
        BY ContentIs DEF PlaceInv, ShapeOK
      <3>4. \A n \in Content : BucketOf(KeyOf(n)) # h
        <4>1. Reach(next, h) = {}
          BY <2>1, <2>4, <3>3, Basics, ReachFirst DEF Shape
        <4>2. \A n \in Content : \E k \in Heads : n \in Reach(next, k)
          BY <3>3, InTableIs
        <4>3. \A k \in Heads : \A n \in Reach(next, k) : BucketOf(KeyOf(n)) = k
          BY <3>3, ChainHome
        <4> QED BY <4>1, <4>2, <4>3
      <3>5. {n \in Content : BucketOf(KeyOf(n)) # h} = Content
        BY <3>4
      <3>6. [u \in Threads |-> Table!Changed(lookup[u], Content)] = lookup
        <4>1. \A u \in Threads : Table!Changed(lookup[u], Content) = lookup[u]
          BY <3>3, ChangedSame DEF TypeOK, LookupsOK
        <4>2. [u \in Threads |-> Table!Changed(lookup[u], Content)]
                = [u \in Threads |-> lookup[u]]
          BY <4>1
        <4> QED BY <4>2 DEF TypeOK
      <3>7. Table!ContentBecomes(Content)
        BY <1>1, <1>2, <3>6 DEF Table!ContentBecomes, history
      <3> QED BY <3>2, <3>5, <3>7 DEF Table!Clear
    <2> QED BY <2>2, <2>3, <2>4
  <1> QED BY <1>3, <1>4, <1>5, BucketDoes

LEMMA CallFreeBegins ==
  ASSUME KInv, NEW t \in Threads, CallFreeHashMapNode(t)
  PROVE  Table!BeginClear(t)
  <1> USE DEF KInv
  <1>1. UNCHANGED <<next, removing, history>>
    BY DEF CallFreeHashMapNode, listVars
  <1>2. /\ Moved(t) /\ th[t].pc = "Idle"
        /\ th'[t].op = "Free" /\ th'[t].pc = "Bucket" /\ th'[t].heads = Heads
    BY CallFreeDoes
  <1>3. th[t].op # "Free"
    BY <1>2 DEF PlaceInv, CallsOK, CallOK
  <1>4. Clears(th[t]) = {} /\ Clears(th'[t]) = Heads
    BY <1>2, <1>3 DEF Clears
  <1>5. Clearing[t] = {} /\ Clearing' = [Clearing EXCEPT ![t] = Heads]
    BY <1>2, <1>4, ClearingMoves
  <1>6. Content' = Content
    BY <1>1, ContentSame
  <1> QED BY <1>1, <1>5, <1>6 DEF Table!BeginClear, history

LEMMA SeekingBegins ==
  ASSUME KInv, NEW t \in Threads, Seeking(t)
  PROVE  Table!Begin(t)
  <1> USE DEF KInv
  <1>1. PICK keys \in SUBSET Keys, op \in Lookups :
             keys # {} /\ SeekBegun(t, op, SeekKind(op), keys)
    BY SeekingDoes
  <1>2. /\ Moved(t) /\ th[t].pc = "Idle" /\ th'[t].op = op
        /\ lookup' = [lookup EXCEPT ![t] = Table!Begins(SeekKind(op), keys, Content)]
        /\ answer' = [answer EXCEPT ![t] = {}]
        /\ UNCHANGED <<next, removing>>
    BY <1>1 DEF SeekBegun, listVars
  <1>3. th[t].op # "Free" /\ th'[t].op # "Free"
    BY <1>2 DEF PlaceInv, CallsOK, CallOK, Lookups
  <1>4. lookup[t] = Table!NoLookup
    BY <1>2, KindIs DEF LookupsOK, LookupOK, Readers
  <1>5. SeekKind(op) \in {"one", "all"} /\ keys \in (SUBSET Keys) \ {{}}
    BY <1>1 DEF SeekKind
  <1>6. Content' = Content /\ Clearing' = Clearing
    BY <1>2, <1>3, ContentSame, ClearingStays
  <1> QED BY <1>2, <1>4, <1>5, <1>6 DEF Table!Begin

\* A lookup answers what it may.
LEMMA LookupEnds ==
  ASSUME KInv, NEW t \in Threads, LookupReturns(t)
  PROVE  Table!End(t)
  <1> USE DEF KInv
  <1> DEFINE c == th[t]
             l == lookup[t]
  <1>1. /\ c.pc = "Return" /\ UNCHANGED <<next, removing>>
        /\ answer' = [answer EXCEPT ![t] = c.found]
        /\ lookup' = [lookup EXCEPT ![t] = Table!NoLookup]
    BY DEF LookupReturns, At, listVars
  <1>2. c.op \in Lookups /\ LookupOK(c, l, next, removing) /\ l \in Table!Lookup
    BY <1>1 DEF PlaceInv, CallsOK, CallOK, LookupsOK, TypeOK
  <1>3. /\ Moved(t)
        /\ th'[t] = Idle \/ th'[t].op \in Removals
    BY <1>2, LookupReturnsDoes
  <1>4. Clearing' = Clearing /\ Content' = Content
    <2>1. th[t].op # "Free" /\ th'[t].op # "Free"
      BY <1>2, <1>3, IdleIsCall DEF Lookups, Removals
    <2> QED BY <1>1, <1>3, <2>1, ClearingStays, ContentSame
  <1> HIDE DEF c, l
  <1>5. l.kind \in {"one", "all"} /\ l.kind = Kind(c)
    BY <1>1, <1>2, KindIs DEF LookupOK, SeekKind, Readers
  <1>6. /\ c.found \subseteq l.may
        /\ l.kind = "all" \/ c.found = {} =>
              \A n \in l.must : BucketOf(KeyOf(n)) \in c.heads \/ n \in c.found
        /\ l.kind = "one" => c.found = {} \/ \E n \in c.found : c.found = {n}
        /\ c.heads = {} \/ (l.kind = "one" /\ c.found # {})
    BY <1>1, <1>2, <1>5, BeforeIs DEF LookupOK
  <1>7. c.found \in Table!Answers(l)
    <2>1. CASE l.kind = "all"
      <3>1. c.found \in SUBSET l.may /\ l.must \subseteq c.found
        BY <1>6, <2>1
      <3> QED BY <2>1, <3>1 DEF Table!Answers
    <2>2. CASE l.kind = "one" /\ c.found = {}
      <3>1. l.must = {}
        BY <1>6, <2>2
      <3> QED BY <2>2, <3>1 DEF Table!Answers
    <2>3. CASE l.kind = "one" /\ c.found # {}
      <3>1. PICK n \in c.found : c.found = {n}
        BY <1>6, <2>3
      <3>2. n \in l.may
        BY <1>6, <3>1
      <3> QED BY <2>3, <3>1, <3>2 DEF Table!Answers
    <2> QED BY <1>5, <2>1, <2>2, <2>3
  <1>8. answer' \in {[answer EXCEPT ![t] = A] : A \in Table!Answers(l)}
    BY <1>1, <1>7
  <1>9. l.kind # "none"
    BY <1>5
  <1> QED BY <1>1, <1>4, <1>8, <1>9 DEF Table!End, l

LEMMA TableStep ==
  ASSUME KInv, [Next]_vars
  PROVE  [Table!Next]_(Table!vars)
  <1>1. CASE UNCHANGED vars
    <2>1. UNCHANGED <<next, removing, th, history>>
      BY <1>1 DEF vars, listVars
    <2>2. Content' = Content /\ Clearing' = Clearing
      BY <2>1, ContentSame, ClearingIs DEF KInv
    <2> QED BY <2>1, <2>2, Unseen
  <1>2. ASSUME NEW t \in Threads,
               Calls(t) \/ Writer(t) \/ Reader(t) \/ FreeList(t) \/ FreeNode(t)
        PROVE  [Table!Next]_(Table!vars)
    <2>1. CASE Calls(t)
      BY <2>1, UnseenSteps, SeekingBegins, CallFreeBegins DEF Calls, Seeking, Table!Next
    <2>2. CASE Writer(t)
      BY <2>2, UnseenSteps, ContentSteps DEF Writer, Table!Next
    <2>3. CASE Reader(t)
      BY <2>3, UnseenSteps, BucketClears, LookupEnds DEF Reader, Table!Next
    <2>4. CASE FreeList(t)
      BY <2>4, FreeListClears DEF Table!Next
    <2>5. CASE FreeNode(t)
      BY <2>5, FreeNodeUnseen
    <2> QED BY <1>2, <2>1, <2>2, <2>3, <2>4, <2>5
  <1> QED BY <1>1, <1>2 DEF Next

LEMMA TableInit ==
  ASSUME Init
  PROVE  Table!Init
  <1>1. IInv
    BY InitInv
  <1>2. \A t \in Threads : th[t] = Idle
    BY DEF Init
  <1>3. Content = {}
    <2>1. next \in Links /\ \A x \in AllNodes : next[x] = NoNode
      BY DEF Init, Links
    <2>2. \A h \in Heads : Reach(next, h) = {}
      BY <2>1, Basics, ReachFirst
    <2> QED BY <2>2 DEF Content, Linked
  <1>4. Clearing = [t \in Threads |-> {}]
    BY <1>2, IdleIsCall, ClearingIs DEF Clears
  <1> QED BY <1>3, <1>4 DEF Init, Table!Init

\* The table of lists behaves as its callers' bag of nodes (List.h:225-354,
\* HashMap.h:117-264), for any number of threads and nodes: adding and removing
\* take effect in one step, a clearing in one step for each bucket, and a lookup
\* answers with nodes of its keys that were there while it ran and misses none
\* that was there all along.
THEOREM ListImplementsTable == Spec => ImplementsTable
  <1>1. Init => Table!Init
    BY TableInit
  <1>2. IInv /\ [Next]_vars => [Table!Next]_(Table!vars)
    BY TableStep DEF IInv, KInv
  <1> QED BY <1>1, <1>2, InvHolds, PTL DEF Spec, ImplementsTable, Table!Spec
===============================================================================
