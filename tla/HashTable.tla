------------------------------ MODULE HashTable ------------------------------
(***************************************************************************)
(* What CHashMap promises its callers, whatever its lists do inside: a bag *)
(* of nodes with keys.  Adding, removing and clearing take effect at once; *)
(* a lookup takes time, and other threads go on changing the table.        *)
(* A lookup answers with nodes of its key that were in the table at some   *)
(* moment while it ran, and misses none that was there all along.          *)
(***************************************************************************)
EXTENDS FiniteSets

CONSTANTS Threads, Nodes, Keys, Heads, KeyOf(_), BucketOf(_)

VARIABLES
    content,  \* the nodes in the table
    clearing, \* the buckets each thread has still to clear
    lookup,   \* each thread's lookup: what it seeks, and what it may answer
    answer    \* each thread's last answer

vars == <<content, clearing, lookup, answer>>

Kinds  == {"none", "one", "all"}
Lookup == [kind : Kinds, keys : SUBSET Keys,
           must : SUBSET Nodes, may : SUBSET Nodes]
NoLookup == [kind |-> "none", keys |-> {}, must |-> {}, may |-> {}]

Sought(nodes, keys) == {n \in nodes : KeyOf(n) \in keys}

Begins(kind, keys, nodes) ==
    [kind |-> kind, keys |-> keys,
     must |-> Sought(nodes, keys), may |-> Sought(nodes, keys)]

\* A lookup in progress sees the content change.
Changed(l, nodes) == [l EXCEPT !.must = @ \cap nodes,
                               !.may  = @ \cup Sought(nodes, l.keys)]

Answers(l) ==
    IF l.kind = "one"
    THEN {{n} : n \in l.may} \cup (IF l.must = {} THEN {{}} ELSE {})
    ELSE {A \in SUBSET l.may : l.must \subseteq A}

Init == /\ content = {}
        /\ clearing = [t \in Threads |-> {}]
        /\ lookup = [t \in Threads |-> NoLookup]
        /\ answer = [t \in Threads |-> {}]

ContentBecomes(nodes) ==
    /\ content' = nodes
    /\ lookup' = [t \in Threads |-> Changed(lookup[t], nodes)]
    /\ UNCHANGED answer

Add    == /\ \E n \in Nodes \ content : ContentBecomes(content \cup {n})
          /\ UNCHANGED clearing
Remove == /\ \E n \in content : ContentBecomes(content \ {n})
          /\ UNCHANGED clearing

\* Clearing empties the buckets one after the other.
BeginClear(t) == /\ clearing[t] = {}
                 /\ clearing' = [clearing EXCEPT ![t] = Heads]
                 /\ UNCHANGED <<content, lookup, answer>>
Clear(t) ==
    \E h \in clearing[t] :
        /\ clearing' = [clearing EXCEPT ![t] = @ \ {h}]
        /\ ContentBecomes({n \in content : BucketOf(KeyOf(n)) # h})

Begin(t) ==
    /\ lookup[t] = NoLookup
    /\ \E kind \in {"one", "all"}, keys \in (SUBSET Keys) \ {{}} :
          lookup' = [lookup EXCEPT ![t] = Begins(kind, keys, content)]
    /\ answer' = [answer EXCEPT ![t] = {}]
    /\ UNCHANGED <<content, clearing>>

End(t) ==
    /\ lookup[t].kind # "none"
    /\ answer' \in {[answer EXCEPT ![t] = A] : A \in Answers(lookup[t])}
    /\ lookup' = [lookup EXCEPT ![t] = NoLookup]
    /\ UNCHANGED <<content, clearing>>

Next == \/ Add \/ Remove
        \/ \E t \in Threads : BeginClear(t) \/ Clear(t) \/ Begin(t) \/ End(t)

Spec == Init /\ [][Next]_vars
=============================================================================
