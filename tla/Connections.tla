----------------------------- MODULE Connections -----------------------------
(***************************************************************************)
(* What the server promises about the connections peers open to it,        *)
(* whatever its threads, its port and its tables do: each is accepted once,*)
(* in order; at most one of them waits for admission; one admitted is a    *)
(* client until it is dropped, and neither comes back after that.  Its     *)
(* socket may be closed at any time and is closed in the end.              *)
(***************************************************************************)
EXTENDS Naturals, FiniteSets

CONSTANTS Conns, MaxClients

VARIABLES
    life, \* where each connection is in its life
    open, \* the connections whose socket is open
    up    \* the process has not crashed

vars == <<life, open, up>>

In(stage) == {c \in Conns : life[c] = stage}

Becomes(c, stage) == life' = [life EXCEPT ![c] = stage]

Init == /\ life = [c \in Conns |-> "unborn"]
        /\ open = {}
        /\ up = TRUE

\* The accept loop takes a connection when it is done with the one before.
Connect(c) ==
    /\ life[c] = "unborn"
    /\ In("accepted") = {}
    /\ \A d \in In("unborn") : c <= d
    /\ Becomes(c, "accepted")
    /\ open' = open \cup {c}

\* The comparison lets one more in than there should be.
Admit(c)  == /\ life[c] = "accepted"
             /\ Cardinality(In("client")) <= MaxClients
             /\ Becomes(c, "client")
             /\ UNCHANGED open
Refuse(c) == life[c] = "accepted" /\ Becomes(c, "gone") /\ UNCHANGED open
Drop(c)   == life[c] = "client" /\ Becomes(c, "gone") /\ UNCHANGED open

Close(c) == /\ c \in open
            /\ open' = open \ {c}
            /\ UNCHANGED life

Step(c) == Connect(c) \/ Admit(c) \/ Refuse(c) \/ Drop(c) \/ Close(c)

Crash == up' = FALSE /\ UNCHANGED <<life, open>>

Next == up /\ (Crash \/ (UNCHANGED up /\ \E c \in Conns : Step(c)))

Spec == Init /\ [][Next]_vars

\* A connection accepted is decided upon; a client whose socket is closed is
\* dropped; the socket of one that is gone is closed.
Decide(c)  == UNCHANGED up /\ (Admit(c) \/ Refuse(c))
DropCut(c) == UNCHANGED up /\ c \notin open /\ Drop(c)
Bury(c)    == UNCHANGED up /\ life[c] = "gone" /\ Close(c)

Fairness == \A c \in Conns : /\ WF_vars(up /\ Decide(c))
                             /\ WF_vars(up /\ DropCut(c))
                             /\ WF_vars(up /\ Bury(c))

FairSpec == Spec /\ Fairness
=============================================================================
