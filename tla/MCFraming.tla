------------------------------ MODULE MCFraming ------------------------------
(* Framing on small instances: all streams of a few short frames. *)
EXTENDS Framing, SequencesExt

CONSTANTS MaxFrames, GoodBodies, BadBodies

Kinds == {<<"good", n>> : n \in GoodBodies} \cup
         {<<k, n>> : k \in {"magic", "body"}, n \in BadBodies}

\* Frames laid end to end.
Laid(kinds) ==
    FoldLeft(LAMBDA s, k : Append(s, [at |-> Total(s), body |-> k[2],
                                      kind |-> k[1]]), <<>>, kinds)

AllStreams == {Laid(ks) : ks \in BoundedSeq(Kinds, MaxFrames)}
=============================================================================
