------------------------------ MODULE MCIOPack ------------------------------
(* IOPack on small instances: an int of two bytes, m_szBuffer of eight. *)
EXTENDS IOPack, TLC

V(kind, n) == [kind |-> kind, n |-> n]
SomeValues == {V("ushort", 0), V("mem", 2), V("raw", 1), V("raw", 3)}
PackSymmetry == Permutations(Packs)
=============================================================================
