------------------------------ MODULE MCHashList ------------------------------
(* HashList on small instances: which key each node has, and its bucket. *)
EXTENDS HashList, TLC

CONSTANTS n1, k1, k2, h1

\* n1 has a key of its own.
FirstApart(n) == IF n = n1 THEN k1 ELSE k2
OneBucket(k) == h1

AnyThread == Permutations(Threads)
=============================================================================
