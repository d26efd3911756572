----------------------------- MODULE MCBufferPool -----------------------------
(* BufferPool on small instances: some threads share a bucket. *)
EXTENDS BufferPool

CONSTANTS t3, k1, k2

Bucket(t) == IF t = t3 THEN k2 ELSE k1
=============================================================================
