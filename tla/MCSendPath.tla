----------------------------- MODULE MCSendPath -----------------------------
(* SendPath on small instances. *)
EXTENDS SendPath

TwoPackets == <<3, 1>>
=============================================================================
