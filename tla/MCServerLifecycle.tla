-------------------------- MODULE MCServerLifecycle --------------------------
(* ServerLifecycle on small instances. *)
EXTENDS ServerLifecycle
=============================================================================
