-------------------------- MODULE MCBlockingQueue --------------------------
(* BlockingQueue with a few threads. *)
EXTENDS BlockingQueue
=============================================================================
