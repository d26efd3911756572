--------------------------- MODULE MCMasterWorker ---------------------------
(* MasterWorker on small instances. *)
EXTENDS MasterWorker
=============================================================================
