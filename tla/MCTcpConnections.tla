--------------------------- MODULE MCTcpConnections --------------------------
(* TcpConnections on small instances: threads and buffers are interchangeable,
   where no liveness is checked. *)
EXTENDS TcpConnections, TLC

Interchangeable == Permutations(Threads) \cup Permutations(Buffers)

AllSites  == Sites
\* Without the posts after whose failure the code itself breaks what Safe
\* checks: Associate closes a handle twice, ReadFinished and AsyncSend release
\* a buffer that has another owner.
LateSites == {"OnInitialize", "ContinueAsyncRead", "ContinueAsyncSend"}
=============================================================================
