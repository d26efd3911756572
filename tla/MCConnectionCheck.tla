------------------------- MODULE MCConnectionCheck -------------------------
(* ConnectionCheck on small instances. *)
EXTENDS ConnectionCheck, TLC

CONSTANTS c1, c2, c3

\* The third connection may get the first one's SOCKET value.
Reissued == (c1 :> "h1") @@ (c2 :> "h2") @@ (c3 :> "h1")
=============================================================================
