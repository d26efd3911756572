--------------------------- MODULE TcpConnections ---------------------------
(***************************************************************************)
(* TcpWorker implements Connections.                                       *)
(***************************************************************************)
EXTENDS TcpWorker

\* The accept thread is still to decide on the connection it took last.
Undecided == proc[Acceptor].pc \in {"IsAccept", "AddClient"}

Life == [c \in Conns |->
           IF c > conns THEN "unborn"
           ELSE IF c = conns /\ Undecided THEN "accepted"
           ELSE IF \E h \in Handles : client[h] = c THEN "client"
           ELSE "gone"]

Open == {sock[h] : h \in Handles} \ {NoConn}

Promise == INSTANCE Connections WITH life <- Life, open <- Open, up <- Running

\* CTCPServer, CTCPWorker and the tables under them treat each connection as
\* one that is admitted at most once, dropped at most once and never brought
\* back by what is left over from it or from another one on its SOCKET value.
ImplementsConnections == Promise!Spec

\* AssociateIncomingClientSocket looks the client up that it has just added and
\* uses it unchecked.  Whoever takes it away meanwhile does so for an operation
\* of an earlier connection: the first one is never the accept thread's end.
CrashNeedsReissue == Running \/ conns > 1

\* Under FairSpec nothing gets stuck on the way: every connection taken is
\* decided upon, a client that was cut is dropped, and what is gone is closed.
\* This needs that every buffer keeps its one owner: the read of a client whose
\* buffer was released under it is overwritten by the buffer's next use.
ConnectionsProceed == []ExclusiveOwner => Promise!Fairness
=============================================================================
